CONSTANTS
    c1 = c1
    c2 = c2
    c3 = c3
    Conns <- MCConns
    MaxConcurrent = 2
    IdleTimeout = TRUE
SPECIFICATION FairSpec
INVARIANTS SlotAccounting RegistryWithinLimit TeardownComplete
PROPERTIES AdmissionDecided SnapshotTornDown ImplementsPool
