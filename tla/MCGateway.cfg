CONSTANTS
    c1 = c1
    c2 = c2
    Conns <- MCConns
    TLSConns <- MCTLSConns
    Silent <- MCTLSConns
    MaxPending = 1
    ProbeTimeout = TRUE
    Fallback = FALSE
    MaxConcurrent = 1
    IdleTimeout = TRUE
SPECIFICATION FairSpec
INVARIANT OneOwner
PROPERTIES SessionFreesProbeSlot
