CONSTANTS
    c1 = c1
    c2 = c2
    Conns <- MCConns
    TLSConns <- MCTLSConns
    Silent <- MCTLSConns
    MaxPending = 1
    ProbeTimeout = TRUE
    Fallback = TRUE
    MaxConcurrent = 1
    IdleTimeout = TRUE
SPECIFICATION Spec
INVARIANT NoSessionAfterUnload
