CONSTANTS
    c1 = c1
    c2 = c2
    c3 = c3
    Conns <- MCConns
    TLSConns <- MCTLSConns
    Silent <- MCSilent
    MaxPending = 2
    ProbeTimeout = TRUE
    Fallback = TRUE
SPECIFICATION FairSpec
INVARIANTS SlotAccounting ShadowTracksWebsite
PROPERTIES TerminalErrorStable OthersAreRouted StopDrains
