CONSTANTS
    Words <- MCWords
    Cuts <- MCCuts
    Timeout = 1
    Fallback = TRUE
SPECIFICATION FairSpec
INVARIANTS VerdictIsRight DeadlinesCleared NoByteLost ProbeTimeBounded
PROPERTY ProbeEnds
