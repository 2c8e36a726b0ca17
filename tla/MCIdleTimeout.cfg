CONSTANTS
    Timeout = 3
    MaxExpiring = 2
SPECIFICATION FairTimerSpec
INVARIANTS TimeoutPending ClosedOnce
PROPERTIES ExpireOnlyWhenIdle QuietIsClosed
