CONSTANTS
    MaxAddrs = 4
    ConnectTimeout = TRUE
SPECIFICATION FairSpec
INVARIANTS ReceiverForEveryDial NextInRange FailureIsExhaustive OnlyWinnerSurvives
PROPERTY DialSettles
