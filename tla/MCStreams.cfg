CONSTANTS
    s1 = s1
    s2 = s2
    s3 = s3
    x1 = x1
    x2 = x2
    Streams <- MCStreams3
    Sess <- MCSess
    SessionOf <- MCSessionOf3
    UoT <- MCUoT3
    MaxStreamsPerSession = 1
    MaxConcurrentStreams = 1
SPECIFICATION FairSpec
INVARIANTS StreamSlots NoConnectionLeak
PROPERTIES ImplementsStreamPool CancelEndsStreams CopyEndEndsStream
ACTION_CONSTRAINT MCTwoAtATime
