SPECIFICATION FairSpec
CONSTANTS
    Requests = {r1, r2, c1}
    CustomRequests = {c1}
    ChannelCapacity = 1
    BatchMax = 3
    MaxCrashes = 1
INVARIANTS AckedIsDurable
PROPERTIES EveryCallerAnswered ImplementsWriteService
CHECK_DEADLOCK FALSE
