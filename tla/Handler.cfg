SPECIFICATION FairSpec
CONSTANTS
    Texts <- Encodable
    Usages <- SomeUsages
    MaxChunks = 3
INVARIANTS
    AnsweredOrGone
    WorkersRunOnce
    OneSideExecutes
    UsageCountsWorkers
PROPERTIES
    RefinesReply
    HandlerEnds
CHECK_DEADLOCK FALSE
