SPECIFICATION FairSpec
CONSTANTS
    RingCapacity = 1
    Batches <- SmallBatches
    Recoverable <- Found
    MaxLog = 2
    Ids = {7}
    MaxTasks = 2
    Subscriptions <- Tails
    PushLimit = 2
    OutboxCapacity = 1
    MaxRequests = 1
    MaxCredit = 2
    MaxFailures = 1
    Final = {"end"}
INVARIANTS
    HearsTheLog
    WithinCredit
PROPERTIES
    FinalFreesTheId
    Delivered
    UnwantedStreamsEnd
