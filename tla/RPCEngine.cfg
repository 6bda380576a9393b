CONSTANTS
    Requests = {r1, r2}
    NumClients = 2
    RetryCounts <- Retries
    Inputs = {"garbled", "empty", "invalid", "valid"}
    Batches <- SmallBatches
    MaxAttempts = 3
SPECIFICATION FairSpec
INVARIANTS
    IndexInRangeUnlessRaced
    ForeverMeansForever
    FailuresBounded
    TransientOnlyBehindTimeout
PROPERTIES
    CanceledRequestsEnd
CHECK_DEADLOCK FALSE
