CONSTANTS
    Nil = Nil
    Empty = "empty"
    Bytes = {"a", "b", "m", "empty"}
    FirstBlock = 1
    LastBlock = 4
    Chains <- SmallChains
    Requests <- SmallRequests
    IndexSizes <- LargeFirst
    MaxRestarts = 1
SPECIFICATION Spec
INVARIANTS
    WantedBlocksSent
CHECK_DEADLOCK FALSE
