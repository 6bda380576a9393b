CONSTANTS
    Nil = Nil
    Empty = "empty"
    Bytes = {"a", "b", "m", "empty"}
    FirstBlock = 1
    LastBlock = 4
    Chains <- SmallChains
    Requests <- AddressAndMethod
    IndexSizes <- LargeFirst
    MaxRestarts = 0
SPECIFICATION Spec
INVARIANTS
    UnmatchedBlocksSkipped
CHECK_DEADLOCK FALSE
