CONSTANTS
    Nil = Nil
    Users = {"alice"}
    LogData = {"transfer", "fee"}
    PolygonFeeLog = "fee"
    FirstStreamable = 0
    Irreversible = 2
    Programs = {"fetch", "poll"}
    Heights = {1, 3}
    Bodies <- SmallBlocks
    TrxHashes = {1, 2}
    Workers = 2
    Retries = 2
    MaxHeight = 3
    MaxMined = 3
    MaxReorgs = 2
    MaxFaults = 2
SPECIFICATION Spec
INVARIANTS
    ReceiptsOfTheBlock
    NoReceiptIsMissing
    OrdinalsInOrder
    FetchFailsForAReason
    PrintedBlocksLink
PROPERTIES
    FetchEnds
CHECK_DEADLOCK FALSE
