CONSTANTS
    Nil = Nil
    Users = {"alice"}
    LogData = {"transfer", "fee"}
    PolygonFeeLog = "fee"
    FirstStreamable = 0
    Irreversible = 1
    Ordinals = {1}
    Senders = {"alice"}
    TrxIndexes = {0}
    BlockNums = {1, 2}
    Versions = {"2.0", "3.0", "9.9"}
    Variants = {FALSE}
    Recipients = {"alice"}
    EvmCallTypes = {"CREATE"}
    Receipts <- NoLogs
    MaxBlocks = 2
    MaxTraces = 2
    MaxCalls = 0
    MaxStack = 0
    MaxDetails = 0
    MaxReturned = 2
SPECIFICATION Spec
INVARIANTS
    TypeOK
    RootCallIsCurrent
    SystemCallFlag
    TransactionsEndInTheirBlock
    ReturnedInOrder
    TransactionsDistinct
    ReturnedBlocksAreVersion3
    LibNotAhead
CHECK_DEADLOCK FALSE
