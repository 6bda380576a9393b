CONSTANTS
    Nil = Nil
    Users = {"alice"}
    LogData = {"fee"}
    PolygonFeeLog = "fee"
    FirstStreamable = 0
    Irreversible = 1
    Ordinals = {1}
    Senders = {"alice"}
    TrxIndexes = {0}
    BlockNums = {0}
    Versions = {"2.4"}
    Variants = {TRUE}
    Recipients = {"alice"}
    EvmCallTypes = {"CREATE"}
    Receipts <- NoLogs
    MaxBlocks = 1
    MaxTraces = 1
    MaxCalls = 2
    MaxStack = 2
    MaxDetails = 2
    MaxReturned = 0
SPECIFICATION Spec
INVARIANTS
    CallsAtTheirIndex
    LogsNumberedOnce
CHECK_DEADLOCK FALSE
