CONSTANTS
    Nil = Nil
    Users = {"alice"}
    LogData = {"transfer", "fee"}
    PolygonFeeLog = "fee"
    FirstStreamable = 0
    Irreversible = 1
    Ordinals = {0}
    Senders = {"alice"}
    TrxIndexes = {0}
    BlockNums = {1}
    Versions = {"2.4"}
    Variants = {FALSE}
    Recipients = {"alice"}
    EvmCallTypes = {"CALL"}
    Receipts = {}
    MaxBlocks = 1
    MaxTraces = 2
    MaxCalls = 1
    MaxStack = 2
    MaxDetails = 100
    MaxReturned = 2
    Capacity = 1
    MaxLogs = 0
    Rewards <- FirstBlockOnly
SPECIFICATION NodeSpec
INVARIANTS
    OrdinalsUnique
CHECK_DEADLOCK FALSE
