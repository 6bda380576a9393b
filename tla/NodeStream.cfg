CONSTANTS
    Nil = Nil
    Users = {"alice"}
    LogData = {"transfer", "fee"}
    PolygonFeeLog = "fee"
    FirstStreamable = 0
    Irreversible = 1
    Ordinals = {0}
    Senders = {"alice"}
    TrxIndexes = {0}
    BlockNums = {1}
    Versions = {"2.2", "2.4"}
    Variants = {FALSE}
    Recipients = {"alice"}
    EvmCallTypes = {"CALL"}
    Receipts = {}
    MaxBlocks = 2
    MaxTraces = 2
    MaxCalls = 2
    MaxStack = 2
    MaxDetails = 100
    MaxReturned = 2
    Capacity = 1
    MaxLogs = 1
    Rewards <- FirstBlockOnly
SPECIFICATION FairNodeSpec
INVARIANTS
    ReaderAcceptsNode
    StackEmptyBetweenTransactions
    TransactionsOrdered
PROPERTIES
    StreamsBlocks
    EveryBlockReturned
CHECK_DEADLOCK FALSE
