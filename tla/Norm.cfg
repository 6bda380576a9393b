CONSTANTS
    Nil = Nil
    Users = {"alice", "bob", "carol"}
    LogData = {"transfer", "fee"}
    PolygonFeeLog = "fee"
    Bounds <- EveryChain
    StartOrdinal = 1
SPECIFICATION Spec
INVARIANTS
    StateRevertedIsInherited
    DelegateCallers
    OrdinalsFollowExecution
    NeverPanics
    ReceiptsMatchCalls
    WellCombined
    ComparisonFlagsReverts
CHECK_DEADLOCK FALSE
