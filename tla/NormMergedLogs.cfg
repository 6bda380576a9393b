CONSTANTS
    Nil = Nil
    Users = {"alice", "bob", "carol"}
    LogData = {"transfer", "fee"}
    PolygonFeeLog = "fee"
    Bounds <- OnlyPolygon
    StartOrdinal = 1
SPECIFICATION Spec
INVARIANTS
    MergedLogsInside
CHECK_DEADLOCK FALSE
