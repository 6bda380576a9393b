CONSTANTS
    Nil = Nil
    ArgumentLists <- EveryFlag
    Peers = {11, 12}
    Refused = {12}
    Addresses = {"a", "b"}
    MaxStops = 1
    MaxFaults = 1
    MaxWipes = 1
    MaxLosses = 1
SPECIFICATION Spec
INVARIANTS
    NodeRunsOnItsGenesis
    NeverDialsItself
PROPERTIES
    NodeGetsStarted
    PeersGetConnected
CHECK_DEADLOCK FALSE
