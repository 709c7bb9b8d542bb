SPECIFICATION PairSpec
CONSTANTS
    g1 = g1
    Nil = Nil
    UserKey = UserKey
    GithubIds <- NoGithub
    Manifest <- NoManifest
    Epoch = 10
    Horizon = 16
    Names = {"a", "b", "c", "d"}
    Types = {"REST"}
    LocalMode = FALSE
    MaxObjects = 2
    MaxArrays = 5
    Faults = FALSE
    Reqs = {p1, p2}
    p1 = p1
    p2 = p2
    Idle = Idle
    Ops = {"addAdapter", "updateScenario", "updateAdapter", "deleteAdapter", "stopAdapter", "launch", "stop"}
    MaxRequests = 3
    OneUser = FALSE
    SameSecond = TRUE
    NameClash = FALSE
INVARIANTS
    CapturedReadsStayHome
PROPERTIES
    StoreSteps
    ClusterIsolation
SYMMETRY SlotSymmetry
CHECK_DEADLOCK FALSE
