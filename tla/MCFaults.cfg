SPECIFICATION Spec
CONSTANTS
    g1 = g1
    Nil = Nil
    UserKey = UserKey
    GithubIds <- OneGithub
    Manifest <- OneManifest
    Epoch = 10
    Horizon = 12
    Names = {"a", "b", "c"}
    Types = {"REST", "SFTP"}
    LocalMode = FALSE
    MaxObjects = 2
    MaxArrays = 4
    Faults = TRUE
    Reqs = {p1}
    p1 = p1
    p2 = p2
    Idle = Idle
    Ops = {"restart", "addAdapter", "updateAdapter", "deleteAdapter", "stopAdapter", "launch", "stop"}
    MaxRequests = 4
    OneUser = TRUE
    SameSecond = FALSE
    NameClash = FALSE
INVARIANTS
    TypeOK
    RunningBacked
    RunningVisible
CHECK_DEADLOCK FALSE
