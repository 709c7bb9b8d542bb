SPECIFICATION MCSpec
CONSTANTS
    g1 = g1
    Nil = Nil
    UserKey = UserKey
    GithubIds <- NoGithub
    Manifest <- NoManifest
    Epoch = 10
    Horizon = 15
    Names = {"a", "b"}
    Types = {"REST", "SFTP"}
    LocalMode = FALSE
    MaxObjects = 2
    MaxArrays = 4
    Faults = FALSE
    Reqs = {p1}
    p1 = p1
    p2 = p2
    Idle = Idle
    Ops = {"clone", "launch", "deleteScenario"}
    MaxRequests = 3
    OneUser = TRUE
    SameSecond = FALSE
    NameClash = FALSE
PROPERTY ClusterIsolation
CHECK_DEADLOCK FALSE
