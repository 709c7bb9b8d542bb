SPECIFICATION MCSpec
CONSTANTS
    g1 = g1
    Nil = Nil
    UserKey = UserKey
    GithubIds <- NoGithub
    Manifest <- NoManifest
    Epoch = 10
    Horizon = 18
    Names = {"a", "b", "c"}
    Types = {"REST", "SFTP"}
    LocalMode = FALSE
    MaxObjects = 2
    MaxArrays = 4
    Faults = FALSE
    Reqs = {p1}
    p1 = p1
    p2 = p2
    Idle = Idle
    Ops = {"launch", "stop"}
    MaxRequests = 5
    OneUser = TRUE
    SameSecond = FALSE
    NameClash = FALSE
PROPERTY LaunchLaunchesAll
CHECK_DEADLOCK FALSE
