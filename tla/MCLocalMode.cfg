SPECIFICATION MCSpec
CONSTANTS
    g1 = g1
    Nil = Nil
    UserKey = UserKey
    GithubIds <- NoGithub
    Manifest <- NoManifest
    Epoch = 10
    Horizon = 15
    Names = {"a", "b", "c"}
    Types = {"REST", "SFTP"}
    LocalMode = TRUE
    MaxObjects = 2
    MaxArrays = 4
    Faults = FALSE
    Reqs = {p1}
    p1 = p1
    p2 = p2
    Idle = Idle
    Ops = {"createScenario", "clone", "updateScenario", "deleteScenario", "updateAdapter", "deleteAdapter", "stopAdapter", "launch", "stop", "activity"}
    MaxRequests = 4
    OneUser = TRUE
    SameSecond = FALSE
    NameClash = FALSE
INVARIANTS
    RunningVisible
PROPERTIES
    LaunchLaunchesAll
    StopStopsAll
CHECK_DEADLOCK FALSE
