SPECIFICATION MCFairSpec
CONSTANTS
    g1 = g1
    Nil = Nil
    UserKey = UserKey
    GithubIds <- NoGithub
    Manifest <- NoManifest
    Epoch = 10
    Horizon = 13
    Names = {"a", "b"}
    Types = {"REST", "SFTP"}
    LocalMode = FALSE
    MaxObjects = 1
    MaxArrays = 2
    Faults = FALSE
    Reqs = {p1}
    p1 = p1
    p2 = p2
    Idle = Idle
    Ops = {"deleteScenario", "updateAdapter", "deleteAdapter", "stopAdapter", "launch", "stop", "cleanup", "idle", "time", "activity"}
    MaxRequests = 3
    OneUser = FALSE
    SameSecond = FALSE
    NameClash = FALSE
INVARIANTS
    RunningSeeded
    CapturedReadsStayHome
    IdleSparesUsed
PROPERTIES
    AbandonedStopped
    Answered
