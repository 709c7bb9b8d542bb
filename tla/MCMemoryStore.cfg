SPECIFICATION StoreSpec
CONSTANTS
    g1 = g1
    Nil = Nil
    UserKey = UserKey
    GithubIds <- MCGithubIds
    Manifest <- MCManifest
    Epoch = 10
    Horizon = 10
    Names = {"a"}
    Types = {"REST"}
    LocalMode = FALSE
    MaxObjects = 2
    MaxArrays = 3
    MaxLen = 3
CONSTRAINT FewMarks
INVARIANTS
    StoreTypeOK
    SliceShape
    NoAliasing
PROPERTIES
    Isolation
    ImplementsCatalog
