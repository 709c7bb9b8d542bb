SPECIFICATION SftpSpec
CONSTANTS
    h1 = h1
    h2 = h2
    Nil = Nil
    Paths <- MCPaths
    Channels = {h1, h2}
    Blocks = {"old", "new"}
    Uploaded = {"new"}
    Zero = "zero"
    MaxBlocks = 2
    Batch = 1
    Configs <- MCConfigs
    Logins <- MCLogins
    Temporary = "temporary"
SYMMETRY Symmetry
INVARIANTS
    SftpTypeOK
    NamesAgree
    DownloadsAreWhole
    ListingComplete
PROPERTIES
    UploadsArriveWhole
    FilesWereServed
