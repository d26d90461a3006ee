CONSTANTS
    FolderList <- MCFolderList
    Server <- MCServer
    Rank <- MCRank
    MsgsOf <- MCMsgsOf
    Size <- MCSize
    GroupSize = 2
    FirstGroupSize = 2
    GroupRetryCount = 1
    HeadersPerPass = 1
    MaxUrls = 1
    Disturbances = {"push", "failures", "closed"}
SPECIFICATION Spec
INVARIANTS
    TypeOK
    OneFolderPerServer
    OneDownload
PROPERTIES
    QueueDrains
    UpdateEnds
