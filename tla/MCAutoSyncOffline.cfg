CONSTANTS
    FolderList <- MCFolderList
    Server <- MCServer
    Rank <- MCRank
    MsgsOf <- MCMsgsOf2
    Size <- MCSize2
    GroupSize = 2
    FirstGroupSize = 2
    GroupRetryCount = 1
    HeadersPerPass = 1
    MaxUrls = 1
    Disturbances = {"push", "network"}
SPECIFICATION Spec
INVARIANT OneDownload
