CONSTANTS
    FolderList <- MCFolderList
    Server <- MCServer
    Rank <- MCRank
    MsgsOf <- MCMsgsOf2
    Size <- MCSize2
    GroupSize = 2
    FirstGroupSize = 2
    GroupRetryCount = 0
    HeadersPerPass = 1
    MaxUrls = 1
    Disturbances = {"overlap", "pending", "discovery", "sent", "network", "reading"}
SPECIFICATION Spec
INVARIANTS
    WaitedFor
