CONSTANTS
    FolderList <- MCFolderList1
    Server <- MCServer1
    Rank <- MCRank1
    MsgsOf <- MCMsgsOf1
    Size <- MCSize1
    GroupSize = 2
    FirstGroupSize = 2
    GroupRetryCount = 1
    HeadersPerPass = 1
    MaxUrls = 1
    Disturbances = {"discovery"}
SPECIFICATION Spec
PROPERTIES
    UpdateEnds
