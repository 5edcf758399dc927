\* One upload, whose commit may go unheard, against the sweep and a crash.
CONSTANTS
    Account = {a1}
    Sizes = {1}
    MaxVersions = 1
    MaxId = 2
    Upload = {u1}
    Remover = {h1}
    Nobody = nobody
    Concurrency = 1
    Timeout = 2
    CommitLag = 1
    SweepLag = 0
    LostAck = TRUE
    MaxCrash = 1
SPECIFICATION FairSpec
PROPERTIES
    OrphansGo
    UploadsEnd
