\* A commit whose answer is lost: CreateBackup fails though the row is in.
CONSTANTS
    Account = {a1}
    Sizes = {1}
    MaxVersions = 1
    MaxId = 1
    Upload = {u1}
    Remover = {h1}
    Nobody = nobody
    Concurrency = 1
    Timeout = 3
    CommitLag = 1
    SweepLag = 1
    LostAck = TRUE
    MaxCrash = 0
SPECIFICATION Spec
INVARIANT RowHasFile
