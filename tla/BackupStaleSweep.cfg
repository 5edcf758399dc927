\* An upload that commits late in its timeout, between the sweep's reading of the
\* rows and its cutoff.
CONSTANTS
    Account = {a1}
    Sizes = {1}
    MaxVersions = 1
    MaxId = 1
    Upload = {u1}
    Remover = {h1}
    Nobody = nobody
    Concurrency = 1
    Timeout = 3
    CommitLag = 3
    SweepLag = 1
    LostAck = FALSE
    MaxCrash = 0
SPECIFICATION Spec
PROPERTY SweepsOrphansOnly
