\* Two uploads of one account, a removing handler, the sweep, one crash.
CONSTANTS
    Account = {a1}
    Sizes = {1}
    MaxVersions = 2
    MaxId = 2
    Upload = {u1, u2}
    Remover = {h1}
    Nobody = nobody
    Concurrency = 2
    Timeout = 3
    CommitLag = 1
    SweepLag = 1
    LostAck = FALSE
    MaxCrash = 1
SPECIFICATION Spec
SYMMETRY Symmetry
INVARIANTS
    TypeOK
    RowHasFile
    EveryBackupRestores
    GateExact
PROPERTIES
    SweepsOrphansOnly
    ServesCatalog
