\* Two accounts, two transactions at a time: every interleaving of the four
\* calls with every argument, the server cap included.
CONSTANTS
    Account = {a1, a2}
    Tx = {t1, t2}
    Nobody = nobody
    Sizes = {1}
    MaxVersions = 2
    TotalCap = 2
    MaxId = 3
SPECIFICATION FairSpec
INVARIANTS
    TypeOK
    ChainAdjacent
    SelfContained
    PruneNeverDangles
    VersionLimit
PROPERTIES
    NeverReused
    AtomicCatalog
    EveryTxEnds
