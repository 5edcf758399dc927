\* One inference request, two probes, a loop of either kind.
CONSTANTS
    Model = {"embed", "rerank"}
    Nobody = nobody
    Call = {c1}
    Inputs = 2
    Probe = {p1, p2}
    Unlocked = unlocked
    CacheFor = 1
    PingTimeout = 1
    EarlyLoop = {l1}
    LateLoop = {l2}
    Grace = 1
SPECIFICATION FairSpec
CHECK_DEADLOCK FALSE
INVARIANTS
    TypeOK
    NothingClosedInUse
    NothingLeaks
PROPERTIES
    PingsSpaced
    AnswersFresh
    Exits
    ProbesAnswered
