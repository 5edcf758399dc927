\* Three calls of one account that share two slots, prices that do not divide.
CONSTANTS
    Account = {a1}
    Call = {c1, c2, c3}
    Nobody = nobody
    Concurrency = 2
    Enforce = TRUE
    MaxTokens = 2
    EmbedPrice = 1
    RerankPrice = 3
    Unit = 2
    MaxGrant = 4
SPECIFICATION FairSpec
INVARIANTS
    TypeOK
    OverdraftBounded
    SlotsExact
    NoCallIsFree
PROPERTIES
    CallsEnd
