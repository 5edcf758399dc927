\* One account, two handlers that share one hashing slot, and the janitor.
CONSTANTS
    Account = {a1}
    Request = {h1, h2}
    AuthConcurrency = 1
    MaxDevices = 1
    MaxTokens = 1
    MaxChallenges = 2
    MaxEpoch = 3
    Nobody = nobody
SPECIFICATION Spec
SYMMETRY Symmetry
INVARIANTS
    TypeOK
    ReferencesHold
    OnlyCallerStays
    SlotsExact
PROPERTIES
    SpentOnce
