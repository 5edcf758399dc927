\* The whole server cap as the comment on Quota states it.
CONSTANTS
    Account = {a1, a2}
    Tx = {t1, t2}
    Nobody = nobody
    Sizes = {1, 2}
    MaxVersions = 2
    TotalCap = 3
    MaxId = 3
SPECIFICATION Spec
INVARIANT CapNeverExceeded
