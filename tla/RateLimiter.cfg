\* Two requests at a time from two addresses, a map for one of them, a clock that
\* reaches a second sweep.
CONSTANTS
    Ip = {i1, i2}
    Caller = {c1, c2}
    Burst = 2
    Period = 2
    EvictAfter = 5
    MaxTracked = 1
    MaxLag = 1
    MaxTime = 13
SPECIFICATION Spec
INVARIANT
    TypeOK
PROPERTIES
    KeepsBuckets
    UntrackedOnlyUnderLoad
