------------------------------ MODULE Readiness -----------------------------
(***************************************************************************)
(* GET /readyz (httpapi/health.go): one ping of the database per second at *)
(* most, its result kept for everybody.  The mutex is held over the ping,  *)
(* and the ping runs in the context of the request that happens to make    *)
(* it.  Module Server says when the requests come and what they find.      *)
(*                                                                         *)
(* Times are relative: the age of the result, saturated once it is too     *)
(* old, and what the ping has left of its timeout.                         *)
(***************************************************************************)
EXTENDS Naturals

CONSTANTS
    Probe,          \* requests
    Unlocked,       \* nobody holds ready.mu
    CacheFor,       \* readyCacheFor
    PingTimeout

ASSUME ReadinessAssumption ==
    /\ CacheFor \in Nat /\ PingTimeout \in Nat \ {0}
    /\ Unlocked \notin Probe

VARIABLES
    holder,     \* who holds ready.mu: the request that pings
    age,        \* time since ready.at
    failed,     \* ready.err
    waits,      \* requests that are in the handler
    left        \* what the ping has left

ready == <<holder, age, failed, waits, left>>

Stale == CacheFor + 1

ReadinessType ==
    /\ holder \in Probe \cup {Unlocked}
    /\ age \in 0..Stale
    /\ failed \in BOOLEAN
    /\ waits \subseteq Probe
    /\ left \in 0..PingTimeout

\* ready.at is the zero time.
ReadinessInit ==
    /\ holder = Unlocked
    /\ age = Stale
    /\ failed = FALSE
    /\ waits = {}
    /\ left = 0

Probes(p) ==
    /\ p \notin waits
    /\ waits' = waits \cup {p}
    /\ UNCHANGED <<holder, age, failed, left>>

\* A slip: a failure is never looked at again.
FreshOrFailed == age <= CacheFor \/ failed

Fresh == age <= CacheFor

\* The result is young enough.
FromCache(p) ==
    /\ p \in waits
    /\ holder = Unlocked
    /\ Fresh
    /\ waits' = waits \ {p}
    /\ UNCHANGED <<holder, age, failed, left>>

StartPing(p) ==
    /\ p \in waits
    /\ holder = Unlocked
    /\ ~Fresh
    /\ holder' = p
    /\ left' = PingTimeout
    /\ UNCHANGED <<age, failed, waits>>

\* A slip: only a good result is kept.
KeepGood(bad) == IF bad THEN Stale ELSE 0

Keep(bad) == 0

\* A slip: the handler returns early from a failed ping.
UnlocksGood(p, bad) == holder' = IF bad THEN p ELSE Unlocked

Unlocks(p, bad) == holder' = Unlocked

\* The ping is over, for good or bad; its result is everybody's.
Pinged(p, bad) ==
    /\ holder = p
    /\ Unlocks(p, bad)
    /\ failed' = bad
    /\ age' = Keep(bad)
    /\ left' = 0
    /\ waits' = waits \ {p}

\* Some time passes, but never past the end of a ping.
Passes ==
    /\ holder # Unlocked => left > 0
    /\ age' = IF age = Stale THEN age ELSE age + 1
    /\ left' = IF left > 0 THEN left - 1 ELSE 0
    /\ UNCHANGED <<holder, failed, waits>>
=============================================================================
