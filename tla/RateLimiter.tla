---------------------------- MODULE RateLimiter -----------------------------
(***************************************************************************)
(* The token bucket limiter of httpapi/ratelimit.go: a map from client     *)
(* addresses to buckets, bounded, with idle entries dropped by the next    *)
(* call.  A request reads the clock, then waits for the mutex: calls may   *)
(* be decided in another order than that of their times.                   *)
(*                                                                         *)
(* A bucket (golang.org/x/time/rate) holds units of time: it gains one per *)
(* tick up to Burst * Period, and a request costs Period.  The limits of   *)
(* the server are Burst 10, one token per 3 s, and Burst 30, five per      *)
(* second.                                                                 *)
(***************************************************************************)
EXTENDS Naturals, FiniteSets

CONSTANTS
    Ip,             \* client addresses
    Caller,         \* requests handled at a time
    Burst,          \* tokens in a full bucket
    Period,         \* ticks until a token has come back
    EvictAfter,     \* ticks an entry may be idle
    MaxTracked,     \* entries of the map
    MaxLag,         \* ticks between a request's reading of the clock and the mutex
    MaxTime         \* bound of the model: the clock

Full == Burst * Period

ASSUME LimiterAssumption ==
    /\ Burst \in Nat \ {0} /\ Period \in Nat \ {0}
    /\ EvictAfter \in Nat /\ MaxTracked \in Nat /\ MaxLag \in Nat /\ MaxTime \in Nat
    /\ IsFiniteSet(Ip)

\* The entry of an address outlives what the address has spent.
ASSUME EvictionAssumption == Full + MaxLag <= EvictAfter

VARIABLES
    clock,
    lastSweep,  \* when idle entries were last looked for
    seen,       \* the addresses in the map
    level,      \* units in the bucket as of refilled (lim.tokens)
    refilled,   \* time of the last admitted request (lim.last)
    last,       \* time of the last request (e.last)
    answer,     \* where a request is, and what it was told
    whom,       \* the address it comes from
    now         \* the time it read

entries == <<lastSweep, seen, level, refilled, last>>
vars == <<clock, entries, answer, whom, now>>

Outcome == {"idle", "waiting", "admitted", "untracked", "limited"}

Least(m, n) == IF m < n THEN m ELSE n

Waiting == {c \in Caller : answer[c] = "waiting"}

TypeOK ==
    /\ clock \in Nat
    /\ lastSweep \in Nat
    /\ seen \subseteq Ip
    /\ Cardinality(seen) <= MaxTracked
    /\ level \in [Ip -> 0..Full]
    /\ refilled \in [Ip -> Nat]
    /\ last \in [Ip -> Nat]
    /\ answer \in [Caller -> Outcome]
    /\ whom \in [Caller -> Ip]
    /\ now \in [Caller -> Nat]

\* An address without an entry has the bucket of a new one.
Init ==
    /\ clock = 0
    /\ lastSweep = 0
    /\ seen = {}
    /\ level = [i \in Ip |-> Full]
    /\ refilled = [i \in Ip |-> 0]
    /\ last = [i \in Ip |-> 0]
    /\ answer = [c \in Caller |-> "idle"]
    /\ whom \in [Caller -> Ip]
    /\ now = [c \in Caller |-> 0]

-----------------------------------------------------------------------------
(* RateLimit: clientIP and time.Now, the arguments of allow.               *)

Arrive(c) == \E i \in Ip :
    /\ answer[c] # "waiting"
    /\ answer' = [answer EXCEPT ![c] = "waiting"]
    /\ whom' = [whom EXCEPT ![c] = i]
    /\ now' = [now EXCEPT ![c] = clock]
    /\ UNCHANGED <<clock, entries>>

-----------------------------------------------------------------------------
(* allow, all of it under the mutex.                                       *)

SweepDue(t) == t > lastSweep + EvictAfter

Idle(i, t) == t > last[i] + EvictAfter

\* What is left of the map when the call has dropped the idle entries.
Kept(t) == IF SweepDue(t) THEN {i \in seen : ~Idle(i, t)} ELSE seen

\* A slip: the interval between sweeps starts again with every call.
SweptAlways(t) == t

SweptAt(t) == IF SweepDue(t) THEN t ELSE lastSweep

\* A slip: one entry too many.
RoomForOneMore(t) == Cardinality(Kept(t)) <= MaxTracked

Room(t) == Cardinality(Kept(t)) < MaxTracked

\* lim.advance: the units at time t.  A time before refilled counts as refilled.
UnitsAt(i, t) ==
    IF t > refilled[i] THEN Least(Full, level[i] + (t - refilled[i])) ELSE level[i]

\* The entries of dropped addresses are gone; the others keep theirs, but for i.
Reset(f, keep, fresh) == [j \in Ip |-> IF j \in keep THEN f[j] ELSE fresh]

\* The map is full of others: let through, and not counted.
Untracked(c) ==
    LET t == now[c] IN
    /\ answer[c] = "waiting"
    /\ whom[c] \notin Kept(t)
    /\ ~Room(t)
    /\ seen' = Kept(t)
    /\ lastSweep' = SweptAt(t)
    /\ level' = Reset(level, Kept(t), Full)
    /\ refilled' = Reset(refilled, Kept(t), 0)
    /\ last' = Reset(last, Kept(t), 0)
    /\ answer' = [answer EXCEPT ![c] = "untracked"]
    /\ UNCHANGED <<clock, whom, now>>

\* Units of an address at the call: a new entry has a full bucket.
Units(i, t) == IF i \in Kept(t) THEN UnitsAt(i, t) ELSE Full

\* A slip: only a new entry is stamped.
TouchNew(c) ==
    [Reset(last, Kept(now[c]), 0) EXCEPT
        ![whom[c]] = IF whom[c] \in Kept(now[c]) THEN @ ELSE now[c]]

Touch(c) == [Reset(last, Kept(now[c]), 0) EXCEPT ![whom[c]] = now[c]]

\* The call finds or makes the entry of its address, and stamps it.
Enter(c) ==
    LET t == now[c] IN
    /\ answer[c] = "waiting"
    /\ whom[c] \in Kept(t) \/ Room(t)
    /\ seen' = Kept(t) \cup {whom[c]}
    /\ lastSweep' = SweptAt(t)
    /\ last' = Touch(c)
    /\ UNCHANGED <<clock, whom, now>>

\* AllowN(now, 1): a token is there ...
Admitted(c) ==
    LET t == now[c]  i == whom[c] IN
    /\ Enter(c)
    /\ Units(i, t) >= Period
    /\ level' = [Reset(level, Kept(t), Full) EXCEPT ![i] = Units(i, t) - Period]
    /\ refilled' = [Reset(refilled, Kept(t), 0) EXCEPT ![i] = t]
    /\ answer' = [answer EXCEPT ![c] = "admitted"]

\* ... or not, and the bucket stays as it is: 429.
Limited(c) ==
    LET t == now[c]  i == whom[c] IN
    /\ Enter(c)
    /\ Units(i, t) < Period
    /\ level' = Reset(level, Kept(t), Full)
    /\ refilled' = Reset(refilled, Kept(t), 0)
    /\ answer' = [answer EXCEPT ![c] = "limited"]

Tick ==
    /\ clock < MaxTime
    /\ \A c \in Waiting : clock < now[c] + MaxLag
    /\ clock' = clock + 1
    /\ UNCHANGED <<entries, answer, whom, now>>

Next == Tick \/ \E c \in Caller : Arrive(c) \/ Untracked(c) \/ Admitted(c) \/ Limited(c)

Spec == Init /\ [][Next]_vars

-----------------------------------------------------------------------------
(* Properties.                                                             *)

\* What is in the bucket of an address by now.
Avail(i) ==
    IF i \in seen THEN Least(Full, level[i] + (clock - refilled[i])) ELSE Full

Ideal == INSTANCE Bucket WITH
    avail <- [i \in Ip |-> Avail(i)],
    Slack <- MaxLag

\* "token bucket per client ip": the map, its eviction and the order in which
\* requests get the mutex show in no answer but by the age of the time they read.
KeepsBuckets == Ideal!Spec

\* "beyond this new ips are allowed untracked": only while as many others as the
\* map holds have been heard of within two intervals of eviction.
UntrackedOnlyUnderLoad ==
    [][\A c \in Caller : Untracked(c) =>
         Cardinality({i \in Ip : last'[i] + 2 * EvictAfter >= now[c] /\ i \in seen'})
            >= MaxTracked]_vars

-----------------------------------------------------------------------------
(* What the properties rest on.                                            *)

\* Times are read, never made up, and a request does not wait for longer than
\* MaxLag.
TimesRead ==
    /\ lastSweep <= clock
    /\ \A c \in Caller : now[c] <= clock
    /\ \A c \in Waiting : clock <= now[c] + MaxLag

\* An entry's stamp is its last request's, give or take the wait.
StampsFresh == \A i \in seen :
    /\ refilled[i] <= clock /\ last[i] <= clock
    /\ refilled[i] <= last[i] + MaxLag
    /\ lastSweep <= last[i] + EvictAfter

NothingForgotten == \A i \in Ip \ seen :
    level[i] = Full /\ refilled[i] = 0 /\ last[i] = 0

Inductive == TypeOK /\ TimesRead /\ StampsFresh /\ NothingForgotten
=============================================================================
