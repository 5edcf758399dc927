-------------------------- MODULE RateLimiterProofs -------------------------
(***************************************************************************)
(* Proofs about the limiter: its inductive invariant, that it implements   *)
(* buckets that are never forgotten, and when a request goes uncounted.    *)
(***************************************************************************)
EXTENDS RateLimiter, FiniteSetTheorems, TLAPS

\* A full bucket is a number of units, enough for a request.
LEMMA FullType == Full \in Nat /\ Full >= Period
<1>1. \E b \in Nat : Burst = b + 1
  <2>1. Burst - 1 \in Nat /\ Burst = (Burst - 1) + 1
    BY LimiterAssumption
  <2> QED BY <2>1
<1>2. PICK b \in Nat : Burst = b + 1
  BY <1>1
<1>3. Full = b * Period + Period
  BY <1>2, LimiterAssumption DEF Full
<1>4. b * Period \in Nat
  BY <1>2, LimiterAssumption
<1> QED BY <1>3, <1>4, LimiterAssumption

\* Least is the smaller of its arguments.
LEMMA LeastType == ASSUME NEW m \in Nat, NEW n \in Nat
                   PROVE  /\ Least(m, n) \in Nat
                          /\ Least(m, n) <= m /\ Least(m, n) <= n
                          /\ m <= n => Least(m, n) = m
                          /\ n <= m => Least(m, n) = n
BY DEF Least

\* What a call finds when it has dropped the idle entries: a part of the map,
\* none of whose stamps is older than an interval before the last sweep.
LEMMA AfterSweep ==
    ASSUME Inductive, NEW c \in Waiting
    PROVE  LET t == now[c] IN
           /\ t \in Nat /\ t <= clock /\ clock <= t + MaxLag
           /\ Kept(t) \subseteq seen
           /\ Cardinality(Kept(t)) \in Nat
           /\ Cardinality(Kept(t)) <= MaxTracked
           /\ SweptAt(t) \in Nat /\ SweptAt(t) <= clock
           /\ t <= SweptAt(t) + EvictAfter
           /\ \A i \in Kept(t) : SweptAt(t) <= last[i] + EvictAfter
           /\ whom[c] \in Ip /\ c \in Caller
<1> DEFINE t == now[c]
<1> USE LimiterAssumption
<1>1. t \in Nat /\ t <= clock /\ clock <= t + MaxLag /\ whom[c] \in Ip /\ c \in Caller
  BY DEF Inductive, TypeOK, TimesRead, Waiting
<1>2. Kept(t) \subseteq seen
  BY DEF Kept
<1>3. Cardinality(Kept(t)) \in Nat /\ Cardinality(Kept(t)) <= MaxTracked
  <2>1. IsFiniteSet(seen)
    BY FS_Subset DEF Inductive, TypeOK
  <2>2. /\ IsFiniteSet(Kept(t)) /\ Cardinality(Kept(t)) <= Cardinality(seen)
        /\ Cardinality(seen) \in Nat /\ Cardinality(Kept(t)) \in Nat
    BY <1>2, <2>1, FS_Subset, FS_CardinalityType
  <2> QED BY <2>2 DEF Inductive, TypeOK
<1>4. SweptAt(t) \in Nat /\ SweptAt(t) <= clock /\ t <= SweptAt(t) + EvictAfter
  BY <1>1 DEF SweptAt, SweepDue, Inductive, TypeOK, TimesRead
<1>5. \A i \in Kept(t) : SweptAt(t) <= last[i] + EvictAfter
  <2> TAKE i \in Kept(t)
  <2>1. i \in seen /\ last[i] \in Nat
    BY <1>2 DEF Inductive, TypeOK
  <2>2. CASE SweepDue(t)
    BY <2>1, <2>2, <1>1 DEF Kept, Idle, SweptAt
  <2>3. CASE ~SweepDue(t)
    BY <2>1, <2>3 DEF SweptAt, Inductive, StampsFresh
  <2> QED BY <2>2, <2>3
<1> QED BY <1>1, <1>2, <1>3, <1>4, <1>5

\* What a request finds in its bucket is at most what is in there by now, and is
\* short of it by no more than the time the request has waited.
LEMMA UnitsBounds ==
    ASSUME Inductive, NEW c \in Waiting
    PROVE  LET t == now[c]  u == Units(whom[c], t) IN
           /\ u \in 0..Full /\ Avail(whom[c]) \in 0..Full
           /\ u <= Avail(whom[c])
           /\ Avail(whom[c]) <= u + (clock - t)
<1> DEFINE t == now[c]  i == whom[c]
<1> USE FullType
<1>1. t \in Nat /\ clock \in Nat /\ t <= clock /\ i \in Ip
      /\ level[i] \in 0..Full /\ refilled[i] \in Nat /\ Kept(t) \subseteq seen
  BY AfterSweep DEF Inductive, TypeOK
<1>2. CASE i \in Kept(t)
  <2>1. refilled[i] <= clock /\ i \in seen
    BY <1>1, <1>2 DEF Inductive, StampsFresh
  <2>2. Units(i, t) = UnitsAt(i, t)
        /\ Avail(i) = Least(Full, level[i] + (clock - refilled[i]))
    BY <1>2, <2>1 DEF Units, Avail
  <2> QED BY <1>1, <2>1, <2>2 DEF UnitsAt, Least
<1>3. CASE i \notin Kept(t)
  <2>1. Units(i, t) = Full
    BY <1>3 DEF Units
  <2>2. Avail(i) = Full
    <3>1. CASE i \notin seen
      BY <3>1 DEF Avail
    <3>2. CASE i \in seen
      <4>1. SweepDue(t) /\ Idle(i, t)
        BY <1>3, <3>2 DEF Kept
      <4>2. last[i] \in Nat /\ refilled[i] <= last[i] + MaxLag
        BY <3>2, <1>1 DEF Inductive, TypeOK, StampsFresh
      <4>3. Full <= clock - refilled[i]
        BY <1>1, <4>1, <4>2, EvictionAssumption, LimiterAssumption DEF Idle
      <4> QED BY <1>1, <3>2, <4>3 DEF Avail, Least
    <3> QED BY <3>1, <3>2
  <2> QED BY <1>1, <2>1, <2>2
<1> QED BY <1>2, <1>3

\* An address the call has nothing to do with has as many units as before.
LEMMA OthersKeep ==
    ASSUME Inductive, NEW c \in Waiting, NEW i \in Ip,
           \/ seen' = Kept(now[c])
           \/ i # whom[c] /\ seen' = Kept(now[c]) \cup {whom[c]},
           clock' = clock,
           i \in Kept(now[c]) => level'[i] = level[i] /\ refilled'[i] = refilled[i]
    PROVE  Avail(i)' = Avail(i)
<1> DEFINE t == now[c]
<1>1. CASE i \in Kept(t)
  BY <1>1, AfterSweep DEF Avail
<1>2. CASE i \notin Kept(t)
  <2>1. Avail(i)' = Full
    BY <1>2 DEF Avail
  <2>2. CASE i \notin seen
    BY <2>1, <2>2 DEF Avail
  <2>3. CASE i \in seen
    <3>1. SweepDue(t) /\ Idle(i, t)
      BY <1>2, <2>3 DEF Kept
    <3>2. /\ last[i] \in Nat /\ refilled[i] \in Nat /\ clock \in Nat /\ level[i] \in 0..Full
          /\ refilled[i] <= last[i] + MaxLag
      BY <2>3 DEF Inductive, TypeOK, StampsFresh
    <3>3. Full <= clock - refilled[i]
      BY <3>1, <3>2, AfterSweep, FullType, EvictionAssumption, LimiterAssumption DEF Idle
    <3> QED BY <2>1, <2>3, <3>2, <3>3, FullType DEF Avail, Least
  <2> QED BY <2>2, <2>3
<1> QED BY <1>1, <1>2

-----------------------------------------------------------------------------
(* The invariant.                                                          *)

\* Nothing is tracked at the start.
LEMMA InitInductive == Init => Inductive
<1> SUFFICES ASSUME Init PROVE Inductive
  OBVIOUS
<1> USE FullType, LimiterAssumption DEF Init
<1>1. TypeOK
  BY FS_EmptySet DEF TypeOK, Outcome
<1>2. TimesRead /\ StampsFresh /\ NothingForgotten
  BY DEF TimesRead, Waiting, StampsFresh, NothingForgotten
<1> QED BY <1>1, <1>2 DEF Inductive

\* A call that enters keeps the map within its bound and its stamps fresh.
LEMMA EnterKeeps ==
    ASSUME Inductive, NEW c \in Waiting, Enter(c),
           NEW o \in Outcome \ {"waiting"}, answer' = [answer EXCEPT ![c] = o],
           level' \in [Ip -> 0..Full], refilled' \in [Ip -> Nat],
           \A j \in Ip \ seen' : level'[j] = Full /\ refilled'[j] = 0,
           \A j \in seen' : \/ j = whom[c] /\ refilled'[j] = now[c]
                            \/ j \in seen /\ refilled'[j] = refilled[j]
                            \/ refilled'[j] = 0
    PROVE  Inductive'
<1> DEFINE t == now[c]  i == whom[c]
<1> USE LimiterAssumption
<1>1. /\ t \in Nat /\ t <= clock /\ clock <= t + MaxLag /\ i \in Ip /\ c \in Caller
      /\ clock \in Nat /\ clock' = clock /\ whom' = whom /\ now' = now
      /\ seen \subseteq Ip /\ Kept(t) \subseteq seen
      /\ seen' = Kept(t) \cup {i} /\ lastSweep' = SweptAt(t)
      /\ last' = [Reset(last, Kept(t), 0) EXCEPT ![i] = t]
  BY AfterSweep DEF Enter, Touch, Inductive, TypeOK
<1>2. Cardinality(seen') <= MaxTracked
  <2>1. CASE i \in Kept(t)
    <3>1. seen' = Kept(t)
      BY <1>1, <2>1
    <3> QED BY <3>1, AfterSweep
  <2>2. CASE i \notin Kept(t)
    <3>1. Cardinality(Kept(t)) < MaxTracked
      BY <2>2 DEF Enter, Room
    <3>2. IsFiniteSet(Kept(t))
      BY <1>1, FS_Subset
    <3>3. Cardinality(Kept(t) \cup {i}) = Cardinality(Kept(t)) + 1
      BY <2>2, <3>2, FS_AddElement
    <3> QED BY <1>1, <3>1, <3>3, AfterSweep
  <2> QED BY <2>1, <2>2
<1>3. last' \in [Ip -> Nat]
  BY <1>1 DEF Reset, Inductive, TypeOK
<1>4. TypeOK'
  <2>1. answer' \in [Caller -> Outcome] /\ whom' \in [Caller -> Ip] /\ now' \in [Caller -> Nat]
    BY <1>1 DEF Inductive, TypeOK
  <2>2. lastSweep' \in Nat /\ seen' \subseteq Ip /\ clock' \in Nat
    BY <1>1, AfterSweep
  <2> QED BY <1>2, <1>3, <2>1, <2>2 DEF TypeOK
<1>5. TimesRead'
  <2>1. lastSweep' <= clock'
    BY <1>1, AfterSweep
  <2>2. Waiting' \subseteq Waiting
    BY DEF Waiting, Inductive, TypeOK
  <2> QED BY <1>1, <2>1, <2>2 DEF TimesRead, Inductive
<1>6. StampsFresh'
  <2> SUFFICES ASSUME NEW j \in seen'
               PROVE  /\ refilled'[j] <= clock' /\ last'[j] <= clock'
                      /\ refilled'[j] <= last'[j] + MaxLag
                      /\ lastSweep' <= last'[j] + EvictAfter
    BY DEF StampsFresh
  <2>1. refilled'[j] <= clock
    BY <1>1 DEF Inductive, TypeOK, StampsFresh
  <2>2. CASE j = i
    <3>1. last'[j] = t
      BY <1>1, <2>2 DEF Reset
    <3>2. clock <= t + MaxLag /\ lastSweep' <= clock /\ lastSweep' \in Nat
      BY <1>1, AfterSweep
    <3>3. MaxLag <= EvictAfter
      BY EvictionAssumption, FullType
    <3>4. refilled'[j] \in Nat
      BY <1>1, <2>2
    <3> HIDE DEF t
    <3> QED BY <1>1, <2>1, <3>1, <3>2, <3>3, <3>4
  <2>3. CASE j # i
    <3>1. j \in Kept(t) /\ j \in seen /\ last'[j] = last[j]
      BY <1>1, <2>3 DEF Reset
    <3>2. lastSweep' <= last'[j] + EvictAfter
      BY <1>1, <3>1, AfterSweep
    <3>3. /\ last[j] \in Nat /\ last[j] <= clock /\ refilled[j] \in Nat
          /\ refilled[j] <= last[j] + MaxLag
      BY <3>1, <1>1 DEF Inductive, TypeOK, StampsFresh
    <3>4. refilled'[j] <= last[j] + MaxLag
      BY <1>1, <2>3, <3>1, <3>3
    <3> QED BY <1>1, <2>1, <3>1, <3>2, <3>3, <3>4
  <2> QED BY <2>2, <2>3
<1>7. NothingForgotten'
  BY <1>1 DEF NothingForgotten, Reset
<1> QED BY <1>4, <1>5, <1>6, <1>7 DEF Inductive

\* Every step keeps the invariant.
LEMMA NextInductive == Inductive /\ [Next]_vars => Inductive'
<1> SUFFICES ASSUME Inductive, [Next]_vars PROVE Inductive'
  OBVIOUS
<1> USE FullType, LimiterAssumption
<1>1. CASE Tick
  BY <1>1 DEF Tick, entries, Inductive, TypeOK, TimesRead, StampsFresh, NothingForgotten, Waiting
<1>2. ASSUME NEW c \in Caller, Arrive(c) PROVE Inductive'
  BY <1>2 DEF Arrive, entries, Inductive, TypeOK, TimesRead, StampsFresh, NothingForgotten,
              Waiting, Outcome
<1>3. ASSUME NEW c \in Caller, Untracked(c) PROVE Inductive'
  <2> DEFINE t == now[c]
  <2>1. c \in Waiting
    BY <1>3 DEF Untracked, Waiting
  <2>2. /\ t \in Nat /\ Kept(t) \subseteq seen /\ Cardinality(Kept(t)) <= MaxTracked
        /\ SweptAt(t) \in Nat /\ SweptAt(t) <= clock
        /\ \A i \in Kept(t) : SweptAt(t) <= last[i] + EvictAfter
    BY <2>1, AfterSweep
  <2>3. /\ seen' = Kept(t) /\ lastSweep' = SweptAt(t)
        /\ level' = Reset(level, Kept(t), Full)
        /\ refilled' = Reset(refilled, Kept(t), 0)
        /\ last' = Reset(last, Kept(t), 0)
        /\ answer' = [answer EXCEPT ![c] = "untracked"]
        /\ clock' = clock /\ whom' = whom /\ now' = now
    BY <1>3 DEF Untracked
  <2>4. TypeOK'
    BY <2>2, <2>3 DEF Inductive, TypeOK, Reset, Outcome
  <2>5. TimesRead'
    BY <2>2, <2>3 DEF Inductive, TypeOK, TimesRead, Waiting
  <2>6. StampsFresh'
    BY <2>2, <2>3 DEF Inductive, TypeOK, StampsFresh, Reset
  <2>7. NothingForgotten'
    BY <2>3 DEF NothingForgotten, Reset
  <2> QED BY <2>4, <2>5, <2>6, <2>7 DEF Inductive
<1>4. ASSUME NEW c \in Caller, Admitted(c) PROVE Inductive'
  <2> DEFINE t == now[c]  i == whom[c]
  <2>1. c \in Waiting /\ Enter(c) /\ i \in Ip /\ t \in Nat
    BY <1>4, AfterSweep DEF Admitted, Enter, Waiting
  <2>2. Units(i, t) - Period \in 0..Full
    BY <1>4, <2>1, UnitsBounds DEF Admitted
  <2>3. level' \in [Ip -> 0..Full] /\ refilled' \in [Ip -> Nat]
    BY <1>4, <2>1, <2>2 DEF Admitted, Reset, Inductive, TypeOK
  <2>4. seen' = Kept(t) \cup {i} /\ Kept(t) \subseteq seen
    BY <2>1, AfterSweep DEF Enter
  <2>5. \A j \in Ip \ seen' : level'[j] = Full /\ refilled'[j] = 0
    BY <1>4, <2>4 DEF Admitted, Reset
  <2>6. \A j \in seen' : \/ j = i /\ refilled'[j] = t
                         \/ j \in seen /\ refilled'[j] = refilled[j]
                         \/ refilled'[j] = 0
    BY <1>4, <2>4, <2>1 DEF Admitted, Reset, Inductive, TypeOK
  <2>7. "admitted" \in Outcome \ {"waiting"} /\ answer' = [answer EXCEPT ![c] = "admitted"]
    BY <1>4 DEF Admitted, Outcome
  <2> QED BY <2>1, <2>3, <2>5, <2>6, <2>7, EnterKeeps
<1>5. ASSUME NEW c \in Caller, Limited(c) PROVE Inductive'
  <2> DEFINE t == now[c]  i == whom[c]
  <2>1. c \in Waiting /\ Enter(c) /\ i \in Ip /\ t \in Nat
    BY <1>5, AfterSweep DEF Limited, Enter, Waiting
  <2>3. level' \in [Ip -> 0..Full] /\ refilled' \in [Ip -> Nat]
    BY <1>5 DEF Limited, Reset, Inductive, TypeOK
  <2>4. seen' = Kept(t) \cup {i} /\ Kept(t) \subseteq seen
    BY <2>1, AfterSweep DEF Enter
  <2>5. \A j \in Ip \ seen' : level'[j] = Full /\ refilled'[j] = 0
    BY <1>5, <2>4 DEF Limited, Reset
  <2>6. \A j \in seen' : \/ j = i /\ refilled'[j] = t
                         \/ j \in seen /\ refilled'[j] = refilled[j]
                         \/ refilled'[j] = 0
    BY <1>5, <2>4, <2>1 DEF Limited, Reset, Inductive, TypeOK
  <2>7. "limited" \in Outcome \ {"waiting"} /\ answer' = [answer EXCEPT ![c] = "limited"]
    BY <1>5 DEF Limited, Outcome
  <2> QED BY <2>1, <2>3, <2>5, <2>6, <2>7, EnterKeeps
<1>6. CASE UNCHANGED vars
  BY <1>6 DEF vars, entries, Inductive, TypeOK, TimesRead, StampsFresh, NothingForgotten, Waiting
<1> QED BY <1>1, <1>2, <1>3, <1>4, <1>5, <1>6 DEF Next

\* The invariant the properties rest on holds throughout.
LEMMA InductiveInvariant == Spec => []Inductive
<1> QED BY InitInductive, NextInductive, PTL DEF Spec

\* The map never outgrows MaxTracked, for any limit and any number of requests
\* and addresses.
THEOREM TypeInvariant == Spec => []TypeOK
<1>1. Inductive => TypeOK
  BY DEF Inductive
<1> QED BY <1>1, InductiveInvariant, PTL

-----------------------------------------------------------------------------
(* The buckets.                                                            *)

\* All buckets are full at the start.
LEMMA InitIdeal == Init => Ideal!Init
BY DEF Init, Ideal!Init, Avail

\* Admitted, as if the request had come as long ago as it waited, less what its
\* bucket gained meanwhile.
LEMMA AdmittedIdeal ==
    ASSUME Inductive, NEW c \in Caller, Admitted(c)
    PROVE  Ideal!Admit(c)
<1> SUFFICES ASSUME NEW i \in Ip, i = whom[c] PROVE Ideal!Admit(c)
  BY DEF Inductive, TypeOK
<1> DEFINE t == now[c]  u == Units(i, t)  d == clock - t  s == d - (Avail(i) - u)
           bucket == [j \in Ip |-> Avail(j)]
<1> USE FullType, LimiterAssumption
<1>1. c \in Waiting /\ Enter(c) /\ answer[c] = "waiting" /\ whom' = whom /\ clock' = clock
  BY DEF Admitted, Enter, Waiting
<1>2. /\ u \in 0..Full /\ Avail(i) \in 0..Full /\ u <= Avail(i) /\ Avail(i) <= u + d
      /\ t \in Nat /\ clock \in Nat /\ t <= clock /\ d <= MaxLag /\ i \in Ip /\ u >= Period
  BY <1>1, UnitsBounds, AfterSweep DEF Admitted, Inductive, TypeOK
<1>3. s \in 0..MaxLag /\ Avail(i) - Period + s = u - Period + d
  BY <1>2
<1>4. Avail(i)' = Least(Full, u - Period + d)
  <2>1. i \in seen' /\ level'[i] = u - Period /\ refilled'[i] = t
    BY <1>2 DEF Admitted, Enter, Reset
  <2> QED BY <1>1, <2>1 DEF Avail
<1>5. \A j \in Ip \ {i} : Avail(j)' = Avail(j)
  <2> TAKE j \in Ip \ {i}
  <2>1. seen' = Kept(t) \cup {i}
    BY <1>1 DEF Enter
  <2>2. j \in Kept(t) => level'[j] = level[j] /\ refilled'[j] = refilled[j]
    BY DEF Admitted, Reset
  <2> QED BY <1>1, <2>1, <2>2, OthersKeep
<1>6. Ideal!Capped(Avail(i) - Period + s) = Least(Full, u - Period + d)
  BY <1>2, <1>3 DEF Ideal!Capped, Least
<1>7. bucket' = [bucket EXCEPT ![i] = Ideal!Capped(bucket[i] - Period + s)]
  BY <1>4, <1>5, <1>6
<1>8. answer' = [answer EXCEPT ![c] = "admitted"]
  BY DEF Admitted
<1>9. bucket[i] >= Period
  BY <1>2, LimiterAssumption
<1> QED BY <1>1, <1>3, <1>7, <1>8, <1>9 DEF Ideal!Admit, Ideal!Answer

\* Turned away: no token is there, or none was when the request read the clock.
LEMMA LimitedIdeal ==
    ASSUME Inductive, NEW c \in Caller, Limited(c)
    PROVE  Ideal!Limit(c)
<1> DEFINE t == now[c]  i == whom[c]  u == Units(i, t)
<1> USE FullType, LimiterAssumption
<1>1. c \in Waiting /\ Enter(c) /\ answer[c] = "waiting" /\ whom' = whom /\ clock' = clock
  BY DEF Limited, Enter, Waiting
<1>2. /\ u \in 0..Full /\ Avail(i) \in 0..Full /\ Avail(i) <= u + (clock - t)
      /\ t \in Nat /\ clock \in Nat /\ clock - t <= MaxLag /\ i \in Ip /\ u < Period
  BY <1>1, UnitsBounds, AfterSweep DEF Limited, Inductive, TypeOK
<1>3. Avail(i) < Period + MaxLag
  BY <1>2
<1>4. \A j \in Ip : j \in Kept(t) => level'[j] = level[j] /\ refilled'[j] = refilled[j]
  BY DEF Limited, Reset
<1>5. seen' = Kept(t) \cup {i}
  BY <1>1 DEF Enter
<1>6. i \in Kept(t)
  BY <1>2 DEF Units
<1>7. \A j \in Ip : Avail(j)' = Avail(j)
  BY <1>1, <1>4, <1>5, <1>6, OthersKeep
<1>8. answer' = [answer EXCEPT ![c] = "limited"]
  BY DEF Limited
<1> QED BY <1>1, <1>2, <1>3, <1>7, <1>8 DEF Ideal!Limit, Ideal!Answer

\* Let through uncounted: the bucket of an address without an entry is full.
LEMMA UntrackedIdeal ==
    ASSUME Inductive, NEW c \in Caller, Untracked(c)
    PROVE  Ideal!Wave(c)
<1> SUFFICES ASSUME NEW i \in Ip, i = whom[c] PROVE Ideal!Wave(c)
  BY DEF Inductive, TypeOK
<1> DEFINE t == now[c]
<1> USE FullType
<1>1. /\ c \in Waiting /\ answer[c] = "waiting" /\ whom' = whom /\ clock' = clock
      /\ seen' = Kept(t) /\ i \notin Kept(t)
      /\ answer' = [answer EXCEPT ![c] = "untracked"]
  BY DEF Untracked, Waiting
<1>2. \A j \in Ip : j \in Kept(t) => level'[j] = level[j] /\ refilled'[j] = refilled[j]
  BY DEF Untracked, Reset
<1>3. \A j \in Ip : Avail(j)' = Avail(j)
  BY <1>1, <1>2, OthersKeep
<1>4. Avail(i)' = Full
  BY <1>1 DEF Avail
<1>5. Avail(i) = Full
  BY <1>3, <1>4
<1> QED BY <1>1, <1>3, <1>4, <1>5 DEF Ideal!Wave, Ideal!Answer

\* A tick fills every bucket.
LEMMA TickIdeal == ASSUME Inductive, Tick PROVE Ideal!Fill
<1> USE FullType
<1>1. \A i \in Ip : Avail(i)' = Ideal!Capped(Avail(i) + 1)
  <2> TAKE i \in Ip
  <2>1. CASE i \in seen
    <3>1. /\ level[i] \in 0..Full /\ refilled[i] \in Nat /\ clock \in Nat /\ refilled[i] <= clock
          /\ clock' = clock + 1 /\ seen' = seen /\ level' = level /\ refilled' = refilled
      BY <2>1 DEF Inductive, TypeOK, StampsFresh, Tick, entries
    <3> QED BY <2>1, <3>1 DEF Avail, Least, Ideal!Capped
  <2>2. CASE i \notin seen
    BY <2>2 DEF Avail, Ideal!Capped, Tick, entries
  <2> QED BY <2>1, <2>2
<1>2. answer' = answer /\ whom' = whom
  BY DEF Tick
<1>3. \A i \in Ip : [j \in Ip |-> Avail(j)][i] = Avail(i)
  OBVIOUS
<1> QED BY <1>1, <1>2, <1>3 DEF Ideal!Fill

\* Every step of the limiter is one of the buckets, or none.
LEMMA NextIdeal == Inductive /\ [Next]_vars => [Ideal!Next]_(Ideal!bucket)
<1> SUFFICES ASSUME Inductive, [Next]_vars PROVE [Ideal!Next]_(Ideal!bucket)
  OBVIOUS
<1>1. CASE Tick
  BY <1>1, TickIdeal DEF Ideal!Next
<1>2. ASSUME NEW c \in Caller, Arrive(c) PROVE Ideal!Ask(c)
  <2>1. \A i \in Ip : Avail(i)' = Avail(i)
    BY <1>2 DEF Arrive, entries, Avail
  <2> QED BY <1>2, <2>1 DEF Arrive, Ideal!Ask, Ideal!Answer
<1>3. ASSUME NEW c \in Caller, Untracked(c) \/ Admitted(c) \/ Limited(c) PROVE Ideal!Next
  BY <1>3, UntrackedIdeal, AdmittedIdeal, LimitedIdeal DEF Ideal!Next
<1>4. CASE UNCHANGED vars
  <2>1. \A i \in Ip : Avail(i)' = Avail(i)
    BY <1>4 DEF vars, entries, Avail
  <2> QED BY <1>4, <2>1 DEF vars, Ideal!bucket
<1> QED BY <1>1, <1>2, <1>3, <1>4 DEF Next, Ideal!Next

\* Eviction, the bound of the map and late requests show in no answer but by the
\* age of the time a request read: each address has its token bucket.
THEOREM Buckets == Spec => KeepsBuckets
<1> QED BY InitIdeal, NextIdeal, InductiveInvariant, PTL DEF Spec, KeepsBuckets, Ideal!Spec

-----------------------------------------------------------------------------
(* Uncounted requests.                                                     *)

\* A request goes uncounted only while MaxTracked other addresses have called
\* within two intervals of eviction.
THEOREM Uncounted == Spec => UntrackedOnlyUnderLoad
<1> DEFINE Busy(c) == {i \in Ip : last'[i] + 2 * EvictAfter >= now[c] /\ i \in seen'}
<1>1. ASSUME Inductive, NEW c \in Caller, Untracked(c)
      PROVE  Cardinality(Busy(c)) >= MaxTracked
  <2> DEFINE t == now[c]
  <2>1. c \in Waiting /\ seen' = Kept(t) /\ ~Room(t) /\ last' = Reset(last, Kept(t), 0)
    BY <1>1 DEF Untracked, Waiting
  <2>2. Cardinality(Kept(t)) \in Nat /\ Cardinality(Kept(t)) >= MaxTracked
    BY <1>1, <2>1, AfterSweep, LimiterAssumption DEF Room
  <2>3. \A i \in Kept(t) : i \in Ip /\ last'[i] + 2 * EvictAfter >= t
    <3> TAKE i \in Kept(t)
    <3>1. i \in Ip /\ last[i] \in Nat /\ last'[i] = last[i]
      BY <1>1, <2>1, AfterSweep DEF Reset, Inductive, TypeOK
    <3>2. t \in Nat /\ SweptAt(t) \in Nat /\ t <= SweptAt(t) + EvictAfter
          /\ SweptAt(t) <= last[i] + EvictAfter
      BY <1>1, <2>1, AfterSweep
    <3> QED BY <3>1, <3>2, LimiterAssumption
  <2>4. Busy(c) = Kept(t)
    BY <2>1, <2>3
  <2> QED BY <2>2, <2>4
<1>2. Inductive /\ [Next]_vars =>
      [\A c \in Caller : Untracked(c) => Cardinality(Busy(c)) >= MaxTracked]_vars
  BY <1>1
<1> QED BY <1>2, InductiveInvariant, PTL DEF Spec, UntrackedOnlyUnderLoad
=============================================================================
