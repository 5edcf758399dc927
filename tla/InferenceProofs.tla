-------------------------- MODULE InferenceProofs --------------------------
(***************************************************************************)
(* What Inference keeps for every number of calls and slots, all prices    *)
(* and all credit: the slots taken are those of the calls that run, each   *)
(* call brings in something, and the overdraft is bounded by the calls     *)
(* that are not in flight.                                                 *)
(***************************************************************************)
EXTENDS Inference, FiniteSetTheorems, TLAPS

-----------------------------------------------------------------------------
(* Arithmetic.                                                             *)

\* Rounding up is monotone, and at least one for at least one.
LEMMA RoundUp ==
    ASSUME NEW x \in Nat \ {0}, NEW y \in Nat, x <= y, NEW u \in Nat \ {0}
    PROVE  /\ (x + u - 1) \div u \in Nat \ {0}
           /\ (x + u - 1) \div u <= (y + u - 1) \div u
    OBVIOUS

\* Two facts SMT finds about products when nothing else is in sight.
LEMMA Times ==
    ASSUME NEW x \in Nat \ {0}, NEW y \in Nat \ {0}
    PROVE  x * y \in Nat \ {0}
    OBVIOUS

LEMMA TimesMonotone ==
    ASSUME NEW x \in Nat, NEW y \in Nat, x <= y, NEW z \in Nat
    PROVE  x * z <= y * z
    OBVIOUS

\* A call costs something, and no more the fewer tokens it has.
LEMMA CostMonotone ==
    ASSUME NEW kind \in {"embed", "rerank"}, NEW t \in 1..MaxTokens
    PROVE  /\ Cost(kind, t) \in Nat \ {0}
           /\ Cost(kind, t) <= Cost(kind, MaxTokens)
  <1> DEFINE p == Price(kind)
  <1>1. /\ p \in Nat \ {0} /\ Unit \in Nat \ {0} /\ MaxTokens \in Nat \ {0}
        /\ t \in Nat \ {0} /\ t <= MaxTokens
    BY InferenceAssumption DEF Price
  <1> HIDE DEF p
  <1>2. t * p \in Nat \ {0} /\ MaxTokens * p \in Nat \ {0}
    BY <1>1, Times
  <1>3. t * p <= MaxTokens * p
    BY <1>1, TimesMonotone
  <1>4. /\ (t * p + Unit - 1) \div Unit \in Nat \ {0}
        /\ (t * p + Unit - 1) \div Unit <= (MaxTokens * p + Unit - 1) \div Unit
    BY <1>1, <1>2, <1>3, RoundUp
  <1> QED
    BY <1>4 DEF Cost, p

\* MaxCost is the price of the dearer kind.
LEMMA CostBounded ==
    ASSUME NEW kind \in {"embed", "rerank"}, NEW t \in 1..MaxTokens
    PROVE  Cost(kind, t) \in 1..MaxCost /\ MaxCost \in Nat \ {0}
  <1>1. MaxTokens \in 1..MaxTokens
    BY InferenceAssumption
  <1>2. Cost(kind, t) \in Nat \ {0} /\ Cost(kind, t) <= Cost(kind, MaxTokens)
    BY CostMonotone
  <1>3. Cost("embed", MaxTokens) \in Nat \ {0} /\ Cost("rerank", MaxTokens) \in Nat \ {0}
    BY <1>1, CostMonotone
  <1>4. Cost(kind, MaxTokens) <= MaxCost
    <2> DEFINE e == MaxTokens * EmbedPrice
               r == MaxTokens * RerankPrice
    <2>1. /\ EmbedPrice \in Nat \ {0} /\ RerankPrice \in Nat \ {0}
          /\ Unit \in Nat \ {0} /\ MaxTokens \in Nat \ {0}
      BY InferenceAssumption
    <2>2. e \in Nat \ {0} /\ r \in Nat \ {0}
      BY <2>1, Times
    <2>3. EmbedPrice <= RerankPrice => e <= r
      BY <2>1, TimesMonotone, EmbedPrice * MaxTokens = e, RerankPrice * MaxTokens = r
    <2>4. RerankPrice <= EmbedPrice => r <= e
      BY <2>1, TimesMonotone, EmbedPrice * MaxTokens = e, RerankPrice * MaxTokens = r
    <2>5. Cost("embed", MaxTokens) = (e + Unit - 1) \div Unit
          /\ Cost("rerank", MaxTokens) = (r + Unit - 1) \div Unit
      BY DEF Cost, Price
    <2> HIDE DEF e, r
    <2>6. EmbedPrice <= RerankPrice => Cost("embed", MaxTokens) <= Cost("rerank", MaxTokens)
      BY <2>1, <2>2, <2>3, <2>5, RoundUp
    <2>7. RerankPrice <= EmbedPrice => Cost("rerank", MaxTokens) <= Cost("embed", MaxTokens)
      BY <2>1, <2>2, <2>4, <2>5, RoundUp
    <2> QED
      BY <2>1, <2>6, <2>7, <1>3 DEF MaxCost
  <1>5. MaxCost \in Nat \ {0}
    BY <1>3 DEF MaxCost
  <1> QED
    BY <1>2, <1>3, <1>4, <1>5

-----------------------------------------------------------------------------
(* Counting calls.                                                         *)

\* A set of calls is finite and no larger than Call; one call more or less.
LEMMA Counted ==
    ASSUME NEW S \in SUBSET Call
    PROVE  IsFiniteSet(S) /\ Cardinality(S) \in Nat /\ Cardinality(S) <= Cardinality(Call)
           /\ Cardinality(Call) \in Nat
  BY InferenceAssumption, FS_Subset, FS_CardinalityType

LEMMA OneMore ==
    ASSUME NEW S \in SUBSET Call, NEW c \in Call \ S
    PROVE  Cardinality(S \cup {c}) = Cardinality(S) + 1
  BY Counted, FS_AddElement

LEMMA OneLess ==
    ASSUME NEW S \in SUBSET Call, NEW c \in S
    PROVE  Cardinality(S \ {c}) = Cardinality(S) - 1
  BY Counted, FS_RemoveElement

-----------------------------------------------------------------------------
(* The inductive invariant.  The bound on the overdraft says how much the  *)
(* calls that ended may have cost; for a call about to be charged it needs *)
(* the price to be in bounds (TypeOK) and the call to be in flight for its *)
(* account (Attributed).                                                   *)

Running == {c \in Call : pc[c] = "running"}

Attributed ==
    \A c \in Call :
      /\ pc[c] = "idle" <=> acct[c] = Nobody
      /\ pc[c] = "charging" => cost[c] >= 1

Inductive == TypeOK /\ Attributed /\ OverdraftBounded /\ SlotsExact /\ NoCallIsFree

\* A server that has just started, and accounts without credit.
LEMMA InitInductive == Init => Inductive
  <1> SUFFICES ASSUME Init PROVE Inductive
    OBVIOUS
  <1>1. MaxCost \in Nat \ {0} /\ Concurrency \in Nat \ {0} /\ MaxGrant \in Nat
    BY InferenceAssumption, CostBounded, 1 \in 1..MaxTokens
  <1>2. TypeOK
    BY <1>1 DEF Init, TypeOK, Pc
  <1>3. Attributed
    BY DEF Init, Attributed
  <1>4. OverdraftBounded
    <2> SUFFICES ASSUME NEW a \in Account
                 PROVE  balance[a] >= 1 - MaxCost * (Cardinality(Call) - Cardinality(InFlight(a)))
      BY DEF OverdraftBounded
    <2>1. InFlight(a) = {}
      BY InferenceAssumption DEF Init, InFlight
    <2>2. Cardinality(InFlight(a)) = 0
      BY <2>1, FS_EmptySet
    <2>3. Cardinality(Call) \in Nat \ {0}
      BY InferenceAssumption, FS_EmptySet, FS_CardinalityType
    <2>4. MaxCost * Cardinality(Call) \in Nat \ {0}
      BY <1>1, <2>3, Times
    <2> QED
      BY <2>2, <2>3, <2>4, <1>1 DEF Init
  <1>5. SlotsExact
    <2>1. {c \in Call : pc[c] = "running"} = {}
      BY DEF Init
    <2> QED
      BY <2>1, FS_EmptySet DEF Init, SlotsExact
  <1>6. NoCallIsFree
    BY DEF Init, NoCallIsFree
  <1> QED
    BY <1>2, <1>3, <1>4, <1>5, <1>6 DEF Inductive

\* Slots first: the type of `slots` needs that a running call holds one.
LEMMA SlotsStep == Inductive /\ [Next]_vars => SlotsExact' /\ slots' \in 0..Concurrency
  <1> SUFFICES ASSUME Inductive, [Next]_vars
               PROVE  slots' = Cardinality(Running') /\ slots' \in 0..Concurrency
    BY DEF SlotsExact, Running
  <1> USE DEF Inductive
  <1>0. /\ slots = Cardinality(Running) /\ slots \in 0..Concurrency /\ Concurrency \in Nat
        /\ Running \in SUBSET Call /\ pc \in [Call -> Pc]
    BY InferenceAssumption DEF SlotsExact, Running, TypeOK
  <1>1. ASSUME Running' = Running, UNCHANGED slots
        PROVE  slots' = Cardinality(Running') /\ slots' \in 0..Concurrency
    BY <1>0, <1>1
  <1>2. ASSUME NEW c \in Call, Result(c) \/ ModelFails(c)
        PROVE  slots' = Cardinality(Running') /\ slots' \in 0..Concurrency
    <2>1. c \in Running /\ Running' = Running \ {c} /\ slots' = slots - 1
      BY <1>0, <1>2 DEF Result, ModelFails, Goto, End, Running
    <2>2. Cardinality(Running \ {c}) = Cardinality(Running) - 1
          /\ Cardinality(Running \ {c}) \in Nat
      BY <1>0, <2>1, OneLess, Counted
    <2> QED
      BY <1>0, <2>1, <2>2
  <1>3. CASE \E c \in Call : TakeSlot(c)
    <2> PICK c \in Call : TakeSlot(c)
      BY <1>3
    <2>1. c \notin Running /\ Running' = Running \cup {c} /\ slots' = slots + 1
          /\ slots < Concurrency
      BY <1>0 DEF TakeSlot, FreeSlot, Goto, Running
    <2>2. Cardinality(Running \cup {c}) = Cardinality(Running) + 1
      BY <1>0, <2>1, OneMore
    <2> QED
      BY <1>0, <2>1, <2>2
  <1>4. ASSUME NEW c \in Call,
               Arrive(c) \/ Precheck(c) \/ Refuse(c) \/ Leave(c) \/ Charge(c) \/ ChargeFails(c)
        PROVE  slots' = Cardinality(Running') /\ slots' \in 0..Concurrency
    <2>1. Running' = Running /\ UNCHANGED slots
      BY <1>0, <1>4
         DEF Arrive, Precheck, Refuse, Leave, Charge, ChargeFails, Goto, End, Running
    <2> QED
      BY <1>1, <2>1
  <1>5. CASE \E a \in Account : AddCredits(a)
    BY <1>1, <1>5 DEF AddCredits, Running
  <1>6. CASE UNCHANGED vars
    BY <1>1, <1>6 DEF vars, Running
  <1> QED
    BY <1>2, <1>3, <1>4, <1>5, <1>6 DEF Next, Step

\* Result stays within MaxCost; a charge is for an account.
LEMMA TypeStep == Inductive /\ [Next]_vars => TypeOK'
  <1> SUFFICES ASSUME Inductive, [Next]_vars PROVE TypeOK'
    OBVIOUS
  <1>0. TypeOK /\ Attributed /\ slots' \in 0..Concurrency
    BY SlotsStep DEF Inductive
  <1>1. 0 \in 0..MaxCost
    BY CostBounded, InferenceAssumption, 1 \in 1..MaxTokens
  <1>2. ASSUME NEW c \in Call, Arrive(c) \/ Precheck(c) \/ TakeSlot(c)
        PROVE  TypeOK'
    BY <1>0, <1>2 DEF Arrive, Precheck, TakeSlot, Goto, TypeOK, Pc, ledger
  <1>3. ASSUME NEW c \in Call,
               Refuse(c) \/ Leave(c) \/ ModelFails(c) \/ ChargeFails(c)
        PROVE  TypeOK'
    BY <1>0, <1>1, <1>3 DEF Refuse, Leave, ModelFails, ChargeFails, Goto, End, TypeOK, Pc, ledger
  <1>4. ASSUME NEW c \in Call, Result(c)
        PROVE  TypeOK'
    <2> PICK kind \in {"embed", "rerank"}, t \in 1..MaxTokens :
               cost' = [cost EXCEPT ![c] = Cost(kind, t)]
      BY <1>4 DEF Result
    <2>1. Cost(kind, t) \in 0..MaxCost
      BY CostBounded
    <2> QED
      BY <1>0, <1>4, <2>1 DEF Result, Goto, TypeOK, Pc, ledger
  <1>5. ASSUME NEW c \in Call, Charge(c)
        PROVE  TypeOK'
    <2>1. acct[c] \in Account /\ cost[c] \in Nat
      BY <1>0, <1>5 DEF Charge, Attributed, TypeOK
    <2> QED
      BY <1>0, <1>1, <1>5, <2>1 DEF Charge, Goto, End, TypeOK, Pc
  <1>6. ASSUME NEW a \in Account, AddCredits(a)
        PROVE  TypeOK'
    BY <1>0, <1>6, InferenceAssumption DEF AddCredits, TypeOK
  <1>7. CASE UNCHANGED vars
    BY <1>0, <1>7 DEF vars, ledger, TypeOK
  <1> QED
    BY <1>2, <1>3, <1>4, <1>5, <1>6, <1>7 DEF Next, Step

\* A call has an account from its arrival to its end, and owes something from its
\* result on.
LEMMA AttributedStep == Inductive /\ [Next]_vars => Attributed'
  <1> SUFFICES ASSUME Inductive, [Next]_vars, NEW d \in Call
               PROVE  /\ pc'[d] = "idle" <=> acct'[d] = Nobody
                      /\ pc'[d] = "charging" => cost'[d] >= 1
    BY DEF Attributed
  <1>0. TypeOK /\ Attributed /\ Nobody \notin Account
    BY InferenceAssumption DEF Inductive
  <1>1. ASSUME NEW c \in Call, Result(c)
        PROVE  /\ pc'[d] = "idle" <=> acct'[d] = Nobody
               /\ pc'[d] = "charging" => cost'[d] >= 1
    <2> PICK kind \in {"embed", "rerank"}, t \in 1..MaxTokens :
               cost' = [cost EXCEPT ![c] = Cost(kind, t)]
      BY <1>1 DEF Result
    <2>1. Cost(kind, t) >= 1
      BY CostBounded
    <2> QED
      BY <1>0, <1>1, <2>1 DEF Result, Goto, TypeOK, Attributed
  <1>2. ASSUME NEW c \in Call, Arrive(c) \/ Precheck(c) \/ TakeSlot(c)
        PROVE  /\ pc'[d] = "idle" <=> acct'[d] = Nobody
               /\ pc'[d] = "charging" => cost'[d] >= 1
    BY <1>0, <1>2 DEF Arrive, Precheck, TakeSlot, Goto, TypeOK, Attributed
  <1>3. ASSUME NEW c \in Call, End(c)
        PROVE  /\ pc'[d] = "idle" <=> acct'[d] = Nobody
               /\ pc'[d] = "charging" => cost'[d] >= 1
    BY <1>0, <1>3 DEF Goto, End, TypeOK, Attributed
  <1>4. CASE UNCHANGED <<pc, acct, cost>>
    BY <1>0, <1>4 DEF Attributed
  <1> QED
    BY <1>1, <1>2, <1>3, <1>4 DEF Next, Step, Refuse, Leave, ModelFails, Charge, ChargeFails,
       AddCredits, vars

\* Charge moves balance, booked and events together.
LEMMA FreeStep == Inductive /\ [Next]_vars => NoCallIsFree'
  <1> SUFFICES ASSUME Inductive, [Next]_vars, NEW b \in Account
               PROVE  /\ booked'[b] >= events'[b]
                      /\ balance'[b] = granted'[b] - booked'[b]
    BY DEF NoCallIsFree
  <1>0. TypeOK /\ Attributed /\ NoCallIsFree
    BY DEF Inductive
  <1>1. ASSUME NEW c \in Call, Charge(c)
        PROVE  /\ booked'[b] >= events'[b]
               /\ balance'[b] = granted'[b] - booked'[b]
    <2>1. acct[c] \in Account /\ cost[c] \in Nat /\ cost[c] >= 1
      BY <1>0, <1>1 DEF Charge, Attributed, TypeOK
    <2> QED
      BY <1>0, <1>1, <2>1 DEF Charge, TypeOK, NoCallIsFree
  <1>2. ASSUME NEW a \in Account, AddCredits(a)
        PROVE  /\ booked'[b] >= events'[b]
               /\ balance'[b] = granted'[b] - booked'[b]
    BY <1>0, <1>2, InferenceAssumption DEF AddCredits, TypeOK, NoCallIsFree
  <1>3. CASE UNCHANGED ledger
    BY <1>0, <1>3 DEF ledger, NoCallIsFree
  <1> QED
    BY <1>1, <1>2, <1>3 DEF Next, Step, Arrive, Precheck, Refuse, TakeSlot, Leave, Result,
       ModelFails, ChargeFails, vars

\* How the set of an account's calls in flight changes: only Precheck adds one.
LEMMA FlightStep ==
    ASSUME Inductive, [Next]_vars, NEW a \in Account
    PROVE  \/ \E c \in InFlight(a) : Charge(c) /\ acct[c] = a /\ InFlight(a)' = InFlight(a) \ {c}
           \/ /\ balance'[a] >= balance[a]
              /\ \E c \in InFlight(a) : InFlight(a)' = InFlight(a) \ {c}
           \/ /\ balance'[a] >= balance[a]
              /\ InFlight(a)' = InFlight(a)
           \/ /\ MayCall(a)
              /\ UNCHANGED ledger
              /\ \E c \in Call \ InFlight(a) : InFlight(a)' = InFlight(a) \cup {c}
  <1>0. /\ TypeOK /\ Attributed /\ Nobody \notin Account
        /\ \A b \in Account : balance[b] \in Int
    BY InferenceAssumption DEF Inductive, TypeOK
  <1>1. ASSUME NEW c \in Call, Charge(c), acct[c] = a
        PROVE  c \in InFlight(a) /\ InFlight(a)' = InFlight(a) \ {c}
    BY <1>0, <1>1 DEF Charge, End, Goto, InFlight, TypeOK
  <1>2. ASSUME NEW c \in Call, Charge(c), acct[c] # a
        PROVE  balance'[a] >= balance[a] /\ InFlight(a)' = InFlight(a)
    BY <1>0, <1>2 DEF Charge, End, Goto, InFlight, TypeOK
  <1>3. ASSUME NEW c \in Call, Refuse(c) \/ Arrive(c)
        PROVE  balance'[a] >= balance[a] /\ InFlight(a)' = InFlight(a)
    BY <1>0, <1>3 DEF Refuse, Arrive, End, Goto, InFlight, TypeOK, Attributed, ledger
  <1>4. ASSUME NEW c \in Call, TakeSlot(c) \/ Result(c)
        PROVE  balance'[a] >= balance[a] /\ InFlight(a)' = InFlight(a)
    BY <1>0, <1>4 DEF TakeSlot, Result, Goto, InFlight, TypeOK, ledger
  <1>5. ASSUME NEW c \in Call, Leave(c) \/ ModelFails(c) \/ ChargeFails(c)
        PROVE  /\ balance'[a] >= balance[a]
               /\ \/ c \in InFlight(a) /\ InFlight(a)' = InFlight(a) \ {c}
                  \/ InFlight(a)' = InFlight(a)
    <2>1. UNCHANGED ledger /\ pc[c] \notin {"idle", "arrived"}
      BY <1>0, <1>5 DEF Leave, ModelFails, ChargeFails
    <2>2. End(c)
      BY <1>5 DEF Leave, ModelFails, ChargeFails
    <2>3. InFlight(a)' = InFlight(a) \ {c}
      BY <1>0, <2>1, <2>2 DEF End, Goto, InFlight, TypeOK
    <2> QED
      BY <1>0, <2>1, <2>3 DEF ledger
  <1>6. ASSUME NEW c \in Call, Precheck(c)
        PROVE  \/ balance'[a] >= balance[a] /\ InFlight(a)' = InFlight(a)
               \/ /\ MayCall(a) /\ UNCHANGED ledger
                  /\ c \notin InFlight(a) /\ InFlight(a)' = InFlight(a) \cup {c}
    <2>1. CASE acct[c] = a
      BY <1>0, <1>6, <2>1 DEF Precheck, Goto, InFlight, TypeOK
    <2>2. CASE acct[c] # a
      BY <1>0, <1>6, <2>2 DEF Precheck, Goto, InFlight, TypeOK, ledger
    <2> QED
      BY <2>1, <2>2
  <1>7. ASSUME NEW b \in Account, AddCredits(b)
        PROVE  balance'[a] >= balance[a] /\ InFlight(a)' = InFlight(a)
    BY <1>0, <1>7, InferenceAssumption DEF AddCredits, InFlight, TypeOK
  <1>8. CASE UNCHANGED vars
    BY <1>0, <1>8 DEF vars, ledger, InFlight
  <1> QED
    BY <1>1, <1>2, <1>3, <1>4, <1>5, <1>6, <1>7, <1>8 DEF Next, Step

\* A call that ends leaves room for its price; one that begins found credit.
LEMMA OverdraftStep == Inductive /\ [Next]_vars => OverdraftBounded'
  <1> SUFFICES ASSUME Inductive, [Next]_vars, Enforce, NEW a \in Account
               PROVE  balance'[a] >= 1 - MaxCost * (Cardinality(Call) - Cardinality(InFlight(a)'))
    BY DEF OverdraftBounded
  <1> DEFINE M == MaxCost
             n == Cardinality(Call)
             k == Cardinality(InFlight(a))
             rest == M * (n - k)
  <1>0. TypeOK /\ TypeOK' /\ OverdraftBounded
    BY TypeStep DEF Inductive
  <1>1. M \in Nat \ {0} /\ n \in Nat /\ k \in Nat /\ k <= n
        /\ balance[a] \in Int /\ balance'[a] \in Int /\ balance[a] >= 1 - rest
    BY <1>0, CostBounded, InferenceAssumption, 1 \in 1..MaxTokens, Counted
       DEF TypeOK, OverdraftBounded, InFlight
  <1>2. InFlight(a) \in SUBSET Call
    BY DEF InFlight
  <1> HIDE DEF M, n, k
  <1>3. rest \in Nat /\ M * (n - (k - 1)) = rest + M /\ M * (n - (k + 1)) = rest - M
    BY <1>1
  <1> HIDE DEF rest
  <1>4. ASSUME NEW c \in InFlight(a), InFlight(a)' = InFlight(a) \ {c}
        PROVE  MaxCost * (Cardinality(Call) - Cardinality(InFlight(a)')) = rest + M
    <2>1. Cardinality(InFlight(a)') = k - 1
      BY <1>2, <1>4, OneLess DEF k
    <2> QED
      BY <2>1, <1>3 DEF M, n
  <1>5. CASE \E c \in InFlight(a) : Charge(c) /\ acct[c] = a /\ InFlight(a)' = InFlight(a) \ {c}
    <2> PICK c \in InFlight(a) : Charge(c) /\ acct[c] = a /\ InFlight(a)' = InFlight(a) \ {c}
      BY <1>5
    <2>1. balance'[a] = balance[a] - cost[c] /\ cost[c] \in 0..M
      BY <1>0, <1>2 DEF Charge, TypeOK, M
    <2>2. MaxCost * (Cardinality(Call) - Cardinality(InFlight(a)')) = rest + M
      BY <1>4
    <2> QED
      BY <1>1, <1>3, <2>1, <2>2
  <1>6. CASE balance'[a] >= balance[a] /\ \E c \in InFlight(a) : InFlight(a)' = InFlight(a) \ {c}
    <2>1. MaxCost * (Cardinality(Call) - Cardinality(InFlight(a)')) = rest + M
      BY <1>4, <1>6
    <2> QED
      BY <1>1, <1>3, <1>6, <2>1
  <1>7. CASE balance'[a] >= balance[a] /\ InFlight(a)' = InFlight(a)
    BY <1>1, <1>3, <1>7 DEF M, n, k, rest
  <1>8. CASE /\ MayCall(a) /\ UNCHANGED ledger
             /\ \E c \in Call \ InFlight(a) : InFlight(a)' = InFlight(a) \cup {c}
    <2>1. balance'[a] >= 1
      BY <1>1, <1>8 DEF MayCall, ledger
    <2>2. Cardinality(InFlight(a)') \in Nat /\ Cardinality(InFlight(a)') <= n
      BY Counted DEF InFlight, n
    <2>3. \A m \in Nat : m <= n => M * (n - m) \in Nat
      BY <1>1
    <2> QED
      BY <2>1, <2>2, <2>3, <1>1 DEF M, n
  <1> QED
    BY FlightStep, <1>5, <1>6, <1>7, <1>8

\* Inductive holds in every reachable state.
THEOREM InductiveInvariant == Spec => []Inductive
  <1>1. Inductive /\ [Next]_vars => Inductive'
    BY TypeStep, AttributedStep, SlotsStep, FreeStep, OverdraftStep DEF Inductive
  <1> QED
    BY InitInductive, <1>1, PTL DEF Spec

\* Calls keep the state well typed, the slots within their number included.
THEOREM TypeCorrect == Spec => []TypeOK
  BY InductiveInvariant, PTL DEF Inductive

\* The overdraft is bounded by what the calls that ended may have cost, however many
\* pass one precheck together (billing.Precheck, store.Charge).
THEOREM OverdraftSafe == Spec => []OverdraftBounded
  BY InductiveInvariant, PTL DEF Inductive

\* withInferSlot neither leaks a slot nor gives one back twice.
THEOREM SlotsSafe == Spec => []SlotsExact
  BY InductiveInvariant, PTL DEF Inductive

\* Each booked call brought in at least one microcredit (Pricing.Cost).
THEOREM CallsPaid == Spec => []NoCallIsFree
  BY InductiveInvariant, PTL DEF Inductive
=============================================================================
