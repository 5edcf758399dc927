----------------------------- MODULE Inference -----------------------------
(***************************************************************************)
(* A metered call of the model (internal/httpapi/infer.go over the ledger  *)
(* of internal/billing): look at the balance, wait for one of a few slots, *)
(* run, give the slot back, charge.  The balance is looked at before the   *)
(* wait and charged after the run, so any number of calls may pass one and *)
(* the same credit; the account then goes below zero.                      *)
(*                                                                         *)
(* One charge is one transaction on the account's row.  Time is left out:  *)
(* a waiting call may run into InferTimeout at any moment.  The ledger's   *)
(* other users, storage and its marks, are in StorageBilling.              *)
(***************************************************************************)
EXTENDS Integers, FiniteSets

CONSTANTS
    Account,
    Call,         \* handlers that may run at a time
    Nobody,
    Concurrency,  \* cap(inferSem)
    Enforce,      \* BILLING_ENFORCE
    MaxTokens,    \* input tokens of a call, at most
    EmbedPrice,   \* microcredits for
    RerankPrice,
    Unit,         \* this many tokens, 1000 in the code
    MaxGrant      \* bound of the model: credit an account is given

ASSUME InferenceAssumption ==
    /\ Nobody \notin Account
    /\ IsFiniteSet(Call) /\ Call # {}
    /\ {Concurrency, MaxTokens, EmbedPrice, RerankPrice, Unit} \subseteq Nat \ {0}
    /\ Enforce \in BOOLEAN
    /\ MaxGrant \in Nat

VARIABLES
    balance,  \* accounts.balance_microcredits
    booked,   \* sum of the account's inference rows in usage_events
    events,   \* and their number
    granted,  \* history: credit the account was ever given
    slots,    \* slots taken in inferSem
    pc,       \* where each call is
    acct,     \* whose call it is
    cost      \* what it has to pay

ledger == <<balance, booked, events, granted>>
vars == <<ledger, slots, pc, acct, cost>>

Pc == {"idle", "arrived", "waiting", "running", "charging"}

-----------------------------------------------------------------------------
(* Prices.                                                                 *)

Price(kind) == IF kind = "embed" THEN EmbedPrice ELSE RerankPrice

\* A slip: rounded down.
CostRoundedDown(kind, tokens) == (tokens * Price(kind)) \div Unit

\* Pricing.Cost "rounds up so no call is free".
Cost(kind, tokens) == (tokens * Price(kind) + Unit - 1) \div Unit

MaxCost == IF EmbedPrice > RerankPrice THEN Cost("embed", MaxTokens) ELSE Cost("rerank", MaxTokens)

TypeOK ==
    /\ balance \in [Account -> Int]
    /\ booked \in [Account -> Nat]
    /\ events \in [Account -> Nat]
    /\ granted \in [Account -> 0..MaxGrant]
    /\ slots \in 0..Concurrency
    /\ pc \in [Call -> Pc]
    /\ acct \in [Call -> Account \cup {Nobody}]
    /\ cost \in [Call -> 0..MaxCost]

Init ==
    /\ balance = [a \in Account |-> 0]
    /\ booked = [a \in Account |-> 0]
    /\ events = [a \in Account |-> 0]
    /\ granted = [a \in Account |-> 0]
    /\ slots = 0
    /\ pc = [c \in Call |-> "idle"]
    /\ acct = [c \in Call |-> Nobody]
    /\ cost = [c \in Call |-> 0]

-----------------------------------------------------------------------------
(* A call.                                                                 *)

Goto(c, p) == pc' = [pc EXCEPT ![c] = p]

End(c) ==
    /\ Goto(c, "idle")
    /\ acct' = [acct EXCEPT ![c] = Nobody]
    /\ cost' = [cost EXCEPT ![c] = 0]

\* A slip: an account at zero passes.
MayOwe(a) == Enforce => balance[a] >= 0

MayCall(a) == Enforce => balance[a] > 0

\* handleEmbed and handleRerank, up to a valid request
Arrive(c) ==
    /\ pc[c] = "idle"
    /\ \E a \in Account : acct' = [acct EXCEPT ![c] = a]
    /\ Goto(c, "arrived")
    /\ UNCHANGED <<ledger, slots, cost>>

Precheck(c) ==
    /\ pc[c] = "arrived"
    /\ MayCall(acct[c])
    /\ Goto(c, "waiting")
    /\ UNCHANGED <<ledger, slots, acct, cost>>

\* Insufficient credits, or the balance could not be read.
Refuse(c) ==
    /\ pc[c] = "arrived"
    /\ End(c)
    /\ UNCHANGED <<ledger, slots>>

\* A slip: a semaphore one too large.
OneMoreSlot == slots <= Concurrency

FreeSlot == slots < Concurrency

TakeSlot(c) ==
    /\ pc[c] = "waiting"
    /\ FreeSlot
    /\ slots' = slots + 1
    /\ Goto(c, "running")
    /\ UNCHANGED <<ledger, acct, cost>>

\* A slip: a wait that only a free slot ends.
NeverLeaves(c) == pc[c] = "waiting" /\ FALSE /\ UNCHANGED vars

\* inferCtx is done: the timeout, or the client left.
Leave(c) ==
    /\ pc[c] = "waiting"
    /\ End(c)
    /\ UNCHANGED <<ledger, slots>>

\* The model does not look at the context while it runs: a result that comes
\* after the deadline, or for a client that left, is charged like any other.
Result(c) ==
    /\ pc[c] = "running"
    /\ slots' = slots - 1
    /\ \E kind \in {"embed", "rerank"}, t \in 1..MaxTokens : cost' = [cost EXCEPT ![c] = Cost(kind, t)]
    /\ Goto(c, "charging")
    /\ UNCHANGED <<ledger, acct>>

\* A slip: a failed call keeps its slot, as without the defer.
FailureKeepsSlot(c) ==
    /\ pc[c] = "running"
    /\ End(c)
    /\ UNCHANGED <<ledger, slots>>

\* An error, a context done before the model began, or a panic; no charge.
ModelFails(c) ==
    /\ pc[c] = "running"
    /\ slots' = slots - 1
    /\ End(c)
    /\ UNCHANGED ledger

\* Charge, in one transaction.  Whether its answer is heard changes the receipt only.
Charge(c) ==
    LET a == acct[c] IN
    /\ pc[c] = "charging"
    /\ balance' = [balance EXCEPT ![a] = @ - cost[c]]
    /\ booked' = [booked EXCEPT ![a] = @ + cost[c]]
    /\ events' = [events EXCEPT ![a] = @ + 1]
    /\ End(c)
    /\ UNCHANGED <<granted, slots>>

\* The result still goes out, and is never booked.
ChargeFails(c) ==
    /\ pc[c] = "charging"
    /\ End(c)
    /\ UNCHANGED <<ledger, slots>>

AddCredits(a) ==
    /\ \E n \in 1..(MaxGrant - granted[a]) :
         /\ balance' = [balance EXCEPT ![a] = @ + n]
         /\ granted' = [granted EXCEPT ![a] = @ + n]
    /\ UNCHANGED <<booked, events, slots, pc, acct, cost>>

Step(c) ==
    \/ Precheck(c) \/ Refuse(c) \/ TakeSlot(c) \/ Leave(c)
    \/ Result(c) \/ ModelFails(c) \/ Charge(c) \/ ChargeFails(c)

Next ==
    \/ \E c \in Call : Arrive(c) \/ Step(c)
    \/ \E a \in Account : AddCredits(a)

Spec == Init /\ [][Next]_vars

\* A wait ends with its deadline, a transaction with chargeTimeout, and the model
\* returns; nothing makes a client call or a slot go to one of those that wait.
Fairness ==
    \A c \in Call :
      /\ WF_vars(Precheck(c) \/ Refuse(c))
      /\ WF_vars(Leave(c))
      /\ WF_vars(Result(c) \/ ModelFails(c))
      /\ WF_vars(Charge(c) \/ ChargeFails(c))

FairSpec == Spec /\ Fairness

-----------------------------------------------------------------------------
(* Properties.                                                             *)

InFlight(a) == {c \in Call : acct[c] = a /\ pc[c] # "arrived"}

\* What passing one check together can cost: an account owes at most the price of
\* the calls that are not in flight any more, out of all that can be at a time,
\* less one microcredit (store.Charge: "may go negative, the call already happened;
\* billing.Precheck stops the next one").
OverdraftBounded ==
    Enforce => \A a \in Account :
        balance[a] >= 1 - MaxCost * (Cardinality(Call) - Cardinality(InFlight(a)))

\* The slots taken are those of the calls that run, whether they end in a result, an
\* error or a panic (withInferSlot).
SlotsExact == slots = Cardinality({c \in Call : pc[c] = "running"})

\* Every booked call brought in at least a microcredit (Pricing.Cost: "rounds up so
\* no call is free"), and nothing but credit and booked calls moved the balance.
NoCallIsFree ==
    \A a \in Account : booked[a] >= events[a] /\ balance[a] = granted[a] - booked[a]

\* A call ends though slots are scarce, the model fails and the ledger is away.
CallsEnd == \A c \in Call : pc[c] # "idle" ~> pc[c] = "idle"
=============================================================================
