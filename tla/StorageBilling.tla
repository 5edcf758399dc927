--------------------------- MODULE StorageBilling ---------------------------
(***************************************************************************)
(* Storage is billed per stored byte over time (internal/store/billing.go, *)
(* internal/billing/billing.go).  Every change of an account's byte count  *)
(* settles first: it charges the old count for the time since the account's *)
(* mark and moves the mark.  The hourly pass settles the accounts nothing  *)
(* happens to; it reads the clock once, when it starts, and settles them   *)
(* one by one with that time.                                              *)
(*                                                                         *)
(* Uploads and deletes are atomic here, as the account's row lock makes    *)
(* them for everything that touches the account's money (see CatalogTx);   *)
(* their `now` is read under the lock.  A tick of the clock is longer than *)
(* such a transaction, not than a pass of the billing loop.  Bytes are     *)
(* counted in units above or below FreeBytes, and a byte unit costs one    *)
(* microcredit for Den ticks.                                              *)
(***************************************************************************)
EXTENDS Integers

CONSTANTS
    Account,
    Sizes,      \* sizes of a backup
    FreeBytes,  \* Pricing.FreeStorageMB
    Den,        \* ticks a byte unit is stored for one microcredit
    BillEvery,  \* storageBillEvery
    PassLag,    \* how many ticks a pass may take
    Enforce,    \* BILLING_ENFORCE
    MaxBytes,   \* bounds of the model: bytes of an account,
    MaxTime,    \* ticks,
    MaxGrant    \* credit an account is given

ASSUME BillingAssumption ==
    /\ Sizes \subseteq Nat \ {0}
    /\ Den \in Nat \ {0}
    /\ {FreeBytes, BillEvery, PassLag, MaxBytes, MaxTime, MaxGrant} \subseteq Nat
    /\ FreeBytes <= MaxBytes
    /\ Enforce \in BOOLEAN

VARIABLES
    clock,      \* time
    used,       \* SELECT sum(size_bytes) of the account
    mark,       \* accounts.storage_billed_at, Unmarked for NULL
    balance,    \* accounts.balance_microcredits
    charged,    \* sum of the account's storage rows in usage_events
    pass,       \* where the billing loop is
    passNow,    \* the time it captured
    due,        \* the accounts it has still to settle
    granted,    \* history: credit the account was ever given
    stored,     \* history: byte units times ticks above FreeBytes since the first mark
    bills       \* history: how often the account was charged

account == <<used, mark, balance, charged, bills>>
loop == <<pass, passNow, due>>
vars == <<clock, account, loop, granted, stored>>

Unmarked == -1

TypeOK ==
    /\ clock \in 0..MaxTime
    /\ used \in [Account -> 0..MaxBytes]
    /\ mark \in [Account -> {Unmarked} \cup 0..clock]
    /\ balance \in [Account -> Int]
    /\ charged \in [Account -> Nat]
    /\ pass \in {"idle", "begun", "settling"}
    /\ passNow \in 0..clock
    /\ due \subseteq Account
    /\ granted \in [Account -> 0..MaxGrant]
    /\ stored \in [Account -> Nat]
    /\ bills \in [Account -> Nat]

\* Accounts from before storage was billed may hold bytes and have no mark.
Init ==
    /\ clock = 0
    /\ used \in [Account -> {0} \cup {s \in Sizes : s <= FreeBytes}]
    /\ mark = [a \in Account |-> Unmarked]
    /\ balance = [a \in Account |-> 0]
    /\ charged = [a \in Account |-> 0]
    /\ pass = "idle"
    /\ passNow = 0
    /\ due = {}
    /\ granted = [a \in Account |-> 0]
    /\ stored = [a \in Account |-> 0]
    /\ bills = [a \in Account |-> 0]

-----------------------------------------------------------------------------
(* settleStorageTx                                                         *)

Above(bytes) == IF bytes > FreeBytes THEN bytes - FreeBytes ELSE 0

CeilDiv(n, d) == (n + d - 1) \div d

\* A slip: a bill for a time that runs backwards.
CostOfAnyTime(bytes, d) == CeilDiv(Above(bytes) * d, Den)

\* StorageCost: nothing for a negative time, rounded up to whole microcredits
StorageCost(bytes, d) == IF d <= 0 THEN 0 ELSE CeilDiv(Above(bytes) * d, Den)

\* The first settlement only sets the mark.
Due(a, now) == IF mark[a] = Unmarked THEN 0 ELSE StorageCost(used[a], now - mark[a])

\* A slip: the mark only ever set, never moved.
SettleAgain(a, now) ==
    /\ charged' = [charged EXCEPT ![a] = @ + Due(a, now)]
    /\ balance' = [balance EXCEPT ![a] = @ - Due(a, now)]
    /\ bills' = [bills EXCEPT ![a] = IF Due(a, now) > 0 THEN @ + 1 ELSE @]
    /\ mark' = [mark EXCEPT ![a] = IF @ = Unmarked THEN now ELSE @]

Settle(a, now) ==
    /\ charged' = [charged EXCEPT ![a] = @ + Due(a, now)]
    /\ balance' = [balance EXCEPT ![a] = @ - Due(a, now)]
    /\ bills' = [bills EXCEPT ![a] = IF Due(a, now) > 0 THEN @ + 1 ELSE @]
    /\ mark' = [mark EXCEPT ![a] = now]

-----------------------------------------------------------------------------
(* The operations that change the byte count.                              *)

\* A slip: the bytes before the upload are tested, not those after.
WithinQuotaBefore(a, s) == Enforce /\ balance[a] <= 0 => used[a] <= FreeBytes

\* The quota of CreateBackup.  The balance is the one RETURNING read, before the
\* settlement.
WithinQuota(a, s) == Enforce /\ balance[a] <= 0 => used[a] + s <= FreeBytes

CreateBackup(a) == \E s \in Sizes :
    /\ used[a] + s <= MaxBytes
    /\ WithinQuota(a, s)
    /\ Settle(a, clock)
    /\ used' = [used EXCEPT ![a] = @ + s]
    /\ UNCHANGED <<clock, loop, granted, stored>>

\* A slip: the rows go before anything is settled.
RemoveUnsettled(a) == \E s \in 1..used[a] :
    /\ used' = [used EXCEPT ![a] = @ - s]
    /\ UNCHANGED <<clock, mark, balance, charged, bills, loop, granted, stored>>

\* DeleteBackup and PruneBackups: one or more rows go.
RemoveBackups(a) == \E s \in 1..used[a] :
    /\ Settle(a, clock)
    /\ used' = [used EXCEPT ![a] = @ - s]
    /\ UNCHANGED <<clock, loop, granted, stored>>

\* AddCredits
AddCredits(a) ==
    /\ granted[a] < MaxGrant
    /\ granted' = [granted EXCEPT ![a] = @ + 1]
    /\ balance' = [balance EXCEPT ![a] = @ + 1]
    /\ UNCHANGED <<clock, used, mark, charged, bills, loop, stored>>

-----------------------------------------------------------------------------
(* runStorageBilling and Ledger.BillStorage.                               *)

\* time.Now() is an argument of the call.
BeginPass ==
    /\ pass = "idle"
    /\ pass' = "begun"
    /\ passNow' = clock
    /\ UNCHANGED <<clock, account, due, granted, stored>>

\* storageBillingDue compares with the database's own now().
IsDue(a) == IF mark[a] = Unmarked THEN used[a] > 0 ELSE clock - mark[a] > BillEvery

ListDue ==
    /\ pass = "begun"
    /\ pass' = "settling"
    /\ due' = {a \in Account : IsDue(a)}
    /\ UNCHANGED <<clock, account, passNow, granted, stored>>

PassTime == passNow

SettleDue == \E a \in due :
    /\ pass = "settling"
    /\ Settle(a, PassTime)
    /\ due' = due \ {a}
    /\ UNCHANGED <<clock, used, pass, passNow, granted, stored>>

\* All settled; or an error ends the pass early, and what it left is due again.
EndPass ==
    /\ pass # "idle"
    /\ pass' = "idle"
    /\ due' = {}
    /\ UNCHANGED <<clock, account, passNow, granted, stored>>

\* A pass has five minutes.
Tick ==
    /\ clock < MaxTime
    /\ pass # "idle" => clock < passNow + PassLag
    /\ clock' = clock + 1
    /\ stored' = [a \in Account |->
                    IF mark[a] = Unmarked THEN 0 ELSE stored[a] + Above(used[a])]
    /\ UNCHANGED <<account, loop, granted>>

Next ==
    \/ \E a \in Account : CreateBackup(a) \/ RemoveBackups(a) \/ AddCredits(a)
    \/ BeginPass \/ ListDue \/ SettleDue \/ EndPass
    \/ Tick

Spec == Init /\ [][Next]_vars

-----------------------------------------------------------------------------
(* Properties.                                                             *)

\* What was stored before the mark: everything but the current count since then.
BeforeMark(a) ==
    IF mark[a] = Unmarked THEN 0 ELSE stored[a] - Above(used[a]) * (clock - mark[a])

\* "nobody can dodge a period by deleting right before the tick": whatever was
\* stored before the mark has been charged.
NobodyDodges == \A a \in Account : Den * charged[a] >= BeforeMark(a)

\* "this marks up to when an account is paid": what was stored before the mark has
\* been charged once, up to rounding each bill to the next microcredit.
PaidUpToMark == \A a \in Account :
    Den * charged[a] <= BeforeMark(a) + (Den - 1) * bills[a]

\* What the pass's old time costs at most: a settlement may take the mark back by
\* PassLag, and the time in between is billed again.
OverchargeBounded == \A a \in Account :
    Den * charged[a] <= BeforeMark(a)
                        + (Den - 1 + PassLag * Above(MaxBytes)) * bills[a]
                        + PassLag * Above(MaxBytes)

\* An account that never had credit stays within the free bytes.
FreeTierHolds == Enforce => \A a \in Account : granted[a] = 0 => used[a] <= FreeBytes
-----------------------------------------------------------------------------
(* What the properties rest on.                                            *)

\* An account nothing was settled for has nothing on its books.
Unbilled == \A a \in Account : mark[a] = Unmarked => stored[a] = 0 /\ charged[a] = 0 /\ bills[a] = 0

\* A pass is over before its time is too old.
PassShort == pass # "idle" => clock <= passNow + PassLag

\* Nobody without credit has a balance to store on.
Broke == \A a \in Account : granted[a] = 0 => balance[a] <= 0

\* What a pass may bill twice, at most.
Lag == PassLag * Above(MaxBytes)

Excess(a) == Den * charged[a] - BeforeMark(a) - (Den - 1 + Lag) * bills[a]

\* A mark that was taken back is taken back once, before the account is billed again:
\* no other pass that may still come is older, and the account stores above FreeBytes.
TakenBack(a) == mark[a] <= passNow /\ mark[a] < clock /\ Above(used[a]) > 0

ExcessBounded == \A a \in Account :
    Excess(a) <= 0 \/ (Excess(a) <= Lag /\ TakenBack(a))

Inductive == TypeOK /\ Unbilled /\ PassShort /\ Broke /\ ExcessBounded /\ NobodyDodges /\ FreeTierHolds
=============================================================================
