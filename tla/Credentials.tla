---------------------------- MODULE Credentials ----------------------------
(***************************************************************************)
(* What the backend promises about its one-time credentials: an enrollment *)
(* token bears at most one device, a challenge at most one session.  Auth, *)
(* where a credential is redeemed by one statement and its product made by *)
(* a later one, in racing handlers, implements this specification.         *)
(***************************************************************************)
EXTENDS Integers

CONSTANT MaxIssued  \* bound of the model: for each kind, how many there ever are

Kind == DOMAIN MaxIssued

VARIABLES
    issued,   \* how many of a kind were handed out
    open,     \* credentials that may be redeemed
    pending,  \* redeemed, their product not made yet
    borne     \* credentials that bore a device or a session

vars == <<issued, open, pending, borne>>

Init ==
    /\ issued = [k \in Kind |-> 0]
    /\ open = {}
    /\ pending = {}
    /\ borne = {}

Issue(k) ==
    /\ issued[k] < MaxIssued[k]
    /\ issued' = [issued EXCEPT ![k] = @ + 1]
    /\ open' = open \cup {[kind |-> k, id |-> issued'[k]]}
    /\ UNCHANGED <<pending, borne>>

\* From here on no one else can redeem it, whatever becomes of it.
Redeem(c) ==
    /\ c \in open
    /\ open' = open \ {c}
    /\ pending' = pending \cup {c}
    /\ UNCHANGED <<issued, borne>>

Bear(c) ==
    /\ c \in pending
    /\ pending' = pending \ {c}
    /\ borne' = borne \cup {c}
    /\ UNCHANGED <<issued, open>>

\* The product could not be made; the credential is not given back.
Lose(c) ==
    /\ c \in pending
    /\ pending' = pending \ {c}
    /\ UNCHANGED <<issued, open, borne>>

\* They expire, or go with the device or account they are for.
Void(gone) ==
    /\ gone \subseteq open
    /\ open' = open \ gone
    /\ UNCHANGED <<issued, pending, borne>>

Next ==
    \/ \E k \in Kind : Issue(k)
    \/ \E c \in open : Redeem(c)
    \/ \E c \in pending : Bear(c) \/ Lose(c)
    \/ \E gone \in SUBSET open : Void(gone)

Spec == Init /\ [][Next]_vars
=============================================================================
