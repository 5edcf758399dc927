------------------------------- MODULE Bucket -------------------------------
(***************************************************************************)
(* What the limiter of httpapi/ratelimit.go promises: "token bucket per    *)
(* client ip".  Every address owns one bucket that is never forgotten; it  *)
(* fills by one unit a tick up to Full, and a request costs Period units.  *)
(* A request reads the clock before it is decided, by at most Slack ticks, *)
(* and the promise is as exact as that reading.                            *)
(***************************************************************************)
EXTENDS Naturals

CONSTANTS Ip, Caller, Full, Period, Slack

VARIABLES
    avail,      \* units in the bucket of an address
    answer,     \* what a request was told last
    whom        \* the address it came from

bucket == <<avail, answer, whom>>

Outcome == {"idle", "waiting", "admitted", "untracked", "limited"}

Capped(n) == IF n > Full THEN Full ELSE n

Init ==
    /\ avail = [i \in Ip |-> Full]
    /\ answer = [c \in Caller |-> "idle"]
    /\ whom \in [Caller -> Ip]

Answer(c, o) == answer' = [answer EXCEPT ![c] = o]

Ask(c) == \E i \in Ip :
    /\ answer[c] # "waiting"
    /\ Answer(c, "waiting")
    /\ whom' = [whom EXCEPT ![c] = i]
    /\ UNCHANGED avail

\* A request that was decided late is charged as if it had come s ticks ago.
Admit(c) == \E s \in 0..Slack :
    /\ answer[c] = "waiting"
    /\ avail[whom[c]] >= Period
    /\ avail' = [avail EXCEPT ![whom[c]] = Capped(@ - Period + s)]
    /\ Answer(c, "admitted")
    /\ UNCHANGED whom

\* Turned away only for want of tokens.
Limit(c) ==
    /\ answer[c] = "waiting"
    /\ avail[whom[c]] < Period + Slack
    /\ Answer(c, "limited")
    /\ UNCHANGED <<avail, whom>>

\* An address with a full bucket may be waved through.
Wave(c) ==
    /\ answer[c] = "waiting"
    /\ avail[whom[c]] = Full
    /\ Answer(c, "untracked")
    /\ UNCHANGED <<avail, whom>>

Fill ==
    /\ avail' = [i \in Ip |-> Capped(avail[i] + 1)]
    /\ UNCHANGED <<answer, whom>>

Next == Fill \/ \E c \in Caller : Ask(c) \/ Admit(c) \/ Limit(c) \/ Wave(c)

Spec == Init /\ [][Next]_bucket
=============================================================================
