-------------------------------- MODULE Auth --------------------------------
(***************************************************************************)
(* Accounts, devices and sessions (internal/httpapi/auth.go, account.go,   *)
(* devices.go, middleware.go over internal/store).  A password buys an     *)
(* enrollment token, a token a device, a device's answer to a challenge a  *)
(* session.  No handler here uses a transaction: each statement commits by *)
(* itself, and between two of them anything may happen, the end of the     *)
(* handler included.                                                       *)
(*                                                                         *)
(* Cryptography is perfect: a request offers the right password or         *)
(* signature or a wrong one.  An account stands for its email as well.     *)
(* Clocks are left out: a row may expire at any time.  Lists, renames and  *)
(* the last_seen mark change nothing here.                                 *)
(***************************************************************************)
EXTENDS Integers, FiniteSets

CONSTANTS
    Account,
    Request,          \* handlers that may run at a time
    AuthConcurrency,  \* slots for password hashing
    MaxDevices,       \* bounds of the model: devices ever created,
    MaxTokens,        \* tokens and
    MaxChallenges,    \* challenges ever issued,
    MaxEpoch,         \* passwords an account ever has
    Nobody

ASSUME AuthAssumption ==
    /\ AuthConcurrency \in Nat \ {0}
    /\ {MaxDevices, MaxTokens, MaxChallenges} \subseteq Nat
    /\ MaxEpoch \in Nat \ {0}
    /\ Nobody \notin Account
    /\ IsFiniteSet(Request)

VARIABLES
    live,      \* ids in accounts
    epoch,     \* which password the account has, 0 before it is created
    devices,   \* the tables
    tokens,
    challs,
    sessions,
    last,      \* their id sequences
    argon,     \* slots taken in argonSem
    pc,        \* where each handler is
    req,       \* what it knows
    revoked,   \* history: password changes that revoked the other sessions
    made       \* history: credentials that bore a device or a session

tables == <<live, epoch, devices, tokens, challs, sessions, last>>
handlers == <<argon, pc, req>>
history == <<revoked, made>>
vars == <<tables, handlers, history>>

-----------------------------------------------------------------------------
(* Rows and requests.                                                      *)

Id == Nat \ {0}
NoId == 0

DeviceRow == [id : Id, acct : Account]
\* What used and expires_at make of a credential; an expired one may be used or not.
CredState == {"open", "used", "expired"}
TokenRow == [id : Id, acct : Account, state : CredState]
ChallengeRow == [id : Id, dev : Id, state : CredState]
\* born: the password the account had when the session was made
SessionRow == [id : Id, acct : Account, dev : Id, born : Nat, expired : BOOLEAN]

Table == {"devices", "token", "challenge", "sessions"}

Open == {"signup", "login", "enroll", "verify"}
Gated == {"mint", "password", "delete"}     \* behind verifyAccountPassword
Simple == {"device", "logout", "logoutAll"} \* one statement after RequireAuth

NoCred == [kind |-> "none", id |-> NoId]

\* acct: of the session, the email, the token or the device; sess: the caller's;
\* cred: what the handler redeemed; epoch: the password it set.
NoRequest == [op |-> "none", acct |-> Nobody, sess |-> NoId, cred |-> NoCred,
              dev |-> NoId, epoch |-> 0]

Known == [op : {"none"} \cup Open \cup Gated \cup Simple, acct : Account \cup {Nobody},
          sess : Nat, cred : [kind : {"none", "token", "challenge"}, id : Nat],
          dev : Nat, epoch : 0..MaxEpoch]

Hashing == {"hash", "rehash"}
Consumed == {"consumed", "verifying"}
Pc == {"idle", "authed", "wait", "rewait", "issue", "insert", "update", "revoke", "drop"}
        \cup Hashing \cup Consumed

TypeOK ==
    /\ live \subseteq Account
    /\ epoch \in [Account -> 0..MaxEpoch]
    /\ devices \subseteq DeviceRow
    /\ tokens \subseteq TokenRow
    /\ challs \subseteq ChallengeRow
    /\ sessions \subseteq SessionRow
    /\ last \in [Table -> Nat]
    /\ argon \in 0..AuthConcurrency
    /\ pc \in [Request -> Pc]
    /\ req \in [Request -> Known]
    /\ revoked \subseteq [acct : Account, epoch : 0..MaxEpoch, sess : Nat]
    /\ made \subseteq [kind : {"token", "challenge"}, id : Id]

\* The empty database.
Init ==
    /\ live = {}
    /\ epoch = [a \in Account |-> 0]
    /\ devices = {} /\ tokens = {} /\ challs = {} /\ sessions = {}
    /\ last = [t \in Table |-> 0]
    /\ argon = 0
    /\ pc = [h \in Request |-> "idle"]
    /\ req = [h \in Request |-> NoRequest]
    /\ revoked = {}
    /\ made = {}

-----------------------------------------------------------------------------
(* Steps of a handler.                                                     *)

Goto(h, p) == pc' = [pc EXCEPT ![h] = p] /\ UNCHANGED req

Enter(h, p, r) ==
    /\ pc' = [pc EXCEPT ![h] = p]
    /\ req' = [req EXCEPT ![h] = r]

Done(h) == Enter(h, "idle", NoRequest)

\* A statement fails or finds nothing, its answer is lost, a wait for a slot times out,
\* the client leaves or the process ends: the handler answers with an error or not at
\* all, and what it did so far stays, a committed UpdatePassword included.
Fail(h) ==
    /\ pc[h] \notin {"idle"} \cup Hashing
    /\ Done(h)
    /\ UNCHANGED <<tables, argon, history>>

\* RequireAuth.  The session may go while the handler runs.
Authenticate(h) ==
    /\ pc[h] = "idle"
    /\ \E s \in sessions, op \in Gated \cup Simple :
         /\ ~s.expired
         /\ Enter(h, "authed", [NoRequest EXCEPT !.op = op, !.acct = s.acct, !.sess = s.id])
    /\ UNCHANGED <<tables, argon, history>>

-----------------------------------------------------------------------------
(* Passwords: withArgon around every hash.                                 *)

\* handleCreateAccount hashes first and then tries to insert
Signup(h) ==
    /\ pc[h] = "idle"
    /\ Enter(h, "wait", [NoRequest EXCEPT !.op = "signup"])
    /\ UNCHANGED <<tables, argon, history>>

\* AccountByEmail.  An unknown email is hashed against a dummy, too.
Login(h) ==
    /\ pc[h] = "idle"
    /\ \E a \in live \cup {Nobody} :
         Enter(h, "wait", [NoRequest EXCEPT !.op = "login", !.acct = a])
    /\ UNCHANGED <<tables, argon, history>>

\* AccountAuth in verifyAccountPassword
ReadCredentials(h) ==
    /\ pc[h] = "authed"
    /\ req[h].op \in Gated
    /\ req[h].acct \in live
    /\ Goto(h, "wait")
    /\ UNCHANGED <<tables, argon, history>>

\* A slip: a semaphore that does not block.
AnySlot == argon <= AuthConcurrency

FreeSlot == argon < AuthConcurrency

TakeSlot(h) ==
    /\ pc[h] \in {"wait", "rewait"}
    /\ FreeSlot
    /\ argon' = argon + 1
    /\ Goto(h, IF pc[h] = "wait" THEN "hash" ELSE "rehash")
    /\ UNCHANGED <<tables, history>>

\* What follows the first hash: the statement, or the hash of the new password.
AfterHash(op) ==
    CASE op = "signup" -> "insert"
      [] op \in {"login", "mint"} -> "issue"
      [] op = "password" -> "rewait"
      [] op = "delete" -> "drop"

\* A wrong password cannot be told from a right one for an account that is not there.
HashRight(h) ==
    /\ pc[h] = "hash"
    /\ req[h].op # "signup" => req[h].acct # Nobody
    /\ argon' = argon - 1
    /\ Goto(h, AfterHash(req[h].op))
    /\ UNCHANGED <<tables, history>>

\* A slip: the early return keeps the slot.
WrongKeepsSlot(h) ==
    /\ pc[h] = "hash"
    /\ req[h].op # "signup"
    /\ Done(h)
    /\ UNCHANGED <<tables, argon, history>>

HashWrong(h) ==
    /\ pc[h] = "hash"
    /\ req[h].op # "signup"
    /\ argon' = argon - 1
    /\ Done(h)
    /\ UNCHANGED <<tables, history>>

Rehashed(h) ==
    /\ pc[h] = "rehash"
    /\ argon' = argon - 1
    /\ Goto(h, "update")
    /\ UNCHANGED <<tables, history>>

-----------------------------------------------------------------------------
(* What a password is good for.                                            *)

NextId(t) == last[t] + 1

Count(t) == last' = [last EXCEPT ![t] = @ + 1]

\* CreateAccount; a taken email is a Fail.
CreateAccount(h) ==
    /\ pc[h] = "insert"
    /\ \E a \in Account :
         /\ epoch[a] = 0
         /\ live' = live \cup {a}
         /\ epoch' = [epoch EXCEPT ![a] = 1]
    /\ Done(h)
    /\ UNCHANGED <<devices, tokens, challs, sessions, last, argon, history>>

\* CreateEnrollmentToken; the foreign key wants the account.
IssueToken(h) ==
    /\ pc[h] = "issue"
    /\ req[h].acct \in live
    /\ last["token"] < MaxTokens
    /\ tokens' = tokens \cup
         {[id |-> NextId("token"), acct |-> req[h].acct, state |-> "open"]}
    /\ Count("token")
    /\ Done(h)
    /\ UNCHANGED <<live, epoch, devices, challs, sessions, argon, history>>

UpdatePassword(h) ==
    LET a == req[h].acct IN
    /\ pc[h] = "update"
    /\ a \in live
    /\ epoch[a] < MaxEpoch
    /\ epoch' = [epoch EXCEPT ![a] = @ + 1]
    /\ Enter(h, "revoke", [req[h] EXCEPT !.epoch = epoch'[a]])
    /\ UNCHANGED <<live, devices, tokens, challs, sessions, last, argon, history>>

\* A slip: the caller's device is kept, not the caller's session.
KeptByDevice(a, keep) ==
    {s \in sessions : s.acct # a \/ \E k \in sessions : k.id = keep /\ k.dev = s.dev}

\* DeleteSessions; NoId for nil
Kept(a, keep) == {s \in sessions : s.acct # a \/ s.id = keep}

\* 204: the password is changed and the other sessions are gone.
Revoke(h) ==
    /\ pc[h] = "revoke"
    /\ sessions' = Kept(req[h].acct, req[h].sess)
    /\ revoked' = revoked \cup
         {[acct |-> req[h].acct, epoch |-> req[h].epoch, sess |-> req[h].sess]}
    /\ Done(h)
    /\ UNCHANGED <<live, epoch, devices, tokens, challs, last, argon, made>>

\* 204 as well: the password is changed, DeleteSessions failed, or went through and its
\* answer is lost.  Only the log tells.
RevokeFails(h) ==
    /\ pc[h] = "revoke"
    /\ sessions' \in {sessions, Kept(req[h].acct, req[h].sess)}
    /\ Done(h)
    /\ UNCHANGED <<live, epoch, devices, tokens, challs, last, argon, history>>

\* Rows that go with a set of devices.
ChallengesOf(gone) == {c \in challs : \E d \in gone : d.id = c.dev}
SessionsOf(gone) == {s \in sessions : \E d \in gone : d.id = s.dev}

\* DeleteAccount, its statement with the cascade
DropAccount(h) ==
    LET a == req[h].acct
        gone == {d \in devices : d.acct = a} IN
    /\ pc[h] = "drop"
    /\ a \in live
    /\ live' = live \ {a}
    /\ devices' = devices \ gone
    /\ tokens' = {t \in tokens : t.acct # a}
    /\ challs' = challs \ ChallengesOf(gone)
    /\ sessions' = {s \in sessions \ SessionsOf(gone) : s.acct # a}
    /\ Done(h)
    /\ UNCHANGED <<epoch, last, argon, history>>

-----------------------------------------------------------------------------
(* Enrollment: handleCreateDevice.                                         *)

\* A slip: the UPDATE without NOT used.
Unexpired(c) == c.state # "expired"

Redeemable(c) == c.state = "open"

Used(c) == [c EXCEPT !.state = "used"]

ConsumeToken(h) ==
    /\ pc[h] = "idle"
    /\ \E t \in tokens :
         /\ Redeemable(t)
         /\ tokens' = (tokens \ {t}) \cup {Used(t)}
         /\ Enter(h, "consumed", [NoRequest EXCEPT !.op = "enroll", !.acct = t.acct,
                                    !.cred = [kind |-> "token", id |-> t.id]])
    /\ UNCHANGED <<live, epoch, devices, challs, sessions, last, argon, history>>

CreateDevice(h) ==
    /\ pc[h] = "consumed"
    /\ req[h].op = "enroll"
    /\ req[h].acct \in live
    /\ last["devices"] < MaxDevices
    /\ devices' = devices \cup {[id |-> NextId("devices"), acct |-> req[h].acct]}
    /\ Count("devices")
    /\ made' = made \cup {req[h].cred}
    /\ Done(h)
    /\ UNCHANGED <<live, epoch, tokens, challs, sessions, argon, revoked>>

-----------------------------------------------------------------------------
(* Sessions: handleChallange, one statement, and handleVerify.             *)

CreateChallenge ==
    /\ last["challenge"] < MaxChallenges
    /\ \E d \in devices :
         challs' = challs \cup
           {[id |-> NextId("challenge"), dev |-> d.id, state |-> "open"]}
    /\ Count("challenge")
    /\ UNCHANGED <<live, epoch, devices, tokens, sessions, handlers, history>>

ConsumeChallenge(h) ==
    /\ pc[h] = "idle"
    /\ \E c \in challs :
         /\ Redeemable(c)
         /\ challs' = (challs \ {c}) \cup {Used(c)}
         /\ Enter(h, "consumed", [NoRequest EXCEPT !.op = "verify", !.dev = c.dev,
                                    !.cred = [kind |-> "challenge", id |-> c.id]])
    /\ UNCHANGED <<live, epoch, devices, tokens, sessions, last, argon, history>>

\* GetDevice; the signature is checked next, a wrong one is a Fail.
GetDevice(h) ==
    /\ pc[h] = "consumed"
    /\ req[h].op = "verify"
    /\ \E d \in devices :
         /\ d.id = req[h].dev
         /\ Enter(h, "verifying", [req[h] EXCEPT !.acct = d.acct])
    /\ UNCHANGED <<tables, argon, history>>

\* A slip: sessions without the foreign key to devices.
AccountThere(a, dev) == a \in live

\* The foreign keys of sessions, both of them.
BothThere(a, dev) == a \in live /\ \E d \in devices : d.id = dev

CreateSession(h) ==
    LET a == req[h].acct IN
    /\ pc[h] = "verifying"
    /\ BothThere(a, req[h].dev)
    /\ sessions' = sessions \cup
         {[id |-> NextId("sessions"), acct |-> a, dev |-> req[h].dev, born |-> epoch[a],
           expired |-> FALSE]}
    /\ Count("sessions")
    /\ made' = made \cup {req[h].cred}
    /\ Done(h)
    /\ UNCHANGED <<live, epoch, devices, tokens, challs, argon, revoked>>

Logout(h) ==
    /\ pc[h] = "authed"
    /\ req[h].op = "logout"
    /\ sessions' = {s \in sessions : s.id # req[h].sess}
    /\ Done(h)
    /\ UNCHANGED <<live, epoch, devices, tokens, challs, last, argon, history>>

LogoutAll(h) ==
    /\ pc[h] = "authed"
    /\ req[h].op = "logoutAll"
    /\ sessions' = Kept(req[h].acct, NoId)
    /\ Done(h)
    /\ UNCHANGED <<live, epoch, devices, tokens, challs, last, argon, history>>

\* Any device of the caller's account, with what hangs on it.
DeleteDevice(h) ==
    /\ pc[h] = "authed"
    /\ req[h].op = "device"
    /\ \E d \in devices :
         /\ d.acct = req[h].acct
         /\ devices' = devices \ {d}
         /\ challs' = challs \ ChallengesOf({d})
         /\ sessions' = sessions \ SessionsOf({d})
    /\ Done(h)
    /\ UNCHANGED <<live, epoch, tokens, last, argon, history>>

-----------------------------------------------------------------------------
(* Time, and the janitor.                                                  *)

Expired(c) == [c EXCEPT !.state = "expired"]

Expire ==
    /\ \/ \E t \in tokens : tokens' = (tokens \ {t}) \cup {Expired(t)} /\ UNCHANGED <<challs, sessions>>
       \/ \E c \in challs : challs' = (challs \ {c}) \cup {Expired(c)} /\ UNCHANGED <<tokens, sessions>>
       \/ \E s \in sessions :
            sessions' = (sessions \ {s}) \cup {[s EXCEPT !.expired = TRUE]} /\ UNCHANGED <<tokens, challs>>
    /\ UNCHANGED <<live, epoch, devices, last, handlers, history>>

Unpurged(creds) == {c \in creds : c.state # "expired"}

\* PurgeExpired is one statement for each table, any of which may fail and end the
\* purge.  Between two of them everything else may run, so that their order is no
\* more than that of three statements at any time.
Purge ==
    /\ \/ challs' = Unpurged(challs) /\ UNCHANGED <<tokens, sessions>>
       \/ tokens' = Unpurged(tokens) /\ UNCHANGED <<challs, sessions>>
       \/ sessions' = {s \in sessions : ~s.expired} /\ UNCHANGED <<challs, tokens>>
    /\ UNCHANGED <<live, epoch, devices, last, handlers, history>>

-----------------------------------------------------------------------------

Password(h) ==
    \/ Signup(h) \/ Login(h) \/ ReadCredentials(h) \/ TakeSlot(h)
    \/ HashRight(h) \/ HashWrong(h) \/ Rehashed(h)
    \/ CreateAccount(h) \/ IssueToken(h) \/ UpdatePassword(h) \/ DropAccount(h)
    \/ Revoke(h) \/ RevokeFails(h)

Handle(h) ==
    \/ Fail(h) \/ Authenticate(h) \/ Password(h)
    \/ ConsumeToken(h) \/ CreateDevice(h)
    \/ ConsumeChallenge(h) \/ GetDevice(h) \/ CreateSession(h)
    \/ Logout(h) \/ LogoutAll(h) \/ DeleteDevice(h)

Next ==
    \/ \E h \in Request : Handle(h)
    \/ CreateChallenge
    \/ Expire
    \/ Purge

Spec == Init /\ [][Next]_vars

-----------------------------------------------------------------------------
(* Properties.                                                             *)

\* Every row hangs on rows that exist, and a session on a device of its own
\* account, though verify and enroll read the device or account in one statement and
\* insert in another, with the delete of either in between (migrations/0001).
ReferencesHold ==
    /\ \A r \in devices \cup tokens \cup sessions : r.acct \in live
    /\ \A r \in challs \cup sessions : \E d \in devices : d.id = r.dev
    /\ \A s \in sessions, d \in devices : s.dev = d.id => s.acct = d.acct

\* Once DeleteSessions went through for a password change, the only session from before
\* the change is the one it was asked for with, for good, whatever logged in, verified or
\* changed the password meanwhile (handleChangePassword: "every other session is
\* revoked").  It says nothing of a change whose DeleteSessions failed (RevokeFails): that
\* one is answered with 204 too, and the other sessions stay.
OnlyCallerStays ==
    \A s \in sessions, c \in revoked :
        s.acct = c.acct /\ s.born < c.epoch => s.id = c.sess

\* The hashing slots taken are those of the handlers that hash: none leaks on a
\* wrong password, a timeout or a second hash, and none is given back twice
\* (withArgon).
SlotsExact == argon = Cardinality({h \in Request : pc[h] \in Hashing})

Creds(kind, rows) == {[kind |-> kind, id |-> r.id] : r \in {x \in rows : Redeemable(x)}}

Promise == INSTANCE Credentials WITH
    MaxIssued <- [token |-> MaxTokens, challenge |-> MaxChallenges],
    issued <- [k \in {"token", "challenge"} |-> last[k]],
    open <- Creds("token", tokens) \cup Creds("challenge", challs),
    pending <- {req[h].cred : h \in {x \in Request : pc[x] \in Consumed}},
    borne <- made

\* A token bears one device and a challenge one session at most, also when redeemed
\* by racing handlers or after it expired, and a handler that ends halfway gives
\* nothing back (ConsumeChallenge: "a second call with same id must fail even if
\* races with the first").
SpentOnce == Promise!Spec
=============================================================================
