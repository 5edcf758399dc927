----------------------------- MODULE AuthProofs -----------------------------
(***************************************************************************)
(* What Auth keeps for every number of accounts, handlers and slots: rows  *)
(* hang on rows, a password change leaves one session, no hashing slot     *)
(* leaks, and credentials are spent once.                                  *)
(***************************************************************************)
EXTENDS Auth, FiniteSetTheorems, TLAPS

-----------------------------------------------------------------------------
(* The inductive invariant.  The properties speak of the tables; what the  *)
(* statements in between rely on is what a handler carries along.          *)

Hashers == {h \in Request : pc[h] \in Hashing}

\* A handler at a hash came from one of the five requests with a password; one that
\* redeemed a credential knows a credential that was issued.
HandlersInv ==
    \A h \in Request :
      /\ pc[h] \in {"wait", "hash"} => req[h].op \in {"signup", "login"} \cup Gated
      /\ pc[h] \in Consumed =>
           /\ req[h].cred.kind \in {"token", "challenge"}
           /\ req[h].cred.id \in 1..last[req[h].cred.kind]

Unique(rows) == \A x, y \in rows : x.id = y.id => x = y

UpTo(rows, n) == \A r \in rows : r.id <= n

\* Ids come from sequences.
KeysInv ==
    /\ Unique(devices) /\ UpTo(devices, last["devices"])
    /\ Unique(tokens) /\ UpTo(tokens, last["token"])
    /\ Unique(challs) /\ UpTo(challs, last["challenge"])

\* The device that verify has read is still the account's if it is still there,
\* since its id is not used again.
VerifyInv ==
    \A h \in Request :
      /\ pc[h] \in Consumed => req[h].dev <= last["devices"]
      /\ pc[h] = "verifying" =>
           \A d \in devices : d.id = req[h].dev => d.acct = req[h].acct

\* Passwords only move on; nothing is of a password that is still to come.
EpochInv ==
    /\ \A c \in revoked : c.epoch <= epoch[c.acct]
    /\ \A s \in sessions : s.born <= epoch[s.acct]
    /\ \A h \in Request :
         pc[h] = "revoke" => req[h].acct \in Account /\ req[h].epoch <= epoch[req[h].acct]

OpenCreds == Creds("token", tokens) \cup Creds("challenge", challs)

\* A credential is open or with one handler, never both, never with two.
CredsInv ==
    \A h \in Request : pc[h] \in Consumed =>
      /\ req[h].cred \notin OpenCreds
      /\ \A g \in Request \ {h} : pc[g] \in Consumed => req[g].cred # req[h].cred

Inductive ==
    /\ TypeOK /\ SlotsExact /\ HandlersInv /\ KeysInv
    /\ ReferencesHold /\ VerifyInv
    /\ OnlyCallerStays /\ EpochInv
    /\ CredsInv

\* There is nothing in an empty database.
LEMMA InitInductive == Init => Inductive
  <1> SUFFICES ASSUME Init PROVE Inductive
    OBVIOUS
  <1>1. TypeOK
    BY AuthAssumption
       DEF Init, TypeOK, Table, NoRequest, NoCred, NoId, Known, Pc
  <1>2. SlotsExact
    <2>1. {h \in Request : pc[h] \in Hashing} = {}
      BY DEF Init, Hashing
    <2> QED
      BY <2>1, FS_EmptySet DEF Init, SlotsExact
  <1>3. HandlersInv /\ KeysInv /\ ReferencesHold /\ VerifyInv /\ CredsInv
    BY DEF Init, HandlersInv, KeysInv, ReferencesHold, VerifyInv, CredsInv, Unique, UpTo,
       Consumed
  <1>4. OnlyCallerStays /\ EpochInv
    BY DEF Init, OnlyCallerStays, EpochInv
  <1> QED
    BY <1>1, <1>2, <1>3, <1>4 DEF Inductive

-----------------------------------------------------------------------------
(* Slots.                                                                  *)

\* withArgon: in before the hash, out after it, and nobody else touches the channel.
LEMMA SlotsStep ==
    ASSUME Inductive, [Next]_vars
    PROVE  SlotsExact' /\ argon' \in 0..AuthConcurrency
  <1> SUFFICES argon' = Cardinality(Hashers') /\ argon' \in 0..AuthConcurrency
    BY DEF SlotsExact, Hashers
  <1>0. /\ argon = Cardinality(Hashers) /\ argon \in 0..AuthConcurrency
        /\ AuthConcurrency \in Nat /\ pc \in [Request -> Pc]
    BY AuthAssumption DEF Inductive, SlotsExact, Hashers, TypeOK
  <1>1. IsFiniteSet(Hashers)
    <2>1. Hashers \in SUBSET Request
      BY DEF Hashers
    <2> QED
      BY <2>1, AuthAssumption, FS_Subset
  <1>2. ASSUME UNCHANGED argon, Hashers' = Hashers
        PROVE  argon' = Cardinality(Hashers') /\ argon' \in 0..AuthConcurrency
    BY <1>0, <1>2
  <1>3. ASSUME NEW h \in Request, TakeSlot(h)
        PROVE  argon' = Cardinality(Hashers') /\ argon' \in 0..AuthConcurrency
    <2>1. h \notin Hashers /\ Hashers' = Hashers \cup {h} /\ argon' = argon + 1
          /\ argon < AuthConcurrency
      BY <1>0, <1>3 DEF TakeSlot, FreeSlot, Goto, Hashers, Hashing
    <2>2. Cardinality(Hashers \cup {h}) = Cardinality(Hashers) + 1
      BY <1>1, <2>1, FS_AddElement
    <2> QED
      BY <1>0, <2>1, <2>2
  <1>4. ASSUME NEW h \in Request, HashRight(h) \/ HashWrong(h) \/ Rehashed(h)
        PROVE  argon' = Cardinality(Hashers') /\ argon' \in 0..AuthConcurrency
    <2>1. req[h].op \in {"signup", "login"} \cup Gated \/ pc[h] # "hash"
      BY DEF Inductive, HandlersInv
    <2>2. h \in Hashers /\ argon' = argon - 1 /\ \E p \in Pc \ Hashing : pc' = [pc EXCEPT ![h] = p]
      <3>1. CASE HashRight(h)
        <4>1. pc[h] = "hash" /\ argon' = argon - 1 /\ pc' = [pc EXCEPT ![h] = AfterHash(req[h].op)]
          BY <3>1 DEF HashRight, Goto
        <4>2. req[h].op \in {"signup", "login", "mint", "password", "delete"}
          BY <2>1, <4>1 DEF Gated
        <4>3. AfterHash(req[h].op) \in {"insert", "issue", "rewait", "drop"}
          BY <4>2 DEF AfterHash
        <4>4. AfterHash(req[h].op) \in Pc \ Hashing
          BY <4>3 DEF Pc, Hashing
        <4>5. h \in Hashers
          BY <4>1 DEF Hashers, Hashing
        <4> QED
          BY <4>1, <4>4, <4>5
      <3>2. CASE HashWrong(h)
        BY <3>2 DEF HashWrong, Done, Enter, Hashers, Hashing, Pc
      <3>3. CASE Rehashed(h)
        BY <3>3 DEF Rehashed, Goto, Hashers, Hashing, Pc
      <3> QED
        BY <1>4, <3>1, <3>2, <3>3
    <2>3. Hashers' = Hashers \ {h}
      BY <1>0, <2>2 DEF Hashers
    <2>4. Cardinality(Hashers \ {h}) = Cardinality(Hashers) - 1 /\ Cardinality(Hashers \ {h}) \in Nat
      <3>1. IsFiniteSet(Hashers \ {h})
        BY <1>1, FS_RemoveElement
      <3> QED
        BY <1>1, <2>2, <3>1, FS_RemoveElement, FS_CardinalityType
    <2> QED
      BY <1>0, <2>2, <2>3, <2>4
  <1>5. ASSUME NEW h \in Request, UNCHANGED argon, pc[h] \notin Hashing,
               \E p \in Pc \ Hashing : pc' = [pc EXCEPT ![h] = p]
        PROVE  argon' = Cardinality(Hashers') /\ argon' \in 0..AuthConcurrency
    <2>1. Hashers' = Hashers
      BY <1>0, <1>5 DEF Hashers
    <2> QED
      BY <1>2, <1>5, <2>1
  <1>6. ASSUME NEW h \in Request,
               \/ Fail(h) \/ Authenticate(h) \/ Signup(h) \/ Login(h) \/ ReadCredentials(h)
               \/ CreateAccount(h) \/ IssueToken(h) \/ UpdatePassword(h)
        PROVE  argon' = Cardinality(Hashers') /\ argon' \in 0..AuthConcurrency
    <2>1. UNCHANGED argon /\ pc[h] \notin Hashing
          /\ \E p \in Pc \ Hashing : pc' = [pc EXCEPT ![h] = p]
      BY <1>6 DEF Fail, Authenticate, Signup, Login, ReadCredentials, CreateAccount, IssueToken,
         UpdatePassword, Goto, Enter, Done, Hashing, Consumed, Pc
    <2> QED
      BY <1>5, <2>1
  <1>7. ASSUME NEW h \in Request,
               \/ Revoke(h) \/ RevokeFails(h) \/ DropAccount(h) \/ ConsumeToken(h)
               \/ CreateDevice(h)
               \/ ConsumeChallenge(h) \/ GetDevice(h) \/ CreateSession(h)
               \/ Logout(h) \/ LogoutAll(h) \/ DeleteDevice(h)
        PROVE  argon' = Cardinality(Hashers') /\ argon' \in 0..AuthConcurrency
    <2>1. UNCHANGED argon /\ pc[h] \notin Hashing
          /\ \E p \in Pc \ Hashing : pc' = [pc EXCEPT ![h] = p]
      BY <1>7 DEF Revoke, RevokeFails, DropAccount, ConsumeToken, CreateDevice,
         ConsumeChallenge, GetDevice, CreateSession, Logout, LogoutAll, DeleteDevice,
         Goto, Enter, Done, Hashing, Consumed, Pc
    <2> QED
      BY <1>5, <2>1
  <1>8. CASE CreateChallenge \/ Expire \/ Purge \/ UNCHANGED vars
    <2>1. UNCHANGED <<argon, pc>>
      BY <1>8 DEF CreateChallenge, Expire, Purge, vars, handlers
    <2> QED
      BY <1>2, <2>1 DEF Hashers
  <1> QED
    BY <1>3, <1>4, <1>6, <1>7, <1>8 DEF Next, Handle, Password

-----------------------------------------------------------------------------
(* Types and handlers.                                                     *)

\* What an idle handler knows.
LEMMA NothingKnown == NoRequest \in Known
  BY AuthAssumption DEF NoRequest, NoCred, NoId, Known

\* Rows are built from ids of their sequences and from what a handler has read.
LEMMA TypeStep ==
    ASSUME Inductive, [Next]_vars
    PROVE  TypeOK'
  <1> USE DEF Id, NoId
  <1>0. /\ TypeOK /\ HandlersInv /\ argon' \in 0..AuthConcurrency
        /\ {MaxDevices, MaxTokens, MaxChallenges} \subseteq Nat /\ MaxEpoch \in Nat \ {0}
        /\ NoRequest \in Known
    BY SlotsStep, AuthAssumption, NothingKnown DEF Inductive
  <1>1. ASSUME NEW h \in Request, NEW p \in Pc, NEW k \in Known, Enter(h, p, k)
        PROVE  pc' \in [Request -> Pc] /\ req' \in [Request -> Known]
    BY <1>0, <1>1 DEF Enter, TypeOK
  <1>2. ASSUME NEW h \in Request, Done(h)
        PROVE  pc' \in [Request -> Pc] /\ req' \in [Request -> Known]
    BY <1>0, <1>1, <1>2 DEF Done, Pc
  <1>3. ASSUME NEW h \in Request, NEW p \in Pc, Goto(h, p)
        PROVE  pc' \in [Request -> Pc] /\ req' \in [Request -> Known]
    BY <1>0, <1>3 DEF Goto, TypeOK
  <1>4. ASSUME NEW h \in Request,
               \/ Fail(h) \/ Signup(h) \/ Login(h) \/ HashWrong(h)
               \/ ReadCredentials(h) \/ TakeSlot(h) \/ HashRight(h) \/ Rehashed(h)
               \/ Authenticate(h) \/ GetDevice(h)
        PROVE  TypeOK'
    <2>1. UNCHANGED <<tables, history>>
      BY <1>4 DEF Fail, Signup, Login, HashWrong, ReadCredentials, TakeSlot, HashRight, Rehashed,
         Authenticate, GetDevice
    <2>2. pc' \in [Request -> Pc] /\ req' \in [Request -> Known]
      <3>1. CASE Fail(h) \/ HashWrong(h)
        BY <1>2, <3>1 DEF Fail, HashWrong
      <3>2. CASE Signup(h)
        <4>1. [NoRequest EXCEPT !.op = "signup"] \in Known
          BY <1>0 DEF Known, Open
        <4> QED
          BY <1>1, <3>2, <4>1 DEF Signup, Pc
      <3>3. CASE Login(h)
        <4> PICK a \in live \cup {Nobody} :
                   Enter(h, "wait", [NoRequest EXCEPT !.op = "login", !.acct = a])
          BY <3>3 DEF Login
        <4>1. [NoRequest EXCEPT !.op = "login", !.acct = a] \in Known
          BY <1>0 DEF Known, Open, TypeOK
        <4> QED
          BY <1>1, <4>1 DEF Pc
      <3>4. CASE Authenticate(h)
        <4> PICK s \in sessions, op \in Gated \cup Simple :
                   Enter(h, "authed", [NoRequest EXCEPT !.op = op, !.acct = s.acct, !.sess = s.id])
          BY <3>4 DEF Authenticate
        <4>1. s.acct \in Account /\ s.id \in Nat
          BY <1>0 DEF TypeOK, SessionRow
        <4>2. [NoRequest EXCEPT !.op = op, !.acct = s.acct, !.sess = s.id] \in Known
          BY <1>0, <4>1 DEF Known
        <4> QED
          BY <1>1, <4>2 DEF Pc
      <3>5. CASE GetDevice(h)
        <4> PICK d \in devices : Enter(h, "verifying", [req[h] EXCEPT !.acct = d.acct])
          BY <3>5 DEF GetDevice
        <4>1. [req[h] EXCEPT !.acct = d.acct] \in Known
          BY <1>0 DEF TypeOK, DeviceRow, Known
        <4> QED
          BY <1>1, <4>1 DEF Pc, Consumed
      <3>6. CASE ReadCredentials(h) \/ TakeSlot(h) \/ HashRight(h) \/ Rehashed(h)
        <4>1. \E p \in Pc : Goto(h, p)
          BY <1>0, <3>6
             DEF ReadCredentials, TakeSlot, HashRight, Rehashed, AfterHash, HandlersInv, Pc,
                 Hashing, Gated
        <4> QED
          BY <1>3, <4>1
      <3> QED
        BY <1>4, <3>1, <3>2, <3>3, <3>4, <3>5, <3>6
    <2> QED
      BY <1>0, <2>1, <2>2 DEF TypeOK, tables, history
  <1>5. ASSUME NEW h \in Request,
               CreateAccount(h) \/ DropAccount(h) \/ Logout(h) \/ LogoutAll(h) \/ DeleteDevice(h)
        PROVE  TypeOK'
    <2>1. pc' \in [Request -> Pc] /\ req' \in [Request -> Known]
      BY <1>2, <1>5 DEF CreateAccount, DropAccount, Logout, LogoutAll, DeleteDevice
    <2>2. /\ live' \subseteq Account /\ epoch' \in [Account -> 0..MaxEpoch]
          /\ devices' \subseteq devices /\ tokens' \subseteq tokens
          /\ challs' \subseteq challs /\ sessions' \subseteq sessions
          /\ UNCHANGED <<last, history>>
      <3>1. CASE CreateAccount(h)
        BY <1>0, <3>1 DEF CreateAccount, TypeOK
      <3>2. CASE DropAccount(h)
        BY <1>0, <3>2 DEF DropAccount, TypeOK
      <3>3. CASE Logout(h) \/ LogoutAll(h) \/ DeleteDevice(h)
        BY <1>0, <3>3 DEF Logout, LogoutAll, DeleteDevice, Kept, TypeOK
      <3> QED
        BY <1>5, <3>1, <3>2, <3>3
    <2> QED
      BY <1>0, <2>1, <2>2 DEF TypeOK, history
  <1>6. ASSUME NEW h \in Request, IssueToken(h)
        PROVE  TypeOK'
    <2>1. pc' \in [Request -> Pc] /\ req' \in [Request -> Known]
      BY <1>2, <1>6 DEF IssueToken
    <2>2. [id |-> NextId("token"), acct |-> req[h].acct, state |-> "open"] \in TokenRow
      BY <1>0, <1>6 DEF IssueToken, NextId, TokenRow, CredState, TypeOK, Table
    <2>3. last' \in [Table -> Nat]
      BY <1>0, <1>6 DEF IssueToken, Count, TypeOK, Table
    <2> QED
      BY <1>0, <1>6, <2>1, <2>2, <2>3 DEF IssueToken, TypeOK, history
  <1>7. ASSUME NEW h \in Request, UpdatePassword(h)
        PROVE  TypeOK'
    <2> DEFINE a == req[h].acct
    <2>1. a \in Account /\ epoch' = [epoch EXCEPT ![a] = @ + 1] /\ epoch[a] \in 0..MaxEpoch
          /\ epoch[a] < MaxEpoch
      BY <1>0, <1>7 DEF UpdatePassword, TypeOK
    <2>2. epoch' \in [Account -> 0..MaxEpoch] /\ epoch'[a] \in 0..MaxEpoch
      BY <1>0, <2>1 DEF TypeOK
    <2>3. [req[h] EXCEPT !.epoch = epoch'[a]] \in Known
      BY <1>0, <2>2 DEF Known, TypeOK
    <2>4. pc' \in [Request -> Pc] /\ req' \in [Request -> Known]
      BY <1>1, <1>7, <2>3 DEF UpdatePassword, Pc
    <2> QED
      BY <1>0, <1>7, <2>2, <2>4 DEF UpdatePassword, TypeOK, history
  <1>8. ASSUME NEW h \in Request, Revoke(h) \/ RevokeFails(h)
        PROVE  TypeOK'
    <2>1. pc' \in [Request -> Pc] /\ req' \in [Request -> Known]
      BY <1>2, <1>8 DEF Revoke, RevokeFails
    <2>2. req[h].epoch \in 0..MaxEpoch /\ req[h].sess \in Nat
      BY <1>0 DEF TypeOK, Known
    <2>3. revoked' \subseteq [acct : Account, epoch : 0..MaxEpoch, sess : Nat]
      <3>1. CASE Revoke(h)
        <4>1. req[h].acct \in Account
          BY <3>1 DEF Inductive, EpochInv, Revoke
        <4> QED
          BY <1>0, <2>2, <3>1, <4>1 DEF Revoke, TypeOK
      <3>2. CASE RevokeFails(h)
        BY <1>0, <3>2 DEF RevokeFails, TypeOK, history
      <3> QED
        BY <1>8, <3>1, <3>2
    <2>4. sessions' \subseteq sessions
          /\ UNCHANGED <<live, epoch, devices, tokens, challs, last, argon, made>>
      BY <1>8 DEF Revoke, RevokeFails, Kept, history
    <2> QED
      BY <1>0, <2>1, <2>3, <2>4 DEF TypeOK
  <1>9. ASSUME NEW h \in Request, ConsumeToken(h)
        PROVE  TypeOK'
    <2> PICK t \in tokens :
          /\ tokens' = (tokens \ {t}) \cup {Used(t)}
          /\ Enter(h, "consumed", [NoRequest EXCEPT !.op = "enroll", !.acct = t.acct,
                                     !.cred = [kind |-> "token", id |-> t.id]])
      BY <1>9 DEF ConsumeToken
    <2>1. t.acct \in Account /\ t.id \in Nat /\ Used(t) \in TokenRow
      BY <1>0 DEF TypeOK, TokenRow, Used, CredState
    <2>2. [NoRequest EXCEPT !.op = "enroll", !.acct = t.acct,
             !.cred = [kind |-> "token", id |-> t.id]] \in Known
      BY <1>0, <2>1 DEF Known, Open
    <2>3. pc' \in [Request -> Pc] /\ req' \in [Request -> Known]
      BY <1>1, <2>2 DEF Pc, Consumed
    <2> QED
      BY <1>0, <1>9, <2>1, <2>3 DEF ConsumeToken, TypeOK, history
  <1>10. ASSUME NEW h \in Request, ConsumeChallenge(h)
         PROVE  TypeOK'
    <2> PICK c \in challs :
          /\ challs' = (challs \ {c}) \cup {Used(c)}
          /\ Enter(h, "consumed", [NoRequest EXCEPT !.op = "verify", !.dev = c.dev,
                                     !.cred = [kind |-> "challenge", id |-> c.id]])
      BY <1>10 DEF ConsumeChallenge
    <2>1. c.dev \in Nat /\ c.id \in Nat /\ Used(c) \in ChallengeRow
      BY <1>0 DEF TypeOK, ChallengeRow, Used, CredState
    <2>2. [NoRequest EXCEPT !.op = "verify", !.dev = c.dev,
             !.cred = [kind |-> "challenge", id |-> c.id]] \in Known
      BY <1>0, <2>1 DEF Known, Open
    <2>3. pc' \in [Request -> Pc] /\ req' \in [Request -> Known]
      BY <1>1, <2>2 DEF Pc, Consumed
    <2> QED
      BY <1>0, <1>10, <2>1, <2>3 DEF ConsumeChallenge, TypeOK, history
  <1>11. ASSUME NEW h \in Request, CreateDevice(h) \/ CreateSession(h)
         PROVE  TypeOK'
    <2>1. pc' \in [Request -> Pc] /\ req' \in [Request -> Known]
      BY <1>2, <1>11 DEF CreateDevice, CreateSession
    <2>2. req[h].cred \in [kind : {"token", "challenge"}, id : Id]
      <3>1. pc[h] \in Consumed
        BY <1>11 DEF CreateDevice, CreateSession, Consumed
      <3>2. /\ req[h].cred \in [kind : {"none", "token", "challenge"}, id : Nat]
            /\ last["token"] \in Nat /\ last["challenge"] \in Nat
        BY <1>0 DEF TypeOK, Known, Table
      <3> QED
        BY <1>0, <3>1, <3>2 DEF HandlersInv
    <2>3. made' \subseteq [kind : {"token", "challenge"}, id : Id] /\ last' \in [Table -> Nat]
      BY <1>0, <1>11, <2>2 DEF CreateDevice, CreateSession, Count, TypeOK, Table
    <2>4. CASE CreateDevice(h)
      <3>1. [id |-> NextId("devices"), acct |-> req[h].acct] \in DeviceRow
        BY <1>0, <2>4 DEF CreateDevice, NextId, DeviceRow, TypeOK, Table
      <3> QED
        BY <1>0, <2>1, <2>3, <2>4, <3>1 DEF CreateDevice, TypeOK
    <2>5. CASE CreateSession(h)
      <3>1. req[h].acct \in Account /\ req[h].dev \in Id /\ epoch[req[h].acct] \in Nat
        BY <1>0, <2>5 DEF CreateSession, BothThere, DeviceRow, TypeOK
      <3>2. [id |-> NextId("sessions"), acct |-> req[h].acct, dev |-> req[h].dev,
             born |-> epoch[req[h].acct], expired |-> FALSE] \in SessionRow
        BY <1>0, <3>1 DEF NextId, SessionRow, TypeOK, Table
      <3> QED
        BY <1>0, <2>1, <2>3, <2>5, <3>2 DEF CreateSession, TypeOK
    <2> QED
      BY <1>11, <2>4, <2>5
  <1>12. CASE CreateChallenge
    <2> PICK d \in devices :
          challs' = challs \cup {[id |-> NextId("challenge"), dev |-> d.id, state |-> "open"]}
      BY <1>12 DEF CreateChallenge
    <2>1. [id |-> NextId("challenge"), dev |-> d.id, state |-> "open"] \in ChallengeRow
      BY <1>0 DEF NextId, ChallengeRow, DeviceRow, CredState, TypeOK, Table
    <2>2. last' \in [Table -> Nat]
      BY <1>0, <1>12 DEF CreateChallenge, Count, TypeOK, Table
    <2> QED
      BY <1>0, <1>12, <2>1, <2>2 DEF CreateChallenge, TypeOK, handlers, history
  <1>13. CASE Expire \/ Purge
    <2>1. tokens' \subseteq TokenRow /\ challs' \subseteq ChallengeRow /\ sessions' \subseteq SessionRow
      <3>1. \A t \in tokens : Expired(t) \in TokenRow
        BY <1>0 DEF TypeOK, TokenRow, CredState, Expired
      <3>2. \A c \in challs : Expired(c) \in ChallengeRow
        BY <1>0 DEF TypeOK, ChallengeRow, CredState, Expired
      <3>3. \A s \in sessions : [s EXCEPT !.expired = TRUE] \in SessionRow
        BY <1>0 DEF TypeOK, SessionRow
      <3>4. CASE Expire
        BY <1>0, <3>1, <3>2, <3>3, <3>4 DEF Expire, TypeOK
      <3>5. CASE Purge
        BY <1>0, <3>5 DEF Purge, Unpurged, TypeOK
      <3> QED
        BY <1>13, <3>4, <3>5
    <2> QED
      BY <1>0, <1>13, <2>1 DEF Expire, Purge, TypeOK, handlers, history
  <1>14. CASE UNCHANGED vars
    BY <1>0, <1>14 DEF vars, tables, handlers, history, TypeOK
  <1> QED
    BY <1>4, <1>5, <1>6, <1>7, <1>8, <1>9, <1>10, <1>11, <1>12, <1>13, <1>14
       DEF Next, Handle, Password

\* Sequences only go up.
LEMMA LastGrows ==
    ASSUME TypeOK, [Next]_vars, NEW t \in Table
    PROVE  last[t] \in Nat /\ last'[t] \in Nat /\ last[t] <= last'[t]
  <1>0. last \in [Table -> Nat] /\ {"devices", "token", "challenge", "sessions"} = Table
    BY DEF TypeOK, Table
  <1>1. UNCHANGED last \/ \E u \in Table : Count(u)
    <2>1. ASSUME NEW h \in Request, Handle(h)
          PROVE  UNCHANGED last \/ \E u \in Table : Count(u)
      BY <1>0, <2>1
         DEF Handle, Password, Fail, Authenticate, Signup, Login, ReadCredentials, TakeSlot,
             HashRight, HashWrong, Rehashed, CreateAccount, IssueToken, UpdatePassword, Revoke,
             RevokeFails, DropAccount, ConsumeToken, CreateDevice, ConsumeChallenge, GetDevice,
             CreateSession, Logout, LogoutAll, DeleteDevice, tables
    <2>2. CASE CreateChallenge \/ Expire \/ Purge \/ UNCHANGED vars
      BY <1>0, <2>2 DEF CreateChallenge, Expire, Purge, vars, tables
    <2> QED
      BY <2>1, <2>2 DEF Next
  <1> QED
    BY <1>0, <1>1 DEF Count

\* A step of another handler, or of none, leaves what a handler carries alone.
Acts(h) == \A g \in Request \ {h} : pc'[g] = pc[g] /\ req'[g] = req[g]

\* At most one handler moves in a step.
LEMMA OneActs ==
    ASSUME TypeOK, [Next]_vars
    PROVE  \/ \E h \in Request : Handle(h) /\ Acts(h)
           \/ (CreateChallenge \/ Expire \/ Purge \/ UNCHANGED vars) /\ UNCHANGED <<pc, req>>
  <1>0. /\ pc \in [Request -> Pc] /\ req \in [Request -> Known]
    BY DEF TypeOK
  <1>1. ASSUME NEW h \in Request, Handle(h)
        PROVE  Acts(h)
    <2>1. ASSUME NEW p, NEW k, Enter(h, p, k)
          PROVE  Acts(h)
      BY <1>0, <2>1 DEF Enter, Acts
    <2>2. ASSUME NEW p, Goto(h, p)
          PROVE  Acts(h)
      BY <1>0, <2>2 DEF Goto, Acts
    <2>3. CASE \/ ReadCredentials(h) \/ TakeSlot(h) \/ HashRight(h) \/ Rehashed(h)
      BY <2>2, <2>3 DEF ReadCredentials, TakeSlot, HashRight, Rehashed
    <2>4. CASE \/ Authenticate(h) \/ Signup(h) \/ Login(h) \/ UpdatePassword(h)
               \/ ConsumeToken(h) \/ ConsumeChallenge(h) \/ GetDevice(h)
      BY <2>1, <2>4
         DEF Authenticate, Signup, Login, UpdatePassword, ConsumeToken, ConsumeChallenge, GetDevice
    <2>5. CASE \/ Fail(h) \/ HashWrong(h) \/ CreateAccount(h) \/ IssueToken(h)
               \/ Revoke(h) \/ RevokeFails(h)
               \/ DropAccount(h) \/ CreateDevice(h) \/ CreateSession(h)
               \/ Logout(h) \/ LogoutAll(h) \/ DeleteDevice(h)
      <3>1. Done(h)
        BY <2>5
           DEF Fail, HashWrong, CreateAccount, IssueToken, Revoke, RevokeFails, DropAccount,
               CreateDevice, CreateSession, Logout, LogoutAll, DeleteDevice
      <3> QED
        BY <2>1, <3>1 DEF Done
    <2> QED
      BY <1>1, <2>3, <2>4, <2>5 DEF Handle, Password
  <1>2. CASE CreateChallenge \/ Expire \/ Purge \/ UNCHANGED vars
    BY <1>2 DEF CreateChallenge, Expire, Purge, vars, handlers
  <1> QED
    BY <1>1, <1>2 DEF Next

\* Only Signup, Login and ReadCredentials lead to a wait, only the two consuming
\* statements to a credential.
LEMMA HandlersStep ==
    ASSUME Inductive, [Next]_vars
    PROVE  HandlersInv'
  <1>0. TypeOK /\ HandlersInv /\ KeysInv
        /\ pc \in [Request -> Pc] /\ req \in [Request -> Known]
    BY DEF Inductive, TypeOK
  <1> DEFINE Good(p, k) ==
        /\ p \in {"wait", "hash"} => k.op \in {"signup", "login"} \cup Gated
        /\ p \in Consumed => k.cred.kind \in {"token", "challenge"}
                             /\ k.cred.id \in 1..last'[k.cred.kind]
  <1>1. ASSUME NEW g \in Request
        PROVE  Good(pc[g], req[g])
    <2>1. \A kind \in {"token", "challenge"} :
            last[kind] \in Nat /\ last'[kind] \in Nat /\ last[kind] <= last'[kind]
      BY <1>0, LastGrows DEF Table
    <2> QED
      BY <1>0, <2>1 DEF HandlersInv
  <1>2. ASSUME NEW h \in Request, Handle(h)
        PROVE  Good(pc'[h], req'[h])
    <2>1. ASSUME NEW p, NEW k, Enter(h, p, k), Good(p, k)
          PROVE  Good(pc'[h], req'[h])
      <3>1. pc'[h] = p /\ req'[h] = k
        BY <1>0, <2>1 DEF Enter
      <3> QED
        BY <2>1, <3>1
    <2>2. ASSUME NEW p, Goto(h, p), Good(p, req[h])
          PROVE  Good(pc'[h], req'[h])
      <3>1. pc'[h] = p /\ req'[h] = req[h]
        BY <1>0, <2>2 DEF Goto
      <3> QED
        BY <2>2, <3>1
    <2>3. CASE Signup(h) \/ Login(h)
      <3>1. \E k \in Known : Enter(h, "wait", k) /\ k.op \in {"signup", "login"}
        <4>1. CASE Signup(h)
          <5>1. [NoRequest EXCEPT !.op = "signup"] \in Known
            BY NothingKnown DEF Known, Open
          <5> QED
            BY <4>1, <5>1, NothingKnown DEF Signup, Known
        <4>2. CASE Login(h)
          <5> PICK a \in live \cup {Nobody} :
                     Enter(h, "wait", [NoRequest EXCEPT !.op = "login", !.acct = a])
            BY <4>2 DEF Login
          <5>1. [NoRequest EXCEPT !.op = "login", !.acct = a] \in Known
            BY <1>0, NothingKnown DEF Known, Open, TypeOK
          <5> QED
            BY <5>1, NothingKnown DEF Known
        <4> QED
          BY <2>3, <4>1, <4>2
      <3> QED
        BY <2>1, <3>1 DEF Consumed
    <2>4. CASE \/ ReadCredentials(h) \/ TakeSlot(h) \/ HashRight(h) \/ Rehashed(h)
      <3>1. \E p : Goto(h, p) /\ p \notin Consumed
                   /\ (p = "wait" => req[h].op \in Gated) /\ (p = "hash" => pc[h] = "wait")
        <4>1. CASE ReadCredentials(h)
          BY <4>1 DEF ReadCredentials, Consumed
        <4>2. CASE TakeSlot(h)
          BY <4>2 DEF TakeSlot, Consumed
        <4>3. CASE HashRight(h)
          BY <1>0, <4>3 DEF HashRight, AfterHash, Gated, HandlersInv, Consumed
        <4>4. CASE Rehashed(h)
          BY <4>4 DEF Rehashed, Consumed
        <4> QED
          BY <2>4, <4>1, <4>2, <4>3, <4>4
      <3> PICK p : Goto(h, p) /\ p \notin Consumed
                   /\ (p = "wait" => req[h].op \in Gated) /\ (p = "hash" => pc[h] = "wait")
        BY <3>1
      <3>2. Good(p, req[h])
        BY <1>0 DEF HandlersInv
      <3> HIDE DEF Good
      <3> QED
        BY <2>2, <3>2
    <2>5. CASE Authenticate(h) \/ UpdatePassword(h)
      <3>1. \E p, k : Enter(h, p, k) /\ p \in {"authed", "revoke"}
        BY <2>5 DEF Authenticate, UpdatePassword
      <3> QED
        BY <2>1, <3>1 DEF Consumed
    <2>6. CASE ConsumeToken(h)
      <3> PICK t \in tokens :
            Enter(h, "consumed", [NoRequest EXCEPT !.op = "enroll", !.acct = t.acct,
                                    !.cred = [kind |-> "token", id |-> t.id]])
        BY <2>6 DEF ConsumeToken
      <3>1. t.id \in 1..last["token"] /\ UNCHANGED last
        BY <1>0, <2>6 DEF ConsumeToken, KeysInv, UpTo, TypeOK, TokenRow, Id, Table
      <3> QED
        BY <2>1, <3>1 DEF NoRequest
    <2>7. CASE ConsumeChallenge(h)
      <3> PICK c \in challs :
            Enter(h, "consumed", [NoRequest EXCEPT !.op = "verify", !.dev = c.dev,
                                    !.cred = [kind |-> "challenge", id |-> c.id]])
        BY <2>7 DEF ConsumeChallenge
      <3>1. c.id \in 1..last["challenge"] /\ UNCHANGED last
        BY <1>0, <2>7 DEF ConsumeChallenge, KeysInv, UpTo, TypeOK, ChallengeRow, Id, Table
      <3> QED
        BY <2>1, <3>1 DEF NoRequest
    <2>8. CASE GetDevice(h)
      <3> PICK d \in devices : Enter(h, "verifying", [req[h] EXCEPT !.acct = d.acct])
        BY <2>8 DEF GetDevice
      <3>1. [req[h] EXCEPT !.acct = d.acct].cred = req[h].cred /\ pc[h] \in Consumed
        BY <1>0, <2>8 DEF GetDevice, Consumed, Known
      <3> QED
        BY <1>1, <2>1, <3>1
    <2>9. CASE \/ Fail(h) \/ HashWrong(h) \/ CreateAccount(h) \/ IssueToken(h)
               \/ Revoke(h) \/ RevokeFails(h)
               \/ DropAccount(h) \/ CreateDevice(h) \/ CreateSession(h)
               \/ Logout(h) \/ LogoutAll(h) \/ DeleteDevice(h)
      <3>1. Enter(h, "idle", NoRequest)
        BY <2>9
           DEF Fail, HashWrong, CreateAccount, IssueToken, Revoke, RevokeFails, DropAccount,
               CreateDevice, CreateSession, Logout, LogoutAll, DeleteDevice, Done
      <3> QED
        BY <2>1, <3>1 DEF Consumed
    <2> QED
      BY <1>2, <2>3, <2>4, <2>5, <2>6, <2>7, <2>8, <2>9 DEF Handle, Password
  <1>3. \A g \in Request : Good(pc'[g], req'[g])
    <2>1. CASE \E h \in Request : Handle(h) /\ Acts(h)
      BY <1>1, <1>2, <2>1 DEF Acts
    <2>2. CASE UNCHANGED <<pc, req>>
      BY <1>1, <2>2
    <2> QED
      BY <1>0, <2>1, <2>2, OneActs
  <1> QED
    BY <1>3 DEF HandlersInv

-----------------------------------------------------------------------------
(* Keys and references.                                                    *)

\* What a statement may do to a table: remove rows, insert one under the next id, or
\* change one that keeps its id.
Shrinks(rows, rows2, n, m) == rows2 \subseteq rows /\ m = n
Inserts(rows, rows2, n, m) == m = n + 1 /\ \E r : r.id = m /\ rows2 = rows \cup {r}
Changes(rows, rows2, n, m) ==
    /\ m = n
    /\ \E r \in rows : \E q : q.id = r.id /\ rows2 = (rows \ {r}) \cup {q}

\* No statement takes an id twice.
LEMMA KeysKept ==
    ASSUME NEW rows, NEW rows2, NEW n \in Nat, NEW m \in Nat,
           Unique(rows), UpTo(rows, n), \A r \in rows : r.id \in Nat,
           \/ Shrinks(rows, rows2, n, m) \/ Inserts(rows, rows2, n, m)
           \/ Changes(rows, rows2, n, m)
    PROVE  Unique(rows2) /\ UpTo(rows2, m)
  <1>1. CASE Shrinks(rows, rows2, n, m)
    BY <1>1 DEF Shrinks, Unique, UpTo
  <1>2. CASE Inserts(rows, rows2, n, m)
    <2> PICK r : r.id = m /\ rows2 = rows \cup {r}
      BY <1>2 DEF Inserts
    <2>1. m = n + 1 /\ \A x \in rows : x.id # r.id /\ x.id <= m
      BY <1>2 DEF Inserts, UpTo
    <2> QED
      BY <2>1 DEF Unique, UpTo
  <1>3. CASE Changes(rows, rows2, n, m)
    <2> PICK r \in rows : \E q : q.id = r.id /\ rows2 = (rows \ {r}) \cup {q}
      BY <1>3 DEF Changes
    <2> PICK q : q.id = r.id /\ rows2 = (rows \ {r}) \cup {q}
      OBVIOUS
    <2> QED
      BY <1>3 DEF Changes, Unique, UpTo
  <1> QED
    BY <1>1, <1>2, <1>3

\* Only CreateDevice inserts a device, and none is ever changed.
LEMMA DevicesStep ==
    ASSUME TypeOK, [Next]_vars
    PROVE  \/ Shrinks(devices, devices', last["devices"], last'["devices"])
           \/ Inserts(devices, devices', last["devices"], last'["devices"])
  <1>0. last \in [Table -> Nat]
    BY DEF TypeOK
  <1>1. ASSUME NEW h \in Request, CreateDevice(h)
        PROVE  Inserts(devices, devices', last["devices"], last'["devices"])
    <2> DEFINE r == [id |-> NextId("devices"), acct |-> req[h].acct]
    <2>1. r.id = last["devices"] + 1 /\ devices' = devices \cup {r}
      BY <1>1 DEF CreateDevice, NextId
    <2>2. last'["devices"] = last["devices"] + 1
      BY <1>0, <1>1 DEF CreateDevice, Count, Table
    <2> HIDE DEF r
    <2> QED
      BY <2>1, <2>2 DEF Inserts
  <1>2. ASSUME NEW h \in Request, Handle(h), ~CreateDevice(h)
        PROVE  Shrinks(devices, devices', last["devices"], last'["devices"])
    BY <1>0, <1>2
       DEF Shrinks, Handle, Password, Fail, Authenticate, Signup, Login, ReadCredentials, TakeSlot,
           HashRight, HashWrong, Rehashed, CreateAccount, IssueToken, UpdatePassword, Revoke,
           RevokeFails, DropAccount, ConsumeToken, ConsumeChallenge, GetDevice, CreateSession,
           Logout, LogoutAll, DeleteDevice, tables, Count, Table
  <1>3. CASE CreateChallenge \/ Expire \/ Purge \/ UNCHANGED vars
    BY <1>0, <1>3 DEF Shrinks, CreateChallenge, Expire, Purge, vars, tables, Count, Table
  <1> QED
    BY <1>1, <1>2, <1>3 DEF Next

\* A token's row is inserted by IssueToken, and redeeming or expiring it keeps its id.
LEMMA TokensStep ==
    ASSUME TypeOK, [Next]_vars
    PROVE  \/ Shrinks(tokens, tokens', last["token"], last'["token"])
           \/ Inserts(tokens, tokens', last["token"], last'["token"])
           \/ Changes(tokens, tokens', last["token"], last'["token"])
  <1>0. last \in [Table -> Nat] /\ tokens \subseteq TokenRow
    BY DEF TypeOK
  <1>1. ASSUME NEW h \in Request, IssueToken(h)
        PROVE  Inserts(tokens, tokens', last["token"], last'["token"])
    <2> DEFINE r == [id |-> NextId("token"), acct |-> req[h].acct, state |-> "open"]
    <2>1. r.id = last["token"] + 1 /\ tokens' = tokens \cup {r}
      BY <1>1 DEF IssueToken, NextId
    <2>2. last'["token"] = last["token"] + 1
      BY <1>0, <1>1 DEF IssueToken, Count, Table
    <2> HIDE DEF r
    <2> QED
      BY <2>1, <2>2 DEF Inserts
  <1>2. ASSUME NEW t \in tokens, NEW q \in {Used(t), Expired(t)},
               tokens' = (tokens \ {t}) \cup {q}, UNCHANGED last
        PROVE  Changes(tokens, tokens', last["token"], last'["token"])
    <2>1. q.id = t.id
      BY <1>0, <1>2 DEF Used, Expired, TokenRow
    <2> QED
      BY <1>2, <2>1 DEF Changes
  <1>3. ASSUME NEW h \in Request, ConsumeToken(h)
        PROVE  Changes(tokens, tokens', last["token"], last'["token"])
    BY <1>2, <1>3 DEF ConsumeToken
  <1>4. ASSUME NEW h \in Request, Handle(h), ~IssueToken(h), ~ConsumeToken(h)
        PROVE  Shrinks(tokens, tokens', last["token"], last'["token"])
    BY <1>0, <1>4
       DEF Shrinks, Handle, Password, Fail, Authenticate, Signup, Login, ReadCredentials, TakeSlot,
           HashRight, HashWrong, Rehashed, CreateAccount, UpdatePassword, Revoke, RevokeFails,
           DropAccount, CreateDevice, ConsumeChallenge, GetDevice, CreateSession,
           Logout, LogoutAll, DeleteDevice, tables, Count, Table
  <1>5. CASE Expire
    BY <1>2, <1>5 DEF Expire, Shrinks
  <1>6. CASE CreateChallenge \/ Purge \/ UNCHANGED vars
    BY <1>0, <1>6 DEF Shrinks, CreateChallenge, Purge, Unpurged, vars, tables, Count, Table
  <1> QED
    BY <1>1, <1>3, <1>4, <1>5, <1>6 DEF Next

\* The same for challenges.
LEMMA ChallengesStep ==
    ASSUME TypeOK, [Next]_vars
    PROVE  \/ Shrinks(challs, challs', last["challenge"], last'["challenge"])
           \/ Inserts(challs, challs', last["challenge"], last'["challenge"])
           \/ Changes(challs, challs', last["challenge"], last'["challenge"])
  <1>0. last \in [Table -> Nat] /\ challs \subseteq ChallengeRow
    BY DEF TypeOK
  <1>1. CASE CreateChallenge
    <2> PICK d \in devices :
          challs' = challs \cup {[id |-> NextId("challenge"), dev |-> d.id, state |-> "open"]}
      BY <1>1 DEF CreateChallenge
    <2> DEFINE r == [id |-> NextId("challenge"), dev |-> d.id, state |-> "open"]
    <2>1. r.id = last["challenge"] + 1 /\ challs' = challs \cup {r}
      BY DEF NextId
    <2>2. last'["challenge"] = last["challenge"] + 1
      BY <1>0, <1>1 DEF CreateChallenge, Count, Table
    <2> HIDE DEF r
    <2> QED
      BY <2>1, <2>2 DEF Inserts
  <1>2. ASSUME NEW c \in challs, NEW q \in {Used(c), Expired(c)},
               challs' = (challs \ {c}) \cup {q}, UNCHANGED last
        PROVE  Changes(challs, challs', last["challenge"], last'["challenge"])
    <2>1. q.id = c.id
      BY <1>0, <1>2 DEF Used, Expired, ChallengeRow
    <2> QED
      BY <1>2, <2>1 DEF Changes
  <1>3. ASSUME NEW h \in Request, ConsumeChallenge(h)
        PROVE  Changes(challs, challs', last["challenge"], last'["challenge"])
    BY <1>2, <1>3 DEF ConsumeChallenge
  <1>4. ASSUME NEW h \in Request, Handle(h), ~ConsumeChallenge(h)
        PROVE  Shrinks(challs, challs', last["challenge"], last'["challenge"])
    BY <1>0, <1>4
       DEF Shrinks, Handle, Password, Fail, Authenticate, Signup, Login, ReadCredentials, TakeSlot,
           HashRight, HashWrong, Rehashed, CreateAccount, IssueToken, UpdatePassword, Revoke,
           RevokeFails, DropAccount, ConsumeToken, CreateDevice, GetDevice, CreateSession,
           Logout, LogoutAll, DeleteDevice, tables, Count, Table
  <1>5. CASE Expire
    BY <1>2, <1>5 DEF Expire, Shrinks
  <1>6. CASE Purge \/ UNCHANGED vars
    BY <1>0, <1>6 DEF Shrinks, Purge, Unpurged, vars, tables
  <1> QED
    BY <1>1, <1>3, <1>4, <1>5, <1>6 DEF Next

\* Ids stay keys.
LEMMA KeysStep ==
    ASSUME Inductive, [Next]_vars
    PROVE  KeysInv'
  <1>0. TypeOK /\ KeysInv /\ {"devices", "token", "challenge"} \subseteq Table
    BY DEF Inductive, Table
  <1>1. \A t \in Table : last[t] \in Nat /\ last'[t] \in Nat
    BY <1>0, LastGrows
  <1>2. \A r \in devices \cup tokens \cup challs : r.id \in Nat
    BY <1>0 DEF TypeOK, DeviceRow, TokenRow, ChallengeRow, Id
  <1>3. Unique(devices') /\ UpTo(devices', last'["devices"])
    BY <1>0, <1>1, <1>2, DevicesStep, KeysKept DEF KeysInv
  <1>4. Unique(tokens') /\ UpTo(tokens', last'["token"])
    BY <1>0, <1>1, <1>2, TokensStep, KeysKept DEF KeysInv
  <1>5. Unique(challs') /\ UpTo(challs', last'["challenge"])
    BY <1>0, <1>1, <1>2, ChallengesStep, KeysKept DEF KeysInv
  <1> QED
    BY <1>3, <1>4, <1>5 DEF KeysInv, Unique, UpTo

\* A device that verify found is the account's until it is deleted, and nobody else
\* gets its id.
LEMMA VerifyStep ==
    ASSUME Inductive, [Next]_vars
    PROVE  VerifyInv'
  <1>0. /\ TypeOK /\ KeysInv /\ ReferencesHold /\ VerifyInv
        /\ pc \in [Request -> Pc] /\ req \in [Request -> Known]
        /\ devices \subseteq DeviceRow /\ last["devices"] \in Nat /\ last'["devices"] \in Nat
        /\ last["devices"] <= last'["devices"]
    BY LastGrows DEF Inductive, TypeOK, Table
  <1>1. \A d \in devices' : d \in devices \/ d.id > last["devices"]
    BY <1>0, DevicesStep DEF Shrinks, Inserts
  <1> DEFINE Good(p, k) ==
        /\ p \in Consumed => k.dev \in Nat /\ k.dev <= last["devices"]
        /\ p = "verifying" => \A d \in devices : d.id = k.dev => d.acct = k.acct
  <1>2. ASSUME NEW p, NEW k, Good(p, k)
        PROVE  /\ p \in Consumed => k.dev <= last'["devices"]
               /\ p = "verifying" => \A d \in devices' : d.id = k.dev => d.acct = k.acct
    BY <1>0, <1>1, <1>2 DEF Consumed
  <1>3. ASSUME NEW g \in Request
        PROVE  Good(pc[g], req[g])
    BY <1>0 DEF VerifyInv, Known
  <1>4. ASSUME NEW h \in Request, Handle(h)
        PROVE  Good(pc'[h], req'[h])
    <2>1. ASSUME NEW p, NEW k, Enter(h, p, k), Good(p, k)
          PROVE  Good(pc'[h], req'[h])
      <3>1. pc'[h] = p /\ req'[h] = k
        BY <1>0, <2>1 DEF Enter
      <3> HIDE DEF Good
      <3> QED
        BY <2>1, <3>1
    <2>2. CASE ConsumeToken(h)
      <3> PICK t \in tokens :
            Enter(h, "consumed", [NoRequest EXCEPT !.op = "enroll", !.acct = t.acct,
                                    !.cred = [kind |-> "token", id |-> t.id]])
        BY <2>2 DEF ConsumeToken
      <3> DEFINE k == [NoRequest EXCEPT !.op = "enroll", !.acct = t.acct,
                         !.cred = [kind |-> "token", id |-> t.id]]
      <3>1. k.dev = 0 /\ Enter(h, "consumed", k)
        BY DEF NoRequest, NoId
      <3> HIDE DEF k
      <3>2. Good("consumed", k)
        BY <1>0, <3>1
      <3> QED
        BY <2>1, <3>1, <3>2
    <2>3. CASE ConsumeChallenge(h)
      <3> PICK c \in challs :
            Enter(h, "consumed", [NoRequest EXCEPT !.op = "verify", !.dev = c.dev,
                                    !.cred = [kind |-> "challenge", id |-> c.id]])
        BY <2>3 DEF ConsumeChallenge
      <3>1. c.dev \in Nat /\ c.dev <= last["devices"]
        <4> PICK d \in devices : d.id = c.dev
          BY <1>0 DEF ReferencesHold
        <4> QED
          BY <1>0 DEF KeysInv, UpTo, DeviceRow, Id
      <3> DEFINE k == [NoRequest EXCEPT !.op = "verify", !.dev = c.dev,
                         !.cred = [kind |-> "challenge", id |-> c.id]]
      <3>2. k.dev = c.dev /\ Enter(h, "consumed", k)
        BY DEF NoRequest
      <3> HIDE DEF k
      <3>3. Good("consumed", k)
        BY <3>1, <3>2
      <3> QED
        BY <2>1, <3>2, <3>3
    <2>4. CASE GetDevice(h)
      <3> PICK d \in devices :
            d.id = req[h].dev /\ Enter(h, "verifying", [req[h] EXCEPT !.acct = d.acct])
        BY <2>4 DEF GetDevice
      <3> DEFINE k == [req[h] EXCEPT !.acct = d.acct]
      <3>1. k.dev = req[h].dev /\ k.acct = d.acct
        BY <1>0 DEF Known
      <3>2. req[h].dev \in Nat /\ req[h].dev <= last["devices"]
        BY <1>0, <2>4 DEF GetDevice, Consumed, VerifyInv, Known
      <3>3. \A e \in devices : e.id = req[h].dev => e = d
        BY <1>0 DEF KeysInv, Unique
      <3>4. Enter(h, "verifying", k)
        OBVIOUS
      <3> HIDE DEF k
      <3> QED
        BY <2>1, <3>1, <3>2, <3>3, <3>4
    <2>5. CASE \/ Authenticate(h) \/ Signup(h) \/ Login(h) \/ ReadCredentials(h) \/ TakeSlot(h)
               \/ HashRight(h) \/ Rehashed(h) \/ UpdatePassword(h)
      <3>1. pc'[h] \notin Consumed
        <4>0. HandlersInv
          BY DEF Inductive
        <4>1. CASE \/ Authenticate(h) \/ Signup(h) \/ Login(h) \/ UpdatePassword(h)
          BY <1>0, <4>1 DEF Authenticate, Signup, Login, UpdatePassword, Enter, Consumed
        <4>2. CASE ReadCredentials(h) \/ TakeSlot(h) \/ Rehashed(h)
          BY <1>0, <4>2 DEF ReadCredentials, TakeSlot, Rehashed, Goto, Consumed
        <4>3. CASE HashRight(h)
          BY <1>0, <4>0, <4>3 DEF HashRight, AfterHash, Goto, HandlersInv, Gated, Consumed
        <4> QED
          BY <2>5, <4>1, <4>2, <4>3
      <3> QED
        BY <3>1 DEF Consumed
    <2>6. CASE \/ Fail(h) \/ HashWrong(h) \/ CreateAccount(h) \/ IssueToken(h)
               \/ Revoke(h) \/ RevokeFails(h)
               \/ DropAccount(h) \/ CreateDevice(h) \/ CreateSession(h)
               \/ Logout(h) \/ LogoutAll(h) \/ DeleteDevice(h)
      <3>1. Enter(h, "idle", NoRequest)
        BY <2>6
           DEF Fail, HashWrong, CreateAccount, IssueToken, Revoke, RevokeFails, DropAccount,
               CreateDevice, CreateSession, Logout, LogoutAll, DeleteDevice, Done
      <3> QED
        BY <2>1, <3>1 DEF Consumed
    <2> QED
      BY <1>4, <2>2, <2>3, <2>4, <2>5, <2>6 DEF Handle, Password
  <1>5. \A g \in Request : Good(pc'[g], req'[g])
    <2>1. CASE \E h \in Request : Handle(h) /\ Acts(h)
      BY <1>3, <1>4, <2>1 DEF Acts
    <2>2. CASE UNCHANGED <<pc, req>>
      BY <1>3, <2>2
    <2> QED
      BY <1>0, <2>1, <2>2, OneActs
  <1> HIDE DEF Good
  <1>6. ASSUME NEW g \in Request
        PROVE  /\ pc'[g] \in Consumed => req'[g].dev <= last'["devices"]
               /\ pc'[g] = "verifying" =>
                    \A d \in devices' : d.id = req'[g].dev => d.acct = req'[g].acct
    BY <1>2, <1>5
  <1> QED
    BY <1>6 DEF VerifyInv

\* Rows go with what they hang on, and are inserted only under what is there.
LEMMA ReferencesStep ==
    ASSUME Inductive, [Next]_vars
    PROVE  ReferencesHold'
  <1>0. /\ TypeOK /\ KeysInv /\ ReferencesHold /\ VerifyInv
        /\ devices \subseteq DeviceRow /\ tokens \subseteq TokenRow
        /\ challs \subseteq ChallengeRow /\ sessions \subseteq SessionRow
        /\ last["devices"] \in Nat
    BY DEF Inductive, TypeOK, Table
  <1> DEFINE
        Rooted(r, lv) == r.acct \in lv
        Hangs(r, ds) == \E d \in ds : d.id = r.dev
        Own(s, ds) == \A d \in ds : s.dev = d.id => s.acct = d.acct
  <1>1. /\ \A r \in devices \cup tokens \cup sessions : Rooted(r, live)
        /\ \A r \in challs \cup sessions : Hangs(r, devices)
        /\ \A s \in sessions : Own(s, devices)
    BY <1>0 DEF ReferencesHold
  <1>2. ASSUME \A r \in devices' : Rooted(r, live'),
               \A r \in tokens' : Rooted(r, live'),
               \A r \in sessions' : Rooted(r, live'),
               \A r \in challs' : Hangs(r, devices'),
               \A r \in sessions' : Hangs(r, devices') /\ Own(r, devices')
        PROVE  ReferencesHold'
    BY <1>2 DEF ReferencesHold
  \* Rows that stay, on accounts and devices that stay.
  <1>3. ASSUME live \subseteq live', devices' = devices,
               tokens' \subseteq tokens, challs' \subseteq challs, sessions' \subseteq sessions
        PROVE  ReferencesHold'
    BY <1>1, <1>3 DEF ReferencesHold
  <1>4. ASSUME NEW h \in Request,
               \/ Fail(h) \/ Authenticate(h) \/ Signup(h) \/ Login(h) \/ ReadCredentials(h)
               \/ TakeSlot(h) \/ HashRight(h) \/ HashWrong(h) \/ Rehashed(h) \/ CreateAccount(h)
               \/ UpdatePassword(h) \/ Revoke(h) \/ RevokeFails(h) \/ GetDevice(h)
               \/ Logout(h) \/ LogoutAll(h)
        PROVE  ReferencesHold'
    <2>1. /\ live \subseteq live' /\ devices' = devices
          /\ tokens' = tokens /\ challs' = challs /\ sessions' \subseteq sessions
      BY <1>4
         DEF Fail, Authenticate, Signup, Login, ReadCredentials, TakeSlot, HashRight, HashWrong,
             Rehashed, CreateAccount, UpdatePassword, Revoke, RevokeFails, Kept, GetDevice,
             Logout, LogoutAll, tables
    <2> QED
      BY <1>3, <2>1
  <1>5. ASSUME NEW h \in Request, IssueToken(h)
        PROVE  ReferencesHold'
    <2> DEFINE r == [id |-> NextId("token"), acct |-> req[h].acct, state |-> "open"]
    <2>1. r.acct \in live /\ tokens' = tokens \cup {r}
          /\ UNCHANGED <<live, devices, challs, sessions>>
      BY <1>5 DEF IssueToken
    <2> HIDE DEF r
    <2> QED
      BY <1>1, <2>1 DEF ReferencesHold
  <1>6. ASSUME NEW h \in Request, DropAccount(h)
        PROVE  ReferencesHold'
    <2> DEFINE a == req[h].acct
               gone == {d \in devices : d.acct = a}
    <2>1. /\ live' = live \ {a} /\ devices' = devices \ gone
          /\ tokens' = {t \in tokens : t.acct # a}
          /\ challs' = challs \ ChallengesOf(gone)
          /\ sessions' = {s \in sessions \ SessionsOf(gone) : s.acct # a}
      BY <1>6 DEF DropAccount
    <2>2. /\ \A r \in devices' : Rooted(r, live')
          /\ \A r \in tokens' : Rooted(r, live')
          /\ \A r \in sessions' : Rooted(r, live')
      BY <1>1, <2>1
    <2>3. \A r \in challs' : Hangs(r, devices')
      BY <1>1, <2>1 DEF ChallengesOf
    <2>4. \A r \in sessions' : Hangs(r, devices') /\ Own(r, devices')
      BY <1>1, <2>1 DEF SessionsOf
    <2> QED
      BY <1>2, <2>2, <2>3, <2>4
  <1>7. ASSUME NEW h \in Request, DeleteDevice(h)
        PROVE  ReferencesHold'
    <2> PICK d \in devices :
          /\ devices' = devices \ {d}
          /\ challs' = challs \ ChallengesOf({d})
          /\ sessions' = sessions \ SessionsOf({d})
      BY <1>7 DEF DeleteDevice
    <2>1. UNCHANGED <<live, tokens>>
      BY <1>7 DEF DeleteDevice
    <2>2. \A r \in challs' : Hangs(r, devices')
      BY <1>1 DEF ChallengesOf
    <2>3. \A r \in sessions' : Hangs(r, devices') /\ Own(r, devices')
      BY <1>1 DEF SessionsOf
    <2> QED
      BY <1>1, <1>2, <2>1, <2>2, <2>3
  <1>8. ASSUME NEW t \in tokens, NEW q \in {Used(t), Expired(t)},
               tokens' = (tokens \ {t}) \cup {q}, UNCHANGED <<live, devices, challs, sessions>>
        PROVE  ReferencesHold'
    <2>1. q.acct = t.acct
      BY <1>0, <1>8 DEF Used, Expired, TokenRow
    <2> QED
      BY <1>1, <1>8, <2>1 DEF ReferencesHold
  <1>9. ASSUME NEW c \in challs, NEW q \in {Used(c), Expired(c)},
               challs' = (challs \ {c}) \cup {q}, UNCHANGED <<live, devices, tokens, sessions>>
        PROVE  ReferencesHold'
    <2>1. q.dev = c.dev
      BY <1>0, <1>9 DEF Used, Expired, ChallengeRow
    <2> QED
      BY <1>1, <1>9, <2>1 DEF ReferencesHold
  <1>10. ASSUME NEW h \in Request, ConsumeToken(h) \/ ConsumeChallenge(h)
         PROVE  ReferencesHold'
    BY <1>8, <1>9, <1>10 DEF ConsumeToken, ConsumeChallenge
  \* A new device has an id that no session mentions.
  <1>11. ASSUME NEW h \in Request, CreateDevice(h)
         PROVE  ReferencesHold'
    <2> DEFINE r == [id |-> NextId("devices"), acct |-> req[h].acct]
    <2>1. r.acct \in live /\ devices' = devices \cup {r} /\ r.id = last["devices"] + 1
          /\ UNCHANGED <<live, tokens, challs, sessions>>
      BY <1>11 DEF CreateDevice, NextId
    <2> HIDE DEF r
    <2>2. \A s \in sessions : s.dev # r.id
      <3> TAKE s \in sessions
      <3> PICK d \in devices : d.id = s.dev
        BY <1>1
      <3> QED
        BY <1>0, <2>1 DEF KeysInv, UpTo, DeviceRow, Id
    <2> QED
      BY <1>1, <2>1, <2>2 DEF ReferencesHold
  \* The account of a new session is what verify read of its device.
  <1>12. ASSUME NEW h \in Request, CreateSession(h)
         PROVE  ReferencesHold'
    <2> DEFINE r == [id |-> NextId("sessions"), acct |-> req[h].acct, dev |-> req[h].dev,
                     born |-> epoch[req[h].acct], expired |-> FALSE]
    <2>1. r.acct \in live /\ sessions' = sessions \cup {r} /\ r.dev = req[h].dev
          /\ r.acct = req[h].acct /\ pc[h] = "verifying"
          /\ (\E d \in devices : d.id = r.dev)
          /\ UNCHANGED <<live, devices, tokens, challs>>
      BY <1>12 DEF CreateSession, BothThere
    <2> HIDE DEF r
    <2>2. Own(r, devices)
      BY <1>0, <2>1 DEF VerifyInv
    <2> QED
      BY <1>1, <2>1, <2>2 DEF ReferencesHold
  <1>13. CASE CreateChallenge
    <2> PICK d \in devices :
          challs' = challs \cup {[id |-> NextId("challenge"), dev |-> d.id, state |-> "open"]}
      BY <1>13 DEF CreateChallenge
    <2> DEFINE r == [id |-> NextId("challenge"), dev |-> d.id, state |-> "open"]
    <2>1. r.dev = d.id /\ challs' = challs \cup {r}
          /\ UNCHANGED <<live, devices, tokens, sessions>>
      BY <1>13 DEF CreateChallenge
    <2> HIDE DEF r
    <2> QED
      BY <1>1, <2>1 DEF ReferencesHold
  <1>14. CASE Expire
    <2>1. ASSUME NEW s \in sessions,
                 sessions' = (sessions \ {s}) \cup {[s EXCEPT !.expired = TRUE]},
                 UNCHANGED <<live, devices, tokens, challs>>
          PROVE  ReferencesHold'
      <3> DEFINE r == [s EXCEPT !.expired = TRUE]
      <3>1. r.acct = s.acct /\ r.dev = s.dev /\ sessions' = (sessions \ {s}) \cup {r}
        BY <1>0, <2>1 DEF SessionRow
      <3> HIDE DEF r
      <3> QED
        BY <1>1, <2>1, <3>1 DEF ReferencesHold
    <2> QED
      BY <1>8, <1>9, <1>14, <2>1 DEF Expire
  <1>15. CASE Purge \/ UNCHANGED vars
    <2>1. /\ live' = live /\ devices' = devices
          /\ tokens' \subseteq tokens /\ challs' \subseteq challs /\ sessions' \subseteq sessions
      BY <1>15 DEF Purge, Unpurged, vars, tables
    <2> QED
      BY <1>3, <2>1
  <1> QED
    BY <1>4, <1>5, <1>6, <1>7, <1>10, <1>11, <1>12, <1>13, <1>14, <1>15
       DEF Next, Handle, Password

-----------------------------------------------------------------------------
(* Password changes.                                                       *)

\* An account's password is set once and then only replaced.
LEMMA EpochGrows ==
    ASSUME TypeOK, [Next]_vars, NEW a \in Account
    PROVE  epoch[a] \in Nat /\ epoch'[a] \in Nat /\ epoch[a] <= epoch'[a]
  <1>0. epoch \in [Account -> 0..MaxEpoch] /\ MaxEpoch \in Nat /\ live \subseteq Account
    BY AuthAssumption DEF TypeOK
  <1>1. ASSUME NEW h \in Request, CreateAccount(h) \/ UpdatePassword(h)
        PROVE  epoch[a] \in Nat /\ epoch'[a] \in Nat /\ epoch[a] <= epoch'[a]
    BY <1>0, <1>1 DEF CreateAccount, UpdatePassword
  <1>2. ASSUME NEW h \in Request, Handle(h), ~CreateAccount(h), ~UpdatePassword(h)
        PROVE  UNCHANGED epoch
    BY <1>2
       DEF Handle, Password, Fail, Authenticate, Signup, Login, ReadCredentials, TakeSlot,
           HashRight, HashWrong, Rehashed, IssueToken, Revoke, RevokeFails, DropAccount,
           ConsumeToken, CreateDevice, ConsumeChallenge, GetDevice, CreateSession, Logout,
           LogoutAll, DeleteDevice, tables
  <1>3. CASE CreateChallenge \/ Expire \/ Purge \/ UNCHANGED vars
    BY <1>0, <1>3 DEF CreateChallenge, Expire, Purge, vars, tables
  <1> QED
    BY <1>0, <1>1, <1>2, <1>3 DEF Next

\* What a step leaves of the sessions: some of them, one expired, or one more that is
\* of the password the account has.
LEMMA SessionsStep ==
    ASSUME TypeOK, [Next]_vars, NEW s \in sessions'
    PROVE  /\ s.acct \in Account /\ s.born \in Nat
           /\ \/ s.born = epoch[s.acct] /\ UNCHANGED revoked
              \/ \E r \in sessions : r.acct = s.acct /\ r.born = s.born /\ r.id = s.id
  <1>0. sessions \subseteq SessionRow /\ epoch \in [Account -> 0..MaxEpoch] /\ MaxEpoch \in Nat
        /\ live \subseteq Account
    BY AuthAssumption DEF TypeOK
  <1>1. ASSUME s \in sessions
        PROVE  /\ s.acct \in Account /\ s.born \in Nat
               /\ \E r \in sessions : r.acct = s.acct /\ r.born = s.born /\ r.id = s.id
    BY <1>0, <1>1 DEF SessionRow
  <1>2. ASSUME NEW h \in Request, Handle(h), ~CreateSession(h)
        PROVE  s \in sessions
    BY <1>2
       DEF Handle, Password, Fail, Authenticate, Signup, Login, ReadCredentials, TakeSlot,
           HashRight, HashWrong, Rehashed, CreateAccount, UpdatePassword, IssueToken, Revoke,
           RevokeFails, Kept, DropAccount, ConsumeToken, CreateDevice, ConsumeChallenge,
           GetDevice, Logout, LogoutAll, DeleteDevice, tables
  <1>3. ASSUME NEW h \in Request, CreateSession(h), s \notin sessions
        PROVE  s.acct \in Account /\ s.born \in Nat /\ s.born = epoch[s.acct] /\ UNCHANGED revoked
    <2>1. s = [id |-> NextId("sessions"), acct |-> req[h].acct, dev |-> req[h].dev,
               born |-> epoch[req[h].acct], expired |-> FALSE]
          /\ req[h].acct \in live /\ UNCHANGED revoked
      BY <1>3 DEF CreateSession, BothThere
    <2>2. s.acct = req[h].acct /\ s.born = epoch[req[h].acct]
      BY <2>1
    <2>3. s.acct \in Account /\ epoch[s.acct] \in Nat
      BY <1>0, <2>1, <2>2
    <2> QED
      BY <2>1, <2>2, <2>3
  <1>4. ASSUME Expire, s \notin sessions
        PROVE  /\ s.acct \in Account /\ s.born \in Nat
               /\ \E r \in sessions : r.acct = s.acct /\ r.born = s.born /\ r.id = s.id
    <2> PICK r \in sessions : s = [r EXCEPT !.expired = TRUE]
      BY <1>4 DEF Expire
    <2>1. s.acct = r.acct /\ s.born = r.born /\ s.id = r.id /\ r.acct \in Account /\ r.born \in Nat
      BY <1>0 DEF SessionRow
    <2> QED
      BY <2>1
  <1>5. CASE CreateChallenge \/ Purge \/ UNCHANGED vars
    <2>1. s \in sessions
      BY <1>5 DEF CreateChallenge, Purge, vars, tables
    <2> QED
      BY <1>1, <2>1
  <1> QED
    BY <1>1, <1>2, <1>3, <1>4, <1>5 DEF Next

\* A change is recorded when its DeleteSessions goes through, after the password is set.
LEMMA RevokedStep ==
    ASSUME TypeOK, [Next]_vars
    PROVE  \/ UNCHANGED revoked
           \/ \E h \in Request :
                /\ pc[h] = "revoke" /\ Revoke(h)
                /\ revoked' = revoked \cup
                     {[acct |-> req[h].acct, epoch |-> req[h].epoch, sess |-> req[h].sess]}
  <1>1. ASSUME NEW h \in Request, Handle(h), ~Revoke(h)
        PROVE  UNCHANGED revoked
    BY <1>1
       DEF Handle, Password, Fail, Authenticate, Signup, Login, ReadCredentials, TakeSlot,
           HashRight, HashWrong, Rehashed, CreateAccount, UpdatePassword, IssueToken, RevokeFails,
           DropAccount, ConsumeToken, CreateDevice, ConsumeChallenge, GetDevice, CreateSession,
           Logout, LogoutAll, DeleteDevice, history
  <1>2. CASE CreateChallenge \/ Expire \/ Purge \/ UNCHANGED vars
    BY <1>2 DEF CreateChallenge, Expire, Purge, vars, history
  <1>3. ASSUME NEW h \in Request, Revoke(h)
        PROVE  /\ pc[h] = "revoke"
               /\ revoked' = revoked \cup
                    {[acct |-> req[h].acct, epoch |-> req[h].epoch, sess |-> req[h].sess]}
    BY <1>3 DEF Revoke
  <1> QED
    BY <1>1, <1>2, <1>3 DEF Next

\* Nothing gets ahead of the account's password.
LEMMA EpochStep ==
    ASSUME Inductive, [Next]_vars
    PROVE  EpochInv'
  <1>0. /\ TypeOK /\ EpochInv
        /\ pc \in [Request -> Pc] /\ req \in [Request -> Known] /\ live \subseteq Account
        /\ revoked \subseteq [acct : Account, epoch : 0..MaxEpoch, sess : Nat]
        /\ MaxEpoch \in Nat /\ sessions \subseteq SessionRow
    BY AuthAssumption DEF Inductive, TypeOK
  <1>1. \A a \in Account : epoch[a] \in Nat /\ epoch'[a] \in Nat /\ epoch[a] <= epoch'[a]
    BY <1>0, EpochGrows
  <1>2. ASSUME NEW c \in revoked'
        PROVE  c.epoch <= epoch'[c.acct]
    <2>1. CASE c \in revoked
      <3>1. c.acct \in Account /\ c.epoch \in Nat /\ c.epoch <= epoch[c.acct]
        BY <1>0, <2>1 DEF EpochInv
      <3> QED
        BY <1>1, <3>1
    <2>2. ASSUME NEW h \in Request, pc[h] = "revoke",
                 c = [acct |-> req[h].acct, epoch |-> req[h].epoch, sess |-> req[h].sess]
          PROVE  c.epoch <= epoch'[c.acct]
      <3>1. req[h].acct \in Account /\ req[h].epoch <= epoch[req[h].acct] /\ req[h].epoch \in Nat
        BY <1>0, <2>2 DEF EpochInv, Known
      <3> QED
        BY <1>1, <2>2, <3>1
    <2> QED
      BY <1>0, <2>1, <2>2, RevokedStep
  <1>3. ASSUME NEW s \in sessions'
        PROVE  s.born <= epoch'[s.acct]
    <2>1. /\ s.acct \in Account /\ s.born \in Nat
          /\ \/ s.born = epoch[s.acct]
             \/ \E r \in sessions : r.acct = s.acct /\ r.born = s.born
      BY <1>0, SessionsStep
    <2>2. s.born <= epoch[s.acct]
      BY <1>0, <1>1, <2>1 DEF EpochInv
    <2> QED
      BY <1>1, <2>1, <2>2
  <1> DEFINE Good(p, k) == p = "revoke" => k.acct \in Account /\ k.epoch <= epoch'[k.acct]
  <1>4. ASSUME NEW g \in Request
        PROVE  Good(pc[g], req[g])
    <2>1. req[g].epoch \in Nat
      BY <1>0 DEF Known
    <2> QED
      BY <1>0, <1>1, <2>1 DEF EpochInv
  <1>5. ASSUME NEW h \in Request, Handle(h)
        PROVE  Good(pc'[h], req'[h])
    <2>1. CASE UpdatePassword(h)
      <3> DEFINE a == req[h].acct
      <3>1. a \in Account /\ pc'[h] = "revoke" /\ req'[h] = [req[h] EXCEPT !.epoch = epoch'[a]]
        BY <1>0, <2>1 DEF UpdatePassword, Enter
      <3>2. req'[h].acct = a /\ req'[h].epoch = epoch'[a]
        BY <1>0, <3>1 DEF Known
      <3> QED
        BY <1>1, <3>1, <3>2
    <2>2. CASE ~UpdatePassword(h)
      <3>1. \/ \E p \in Pc \ {"revoke"}, k \in {req'[h]} : Enter(h, p, k)
            \/ \E p \in Pc \ {"revoke"} : Goto(h, p)
        <4>1. CASE \/ Authenticate(h) \/ Signup(h) \/ Login(h) \/ ConsumeToken(h)
                   \/ ConsumeChallenge(h) \/ GetDevice(h)
          <5>1. pc'[h] # "revoke"
            BY <1>0, <4>1
               DEF Authenticate, Signup, Login, ConsumeToken, ConsumeChallenge, GetDevice, Enter
          <5>2. \E p \in Pc \ {"revoke"} : \E k : Enter(h, p, k)
            BY <4>1
               DEF Authenticate, Signup, Login, ConsumeToken, ConsumeChallenge, GetDevice, Pc,
                   Consumed
          <5>3. ASSUME NEW p, NEW k, Enter(h, p, k)
                PROVE  Enter(h, p, req'[h])
            BY <1>0, <5>3 DEF Enter
          <5> QED
            BY <5>2, <5>3
        <4>2. CASE ReadCredentials(h) \/ TakeSlot(h) \/ HashRight(h) \/ Rehashed(h)
          <5>1. req[h].op \in {"signup", "login"} \cup Gated \/ pc[h] # "hash"
            BY DEF Inductive, HandlersInv
          <5> QED
            BY <4>2, <5>1
               DEF ReadCredentials, TakeSlot, HashRight, AfterHash, Rehashed, Gated, Pc, Hashing
        <4>3. CASE \/ Fail(h) \/ HashWrong(h) \/ CreateAccount(h) \/ IssueToken(h)
                   \/ Revoke(h) \/ RevokeFails(h)
                   \/ DropAccount(h) \/ CreateDevice(h) \/ CreateSession(h)
                   \/ Logout(h) \/ LogoutAll(h) \/ DeleteDevice(h)
          <5>1. Enter(h, "idle", NoRequest)
            BY <4>3
               DEF Fail, HashWrong, CreateAccount, IssueToken, Revoke, RevokeFails,
                   DropAccount, CreateDevice, CreateSession, Logout, LogoutAll, DeleteDevice, Done
          <5>2. req'[h] = NoRequest
            BY <1>0, <5>1 DEF Enter
          <5> QED
            BY <5>1, <5>2 DEF Pc
        <4> QED
          BY <1>5, <2>2, <4>1, <4>2, <4>3 DEF Handle, Password
      <3>2. pc'[h] # "revoke"
        BY <1>0, <3>1 DEF Enter, Goto
      <3> QED
        BY <3>2
    <2> QED
      BY <2>1, <2>2
  <1>6. \A g \in Request : Good(pc'[g], req'[g])
    <2>1. CASE \E h \in Request : Handle(h) /\ Acts(h)
      BY <1>4, <1>5, <2>1 DEF Acts
    <2>2. CASE UNCHANGED <<pc, req>>
      BY <1>4, <2>2
    <2> QED
      BY <1>0, <2>1, <2>2, OneActs
  <1> QED
    BY <1>2, <1>3, <1>6 DEF EpochInv

\* An older session than a password change that revoked the others is the caller's: the
\* change leaves no other, and what is made after it is of its password or a newer one.
LEMMA CallerStaysStep ==
    ASSUME Inductive, [Next]_vars
    PROVE  OnlyCallerStays'
  <1>0. /\ TypeOK /\ EpochInv /\ OnlyCallerStays
        /\ revoked \subseteq [acct : Account, epoch : 0..MaxEpoch, sess : Nat]
        /\ MaxEpoch \in Nat /\ epoch \in [Account -> 0..MaxEpoch]
    BY AuthAssumption DEF Inductive, TypeOK
  <1> SUFFICES ASSUME NEW s \in sessions', NEW c \in revoked', s.acct = c.acct, s.born < c.epoch
               PROVE  s.id = c.sess
    BY DEF OnlyCallerStays
  <1>1. /\ s.acct \in Account /\ s.born \in Nat
        /\ \/ s.born = epoch[s.acct] /\ UNCHANGED revoked
           \/ \E r \in sessions : r.acct = s.acct /\ r.born = s.born /\ r.id = s.id
    BY <1>0, SessionsStep
  <1>2. CASE c \in revoked
    <2>1. c.epoch <= epoch[c.acct] /\ c.epoch \in Nat /\ epoch[c.acct] \in Nat
      BY <1>0, <1>2 DEF EpochInv
    <2>2. CASE s.born = epoch[s.acct]
      BY <2>1, <2>2
    <2>3. CASE \E r \in sessions : r.acct = s.acct /\ r.born = s.born /\ r.id = s.id
      BY <1>0, <1>2, <2>3 DEF OnlyCallerStays
    <2> QED
      BY <1>1, <2>2, <2>3
  <1>3. ASSUME NEW h \in Request, Revoke(h),
               c = [acct |-> req[h].acct, epoch |-> req[h].epoch, sess |-> req[h].sess]
        PROVE  s.id = c.sess
    BY <1>3 DEF Revoke, Kept
  <1> QED
    BY <1>0, <1>2, <1>3, RevokedStep

-----------------------------------------------------------------------------
(* Credentials.                                                            *)

\* Open credentials follow the rows: an insert opens one, an update of used or the
\* time closes one, a delete some.
LEMMA CredsOfRows ==
    ASSUME NEW kind, NEW rows
    PROVE  /\ \A rows2 \in SUBSET rows : Creds(kind, rows2) \subseteq Creds(kind, rows)
           /\ \A q : Redeemable(q) =>
                Creds(kind, rows \cup {q}) = Creds(kind, rows) \cup {[kind |-> kind, id |-> q.id]}
           /\ \A r \in rows : \A q : ~Redeemable(q) =>
                Creds(kind, (rows \ {r}) \cup {q}) \subseteq Creds(kind, rows)
           /\ \A r \in rows : \A q : Unique(rows) /\ Redeemable(r) /\ ~Redeemable(q) =>
                /\ [kind |-> kind, id |-> r.id] \in Creds(kind, rows)
                /\ Creds(kind, (rows \ {r}) \cup {q})
                     = Creds(kind, rows) \ {[kind |-> kind, id |-> r.id]}
  <1>0. \A any, c : c \in Creds(kind, any) <=>
          \E r \in any : Redeemable(r) /\ c = [kind |-> kind, id |-> r.id]
    BY DEF Creds
  <1>1. \A rows2 \in SUBSET rows : Creds(kind, rows2) \subseteq Creds(kind, rows)
    BY DEF Creds
  <1>2. ASSUME NEW q, Redeemable(q)
        PROVE  Creds(kind, rows \cup {q}) = Creds(kind, rows) \cup {[kind |-> kind, id |-> q.id]}
    <2> HIDE DEF Redeemable, Creds
    <2>1. \A c : c \in Creds(kind, rows \cup {q}) <=>
                 c \in Creds(kind, rows) \/ c = [kind |-> kind, id |-> q.id]
      BY <1>0, <1>2
    <2> QED
      BY <2>1
  <1>3. ASSUME NEW r \in rows, NEW q, ~Redeemable(q)
        PROVE  Creds(kind, (rows \ {r}) \cup {q}) \subseteq Creds(kind, rows)
    BY <1>0, <1>3
  <1>4. ASSUME NEW r \in rows, NEW q, Unique(rows), Redeemable(r), ~Redeemable(q)
        PROVE  /\ [kind |-> kind, id |-> r.id] \in Creds(kind, rows)
               /\ Creds(kind, (rows \ {r}) \cup {q})
                    = Creds(kind, rows) \ {[kind |-> kind, id |-> r.id]}
    <2>1. [kind |-> kind, id |-> r.id] \in Creds(kind, rows)
      BY <1>0, <1>4
    <2>2. \A x \in rows :
            [kind |-> kind, id |-> x.id] = [kind |-> kind, id |-> r.id] <=> x = r
      BY <1>4 DEF Unique
    <2>3. \A c : c \in Creds(kind, (rows \ {r}) \cup {q}) <=>
                 c \in Creds(kind, rows) /\ c # [kind |-> kind, id |-> r.id]
      BY <1>0, <1>4, <2>2
    <2> QED
      BY <2>1, <2>3
  <1> QED
    BY <1>1, <1>2, <1>3, <1>4

\* IssueToken and CreateChallenge open the next credential of their kind.
LEMMA IssueOpens ==
    ASSUME TypeOK, NEW kind \in {"token", "challenge"},
           \/ kind = "token" /\ \E h \in Request : IssueToken(h)
           \/ kind = "challenge" /\ CreateChallenge
    PROVE  /\ OpenCreds' = OpenCreds \cup {[kind |-> kind, id |-> last[kind] + 1]}
           /\ last' = [last EXCEPT ![kind] = @ + 1]
           /\ last[kind] < [token |-> MaxTokens, challenge |-> MaxChallenges][kind]
  <1>1. CASE kind = "token" /\ \E h \in Request : IssueToken(h)
    <2> PICK h \in Request : IssueToken(h)
      BY <1>1
    <2> DEFINE q == [id |-> NextId("token"), acct |-> req[h].acct, state |-> "open"]
    <2>1. tokens' = tokens \cup {q} /\ challs' = challs
      BY DEF IssueToken
    <2>2. Redeemable(q) /\ q.id = last["token"] + 1
      BY DEF Redeemable, NextId
    <2> HIDE DEF q
    <2>3. Creds("token", tokens')
            = Creds("token", tokens) \cup {[kind |-> "token", id |-> last["token"] + 1]}
      BY <2>1, <2>2, CredsOfRows
    <2> QED
      BY <1>1, <2>1, <2>3 DEF IssueToken, Count, OpenCreds
  <1>2. CASE kind = "challenge" /\ CreateChallenge
    <2> PICK d \in devices :
          challs' = challs \cup {[id |-> NextId("challenge"), dev |-> d.id, state |-> "open"]}
      BY <1>2 DEF CreateChallenge
    <2> DEFINE q == [id |-> NextId("challenge"), dev |-> d.id, state |-> "open"]
    <2>1. challs' = challs \cup {q} /\ tokens' = tokens
      BY <1>2 DEF CreateChallenge
    <2>2. Redeemable(q) /\ q.id = last["challenge"] + 1
      BY DEF Redeemable, NextId
    <2> HIDE DEF q
    <2>3. Creds("challenge", challs')
            = Creds("challenge", challs) \cup {[kind |-> "challenge", id |-> last["challenge"] + 1]}
      BY <2>1, <2>2, CredsOfRows
    <2> QED
      BY <1>2, <2>1, <2>3 DEF CreateChallenge, Count, OpenCreds
  <1> QED
    BY <1>1, <1>2

\* The UPDATE ... WHERE NOT used: one handler gets an open credential, which closes.
LEMMA ConsumeCloses ==
    ASSUME TypeOK, KeysInv, NEW h \in Request, ConsumeToken(h) \/ ConsumeChallenge(h)
    PROVE  /\ pc[h] = "idle" /\ pc'[h] = "consumed"
           /\ req'[h].cred \in OpenCreds
           /\ OpenCreds' = OpenCreds \ {req'[h].cred}
           /\ UNCHANGED <<last, made>>
  <1>0. tokens \subseteq TokenRow /\ challs \subseteq ChallengeRow
        /\ pc \in [Request -> Pc] /\ req \in [Request -> Known]
    BY DEF TypeOK
  <1>1. CASE ConsumeToken(h)
    <2> PICK t \in tokens :
          /\ Redeemable(t)
          /\ tokens' = (tokens \ {t}) \cup {Used(t)}
          /\ Enter(h, "consumed", [NoRequest EXCEPT !.op = "enroll", !.acct = t.acct,
                                     !.cred = [kind |-> "token", id |-> t.id]])
      BY <1>1 DEF ConsumeToken
    <2>1. req'[h].cred = [kind |-> "token", id |-> t.id] /\ pc'[h] = "consumed"
      BY <1>0 DEF Enter, NoRequest
    <2>2. ~Redeemable(Used(t))
      BY <1>0 DEF Used, Redeemable, TokenRow
    <2>3. /\ [kind |-> "token", id |-> t.id] \in Creds("token", tokens)
          /\ Creds("token", tokens')
               = Creds("token", tokens) \ {[kind |-> "token", id |-> t.id]}
      BY <2>2, CredsOfRows DEF KeysInv
    <2>4. [kind |-> "token", id |-> t.id] \notin Creds("challenge", challs)
      BY DEF Creds
    <2>5. pc[h] = "idle" /\ UNCHANGED <<last, made, challs>>
      BY <1>1 DEF ConsumeToken, history
    <2> QED
      BY <2>1, <2>3, <2>4, <2>5 DEF OpenCreds
  <1>2. CASE ConsumeChallenge(h)
    <2> PICK c \in challs :
          /\ Redeemable(c)
          /\ challs' = (challs \ {c}) \cup {Used(c)}
          /\ Enter(h, "consumed", [NoRequest EXCEPT !.op = "verify", !.dev = c.dev,
                                     !.cred = [kind |-> "challenge", id |-> c.id]])
      BY <1>2 DEF ConsumeChallenge
    <2>1. req'[h].cred = [kind |-> "challenge", id |-> c.id] /\ pc'[h] = "consumed"
      BY <1>0 DEF Enter, NoRequest
    <2>2. ~Redeemable(Used(c))
      BY <1>0 DEF Used, Redeemable, ChallengeRow
    <2>3. /\ [kind |-> "challenge", id |-> c.id] \in Creds("challenge", challs)
          /\ Creds("challenge", challs')
               = Creds("challenge", challs) \ {[kind |-> "challenge", id |-> c.id]}
      BY <2>2, CredsOfRows DEF KeysInv
    <2>4. [kind |-> "challenge", id |-> c.id] \notin Creds("token", tokens)
      BY DEF Creds
    <2>5. pc[h] = "idle" /\ UNCHANGED <<last, made, tokens>>
      BY <1>2 DEF ConsumeChallenge, history
    <2> QED
      BY <2>1, <2>3, <2>4, <2>5 DEF OpenCreds
  <1> QED
    BY <1>1, <1>2

Issues == CreateChallenge \/ \E h \in Request : IssueToken(h)

Consumes(h) == ConsumeToken(h) \/ ConsumeChallenge(h)

\* All other statements open nothing.
LEMMA OthersClose ==
    ASSUME TypeOK, [Next]_vars, ~Issues, \A h \in Request : ~Consumes(h)
    PROVE  /\ OpenCreds' \subseteq OpenCreds
           /\ \A kind \in {"token", "challenge"} : last'[kind] = last[kind]
  <1>0. /\ tokens \subseteq TokenRow /\ challs \subseteq ChallengeRow /\ last \in [Table -> Nat]
    BY DEF TypeOK
  <1>1. ASSUME tokens' \subseteq tokens, challs' \subseteq challs
        PROVE  OpenCreds' \subseteq OpenCreds
    <2>1. /\ Creds("token", tokens') \subseteq Creds("token", tokens)
          /\ Creds("challenge", challs') \subseteq Creds("challenge", challs)
      BY <1>1, CredsOfRows
    <2> QED
      BY <2>1 DEF OpenCreds
  <1>2. ASSUME NEW h \in Request, Handle(h)
        PROVE  /\ tokens' \subseteq tokens /\ challs' \subseteq challs
               /\ \A kind \in {"token", "challenge"} : last'[kind] = last[kind]
    <2>1. CASE CreateDevice(h) \/ CreateSession(h)
      BY <1>0, <2>1 DEF CreateDevice, CreateSession, Count, Table
    <2>2. CASE ~(CreateDevice(h) \/ CreateSession(h))
      BY <1>2, <2>2
         DEF Issues, Consumes, Handle, Password, Fail, Authenticate, Signup, Login,
             ReadCredentials, TakeSlot, HashRight, HashWrong, Rehashed, CreateAccount,
             UpdatePassword, Revoke, RevokeFails, DropAccount, GetDevice, Logout, LogoutAll,
             DeleteDevice, tables
    <2> QED
      BY <2>1, <2>2
  <1>3. CASE Expire
    <2>1. \A r \in tokens : ~Redeemable(Expired(r))
      BY <1>0 DEF Expired, Redeemable, TokenRow
    <2>2. \A r \in challs : ~Redeemable(Expired(r))
      BY <1>0 DEF Expired, Redeemable, ChallengeRow
    <2>3. UNCHANGED last /\ \/ tokens' \subseteq tokens /\ challs' \subseteq challs
                            \/ /\ challs' = challs
                               /\ \E r \in tokens : tokens' = (tokens \ {r}) \cup {Expired(r)}
                            \/ /\ tokens' = tokens
                               /\ \E r \in challs : challs' = (challs \ {r}) \cup {Expired(r)}
      BY <1>3 DEF Expire
    <2>4. /\ Creds("token", tokens') \subseteq Creds("token", tokens)
          /\ Creds("challenge", challs') \subseteq Creds("challenge", challs)
      BY <2>1, <2>2, <2>3, CredsOfRows
    <2> QED
      BY <2>3, <2>4 DEF OpenCreds
  <1>4. CASE Purge \/ UNCHANGED vars
    BY <1>1, <1>4 DEF Purge, Unpurged, vars, tables
  <1> QED
    BY <1>1, <1>2, <1>3, <1>4 DEF Next, Issues

Ends(h) == Fail(h) \/ CreateDevice(h) \/ CreateSession(h)

\* A handler keeps what it redeemed until it ends.
LEMMA HoldsStep ==
    ASSUME Inductive, [Next]_vars, NEW g \in Request, ~Consumes(g), ~Ends(g)
    PROVE  /\ pc'[g] \in Consumed <=> pc[g] \in Consumed
           /\ pc[g] \in Consumed => req'[g].cred = req[g].cred
  <1>0. TypeOK /\ HandlersInv /\ pc \in [Request -> Pc] /\ req \in [Request -> Known]
    BY DEF Inductive, TypeOK
  <1>1. CASE Handle(g)
    <2>1. CASE GetDevice(g)
      <3> PICK d \in devices : Enter(g, "verifying", [req[g] EXCEPT !.acct = d.acct])
        BY <2>1 DEF GetDevice
      <3> QED
        BY <1>0, <2>1 DEF GetDevice, Enter, Consumed, Known
    <2>2. CASE Authenticate(g) \/ Signup(g) \/ Login(g) \/ UpdatePassword(g)
      BY <1>0, <2>2 DEF Authenticate, Signup, Login, UpdatePassword, Enter, Consumed
    <2>3. CASE ReadCredentials(g) \/ TakeSlot(g) \/ Rehashed(g)
      BY <1>0, <2>3 DEF ReadCredentials, TakeSlot, Rehashed, Goto, Consumed
    <2>4. CASE HashRight(g)
      BY <1>0, <2>4 DEF HashRight, AfterHash, Goto, HandlersInv, Gated, Consumed
    <2>5. CASE \/ HashWrong(g) \/ CreateAccount(g) \/ IssueToken(g)
               \/ Revoke(g) \/ RevokeFails(g)
               \/ DropAccount(g) \/ Logout(g) \/ LogoutAll(g) \/ DeleteDevice(g)
      BY <1>0, <2>5
         DEF HashWrong, CreateAccount, IssueToken, Revoke, RevokeFails, DropAccount, Logout,
             LogoutAll, DeleteDevice, Done, Enter, Consumed
    <2> QED
      BY <1>1, <2>1, <2>2, <2>3, <2>4, <2>5 DEF Handle, Password, Consumes, Ends
  <1>2. CASE pc'[g] = pc[g] /\ req'[g] = req[g]
    BY <1>2
  <1> QED
    BY <1>0, <1>1, <1>2, OneActs DEF Acts

\* Of the handlers that redeem or end, there is one.
LEMMA OneEnds ==
    ASSUME TypeOK, [Next]_vars, NEW h \in Request, Consumes(h) \/ Ends(h), pc'[h] # pc[h]
    PROVE  \A g \in Request \ {h} : pc'[g] = pc[g] /\ req'[g] = req[g]
  BY OneActs DEF Acts

\* What ends a handler leaves it with nothing.
LEMMA EndsIdle ==
    ASSUME TypeOK, NEW h \in Request, Ends(h)
    PROVE  pc'[h] = "idle" /\ pc[h] # "idle" /\ req'[h] = NoRequest
  BY DEF Ends, Fail, CreateDevice, CreateSession, Done, Enter, TypeOK

\* A credential that a handler redeemed was open until then and never is again.
LEMMA CredsStep ==
    ASSUME Inductive, [Next]_vars
    PROVE  CredsInv'
  <1>0. TypeOK /\ KeysInv /\ HandlersInv /\ CredsInv
        /\ last["token"] \in Nat /\ last["challenge"] \in Nat
    BY DEF Inductive, TypeOK, Table
  <1>1. CASE \E h \in Request : Consumes(h)
    <2> PICK h \in Request : Consumes(h)
      BY <1>1
    <2> DEFINE c == req'[h].cred
    <2>1. /\ pc[h] = "idle" /\ pc'[h] = "consumed"
          /\ c \in OpenCreds /\ OpenCreds' = OpenCreds \ {c}
      BY <1>0, ConsumeCloses DEF Consumes
    <2>2. \A g \in Request \ {h} : pc'[g] = pc[g] /\ req'[g] = req[g]
      BY <1>0, <2>1, OneEnds
    <2>3. \A g \in Request \ {h} : pc'[g] \in Consumed =>
            req'[g].cred # c /\ req'[g].cred \notin OpenCreds
      BY <1>0, <2>1, <2>2 DEF CredsInv
    <2>4. \A g, f \in Request \ {h} : pc'[g] \in Consumed /\ pc'[f] \in Consumed /\ f # g =>
            req'[g].cred # req'[f].cred
      BY <1>0, <2>2 DEF CredsInv
    <2> QED
      BY <2>1, <2>3, <2>4 DEF CredsInv
  <1>2. CASE ~\E h \in Request : Consumes(h)
    <2>1. \A g \in Request : pc'[g] \in Consumed =>
            pc[g] \in Consumed /\ req'[g].cred = req[g].cred
      <3> TAKE g \in Request
      <3>1. CASE Ends(g)
        BY <1>0, <3>1, EndsIdle DEF Consumed
      <3>2. CASE ~Ends(g)
        BY <1>2, <3>2, HoldsStep
      <3> QED
        BY <3>1, <3>2
    <2>2. ASSUME NEW g \in Request, pc[g] \in Consumed
          PROVE  req[g].cred \notin OpenCreds'
      <3>1. req[g].cred \notin OpenCreds
        BY <1>0, <2>2 DEF CredsInv
      <3>2. CASE Issues
        <4> PICK kind \in {"token", "challenge"} :
              OpenCreds' = OpenCreds \cup {[kind |-> kind, id |-> last[kind] + 1]}
          BY <1>0, <3>2, IssueOpens DEF Issues
        <4>1. req[g].cred.id <= last[req[g].cred.kind]
          BY <1>0, <2>2 DEF HandlersInv
        <4>2. req[g].cred # [kind |-> kind, id |-> last[kind] + 1]
          BY <1>0, <4>1
        <4> QED
          BY <3>1, <4>2
      <3>3. CASE ~Issues
        BY <1>0, <1>2, <3>1, <3>3, OthersClose
      <3> QED
        BY <3>2, <3>3
    <2>3. \A g \in Request : pc'[g] \in Consumed => req'[g].cred \notin OpenCreds'
      BY <2>1, <2>2
    <2>4. \A g, f \in Request : pc'[g] \in Consumed /\ pc'[f] \in Consumed /\ f # g =>
            req'[g].cred # req'[f].cred
      BY <1>0, <2>1 DEF CredsInv
    <2> QED
      BY <2>3, <2>4 DEF CredsInv
  <1> QED
    BY <1>1, <1>2

-----------------------------------------------------------------------------
(* Theorems.                                                               *)

\* The whole invariant, of every behaviour.
THEOREM InductiveInvariant == Spec => []Inductive
  <1>1. Inductive /\ [Next]_vars => Inductive'
    <2> SUFFICES ASSUME Inductive, [Next]_vars PROVE Inductive'
      OBVIOUS
    <2> QED
      BY SlotsStep, TypeStep, HandlersStep, KeysStep, VerifyStep, ReferencesStep, EpochStep,
         CallerStaysStep, CredsStep
         DEF Inductive
  <1> QED
    BY <1>1, InitInductive, PTL DEF Spec

\* Ids, passwords, rows and what handlers know have their types.
THEOREM TypeCorrect == Spec => []TypeOK
  <1>1. Inductive => TypeOK
    BY DEF Inductive
  <1> QED
    BY <1>1, InductiveInvariant, PTL

\* The hashing slots taken are those of the handlers that hash, for any number of
\* slots and handlers (withArgon).
THEOREM SlotsSafe == Spec => []SlotsExact
  <1>1. Inductive => SlotsExact
    BY DEF Inductive
  <1> QED
    BY <1>1, InductiveInvariant, PTL

\* Rows hang on rows, and a session on a device of its own account, for any number of
\* accounts and devices (migrations/0001, handleVerify).
THEOREM ReferencesSafe == Spec => []ReferencesHold
  <1>1. Inductive => ReferencesHold
    BY DEF Inductive
  <1> QED
    BY <1>1, InductiveInvariant, PTL

\* A password change whose DeleteSessions went through leaves the caller's session and
\* no other older one, for good (handleChangePassword).
THEOREM CallerStaysSafe == Spec => []OnlyCallerStays
  <1>1. Inductive => OnlyCallerStays
    BY DEF Inductive
  <1> QED
    BY <1>1, InductiveInvariant, PTL

-----------------------------------------------------------------------------
(* Auth implements Credentials.                                            *)

Issued == [k \in {"token", "challenge"} |-> last[k]]
Held == {req[h].cred : h \in {x \in Request : pc[x] \in Consumed}}

\* A step that redeems nothing and ends no redeeming handler leaves what is held.
LEMMA HeldStays ==
    ASSUME Inductive, [Next]_vars,
           \A g \in Request : ~Consumes(g) /\ (Ends(g) => pc[g] \notin Consumed)
    PROVE  Held' = Held
  <1>1. \A g \in Request : /\ pc'[g] \in Consumed <=> pc[g] \in Consumed
                           /\ pc[g] \in Consumed => req'[g].cred = req[g].cred
    <2> TAKE g \in Request
    <2>1. CASE Ends(g)
      BY <2>1, EndsIdle DEF Inductive, Consumed
    <2>2. CASE ~Ends(g)
      BY <2>2, HoldsStep
    <2> QED
      BY <2>1, <2>2
  <1>2. \A c : c \in Held' <=> c \in Held
    BY <1>1 DEF Held
  <1> QED
    BY <1>2

\* The end of a handler that redeemed a credential.
LEMMA EndsMaps ==
    ASSUME Inductive, [Next]_vars, NEW h \in Request, Ends(h), pc[h] \in Consumed
    PROVE  /\ req[h].cred \in Held /\ Held' = Held \ {req[h].cred}
           /\ UNCHANGED <<Issued, OpenCreds>>
           /\ made' \in {made, made \cup {req[h].cred}}
  <1>0. TypeOK /\ CredsInv /\ last \in [Table -> Nat]
    BY DEF Inductive, TypeOK
  <1>1. pc'[h] = "idle" /\ \A g \in Request \ {h} : pc'[g] = pc[g] /\ req'[g] = req[g]
    BY <1>0, EndsIdle, OneEnds
  <1>2. \A c : c \in Held' <=> c \in Held /\ c # req[h].cred
    <2>1. \A g \in Request : pc'[g] \in Consumed <=> pc[g] \in Consumed /\ g # h
      BY <1>1 DEF Consumed
    <2>2. \A g \in Request : pc[g] \in Consumed /\ g # h => req[g].cred # req[h].cred
      BY <1>0 DEF CredsInv
    <2> QED
      BY <1>1, <2>1, <2>2 DEF Held
  <1>3. req[h].cred \in Held
    BY DEF Held
  <1>4. /\ UNCHANGED <<tokens, challs>> /\ last'["token"] = last["token"]
        /\ last'["challenge"] = last["challenge"]
        /\ made' \in {made, made \cup {req[h].cred}}
    BY <1>0 DEF Ends, Fail, CreateDevice, CreateSession, Count, Table, tables, history
  <1> QED
    BY <1>2, <1>3, <1>4 DEF Issued, OpenCreds

\* Only the statements that make a device or a session record a credential as borne.
LEMMA MadeStays ==
    ASSUME [Next]_vars, \A h \in Request : ~CreateDevice(h) /\ ~CreateSession(h)
    PROVE  UNCHANGED made
  <1>1. ASSUME NEW h \in Request, Handle(h)
        PROVE  UNCHANGED made
    BY <1>1
       DEF Handle, Password, Fail, Authenticate, Signup, Login, ReadCredentials, TakeSlot,
           HashRight, HashWrong, Rehashed, CreateAccount, UpdatePassword, IssueToken, Revoke,
           RevokeFails, DropAccount, ConsumeToken, ConsumeChallenge, GetDevice, Logout,
           LogoutAll, DeleteDevice, history
  <1>2. CASE CreateChallenge \/ Expire \/ Purge \/ UNCHANGED vars
    BY <1>2 DEF CreateChallenge, Expire, Purge, vars, history
  <1> QED
    BY <1>1, <1>2 DEF Next

\* Every step of the handlers is a step that Credentials allows, or none.
LEMMA PromiseStep ==
    ASSUME Inductive, [Next]_vars
    PROVE  Promise!Next \/ UNCHANGED <<Issued, OpenCreds, Held, made>>
  <1>0. TypeOK /\ KeysInv /\ HandlersInv /\ CredsInv
        /\ last["token"] \in Nat /\ last["challenge"] \in Nat /\ last \in [Table -> Nat]
        /\ Table = {"devices", "token", "challenge", "sessions"}
    BY DEF Inductive, TypeOK, Table
  <1>1. CASE \E h \in Request : Consumes(h)
    <2> PICK h \in Request : Consumes(h)
      BY <1>1
    <2> PICK c : c = req'[h].cred
      OBVIOUS
    <2>1. /\ pc[h] = "idle" /\ pc'[h] = "consumed" /\ UNCHANGED <<last, made>>
          /\ c \in OpenCreds /\ OpenCreds' = OpenCreds \ {c}
      BY <1>0, ConsumeCloses DEF Consumes
    <2>2. \A g \in Request \ {h} : pc'[g] = pc[g] /\ req'[g] = req[g]
      BY <1>0, <2>1, OneEnds
    <2>3. \A x : x \in Held' <=> x \in Held \cup {c}
      <3>1. \A g \in Request : pc'[g] \in Consumed <=> pc[g] \in Consumed \/ g = h
        BY <2>1, <2>2 DEF Consumed
      <3>2. pc[h] \notin Consumed
        BY <2>1 DEF Consumed
      <3> QED
        BY <2>2, <3>1, <3>2 DEF Held
    <2>4. Held' = Held \cup {c} /\ UNCHANGED Issued
      BY <2>1, <2>3 DEF Issued
    <2>5. Promise!Redeem(c)
      BY <2>1, <2>4 DEF Promise!Redeem, OpenCreds, Held, Issued
    <2> QED
      BY <2>1, <2>5 DEF Promise!Next, OpenCreds
  <1>2. CASE \E h \in Request : Ends(h) /\ pc[h] \in Consumed
    <2> PICK h \in Request : Ends(h) /\ pc[h] \in Consumed
      BY <1>2
    <2> PICK c : c = req[h].cred
      OBVIOUS
    <2>1. /\ c \in Held /\ Held' = Held \ {c} /\ UNCHANGED <<Issued, OpenCreds>>
          /\ made' \in {made, made \cup {c}}
      BY EndsMaps
    <2>2. Promise!Bear(c) \/ Promise!Lose(c)
      BY <2>1 DEF Promise!Bear, Promise!Lose, OpenCreds, Held, Issued
    <2> QED
      BY <2>1, <2>2 DEF Promise!Next, Held
  <1>3. CASE ~(\E h \in Request : Consumes(h) \/ (Ends(h) /\ pc[h] \in Consumed))
    <2>1. Held' = Held
      BY <1>3, HeldStays
    <2>2. UNCHANGED made
      <3>1. \A h \in Request : ~CreateDevice(h) /\ ~CreateSession(h)
        BY <1>3 DEF Ends, CreateDevice, CreateSession, Consumed
      <3> QED
        BY <3>1, MadeStays
    <2>3. CASE Issues
      <3> PICK kind \in {"token", "challenge"} :
            /\ OpenCreds' = OpenCreds \cup {[kind |-> kind, id |-> last[kind] + 1]}
            /\ last' = [last EXCEPT ![kind] = @ + 1]
            /\ last[kind] < [token |-> MaxTokens, challenge |-> MaxChallenges][kind]
        BY <1>0, <2>3, IssueOpens DEF Issues
      <3>1. Issued' = [Issued EXCEPT ![kind] = @ + 1] /\ Issued'[kind] = last[kind] + 1
        BY <1>0 DEF Issued
      <3>2. Promise!Issue(kind)
        BY <2>1, <2>2, <3>1 DEF Promise!Issue, OpenCreds, Held, Issued
      <3>3. kind \in Promise!Kind
        BY DEF Promise!Kind
      <3> QED
        BY <3>2, <3>3 DEF Promise!Next
    <2>4. CASE ~Issues
      <3>1. OpenCreds' \subseteq OpenCreds /\ Issued' = Issued
        BY <1>0, <1>3, <2>4, OthersClose DEF Issued
      <3> DEFINE gone == OpenCreds \ OpenCreds'
      <3>2. gone \subseteq OpenCreds /\ OpenCreds' = OpenCreds \ gone
        BY <3>1
      <3> HIDE DEF gone
      <3>3. Promise!Void(gone)
        BY <2>1, <2>2, <3>1, <3>2 DEF Promise!Void, OpenCreds, Held, Issued
      <3> QED
        BY <3>2, <3>3 DEF Promise!Next, OpenCreds
    <2> QED
      BY <2>3, <2>4
  <1> QED
    BY <1>1, <1>2, <1>3

\* A token bears at most one device and a challenge at most one session, for any
\* number of them and of racing handlers (ConsumeToken, ConsumeChallenge).
THEOREM CredentialsSpentOnce == Spec => SpentOnce
  <1>1. Init => Promise!Init
    <2> SUFFICES ASSUME Init PROVE Promise!Init
      OBVIOUS
    <2>1. OpenCreds = {} /\ Held = {}
      BY DEF Init, OpenCreds, Creds, Held, Consumed
    <2>2. Issued = [k \in Promise!Kind |-> 0]
      BY DEF Init, Issued, Promise!Kind, Table
    <2> QED
      BY <2>1, <2>2 DEF Init, Promise!Init, OpenCreds, Held, Issued
  <1>2. Inductive /\ [Next]_vars => [Promise!Next]_(Promise!vars)
    <2> SUFFICES ASSUME Inductive, [Next]_vars PROVE [Promise!Next]_(Promise!vars)
      OBVIOUS
    <2> QED
      BY PromiseStep DEF Promise!vars, Issued, OpenCreds, Held
  <1> QED
    BY <1>1, <1>2, InductiveInvariant, PTL DEF Spec, SpentOnce, Promise!Spec
=============================================================================
