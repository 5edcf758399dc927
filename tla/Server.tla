------------------------------- MODULE Server -------------------------------
(***************************************************************************)
(* The life of the server process (cmd/server/main.go): it opens the pool, *)
(* the model runtime and the blob directory, starts its loops, serves,     *)
(* and on SIGTERM drains the requests and closes in the opposite order.    *)
(* Composes                                                                *)
(*   - main and the background loops (janitor, storage billing, sweep);    *)
(*   - the model runtime (module ModelRuntime) under the inference         *)
(*     handlers;                                                           *)
(*   - the readiness probe (module Readiness);                             *)
(*   - the database, that comes and goes, the signal, and time.            *)
(*                                                                         *)
(* What the handlers do with the database is in the other modules: here a  *)
(* request is in a query or it is not.  http.Server.Shutdown is taken at   *)
(* its word: it stops accepting, still serves the connections it has       *)
(* accepted, and returns nil once no request is left.                      *)
(***************************************************************************)
EXTENDS ModelRuntime, Readiness, FiniteSets

CONSTANTS
    EarlyLoop,      \* loops started before the blob directory is opened
    LateLoop,       \* the one started after
    Grace           \* the timeout of Shutdown

Loop == EarlyLoop \cup LateLoop

ASSUME ServerAssumption ==
    /\ Model = {"embed", "rerank"}
    /\ EarlyLoop \cap LateLoop = {} /\ EarlyLoop # {}
    /\ Grace \in Nat

VARIABLES
    main,       \* where main is
    code,       \* the exit code
    signalled,  \* ctx is done
    grace,      \* what Shutdown has left
    pool,       \* the connection pool
    loop,       \* where the loops are
    serving,    \* where an inference handler is
    dbUp,       \* does the database answer?
    upAge,      \* time since it last did, at most Stale
    badAge,     \* time since a ping last failed, at most Stale
    quiet       \* time since the last ping ended, at most Stale

process  == <<main, code, signalled, grace>>
handlers == <<serving, runtime, ready>>
database == <<dbUp, upAge, badAge, quiet>>
vars == <<process, pool, loop, handlers, database>>

MainPc == {"config", "migrate", "connect", "runtime", "embed", "rerank", "warm",
           "loops", "blobs", "listen", "serve", "drain", "encoder", "pool", "exited"}

TypeOK ==
    /\ RuntimeType
    /\ ReadinessType
    /\ main \in MainPc
    /\ code \in {0, 1}
    /\ signalled \in BOOLEAN
    /\ grace \in 0..Grace
    /\ pool \in {"none", "open", "closing", "closed"}
    /\ loop \in [Loop -> {"off", "pass", "wait", "gone"}]
    /\ serving \in [Call -> {"idle", "precheck", "model", "charge"}]
    /\ dbUp \in BOOLEAN
    /\ upAge \in 0..Stale
    /\ badAge \in 0..Stale
    /\ quiet \in 0..Stale

Init ==
    /\ RuntimeInit
    /\ ReadinessInit
    /\ main = "config"
    /\ code = 0
    /\ signalled = FALSE
    /\ grace = 0
    /\ pool = "none"
    /\ loop = [l \in Loop |-> "off"]
    /\ serving = [c \in Call |-> "idle"]
    /\ dbUp \in BOOLEAN
    /\ upAge = IF dbUp THEN 0 ELSE Stale
    /\ badAge = Stale
    /\ quiet = Stale

-----------------------------------------------------------------------------
(* main: one thing after the other, and fatal when one fails.              *)

Goto(from, to) == main = from /\ main' = to /\ UNCHANGED <<code, signalled, grace>>

\* os.Exit: no deferred cleanup runs.
Fatal(from) ==
    /\ main = from
    /\ main' = "exited"
    /\ code' = 1
    /\ UNCHANGED <<signalled, grace>>

LoadConfig ==
    /\ Goto("config", "migrate") \/ Fatal("config")
    /\ UNCHANGED <<pool, loop, handlers, database>>

\* goose.Up has neither a context nor a timeout: while the database does not answer, or
\* a lock is waited for, it may not come back, with the signal caught and not looked at.
Migrate ==
    /\ (dbUp /\ Goto("migrate", "connect")) \/ Fatal("migrate")
    /\ UNCHANGED <<pool, loop, handlers, database>>

\* store.Open pings in a context that the signal ends.
Connect ==
    /\ dbUp /\ ~signalled
    /\ Goto("connect", "runtime")
    /\ pool' = "open"
    /\ UNCHANGED <<loop, handlers, database>>

ConnectFails ==
    /\ Fatal("connect")
    /\ UNCHANGED <<pool, loop, handlers, database>>

\* The encoder's parts; a stub needs none of them.
OpenRuntime ==
    /\ Goto("runtime", "embed")
    /\ InitRuntime
    /\ UNCHANGED <<pool, loop, serving, ready, database>>

OpenEmbed ==
    /\ Goto("embed", "rerank")
    /\ OpenModel("embed")
    /\ UNCHANGED <<pool, loop, serving, ready, database>>

OpenRerank ==
    /\ Goto("rerank", "warm")
    /\ OpenModel("rerank")
    /\ UNCHANGED <<pool, loop, serving, ready, database>>

\* The model directory, the pooling, the runtime or the embed model.
EncoderFails ==
    /\ Fatal("runtime") \/ Fatal("embed")
    /\ UNCHANGED <<pool, loop, handlers, database>>

RerankFails ==
    /\ Fatal("rerank")
    /\ CloseModels
    /\ UNCHANGED <<pool, loop, serving, ready, database>>

\* One text through each model.
WarmUp ==
    /\ Goto("warm", "loops")
    /\ UNCHANGED <<pool, loop, handlers, database>>

WarmUpFails ==
    /\ Fatal("warm")
    /\ CloseRuntime
    /\ UNCHANGED <<pool, loop, serving, ready, database>>

\* go runJanitor, go runStorageBilling.
StartLoops ==
    /\ Goto("loops", "blobs")
    /\ loop' = [l \in Loop |-> IF l \in EarlyLoop THEN "wait" ELSE loop[l]]
    /\ UNCHANGED <<pool, handlers, database>>

\* blobs.Open probes the directory; then go runBackupSweep.
OpenBlobs ==
    /\ Goto("blobs", "listen")
    /\ loop' = [l \in Loop |-> IF l \in LateLoop THEN "wait" ELSE loop[l]]
    /\ UNCHANGED <<pool, handlers, database>>

BlobsFail ==
    /\ Fatal("blobs")
    /\ UNCHANGED <<pool, loop, handlers, database>>

Listen ==
    /\ Goto("listen", "serve")
    /\ UNCHANGED <<pool, loop, handlers, database>>

ListenFails ==
    /\ Fatal("serve")
    /\ UNCHANGED <<pool, loop, handlers, database>>

\* ctx.Done: Shutdown has Grace.
Shutdown ==
    /\ main = "serve"
    /\ signalled
    /\ main' = "drain"
    /\ grace' = Grace
    /\ UNCHANGED <<code, signalled, pool, loop, handlers, database>>

NoneLeft == waits = {} /\ \A c \in Call : serving[c] = "idle"

\* A slip: the error of Shutdown is ignored, and the deferred cleanups run.
DrainedOrTimeout ==
    /\ NoneLeft \/ grace = 0
    /\ Goto("drain", "encoder")
    /\ UNCHANGED <<pool, loop, handlers, database>>

Drained ==
    /\ NoneLeft
    /\ Goto("drain", "encoder")
    /\ UNCHANGED <<pool, loop, handlers, database>>

DrainTimeout ==
    /\ grace = 0
    /\ Fatal("drain")
    /\ UNCHANGED <<pool, loop, handlers, database>>

\* The deferred cleanups, last in first out.
CloseEncoder ==
    /\ Goto("encoder", "pool")
    /\ CloseRuntime
    /\ UNCHANGED <<pool, loop, serving, ready, database>>

\* pool.Close gives out no more connections ...
ClosePool ==
    /\ main = "pool"
    /\ pool = "open"
    /\ pool' = "closing"
    /\ UNCHANGED <<process, loop, handlers, database>>

\* ... and waits for those that are out.
PoolClosed ==
    /\ pool = "closing"
    /\ \A l \in Loop : loop[l] # "pass"
    /\ Goto("pool", "exited")
    /\ pool' = "closed"
    /\ UNCHANGED <<loop, handlers, database>>

MainStep ==
    \/ LoadConfig \/ Migrate \/ Connect \/ ConnectFails
    \/ OpenRuntime \/ OpenEmbed \/ OpenRerank \/ EncoderFails \/ RerankFails
    \/ WarmUp \/ WarmUpFails \/ StartLoops \/ OpenBlobs \/ BlobsFail
    \/ Listen \/ Shutdown \/ Drained \/ DrainTimeout
    \/ CloseEncoder \/ ClosePool \/ PoolClosed

-----------------------------------------------------------------------------
(* The loops: a pass over the database, then the ticker or the end.        *)

Alive == main # "exited"

\* A pass whose context is done already gets no connection.
BeginPass(l) ==
    /\ Alive
    /\ loop[l] = "wait"
    /\ ~signalled /\ pool = "open"
    /\ loop' = [loop EXCEPT ![l] = "pass"]
    /\ UNCHANGED <<process, pool, handlers, database>>

\* A slip: the pass runs in a context of its own.
PassEndsByItself(l) == ~signalled /\ loop[l] = "pass"

PassMayEnd(l) == loop[l] = "pass"

EndPass(l) ==
    /\ Alive
    /\ PassMayEnd(l)
    /\ loop' = [loop EXCEPT ![l] = "wait"]
    /\ UNCHANGED <<process, pool, handlers, database>>

EndLoop(l) ==
    /\ Alive
    /\ loop[l] = "wait"
    /\ signalled
    /\ loop' = [loop EXCEPT ![l] = "gone"]
    /\ UNCHANGED <<process, pool, handlers, database>>

-----------------------------------------------------------------------------
(* Embed and rerank: a query, the model, a query.                          *)

Serve(c, from, to) ==
    /\ Alive
    /\ serving[c] = from
    /\ serving' = [serving EXCEPT ![c] = to]
    /\ UNCHANGED <<process, pool, loop, ready, database>>

\* Shutdown leaves alone the connections that are new and brought no request yet.
Serving == main \in {"serve", "drain"}

Arrives(c) ==
    /\ Serving
    /\ Serve(c, "idle", "precheck")
    /\ UNCHANGED runtime

Prechecked(c) == \E m \in Model : Serve(c, "precheck", "model") /\ Tokenize(c, m)

PrecheckFails(c) == Serve(c, "precheck", "idle") /\ UNCHANGED runtime

Computes(c) == Serve(c, "model", "model") /\ Proceeds(c)

Answers(c) == Serve(c, "model", "charge") /\ Copied(c)

ModelFails(c) == Serve(c, "model", "idle") /\ Returns(c)

Charged(c) == Serve(c, "charge", "idle") /\ UNCHANGED runtime

CallStep(c) ==
    \/ Arrives(c) \/ Prechecked(c) \/ PrecheckFails(c)
    \/ Computes(c) \/ Answers(c) \/ ModelFails(c) \/ Charged(c)

-----------------------------------------------------------------------------
(* The readiness probe.                                                    *)

InProbe == Alive /\ UNCHANGED <<process, pool, loop, serving, runtime, dbUp, upAge>>

ProbeArrives(p) == Serving /\ Probes(p) /\ InProbe /\ UNCHANGED <<badAge, quiet>>

ProbeLocks(p) == (FromCache(p) \/ StartPing(p)) /\ InProbe /\ UNCHANGED <<badAge, quiet>>

PingAnswers(p) == dbUp /\ Pinged(p, FALSE) /\ InProbe /\ quiet' = 0 /\ UNCHANGED badAge

\* Database down or not: the pool has no connection to spare or the answer is slow, for
\* as long as the timeout, or the client whose request pings is gone.
PingFails(p) == Pinged(p, TRUE) /\ InProbe /\ quiet' = 0 /\ badAge' = 0

PingEnds(p) == PingAnswers(p) \/ PingFails(p)

-----------------------------------------------------------------------------
(* The database, the signal, time.                                         *)

DatabaseTurns ==
    /\ Alive
    /\ dbUp' = ~dbUp
    /\ upAge' = IF dbUp' THEN 0 ELSE upAge
    /\ UNCHANGED <<process, pool, loop, handlers, badAge, quiet>>

Signal ==
    /\ Alive
    /\ ~signalled
    /\ signalled' = TRUE
    /\ UNCHANGED <<main, code, grace, pool, loop, handlers, database>>

Older(a) == IF a = Stale THEN a ELSE a + 1

Tick ==
    /\ Alive
    /\ main = "drain" => grace > 0
    /\ grace' = IF grace > 0 THEN grace - 1 ELSE 0
    /\ Passes
    /\ upAge' = IF dbUp THEN 0 ELSE Older(upAge)
    /\ badAge' = Older(badAge)
    /\ quiet' = Older(quiet)
    /\ UNCHANGED <<main, code, signalled, pool, loop, serving, runtime, dbUp>>

Next ==
    \/ MainStep \/ ListenFails
    \/ \E l \in Loop : BeginPass(l) \/ EndPass(l) \/ EndLoop(l)
    \/ \E c \in Call : CallStep(c)
    \/ \E p \in Probe : ProbeArrives(p) \/ ProbeLocks(p) \/ PingEnds(p)
    \/ DatabaseTurns \/ Signal \/ Tick

Spec == Init /\ [][Next]_vars

\* main runs on, but for the migration, which need not come back, and time passes; a
\* pass ends, when the context does at the latest; a ping ends with its timeout;
\* sync.Mutex starves nobody: SF.  A handler of inference may take for ever.
Fairness ==
    /\ WF_vars(main # "migrate" /\ MainStep) /\ WF_vars(Tick)
    /\ \A l \in Loop : WF_vars(EndPass(l))
    /\ \A p \in Probe : WF_vars(PingEnds(p)) /\ SF_vars(ProbeLocks(p))

FairSpec == Spec /\ Fairness

-----------------------------------------------------------------------------
(* Properties.                                                             *)

InQuery(c) == serving[c] \in {"precheck", "charge"}

\* The encoder's Close takes no lock and the pool's waits for nothing but
\* connections: no session is destroyed under a run, and no handler or ping meets
\* a closed pool, because nothing is closed before the last request is answered.
NothingClosedInUse ==
    /\ UsesLive
    /\ (holder # Unlocked \/ \E c \in Call : InQuery(c)) => pool = "open"

\* Tensors and sessions are freed on every path, the failing ones included: by a
\* call that comes back, by an openONNX that gives up, by a clean exit.
NothingLeaks ==
    /\ CallsClean
    /\ main = "exited" /\ (\A l \in Loop : loop[l] = "off")
         => \A m \in Model : session[m] # "open"
    /\ main = "exited" /\ code = 0 =>
         /\ NoneLeft
         /\ env = "destroyed" /\ \A m \in Model : session[m] = "destroyed"
         /\ pool = "closed"

\* "one db ping per second is plenty, more would just drain the pool": however many
\* requests wait for the mutex, and whatever the last ping came to, the database
\* is left alone for longer than CacheFor between two pings.
PingsSpaced ==
    [][\A p \in Probe : holder' = p /\ holder # p => quiet > CacheFor]_vars

\* /readyz says "ready" only if the database was there within CacheFor, and "degraded"
\* only if a ping failed within CacheFor: the mutex may be waited for, the answer does
\* not age with it.  A ping fails with the database up, too (PingFails).
AnswersFresh ==
    [][\A p \in Probe : p \in waits /\ p \notin waits' =>
         IF failed' THEN badAge' <= CacheFor ELSE upAge' <= CacheFor]_vars

\* "shutting down": once signalled, the process ends, whatever the requests, the loops
\* and the database are up to, unless it is in the migration: there it may stay.
Exits == signalled ~> main \in {"migrate", "exited"}

\* Nobody waits for the mutex of the probe for ever.
ProbesAnswered == \A p \in Probe : p \in waits ~> p \notin waits \/ main = "exited"
-----------------------------------------------------------------------------
(* What the properties rest on.                                            *)

\* What a call owns, and that a handler is behind it.
StagesOwn == \A c \in Call :
    /\ stage[c] # "output" => ~output[c]
    /\ stage[c] \in {"idle", "output"} => inputs[c] = 0
    /\ stage[c] # "idle" => serving[c] = "model"

\* main opens one thing after the other ...
Opened ==
    /\ main \in {"config", "migrate", "connect", "runtime"} => env = "none"
    /\ main \in {"config", "migrate", "connect", "runtime", "embed"} =>
         \A m \in Model : session[m] = "none"
    /\ main \in {"embed", "rerank"} => env = "open"
    /\ main = "rerank" => session["embed"] = "open" /\ session["rerank"] = "none"
    /\ main \in {"warm", "loops", "blobs", "listen", "serve", "drain", "encoder"} =>
         env = "open" /\ \A m \in Model : session[m] = "open"
    /\ main \in {"config", "migrate", "connect"} => pool = "none"
    /\ main \in MainPc \ {"config", "migrate", "connect", "pool", "exited"} => pool = "open"
    /\ main \in {"blobs", "listen", "serve", "drain", "encoder", "pool"} =>
         \A l \in EarlyLoop : loop[l] # "off"
    /\ main # "exited" => code = 0

\* ... and closes it in the opposite order, after the last request.
ClosedLast ==
    /\ main = "pool" => /\ pool \in {"open", "closing"} /\ env = "destroyed"
                        /\ \A m \in Model : session[m] = "destroyed"
    /\ main = "exited" /\ code = 0 =>
         /\ env = "destroyed" /\ \A m \in Model : session[m] = "destroyed"
         /\ pool = "closed"
    /\ main = "exited" /\ (\A l \in Loop : loop[l] = "off") =>
         \A m \in Model : session[m] # "open"
    /\ holder # Unlocked => holder \in waits
    /\ ~NoneLeft => /\ main \in {"serve", "drain"} \/ (main = "exited" /\ code = 1)
                    /\ env = "open" /\ (\A m \in Model : session[m] = "open") /\ pool = "open"

\* The result is as old as the last ping is past, and is what that ping came to.
ResultDated ==
    /\ quiet = age
    /\ IF failed THEN badAge <= age ELSE upAge <= age
    /\ dbUp => upAge = 0

Inductive == TypeOK /\ StagesOwn /\ Opened /\ ClosedLast /\ ResultDated
=============================================================================
