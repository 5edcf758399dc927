----------------------------- MODULE ServerProofs ---------------------------
(***************************************************************************)
(* Proofs about Server: nothing is closed while it is in use, nothing      *)
(* leaks, pings are spaced and answers are fresh, for any number of calls, *)
(* probes and loops.                                                       *)
(***************************************************************************)
EXTENDS Server, TLAPS

-----------------------------------------------------------------------------
(* What the steps leave alone.                                             *)

\* main keeps its hands off the requests, the probe and the database.
LEMMA MainFrame ==
    ASSUME MainStep \/ ListenFails
    PROVE  /\ UNCHANGED <<signalled, serving, calls, ready, database>>
           /\ main # "exited"
BY DEF MainStep, ListenFails, LoadConfig, Migrate, Connect, ConnectFails, OpenRuntime, OpenEmbed,
   OpenRerank, EncoderFails, RerankFails, WarmUp, WarmUpFails, StartLoops, OpenBlobs, BlobsFail,
   Listen, Shutdown, Drained, DrainTimeout, CloseEncoder, ClosePool, PoolClosed, Goto, Fatal,
   handlers, runtime, process, InitRuntime, OpenModel, CloseModels, CloseRuntime

\* Nor does a loop touch anything but the database and its own state.
LEMMA LoopFrame ==
    ASSUME NEW l \in Loop, BeginPass(l) \/ EndPass(l) \/ EndLoop(l)
    PROVE  /\ UNCHANGED <<process, pool, handlers, database>>
           /\ loop[l] \in {"wait", "pass"}
           /\ \E x \in {"pass", "wait", "gone"} : loop' = [loop EXCEPT ![l] = x]
BY DEF BeginPass, EndPass, EndLoop, PassMayEnd

\* A request touches its own calls of the library.
LEMMA CallFrame ==
    ASSUME NEW c \in Call, CallStep(c)
    PROVE  UNCHANGED <<process, pool, loop, library, ready, database>>
BY DEF CallStep, Arrives, Prechecked, PrecheckFails, Computes, Answers, ModelFails, Charged, Serve,
   Tokenize, Proceeds, Returns, NewTensor, LockSession, Ran, GiveUp, RunFails, Copied, runtime

\* A probe touches the cached result, and ends a ping.
LEMMA ProbeFrame ==
    ASSUME NEW p \in Probe, ProbeArrives(p) \/ ProbeLocks(p) \/ PingEnds(p)
    PROVE  UNCHANGED <<process, pool, loop, serving, runtime, dbUp, upAge>>
BY DEF ProbeArrives, ProbeLocks, PingEnds, PingAnswers, PingFails, InProbe

\* The world outside touches no request.
LEMMA WorldFrame ==
    ASSUME DatabaseTurns \/ Signal \/ Tick
    PROVE  UNCHANGED <<main, code, pool, loop, serving, runtime, holder, failed, waits>>
BY DEF DatabaseTurns, Signal, Tick, Passes, process, handlers, ready

-----------------------------------------------------------------------------
(* Types.                                                                  *)

\* The process starts well typed, with nothing open and nothing known.
LEMMA InitInductive == Init => Inductive
<1> SUFFICES ASSUME Init PROVE Inductive
  OBVIOUS
<1>0. Stale \in Nat /\ PingTimeout \in Nat /\ Grace \in Nat /\ Inputs \in Nat
  BY ServerAssumption, ReadinessAssumption, RuntimeAssumption DEF Stale
<1>m. (CHOOSE m \in Model : TRUE) \in Model
  BY ServerAssumption
<1>1. TypeOK
  <2>1. RuntimeType
    BY <1>0, <1>m DEF Init, RuntimeInit, RuntimeType, Life, Stage
  <2>2. ReadinessType
    <3>1. failed \in BOOLEAN
      BY DEF Init, ReadinessInit
    <3>2. age \in 0..Stale /\ left \in 0..PingTimeout
      BY <1>0 DEF Init, ReadinessInit
    <3>3. holder \in Probe \cup {Unlocked} /\ waits \subseteq Probe
      BY DEF Init, ReadinessInit
    <3> QED BY <3>1, <3>2, <3>3 DEF ReadinessType
  <2>3. signalled \in BOOLEAN /\ dbUp \in BOOLEAN
    BY DEF Init
  <2>4. upAge \in 0..Stale /\ badAge \in 0..Stale /\ quiet \in 0..Stale /\ grace \in 0..Grace
    BY <1>0 DEF Init
  <2>5. /\ main \in MainPc /\ code \in {0, 1} /\ pool \in {"none", "open", "closing", "closed"}
        /\ loop \in [Loop -> {"off", "pass", "wait", "gone"}]
        /\ serving \in [Call -> {"idle", "precheck", "model", "charge"}]
    BY DEF Init, MainPc
  <2> QED BY <2>1, <2>2, <2>3, <2>4, <2>5 DEF TypeOK
<1>2. StagesOwn
  BY DEF Init, RuntimeInit, StagesOwn
<1>3. Opened
  BY DEF Init, RuntimeInit, Opened, MainPc
<1>4. ClosedLast
  BY DEF Init, RuntimeInit, ReadinessInit, ClosedLast, NoneLeft
<1>5. ResultDated
  BY <1>0 DEF Init, ReadinessInit, ResultDated
<1> QED BY <1>1, <1>2, <1>3, <1>4, <1>5 DEF Inductive

\* A graph run leaves the library's state well typed.
LEMMA RuntimeTypes ==
    ASSUME RuntimeType, NEW c \in Call,
           (\E m \in Model : Tokenize(c, m)) \/ Proceeds(c) \/ Returns(c)
    PROVE  RuntimeType'
<1> USE RuntimeAssumption DEF RuntimeType, Stage, Life, library
<1>1. ASSUME NEW m \in Model, Tokenize(c, m) PROVE RuntimeType'
  BY <1>1 DEF Tokenize
<1>2. CASE NewTensor(c)
  BY <1>2 DEF NewTensor
<1>3. CASE LockSession(c)
  BY <1>3 DEF LockSession
<1>4. CASE Ran(c)
  BY <1>4 DEF Ran
<1>5. CASE GiveUp(c)
  BY <1>5 DEF GiveUp
<1>6. CASE RunFails(c)
  BY <1>6 DEF RunFails
<1>7. CASE Copied(c)
  BY <1>7 DEF Copied
<1> QED BY <1>1, <1>2, <1>3, <1>4, <1>5, <1>6, <1>7 DEF Proceeds, Returns

\* What main does leaves the library well typed.
LEMMA MainRuntimeTypes ==
    ASSUME RuntimeType, MainStep \/ ListenFails
    PROVE  RuntimeType'
<1>1. UNCHANGED calls
  BY MainFrame
<1>2. env' \in Life /\ session' \in [Model -> Life]
  <2> USE DEF RuntimeType, Life, Closed
  <2>1. CASE UNCHANGED <<env, session>>
    BY <2>1
  <2>2. CASE InitRuntime
    BY <2>2 DEF InitRuntime
  <2>3. ASSUME NEW m \in Model, OpenModel(m) PROVE env' \in Life /\ session' \in [Model -> Life]
    BY <2>3 DEF OpenModel
  <2>4. CASE CloseModels
    BY <2>4 DEF CloseModels
  <2>5. CASE CloseRuntime
    BY <2>5 DEF CloseRuntime
  <2>6. "embed" \in Model /\ "rerank" \in Model
    BY ServerAssumption
  <2>7. \/ UNCHANGED <<env, session>> \/ InitRuntime \/ (\E m \in Model : OpenModel(m))
        \/ CloseModels \/ CloseRuntime
    BY <2>6 DEF MainStep, ListenFails, LoadConfig, Migrate, Connect, ConnectFails, OpenRuntime, OpenEmbed,
       OpenRerank, EncoderFails, RerankFails, WarmUp, WarmUpFails, StartLoops, OpenBlobs, BlobsFail,
       Listen, Shutdown, Drained, DrainTimeout, CloseEncoder, ClosePool, PoolClosed,
       handlers, runtime, library
  <2> QED BY <2>1, <2>2, <2>3, <2>4, <2>5, <2>7
<1> QED BY <1>1, <1>2 DEF RuntimeType, calls

\* Every step keeps the types.
LEMMA NextType == TypeOK /\ [Next]_vars => TypeOK'
<1> SUFFICES ASSUME TypeOK, [Next]_vars PROVE TypeOK'
  OBVIOUS
<1>0. Stale \in Nat /\ PingTimeout \in Nat /\ Grace \in Nat /\ RuntimeType /\ ReadinessType
  BY ServerAssumption, ReadinessAssumption DEF Stale, TypeOK
<1>1. CASE MainStep \/ ListenFails
  <2>1. RuntimeType' /\ UNCHANGED <<signalled, serving, ready, database>>
    BY <1>0, <1>1, MainRuntimeTypes, MainFrame
  <2>2. main' \in MainPc /\ code' \in {0, 1} /\ grace' \in 0..Grace
        /\ pool' \in {"none", "open", "closing", "closed"}
    BY <1>0, <1>1 DEF TypeOK, MainPc, MainStep, ListenFails, LoadConfig, Migrate, Connect, ConnectFails,
       OpenRuntime, OpenEmbed, OpenRerank, EncoderFails, RerankFails, WarmUp, WarmUpFails,
       StartLoops, OpenBlobs, BlobsFail, Listen, Shutdown, Drained, DrainTimeout, CloseEncoder,
       ClosePool, PoolClosed, Goto, Fatal, process
  <2>3. loop' \in [Loop -> {"off", "pass", "wait", "gone"}]
    BY <1>1 DEF TypeOK, MainStep, ListenFails, LoadConfig, Migrate, Connect, ConnectFails,
       OpenRuntime, OpenEmbed, OpenRerank, EncoderFails, RerankFails, WarmUp, WarmUpFails,
       StartLoops, OpenBlobs, BlobsFail, Listen, Shutdown, Drained, DrainTimeout, CloseEncoder,
       ClosePool, PoolClosed
  <2>4. ReadinessType'
    BY <1>0, <2>1 DEF ReadinessType, ready
  <2> QED BY <2>1, <2>2, <2>3, <2>4 DEF TypeOK, database
<1>2. ASSUME NEW l \in Loop, BeginPass(l) \/ EndPass(l) \/ EndLoop(l) PROVE TypeOK'
  <2>1. UNCHANGED <<process, pool, handlers, database>>
    BY <1>2, LoopFrame
  <2>2. loop' \in [Loop -> {"off", "pass", "wait", "gone"}]
    BY <1>2, LoopFrame DEF TypeOK
  <2>3. RuntimeType' /\ ReadinessType'
    BY <1>0, <2>1 DEF handlers, runtime, library, calls, ready, RuntimeType, ReadinessType
  <2> QED BY <2>1, <2>2, <2>3 DEF TypeOK, process, handlers, database
<1>3. ASSUME NEW c \in Call, CallStep(c) PROVE TypeOK'
  <2>1. UNCHANGED <<process, pool, loop, ready, database>>
    BY <1>3, CallFrame
  <2>2. RuntimeType'
    <3>1. CASE UNCHANGED runtime
      BY <1>0, <3>1 DEF runtime, library, calls, RuntimeType
    <3>2. CASE (\E m \in Model : Tokenize(c, m)) \/ Proceeds(c) \/ Returns(c)
      BY <1>0, <3>2, RuntimeTypes
    <3> QED BY <1>3, <3>1, <3>2 DEF CallStep, Arrives, Prechecked, PrecheckFails, Computes, Answers,
                ModelFails, Charged, Returns
  <2>3. serving' \in [Call -> {"idle", "precheck", "model", "charge"}]
    BY <1>3 DEF TypeOK, CallStep, Arrives, Prechecked, PrecheckFails, Computes, Answers,
       ModelFails, Charged, Serve
  <2>4. ReadinessType'
    BY <1>0, <2>1 DEF ready, ReadinessType
  <2> QED BY <2>1, <2>2, <2>3, <2>4 DEF TypeOK, process, database
<1>4. ASSUME NEW p \in Probe, ProbeArrives(p) \/ ProbeLocks(p) \/ PingEnds(p)
      PROVE  TypeOK'
  <2>1. UNCHANGED <<process, pool, loop, serving, runtime, dbUp, upAge>>
    BY <1>4, ProbeFrame
  <2>2. ReadinessType' /\ badAge' \in 0..Stale /\ quiet' \in 0..Stale
    <3>1. CASE ProbeArrives(p) \/ ProbeLocks(p)
      <4>1. UNCHANGED <<failed, badAge, quiet>>
        BY <3>1 DEF ProbeArrives, ProbeLocks, Probes, FromCache, StartPing
      <4>2. /\ holder' \in Probe \cup {Unlocked} /\ waits' \subseteq Probe
            /\ age' \in 0..Stale /\ left' \in 0..PingTimeout
        BY <1>0, <3>1 DEF ProbeArrives, ProbeLocks, Probes, FromCache, StartPing, ReadinessType
      <4> QED BY <1>0, <4>1, <4>2 DEF TypeOK, ReadinessType
    <3>2. CASE PingEnds(p)
      <4>1. failed' = FALSE \/ failed' = TRUE
        BY <3>2 DEF PingEnds, PingAnswers, PingFails, Pinged
      <4>2. /\ holder' \in Probe \cup {Unlocked} /\ waits' \subseteq Probe
            /\ age' \in 0..Stale /\ left' \in 0..PingTimeout
        BY <1>0, <3>2 DEF PingEnds, PingAnswers, PingFails, Pinged, Unlocks, Keep, ReadinessType
      <4>3. badAge' \in 0..Stale /\ quiet' \in 0..Stale
        <5>1. badAge \in 0..Stale
          BY DEF TypeOK
        <5>2. quiet' = 0 /\ (badAge' = badAge \/ badAge' = 0)
          BY <3>2 DEF PingEnds, PingAnswers, PingFails
        <5> QED BY <1>0, <5>1, <5>2
      <4>4. failed' \in BOOLEAN
        BY <4>1
      <4> QED BY <4>2, <4>3, <4>4 DEF ReadinessType
    <3> QED BY <1>4, <3>1, <3>2
  <2>3. RuntimeType'
    BY <1>0, <2>1 DEF runtime, library, calls, RuntimeType
  <2> QED BY <2>1, <2>2, <2>3 DEF TypeOK, process
<1>5. CASE DatabaseTurns \/ Signal \/ Tick
  <2>1. UNCHANGED <<main, code, pool, loop, serving, runtime, holder, failed, waits>>
    BY <1>5, WorldFrame
  <2>2. RuntimeType'
    BY <1>0, <2>1 DEF runtime, library, calls, RuntimeType
  <2>3. CASE DatabaseTurns \/ Signal
    <3>1. UNCHANGED <<age, left, grace, quiet>>
      BY <2>3 DEF DatabaseTurns, Signal, process, handlers, ready, database
    <3>2. upAge' \in 0..Stale /\ badAge' \in 0..Stale
      BY <1>0, <2>3 DEF DatabaseTurns, Signal, TypeOK, database
    <3>3. signalled' \in BOOLEAN /\ dbUp' \in BOOLEAN
      BY <2>3 DEF DatabaseTurns, Signal, TypeOK, process, database
    <3> QED BY <2>1, <2>2, <3>1, <3>2, <3>3 DEF TypeOK, ReadinessType
  <2>4. CASE Tick
    <3>1. age' \in 0..Stale /\ left' \in 0..PingTimeout /\ grace' \in 0..Grace
      BY <1>0, <2>4 DEF Tick, Passes, TypeOK, ReadinessType
    <3>2. upAge' \in 0..Stale /\ badAge' \in 0..Stale /\ quiet' \in 0..Stale
      BY <1>0, <2>4 DEF Tick, Older, TypeOK
    <3>3. UNCHANGED <<signalled, dbUp>>
      BY <2>4 DEF Tick
    <3> QED BY <2>1, <2>2, <3>1, <3>2, <3>3 DEF TypeOK, ReadinessType
  <2> QED BY <1>5, <2>3, <2>4
<1>6. CASE UNCHANGED vars
  BY <1>6 DEF vars, process, handlers, runtime, library, calls, ready, database, TypeOK, RuntimeType, ReadinessType
<1> QED BY <1>1, <1>2, <1>3, <1>4, <1>5, <1>6 DEF Next

-----------------------------------------------------------------------------
(* The requests, the order of main, and the cached result.                 *)

\* A call lets go of what it owns before it comes back, and only a handler in the
\* model makes one.
LEMMA NextStages == Inductive /\ [Next]_vars => StagesOwn'
<1> SUFFICES ASSUME Inductive, [Next]_vars PROVE StagesOwn'
  OBVIOUS
<1>t. /\ stage \in [Call -> Stage] /\ inputs \in [Call -> 0..Inputs]
      /\ output \in [Call -> BOOLEAN]
      /\ serving \in [Call -> {"idle", "precheck", "model", "charge"}]
      /\ StagesOwn
  BY DEF Inductive, TypeOK, RuntimeType
<1>1. ASSUME UNCHANGED <<serving, calls>> PROVE StagesOwn'
  BY <1>t, <1>1 DEF calls, StagesOwn
<1>2. ASSUME NEW c \in Call, CallStep(c) PROVE StagesOwn'
  <2>1. ASSUME NEW from, NEW to, Serve(c, from, to), UNCHANGED runtime, from # "model"
        PROVE  StagesOwn'
    <3>1. stage[c] = "idle"
      BY <1>t, <2>1 DEF Serve, StagesOwn
    <3> QED BY <1>t, <2>1, <3>1 DEF Serve, StagesOwn, runtime, calls
  <2>2. ASSUME NEW m \in Model, Serve(c, "precheck", "model"), Tokenize(c, m) PROVE StagesOwn'
    BY <1>t, <2>2 DEF Serve, Tokenize, StagesOwn, Stage
  <2>3. ASSUME Serve(c, "model", "model"), Proceeds(c) PROVE StagesOwn'
    <3>1. CASE NewTensor(c)
      BY <1>t, <2>3, <3>1 DEF Serve, NewTensor, StagesOwn, Stage
    <3>2. CASE LockSession(c)
      BY <1>t, <2>3, <3>2 DEF Serve, LockSession, StagesOwn, Stage
    <3>3. CASE Ran(c)
      BY <1>t, <2>3, <3>3 DEF Serve, Ran, StagesOwn, Stage
    <3> QED BY <2>3, <3>1, <3>2, <3>3 DEF Proceeds
  <2>4. ASSUME NEW to, Serve(c, "model", to), Returns(c) PROVE StagesOwn'
    <3>1. CASE GiveUp(c)
      BY <1>t, <2>4, <3>1 DEF Serve, GiveUp, StagesOwn, Stage
    <3>2. CASE RunFails(c)
      BY <1>t, <2>4, <3>2 DEF Serve, RunFails, StagesOwn, Stage
    <3>3. CASE Copied(c)
      BY <1>t, <2>4, <3>3 DEF Serve, Copied, StagesOwn, Stage
    <3> QED BY <2>4, <3>1, <3>2, <3>3 DEF Returns
  <2>5. CASE Answers(c)
    BY <2>4, <2>5 DEF Answers, Returns
  <2>6. CASE Arrives(c) \/ PrecheckFails(c) \/ Charged(c)
    BY <2>1, <2>6 DEF Arrives, PrecheckFails, Charged
  <2>7. CASE Prechecked(c) \/ Computes(c) \/ ModelFails(c)
    BY <2>2, <2>3, <2>4, <2>7 DEF Prechecked, Computes, ModelFails
  <2> QED BY <1>2, <2>5, <2>6, <2>7 DEF CallStep
<1>3. CASE MainStep \/ ListenFails
  BY <1>1, <1>3, MainFrame
<1>4. ASSUME NEW l \in Loop, BeginPass(l) \/ EndPass(l) \/ EndLoop(l) PROVE StagesOwn'
  BY <1>1, <1>4, LoopFrame DEF handlers, runtime
<1>5. ASSUME NEW p \in Probe, ProbeArrives(p) \/ ProbeLocks(p) \/ PingEnds(p)
      PROVE  StagesOwn'
  BY <1>1, <1>5, ProbeFrame DEF runtime
<1>6. CASE DatabaseTurns \/ Signal \/ Tick
  BY <1>1, <1>6, WorldFrame DEF runtime
<1>7. CASE UNCHANGED vars
  BY <1>1, <1>7 DEF vars, handlers, runtime
<1> QED BY <1>2, <1>3, <1>4, <1>5, <1>6, <1>7 DEF Next

\* Nobody but main opens or closes; a loop that was started is never off again.
LEMMA OpenedKept ==
    ASSUME Opened, UNCHANGED <<main, code, pool, library>>,
           \A l \in Loop : loop[l] # "off" => loop'[l] # "off"
    PROVE  Opened'
BY DEF Opened, library, Loop

\* main is where what is open says it is.
LEMMA NextOpened == Inductive /\ [Next]_vars => Opened'
<1> SUFFICES ASSUME Inductive, [Next]_vars PROVE Opened'
  OBVIOUS
<1>t. Opened /\ Model = {"embed", "rerank"} /\ session \in [Model -> Life]
      /\ loop \in [Loop -> {"off", "pass", "wait", "gone"}] /\ main \in MainPc
      /\ EarlyLoop \subseteq Loop
  BY ServerAssumption DEF Inductive, TypeOK, RuntimeType, Loop
<1>1. CASE MainStep \/ ListenFails
  <2>1. CASE LoadConfig \/ Migrate \/ Connect \/ ConnectFails
    BY <1>t, <2>1 DEF LoadConfig, Migrate, Connect, ConnectFails, Goto, Fatal, Opened, MainPc,
       handlers, runtime, library
  <2>2. CASE OpenRuntime \/ OpenEmbed \/ OpenRerank
    BY <1>t, <2>2 DEF OpenRuntime, OpenEmbed, OpenRerank, Goto, InitRuntime, OpenModel, Opened, MainPc
  <2>3. CASE EncoderFails \/ RerankFails \/ WarmUpFails \/ BlobsFail \/ ListenFails \/ DrainTimeout
    BY <1>t, <2>3 DEF EncoderFails, RerankFails, WarmUpFails, BlobsFail, ListenFails, DrainTimeout,
       Fatal, Opened, MainPc
  <2>4. CASE WarmUp \/ StartLoops \/ OpenBlobs
    BY <1>t, <2>4 DEF WarmUp, StartLoops, OpenBlobs, Goto, Opened, MainPc, handlers, runtime, library
  <2>5. CASE Listen \/ Shutdown \/ Drained
    BY <1>t, <2>5 DEF Listen, Shutdown, Drained, Goto, Opened, MainPc, handlers, runtime, library
  <2>6. CASE CloseEncoder \/ ClosePool \/ PoolClosed
    BY <1>t, <2>6 DEF CloseEncoder, ClosePool, PoolClosed, Goto, Opened, MainPc, process
  <2> QED BY <1>1, <2>1, <2>2, <2>3, <2>4, <2>5, <2>6 DEF MainStep
<1>2. ASSUME NEW l \in Loop, BeginPass(l) \/ EndPass(l) \/ EndLoop(l) PROVE Opened'
  <2>1. UNCHANGED <<main, code, pool, library>>
    BY <1>2, LoopFrame DEF process, handlers, runtime
  <2>2. \A k \in Loop : loop[k] # "off" => loop'[k] # "off"
    BY <1>t, <1>2, LoopFrame
  <2> QED BY <1>t, <2>1, <2>2, OpenedKept
<1>3. ASSUME NEW c \in Call, CallStep(c) PROVE Opened'
  BY <1>t, <1>3, CallFrame, OpenedKept DEF process
<1>4. ASSUME NEW p \in Probe, ProbeArrives(p) \/ ProbeLocks(p) \/ PingEnds(p)
      PROVE  Opened'
  BY <1>t, <1>4, ProbeFrame, OpenedKept DEF process, runtime
<1>5. CASE DatabaseTurns \/ Signal \/ Tick
  BY <1>t, <1>5, WorldFrame, OpenedKept DEF runtime
<1>6. CASE UNCHANGED vars
  BY <1>t, <1>6, OpenedKept DEF vars, process, handlers, runtime
<1> QED BY <1>1, <1>2, <1>3, <1>4, <1>5, <1>6 DEF Next

\* A step that neither opens nor closes, and begins nothing unless main serves.
LEMMA ClosedKept ==
    ASSUME Opened, ClosedLast, UNCHANGED <<main, code, pool, library>>,
           \A l \in Loop : loop'[l] = "off" => loop[l] = "off",
           NoneLeft => NoneLeft' \/ Serving,
           holder' # Unlocked => holder' \in waits'
    PROVE  ClosedLast'
<1>1. ~NoneLeft' => /\ main \in {"serve", "drain"} \/ (main = "exited" /\ code = 1)
                    /\ env = "open" /\ (\A m \in Model : session[m] = "open") /\ pool = "open"
  <2>1. CASE ~NoneLeft
    BY <2>1 DEF ClosedLast
  <2>2. CASE Serving
    BY <2>2 DEF Serving, Opened, MainPc
  <2> QED BY <2>1, <2>2
<1> QED BY <1>1 DEF ClosedLast, library

\* main closes what it opened, the other way round, when nothing is left to use it.
LEMMA NextClosed == Inductive /\ [Next]_vars => ClosedLast'
<1> SUFFICES ASSUME Inductive, [Next]_vars PROVE ClosedLast'
  OBVIOUS
<1>t. Opened /\ ClosedLast /\ Model = {"embed", "rerank"} /\ session \in [Model -> Life]
      /\ loop \in [Loop -> {"off", "pass", "wait", "gone"}] /\ main \in MainPc
      /\ serving \in [Call -> {"idle", "precheck", "model", "charge"}]
      /\ EarlyLoop \subseteq Loop /\ (\E l \in EarlyLoop : TRUE)
  BY ServerAssumption DEF Inductive, TypeOK, RuntimeType, Loop
<1>1. CASE MainStep \/ ListenFails
  <2>0. /\ NoneLeft' <=> NoneLeft
        /\ UNCHANGED <<holder, waits>>
    BY <1>1, MainFrame DEF NoneLeft, ready
  <2>1. CASE LoadConfig \/ Migrate \/ Connect \/ ConnectFails
    BY <1>t, <2>0, <2>1 DEF LoadConfig, Migrate, Connect, ConnectFails, Goto, Fatal, Opened, ClosedLast,
       MainPc, handlers, runtime, library
  <2>2. CASE OpenRuntime \/ OpenEmbed \/ OpenRerank
    BY <1>t, <2>0, <2>2 DEF OpenRuntime, OpenEmbed, OpenRerank, Goto, InitRuntime, OpenModel, Opened,
       ClosedLast, MainPc
  <2>3. CASE EncoderFails
    BY <1>t, <2>0, <2>3 DEF EncoderFails, Fatal, Opened, ClosedLast, MainPc, handlers, runtime, library
  <2>4. CASE RerankFails \/ WarmUpFails
    <3>1. \A m \in Model : session'[m] # "open"
      BY <1>t, <2>4 DEF RerankFails, WarmUpFails, CloseModels, CloseRuntime, Closed
    <3>2. NoneLeft /\ main' = "exited" /\ code' = 1
      BY <1>t, <2>4 DEF RerankFails, WarmUpFails, Fatal, ClosedLast
    <3> QED BY <1>t, <2>0, <3>1, <3>2 DEF ClosedLast
  <2>5. CASE BlobsFail \/ ListenFails \/ DrainTimeout
    <3>1. UNCHANGED <<env, session, pool, loop>> /\ main' = "exited" /\ code' = 1
          /\ main \in {"blobs", "serve", "drain"}
      BY <2>5 DEF BlobsFail, ListenFails, DrainTimeout, Fatal, handlers, runtime, library
    <3>2. \E l \in Loop : loop'[l] # "off"
      BY <1>t, <3>1 DEF Opened
    <3> QED BY <1>t, <2>0, <3>1, <3>2 DEF ClosedLast, Opened, MainPc
  <2>6. CASE WarmUp \/ StartLoops \/ OpenBlobs
    BY <1>t, <2>0, <2>6 DEF WarmUp, StartLoops, OpenBlobs, Goto, Opened, ClosedLast, MainPc,
       handlers, runtime, library
  <2>7. CASE Listen \/ Shutdown
    BY <1>t, <2>0, <2>7 DEF Listen, Shutdown, Goto, Opened, ClosedLast, MainPc, handlers, runtime, library
  <2>8. CASE Drained
    BY <1>t, <2>0, <2>8 DEF Drained, Goto, Opened, ClosedLast, MainPc, handlers, runtime, library
  <2>9. CASE CloseEncoder
    <3>1. env' = "destroyed" /\ \A m \in Model : session'[m] = "destroyed"
      BY <1>t, <2>9 DEF CloseEncoder, Goto, CloseRuntime, Closed, Opened
    <3>2. main = "encoder" /\ main' = "pool" /\ pool' = "open" /\ NoneLeft
      BY <1>t, <2>9 DEF CloseEncoder, Goto, Opened, ClosedLast, MainPc
    <3> QED BY <1>t, <2>0, <3>1, <3>2 DEF ClosedLast
  <2>10. CASE ClosePool \/ PoolClosed
    <3>1. /\ UNCHANGED <<env, session, code>> /\ main = "pool"
          /\ \/ main' = "pool" /\ pool' = "closing"
             \/ main' = "exited" /\ pool' = "closed"
      BY <2>10 DEF ClosePool, PoolClosed, Goto, process, handlers, runtime, library
    <3>2. NoneLeft
      BY <1>t, <3>1 DEF ClosedLast
    <3> QED BY <1>t, <2>0, <3>1, <3>2 DEF ClosedLast
  <2> QED BY <1>1, <2>1, <2>2, <2>3, <2>4, <2>5, <2>6, <2>7, <2>8, <2>9, <2>10 DEF MainStep
<1>2. ASSUME NEW l \in Loop, BeginPass(l) \/ EndPass(l) \/ EndLoop(l) PROVE ClosedLast'
  <2>1. UNCHANGED <<main, code, pool, library, holder, waits, serving>>
    BY <1>2, LoopFrame DEF process, handlers, runtime, ready
  <2>2. \A k \in Loop : loop'[k] = "off" => loop[k] = "off"
    BY <1>t, <1>2, LoopFrame
  <2>3. NoneLeft' <=> NoneLeft
    BY <2>1 DEF NoneLeft
  <2> QED BY <1>t, <2>1, <2>2, <2>3, ClosedKept DEF ClosedLast
<1>3. ASSUME NEW c \in Call, CallStep(c) PROVE ClosedLast'
  <2>1. UNCHANGED <<main, code, pool, loop, library, holder, waits>>
    BY <1>3, CallFrame DEF process, ready
  <2>2. serving[c] = "idle" => Serving
    BY <1>3 DEF CallStep, Arrives, Prechecked, PrecheckFails, Computes, Answers, ModelFails, Charged, Serve
  <2>3. NoneLeft => Serving
    BY <2>2 DEF NoneLeft
  <2> QED BY <1>t, <2>1, <2>3, ClosedKept DEF ClosedLast
<1>4. ASSUME NEW p \in Probe, ProbeArrives(p) \/ ProbeLocks(p) \/ PingEnds(p)
      PROVE  ClosedLast'
  <2>1. UNCHANGED <<main, code, pool, loop, library, serving>>
    BY <1>4, ProbeFrame DEF process, runtime
  <2>2. holder' # Unlocked => holder' \in waits'
    BY <1>t, <1>4 DEF ProbeArrives, ProbeLocks, PingEnds, PingAnswers, PingFails, Probes, FromCache, StartPing, Pinged,
       Unlocks, ClosedLast
  <2>3. NoneLeft => Serving
    <3>1. Unlocked \notin Probe
      BY ReadinessAssumption
    <3> QED BY <1>t, <1>4, <3>1 DEF ProbeArrives, ProbeLocks, PingEnds, PingAnswers, PingFails, FromCache, StartPing,
                Pinged, ClosedLast, NoneLeft
  <2> QED BY <1>t, <2>1, <2>2, <2>3, ClosedKept
<1>5. CASE DatabaseTurns \/ Signal \/ Tick
  <2>1. UNCHANGED <<main, code, pool, loop, library, holder, waits, serving>>
    BY <1>5, WorldFrame DEF runtime
  <2>2. NoneLeft' <=> NoneLeft
    BY <2>1 DEF NoneLeft
  <2> QED BY <1>t, <2>1, <2>2, ClosedKept DEF ClosedLast
<1>6. CASE UNCHANGED vars
  <2>1. UNCHANGED <<main, code, pool, loop, library, holder, waits, serving>>
    BY <1>6 DEF vars, process, handlers, runtime, ready
  <2>2. NoneLeft' <=> NoneLeft
    BY <2>1 DEF NoneLeft
  <2> QED BY <1>t, <2>1, <2>2, ClosedKept DEF ClosedLast
<1> QED BY <1>1, <1>2, <1>3, <1>4, <1>5, <1>6 DEF Next

\* The result ages with the time since its ping, and is what that ping came to.
LEMMA NextDated == Inductive /\ [Next]_vars => ResultDated'
<1> SUFFICES ASSUME Inductive, [Next]_vars PROVE ResultDated'
  OBVIOUS
<1>t. ResultDated /\ age \in 0..Stale /\ quiet \in 0..Stale /\ upAge \in 0..Stale
      /\ badAge \in 0..Stale /\ Stale \in Nat
  <2>1. CacheFor \in Nat
    BY ReadinessAssumption
  <2> QED BY <2>1 DEF Inductive, TypeOK, ReadinessType, Stale
<1>1. ASSUME UNCHANGED <<quiet, age, failed, badAge, upAge, dbUp>> PROVE ResultDated'
  BY <1>t, <1>1 DEF ResultDated
<1>2. CASE MainStep \/ ListenFails
  BY <1>1, <1>2, MainFrame DEF ready, database
<1>3. ASSUME NEW l \in Loop, BeginPass(l) \/ EndPass(l) \/ EndLoop(l) PROVE ResultDated'
  BY <1>1, <1>3, LoopFrame DEF handlers, ready, database
<1>4. ASSUME NEW c \in Call, CallStep(c) PROVE ResultDated'
  BY <1>1, <1>4, CallFrame DEF ready, database
<1>5. ASSUME NEW p \in Probe, ProbeArrives(p) \/ ProbeLocks(p) \/ PingEnds(p)
      PROVE  ResultDated'
  <2>1. CASE ProbeArrives(p) \/ ProbeLocks(p)
    BY <1>1, <2>1 DEF ProbeArrives, ProbeLocks, InProbe, Probes, FromCache, StartPing
  <2>2. CASE PingAnswers(p)
    <3>1. /\ age' = 0 /\ quiet' = 0 /\ UNCHANGED <<dbUp, upAge, badAge>>
          /\ failed' = FALSE /\ dbUp
      BY <2>2 DEF PingAnswers, Pinged, Keep, InProbe
    <3> QED BY <1>t, <3>1 DEF ResultDated
  <2>3. CASE PingFails(p)
    <3>1. /\ age' = 0 /\ quiet' = 0 /\ UNCHANGED <<dbUp, upAge>> /\ badAge' = 0 /\ failed' = TRUE
      BY <2>3 DEF PingFails, Pinged, Keep, InProbe
    <3> QED BY <1>t, <3>1 DEF ResultDated
  <2> QED BY <1>5, <2>1, <2>2, <2>3 DEF PingEnds
<1>6. CASE DatabaseTurns
  <2>1. /\ UNCHANGED <<quiet, age, failed>>
        /\ badAge' = badAge /\ (IF dbUp' THEN upAge' = 0 ELSE upAge' = upAge)
    BY <1>6 DEF DatabaseTurns, handlers, ready
  <2> QED BY <1>t, <2>1 DEF ResultDated
<1>7. CASE Signal
  BY <1>1, <1>7 DEF Signal, handlers, ready, database
<1>8. CASE Tick
  <2>1. UNCHANGED <<failed, dbUp>>
    BY <1>8 DEF Tick, Passes
  <2>2. /\ age' = Older(age) /\ quiet' = Older(quiet)
        /\ upAge' = (IF dbUp THEN 0 ELSE Older(upAge))
        /\ badAge' = Older(badAge)
    BY <1>8 DEF Tick, Passes, Older
  <2>3. \A x, y \in 0..Stale : /\ Older(x) \in 0..Stale /\ (x <= y => Older(x) <= Older(y))
    BY <1>t DEF Older
  <2> QED BY <1>t, <2>1, <2>2, <2>3 DEF ResultDated
<1>9. CASE UNCHANGED vars
  BY <1>1, <1>9 DEF vars, handlers, ready, database
<1> QED BY <1>2, <1>3, <1>4, <1>5, <1>6, <1>7, <1>8, <1>9 DEF Next

\* Every step keeps all of it.
LEMMA NextInductive == Inductive /\ [Next]_vars => Inductive'
BY NextType, NextStages, NextOpened, NextClosed, NextDated DEF Inductive

-----------------------------------------------------------------------------
(* The theorems.                                                           *)

\* main, the requests, the loops, the library and the probe stay in step, for any number
\* of each (the inductive invariant).
THEOREM InductiveInvariant == Spec => []Inductive
<1> QED BY InitInductive, NextInductive, PTL DEF Spec

\* The process keeps its state well typed (TypeOK).
THEOREM TypeCorrect == Spec => []TypeOK
<1>1. Inductive => TypeOK
  BY DEF Inductive
<1> QED BY <1>1, InductiveInvariant, PTL

\* No session, environment or pool is closed under a request that uses it
\* (NothingClosedInUse).
THEOREM NothingClosed == Spec => []NothingClosedInUse
<1>1. Inductive => NothingClosedInUse
  <2> SUFFICES ASSUME Inductive PROVE NothingClosedInUse
    OBVIOUS
  <2>t. StagesOwn /\ ClosedLast /\ stage \in [Call -> Stage] /\ model \in [Call -> Model]
        /\ inputs \in [Call -> 0..Inputs] /\ output \in [Call -> BOOLEAN]
    BY DEF Inductive, TypeOK, RuntimeType
  <2>1. ASSUME NEW c \in Call, serving[c] # "idle"
        PROVE  env = "open" /\ (\A m \in Model : session[m] = "open") /\ pool = "open"
    BY <2>t, <2>1 DEF ClosedLast, NoneLeft
  <2>2. UsesLive
    <3>1. ASSUME NEW c \in Call, inputs[c] > 0 \/ output[c] \/ stage[c] = "run"
          PROVE  env = "open" /\ session[model[c]] = "open"
      <4>1. stage[c] # "idle"
        BY <2>t, <3>1 DEF StagesOwn
      <4>2. serving[c] # "idle"
        BY <2>t, <4>1 DEF StagesOwn
      <4>3. model[c] \in Model
        BY <2>t
      <4> QED BY <2>1, <4>2, <4>3
    <3> QED BY <3>1 DEF UsesLive
  <2>3. holder # Unlocked => pool = "open"
    BY <2>t DEF ClosedLast, NoneLeft
  <2> QED BY <2>1, <2>2, <2>3 DEF NothingClosedInUse, InQuery
<1> QED BY <1>1, InductiveInvariant, PTL

\* A call that has come back owns no tensor, and a clean exit leaves nothing open
\* (NothingLeaks).
THEOREM LeakFree == Spec => []NothingLeaks
<1>1. Inductive => NothingLeaks
  BY DEF Inductive, StagesOwn, ClosedLast, NothingLeaks, CallsClean
<1> QED BY <1>1, InductiveInvariant, PTL

\* The database is left alone for longer than CacheFor between two pings (PingsSpaced).
THEOREM PingSpacing == Spec => PingsSpaced
<1>1. Inductive /\ [Next]_vars =>
        [\A p \in Probe : holder' = p /\ holder # p => quiet > CacheFor]_vars
  <2> SUFFICES ASSUME Inductive, Next, NEW p \in Probe, holder' = p, holder # p
               PROVE  quiet > CacheFor
    OBVIOUS
  <2>0. p # Unlocked /\ quiet = age /\ age \in 0..Stale /\ CacheFor \in Nat
    BY ReadinessAssumption DEF Inductive, ResultDated, TypeOK, ReadinessType
  <2>1. CASE \E q \in Probe : StartPing(q)
    BY <2>0, <2>1 DEF StartPing, Fresh, Stale
  <2>2. CASE \E q \in Probe : PingEnds(q)
    BY <2>0, <2>2 DEF PingEnds, PingAnswers, PingFails, Pinged, Unlocks
  <2>3. \/ UNCHANGED holder
        \/ \E q \in Probe : StartPing(q) \/ PingEnds(q)
    <3>1. CASE MainStep \/ ListenFails
      BY <3>1, MainFrame DEF ready
    <3>2. CASE \E l \in Loop : BeginPass(l) \/ EndPass(l) \/ EndLoop(l)
      BY <3>2, LoopFrame DEF handlers, ready
    <3>3. CASE \E c \in Call : CallStep(c)
      BY <3>3, CallFrame DEF ready
    <3>4. CASE \E q \in Probe : ProbeArrives(q) \/ ProbeLocks(q) \/ PingEnds(q)
      BY <3>4 DEF ProbeArrives, ProbeLocks, Probes, FromCache
    <3>5. CASE DatabaseTurns \/ Signal \/ Tick
      BY <3>5, WorldFrame
    <3> QED BY <3>1, <3>2, <3>3, <3>4, <3>5 DEF Next
  <2> QED BY <2>1, <2>2, <2>3
<1> QED BY <1>1, InductiveInvariant, PTL DEF Spec, PingsSpaced

\* /readyz says "ready" only if the database was there within CacheFor, and "degraded"
\* only if a ping failed within CacheFor (AnswersFresh).
THEOREM AnswerFreshness == Spec => AnswersFresh
<1>1. Inductive /\ [Next]_vars =>
        [\A p \in Probe : p \in waits /\ p \notin waits' =>
           IF failed' THEN badAge' <= CacheFor ELSE upAge' <= CacheFor]_vars
  <2> SUFFICES ASSUME Inductive, Next, NEW p \in Probe, p \in waits, p \notin waits'
               PROVE  IF failed' THEN badAge' <= CacheFor ELSE upAge' <= CacheFor
    OBVIOUS
  <2>0. CacheFor \in Nat /\ Inductive'
    BY ReadinessAssumption, NextInductive
  <2>1. age' <= CacheFor
    <3>1. CASE MainStep \/ ListenFails
      BY <3>1, MainFrame DEF ready
    <3>2. CASE \E l \in Loop : BeginPass(l) \/ EndPass(l) \/ EndLoop(l)
      BY <3>2, LoopFrame DEF handlers, ready
    <3>3. CASE \E c \in Call : CallStep(c)
      BY <3>3, CallFrame DEF ready
    <3>4. CASE \E q \in Probe : ProbeArrives(q) \/ ProbeLocks(q) \/ PingEnds(q)
      <4>1. CASE \E q \in Probe : ProbeArrives(q) \/ ProbeLocks(q)
        BY <4>1 DEF ProbeArrives, ProbeLocks, Probes, FromCache, StartPing, Fresh
      <4>2. CASE \E q \in Probe : PingEnds(q)
        <5>1. age' = 0
          BY <4>2 DEF PingEnds, PingAnswers, PingFails, Pinged, Keep
        <5> QED BY <2>0, <5>1
      <4> QED BY <3>4, <4>1, <4>2
    <3>5. CASE DatabaseTurns \/ Signal \/ Tick
      BY <3>5, WorldFrame
    <3> QED BY <3>1, <3>2, <3>3, <3>4, <3>5 DEF Next
  <2>2. /\ age' \in Nat /\ badAge' \in Nat /\ upAge' \in Nat
        /\ IF failed' THEN badAge' <= age' ELSE upAge' <= age'
    <3>1. Stale \in Nat
      BY <2>0 DEF Stale
    <3> QED BY <2>0, <3>1 DEF Inductive, TypeOK, ReadinessType, ResultDated, Stale
  <2> QED BY <2>0, <2>1, <2>2
<1> QED BY <1>1, InductiveInvariant, PTL DEF Spec, AnswersFresh
=============================================================================
