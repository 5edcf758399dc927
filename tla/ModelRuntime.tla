---------------------------- MODULE ModelRuntime ----------------------------
(***************************************************************************)
(* The onnx backend (encode/onnx.go): one process wide environment, a      *)
(* session per model, and tensors in the runtime's own memory, which no    *)
(* garbage collector looks after.  openONNX and Close are steps of main,   *)
(* run steps of the handlers; module Server says who takes them when.      *)
(*                                                                         *)
(* Left out: tokenizing and the arithmetic on the vectors; a tensor is     *)
(* there or it is not.                                                     *)
(***************************************************************************)
EXTENDS Naturals

CONSTANTS
    Model,      \* embed and rerank
    Nobody,     \* nobody holds a model's mutex
    Call,       \* what may call Embed and Rerank
    Inputs      \* inputs of a graph: ids, mask and types

ASSUME RuntimeAssumption == Inputs \in Nat \ {0} /\ Nobody \notin Call

VARIABLES
    env,        \* the runtime environment
    session,    \* the sessions
    mutex,      \* who holds a model's mu
    stage,      \* where a call is
    model,      \* the model it is about
    inputs,     \* the input tensors it has allocated
    output      \* does it own an output tensor?

library == <<env, session>>
calls   == <<mutex, stage, model, inputs, output>>
runtime == <<library, calls>>

Life == {"none", "open", "destroyed"}

Stage == {"idle", "batch", "run", "output"}

RuntimeType ==
    /\ env \in Life
    /\ session \in [Model -> Life]
    /\ mutex \in [Model -> Call \cup {Nobody}]
    /\ stage \in [Call -> Stage]
    /\ model \in [Call -> Model]
    /\ inputs \in [Call -> 0..Inputs]
    /\ output \in [Call -> BOOLEAN]

RuntimeInit ==
    /\ env = "none"
    /\ session = [m \in Model |-> "none"]
    /\ mutex = [m \in Model |-> Nobody]
    /\ stage = [c \in Call |-> "idle"]
    /\ model \in [Call -> {CHOOSE m \in Model : TRUE}]
    /\ inputs = [c \in Call |-> 0]
    /\ output = [c \in Call |-> FALSE]

-----------------------------------------------------------------------------
(* openONNX, and what it does when a part of it fails.                     *)

\* initRuntime, once in the life of the process.
InitRuntime ==
    /\ env = "none"
    /\ env' = "open"
    /\ UNCHANGED <<session, calls>>

OpenModel(m) ==
    /\ session[m] = "none"
    /\ session' = [session EXCEPT ![m] = "open"]
    /\ UNCHANGED <<env, calls>>

Closed(s) == IF s = "open" THEN "destroyed" ELSE s

\* The second model does not open: the first is closed again.
CloseModels ==
    /\ session' = [m \in Model |-> Closed(session[m])]
    /\ UNCHANGED <<env, calls>>

\* Close: the sessions, whatever they are doing, then the environment.
CloseRuntime ==
    /\ session' = [m \in Model |-> Closed(session[m])]
    /\ env' = "destroyed"
    /\ UNCHANGED calls

-----------------------------------------------------------------------------
(* Embed and Rerank.                                                       *)

\* Tokenized, and padded into a batch.
Tokenize(c, m) ==
    /\ stage[c] = "idle"
    /\ stage' = [stage EXCEPT ![c] = "batch"]
    /\ model' = [model EXCEPT ![c] = m]
    /\ UNCHANGED <<library, mutex, inputs, output>>

\* A slip: off by one.
OneTensorMore(c) ==
    /\ stage[c] = "batch"
    /\ inputs[c] <= Inputs
    /\ inputs' = [inputs EXCEPT ![c] = @ + 1]
    /\ UNCHANGED <<library, mutex, stage, model, output>>

\* run: the next input tensor.
NewTensor(c) ==
    /\ stage[c] = "batch"
    /\ inputs[c] < Inputs
    /\ inputs' = [inputs EXCEPT ![c] = @ + 1]
    /\ UNCHANGED <<library, mutex, stage, model, output>>

\* A slip: only a run that gets as far as the session frees its inputs.
LeakInputs(c) ==
    /\ stage[c] = "batch"
    /\ stage' = [stage EXCEPT ![c] = "idle"]
    /\ UNCHANGED <<library, mutex, model, inputs, output>>

\* The context is done before the first tensor, or a tensor cannot be made: the
\* deferred loop frees those that were.
GiveUp(c) ==
    /\ stage[c] = "batch"
    /\ stage' = [stage EXCEPT ![c] = "idle"]
    /\ inputs' = [inputs EXCEPT ![c] = 0]
    /\ UNCHANGED <<library, mutex, model, output>>

LockSession(c) ==
    /\ stage[c] = "batch"
    /\ inputs[c] = Inputs
    /\ mutex[model[c]] = Nobody
    /\ mutex' = [mutex EXCEPT ![model[c]] = c]
    /\ stage' = [stage EXCEPT ![c] = "run"]
    /\ UNCHANGED <<library, model, inputs, output>>

\* session.Run returns, the inputs are freed; an output is the caller's.
Ran(c) ==
    /\ stage[c] = "run"
    /\ mutex' = [mutex EXCEPT ![model[c]] = Nobody]
    /\ inputs' = [inputs EXCEPT ![c] = 0]
    /\ stage' = [stage EXCEPT ![c] = "output"]
    /\ output' = [output EXCEPT ![c] = TRUE]
    /\ UNCHANGED <<library, model>>

\* The run fails, or its output is of another type and freed at once.
RunFails(c) ==
    /\ stage[c] = "run"
    /\ mutex' = [mutex EXCEPT ![model[c]] = Nobody]
    /\ inputs' = [inputs EXCEPT ![c] = 0]
    /\ stage' = [stage EXCEPT ![c] = "idle"]
    /\ UNCHANGED <<library, model, output>>

\* The result is copied out of the tensor, or is of the wrong shape.
Copied(c) ==
    /\ stage[c] = "output"
    /\ output' = [output EXCEPT ![c] = FALSE]
    /\ stage' = [stage EXCEPT ![c] = "idle"]
    /\ UNCHANGED <<library, mutex, model, inputs>>

\* A call comes back, with an answer or with an error.
Returns(c) == GiveUp(c) \/ RunFails(c) \/ Copied(c)

Proceeds(c) == NewTensor(c) \/ LockSession(c) \/ Ran(c)

-----------------------------------------------------------------------------
(* What a caller of the library must see to.                               *)

\* A session is run, and a tensor read, only while the environment is up.
UsesLive == \A c \in Call :
    /\ stage[c] = "run" => session[model[c]] = "open" /\ env = "open"
    /\ inputs[c] > 0 \/ output[c] => env = "open"

\* Nothing is left of a call that has come back.
CallsClean == \A c \in Call : stage[c] = "idle" => inputs[c] = 0 /\ ~output[c]
=============================================================================
