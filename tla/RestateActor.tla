---------------------------- MODULE RestateActor ----------------------------
(***************************************************************************)
(* FlinkJobFamilyActor as a Restate Virtual Object.  Its exclusive         *)
(* handlers run one invocation per family at a time, in the order of the   *)
(* calls; the job's runtime state is cached in the object's K/V store; and *)
(* every cluster operation is a durable step, retried by the engine.       *)
(*                                                                         *)
(* A durable step whose result was not journaled when the process crashed  *)
(* is executed again.  Reads of the cluster are folded into the start of   *)
(* the handler: nothing but the object itself mutates its family, so       *)
(* neither a later read nor a repeated one returns anything else.          *)
(***************************************************************************)
EXTENDS Cluster, SequencesExt

CONSTANTS
    Sagas,        \* the workflow invocations that call the objects
    MaxAttempts,  \* attempts of one durable step (4 in the code)
    MaxMishaps,   \* bound: attempts that do not simply succeed
    MaxCrashes,   \* bound: crashes between a step's effect and its record
    MaxResets     \* bound: how often the CLI clears a cache

ASSUME RestateAssumption ==
    /\ MaxAttempts \in Nat \ {0}
    /\ MaxMishaps \in Nat
    /\ MaxCrashes \in Nat
    /\ MaxResets \in Nat

VARIABLES
    cache,     \* family -> cached runtime state, or "unset"
    inbox,     \* family -> the calls not yet answered, in order
    steps,     \* family -> durable steps left of the handler being run
    attempt,   \* family -> number of the next attempt of the first of them
    reply,     \* saga -> the answer to its last call
    mishaps, crashes, resets  \* how much of the bounds is used up

handlers == <<cache, inbox, steps, attempt, reply, mishaps, crashes, resets>>

\* An optional value is a set of at most one value, as None or a value is.
Call ==
    [caller : Sagas, command : {"pause", "patch", "resume", "restore"},
     desired : SUBSET FamilyState, config : SUBSET SUBSET Datatypes]

Reply == {"none", "waiting", "changed", "unchanged", "failed"}

ActorTypeOK ==
    /\ cache \in [Families -> FamilyState \union {"unset"}]
    /\ inbox \in [Families -> Seq(Call)]
    /\ steps \in [Families -> Seq(Operation)]
    /\ attempt \in [Families -> 1..MaxAttempts]
    /\ reply \in [Sagas -> Reply]
    /\ mishaps \in 0..MaxMishaps
    /\ crashes \in 0..MaxCrashes
    /\ resets \in 0..MaxResets

ActorInit ==
    /\ cache = [f \in Families |-> "unset"]
    /\ inbox = [f \in Families |-> <<>>]
    /\ steps = [f \in Families |-> <<>>]
    /\ attempt = [f \in Families |-> 1]
    /\ reply = [s \in Sagas |-> "none"]
    /\ mishaps = 0
    /\ crashes = 0
    /\ resets = 0

-----------------------------------------------------------------------------
(* What a handler decides to do.                                           *)

Serving(f) == Head(inbox[f])

Busy(f) == steps[f] # <<>>

\* The cached state, read from the cluster the first time it is asked for.
CachedState(f) == IF cache[f] = "unset" THEN state[f] ELSE cache[f]

PauseSteps == <<"trigger_savepoint", "suspend_job">>

RestoreStateSteps(f, desired) ==
    CASE state[f] \in desired \/ desired = {}                       -> <<>>
      [] state[f] \notin desired /\ desired = {"SUSPENDED"}         -> PauseSteps
      [] state[f] \notin desired /\ desired = {"RUNNING"}           -> <<"resume_job">>

RestoreConfigSteps(f, config) ==
    IF config = {} \/ datatypes[f] \in config THEN <<>> ELSE <<"patch_configmap">>

\* Fault: the restore trusts the cache, as the ordinary commands do.
CachedHandlerSteps(f, call) ==
    CASE call.command = "pause" ->
            IF CachedState(f) = "SUSPENDED" THEN <<>> ELSE PauseSteps
      [] call.command = "resume" ->
            IF CachedState(f) = "RUNNING" THEN <<>> ELSE <<"resume_job">>
      [] call.command = "patch" -> <<"patch_configmap">>
      [] call.command = "restore" ->
            IF CachedState(f) \in call.desired \/ call.desired = {}
            THEN RestoreConfigSteps(f, call.config)
            ELSE RestoreStateSteps(f, call.desired)

HandlerSteps(f, call) ==
    CASE call.command = "pause" ->
            IF CachedState(f) = "SUSPENDED" THEN <<>> ELSE PauseSteps
      [] call.command = "resume" ->
            IF CachedState(f) = "RUNNING" THEN <<>> ELSE <<"resume_job">>
      [] call.command = "patch" -> <<"patch_configmap">>
      [] call.command = "restore" ->
            RestoreStateSteps(f, call.desired) \o RestoreConfigSteps(f, call.config)

\* Fault: the restore leaves the cache as it found it.
KeptCache(f, call) ==
    IF call.command \in {"pause", "resume"} THEN CachedState(f) ELSE cache[f]

\* What the handler has put in the K/V store before its first mutation.
SyncedCache(f, call) ==
    CASE call.command \in {"pause", "resume"} -> CachedState(f)
      [] call.command = "restore"             -> state[f]
      [] call.command = "patch"               -> cache[f]

\* Fault: a suspend is not recorded in the cache.
CacheAfterResumeOnly(f, op) == IF op = "resume_job" THEN "RUNNING" ELSE cache[f]

\* What it puts there when a step returns.
CacheAfter(f, op) ==
    CASE op = "suspend_job" -> "SUSPENDED"
      [] op = "resume_job"  -> "RUNNING"
      [] op \in {"trigger_savepoint", "patch_configmap"} -> cache[f]

-----------------------------------------------------------------------------
\* The invocation at the head of the queue is over; its caller gets the answer.
Answer(f, answer) ==
    /\ reply' = [reply EXCEPT ![Serving(f).caller] = answer]
    /\ inbox' = [inbox EXCEPT ![f] = Tail(@)]
    /\ steps' = [steps EXCEPT ![f] = <<>>]
    /\ attempt' = [attempt EXCEPT ![f] = 1]

\* The object takes up the next call, and answers it when nothing is to do.
Enter(f) ==
    /\ inbox[f] # <<>>
    /\ ~Busy(f)
    /\ cache' = [cache EXCEPT ![f] = SyncedCache(f, Serving(f))]
    /\ LET todo == HandlerSteps(f, Serving(f))
       IN  IF todo = <<>> THEN Answer(f, "unchanged")
           ELSE /\ steps' = [steps EXCEPT ![f] = todo]
                /\ UNCHANGED <<inbox, attempt, reply>>
    /\ UNCHANGED <<cluster, mishaps, crashes, resets>>

\* One attempt of the durable step at the head of the handler's steps.
Attempt(f, outcome) ==
    /\ Busy(f)
    /\ IF Committed(outcome)
       THEN \E config \in SUBSET Datatypes :
                /\ Head(steps[f]) = "patch_configmap" => config \in Serving(f).config
                /\ Head(steps[f]) # "patch_configmap" => config = {}
                /\ Mutate(Head(steps[f]), f, config)
       ELSE UNCHANGED cluster
    /\ IF outcome = "ok" THEN UNCHANGED mishaps
       ELSE mishaps < MaxMishaps /\ mishaps' = mishaps + 1

StepReturns(f) ==
    /\ Attempt(f, "ok")
    /\ cache' = [cache EXCEPT ![f] = CacheAfter(f, Head(steps[f]))]
    /\ IF Len(steps[f]) = 1 THEN Answer(f, "changed")
       ELSE /\ steps' = [steps EXCEPT ![f] = Tail(@)]
            /\ attempt' = [attempt EXCEPT ![f] = 1]
            /\ UNCHANGED <<inbox, reply>>
    /\ UNCHANGED <<crashes, resets>>

\* Fault: the budget is checked one attempt too late.
StepRetriedOnceMore(f, outcome) ==
    /\ Attempt(f, outcome)
    /\ Retryable(outcome)
    /\ attempt[f] <= MaxAttempts
    /\ attempt' = [attempt EXCEPT ![f] = @ + 1]
    /\ UNCHANGED <<cache, inbox, steps, reply, crashes, resets>>

StepRetried(f, outcome) ==
    /\ Attempt(f, outcome)
    /\ Retryable(outcome)
    /\ attempt[f] < MaxAttempts
    /\ attempt' = [attempt EXCEPT ![f] = @ + 1]
    /\ UNCHANGED <<cache, inbox, steps, reply, crashes, resets>>

\* Fault: a failed invocation is dropped without an answer.
StepFailsSilently(f, outcome) ==
    /\ Attempt(f, outcome)
    /\ outcome = "permanent" \/ (Retryable(outcome) /\ attempt[f] = MaxAttempts)
    /\ inbox' = [inbox EXCEPT ![f] = Tail(@)]
    /\ steps' = [steps EXCEPT ![f] = <<>>]
    /\ attempt' = [attempt EXCEPT ![f] = 1]
    /\ UNCHANGED <<cache, reply, crashes, resets>>

\* The budget is spent, or the fault is permanent: the invocation fails, and
\* what it had put in the K/V store stays there.
StepFails(f, outcome) ==
    /\ Attempt(f, outcome)
    /\ outcome = "permanent" \/ (Retryable(outcome) /\ attempt[f] = MaxAttempts)
    /\ Answer(f, "failed")
    /\ UNCHANGED <<cache, crashes, resets>>

\* The process crashes when the step has taken effect and before that is
\* journaled.  Whether the engine counts it as an attempt is its own affair.
Crash(f) ==
    /\ crashes < MaxCrashes
    /\ crashes' = crashes + 1
    /\ Attempt(f, "ok")
    /\ \E n \in {attempt[f], attempt[f] + 1} :
            n <= MaxAttempts /\ attempt' = [attempt EXCEPT ![f] = n]
    /\ UNCHANGED <<cache, inbox, steps, reply, resets>>

\* The CLI clears the cache; an exclusive handler too, it runs between others.
Reset(f) ==
    /\ resets < MaxResets
    /\ resets' = resets + 1
    /\ ~Busy(f)
    /\ cache' = [cache EXCEPT ![f] = "unset"]
    /\ UNCHANGED <<cluster, inbox, steps, attempt, reply, mishaps, crashes>>

HandlerStep(f) ==
    \/ Enter(f)
    \/ StepReturns(f)
    \/ \E outcome \in Outcome : StepRetried(f, outcome)
    \/ \E outcome \in Outcome : StepFails(f, outcome)
=============================================================================
