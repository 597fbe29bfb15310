--------------------------- MODULE TemporalActor ----------------------------
(***************************************************************************)
(* FlinkJobFamilyActor as a Temporal entity workflow: one run at a time    *)
(* per family, commands as updates that wait in line for the run's lock,   *)
(* the job's runtime state cached in the workflow.  A run remembers the    *)
(* updates it has accepted, by id, so that sending one again attaches to   *)
(* it; the next run remembers nothing.                                     *)
(*                                                                         *)
(* An attempt of an activity that times out has either taken effect or     *)
(* never will.  Reads are folded into the start of the handler: while it   *)
(* holds the lock nothing else mutates the family.                         *)
(***************************************************************************)
EXTENDS Cluster, SequencesExt

CONSTANTS
    Sagas,         \* the executions of the move workflow
    MaxAttempts,   \* attempts of one cluster activity (4 in the code)
    MaxMishaps,    \* bound: attempts that do not simply succeed
    MaxEndedRuns   \* bound: how many runs of actors end

ASSUME TemporalAssumption ==
    /\ MaxAttempts \in Nat \ {0}
    /\ MaxMishaps \in Nat
    /\ MaxEndedRuns \in Nat

VARIABLES
    actor,     \* family -> absent, starting (not _ready yet) or ready
    cache,     \* family -> the actor's _state, "unset" before it is ready
    queue,     \* family -> accepted updates, the lock's holder or next first
    steps,     \* family -> activities left of the handler that has the lock
    attempt,   \* family -> number of the next attempt of the first of them
    finished,  \* family -> the updates this run has finished, with answers
    wire,      \* update requests sent and not yet delivered
    call,      \* saga -> the request its proxy is making, if any
    reply,     \* saga -> what the proxy has heard of it
    ran,       \* the ids of the updates that have been carried out
    twice,     \* those that have been carried out more than once
    mishaps, endedRuns  \* how much of the bounds is used up

entity == <<actor, cache, queue, steps, attempt, finished, ran, twice>>
bounds == <<mishaps, endedRuns>>

\* The key of an update: forward steps are numbered first, then the restores
\* of the unwind.  A run id stands for the workflow execution: a saga.
UpdateKey == Sagas \X (1 .. 2 * PlanLength)

\* An optional value is a set of at most one value, as None or a value is.
Update ==
    [id : UpdateKey, family : Families,
     command : {"pause", "patch", "resume", "restore"},
     desired : SUBSET FamilyState, config : SUBSET SUBSET Datatypes]

Answers == {"changed", "unchanged", "failed"}

ActorTypeOK ==
    /\ actor \in [Families -> {"absent", "starting", "ready"}]
    /\ cache \in [Families -> FamilyState \union {"unset"}]
    /\ queue \in [Families -> Seq(Update)]
    /\ steps \in [Families -> Seq(Operation)]
    /\ attempt \in [Families -> 1..MaxAttempts]
    /\ finished \in [Families -> SUBSET [id : UpdateKey, answer : Answers]]
    /\ wire \subseteq Update
    /\ call \in [Sagas -> SUBSET Update]
    /\ reply \in [Sagas -> {"none", "waiting", "aborted"} \union Answers]
    /\ ran \subseteq UpdateKey
    /\ twice \subseteq ran
    /\ mishaps \in 0..MaxMishaps
    /\ endedRuns \in 0..MaxEndedRuns

ActorInit ==
    /\ actor = [f \in Families |-> "absent"]
    /\ cache = [f \in Families |-> "unset"]
    /\ queue = [f \in Families |-> <<>>]
    /\ steps = [f \in Families |-> <<>>]
    /\ attempt = [f \in Families |-> 1]
    /\ finished = [f \in Families |-> {}]
    /\ wire = {}
    /\ call = [s \in Sagas |-> {}]
    /\ reply = [s \in Sagas |-> "none"]
    /\ ran = {} /\ twice = {}
    /\ mishaps = 0 /\ endedRuns = 0

-----------------------------------------------------------------------------
(* What a handler decides to do once it has the lock.                      *)

Serving(f) == Head(queue[f])

Busy(f) == steps[f] # <<>>

PauseSteps == <<"trigger_savepoint", "suspend_job">>

RestoreStateSteps(f, desired) ==
    CASE desired = {} \/ desired = {state[f]}                       -> <<>>
      [] desired # {state[f]} /\ desired = {"SUSPENDED"}            -> PauseSteps
      [] desired # {state[f]} /\ desired = {"RUNNING"}              -> <<"resume_job">>

RestoreConfigSteps(f, config) ==
    IF config \subseteq {datatypes[f]} THEN <<>> ELSE <<"patch_configmap">>

HandlerSteps(f, update) ==
    CASE update.command = "pause" ->
            IF cache[f] = "SUSPENDED" THEN <<>> ELSE PauseSteps
      [] update.command = "resume" ->
            IF cache[f] = "RUNNING" THEN <<>> ELSE <<"resume_job">>
      [] update.command = "patch" -> <<"patch_configmap">>
      [] update.command = "restore" ->
            RestoreStateSteps(f, update.desired) \o RestoreConfigSteps(f, update.config)

\* Only a restore reads the cluster; the other commands trust the cache.
CacheAtStart(f, update) == IF update.command = "restore" THEN state[f] ELSE cache[f]

CacheAfter(f, op) ==
    CASE op = "suspend_job" -> "SUSPENDED"
      [] op = "resume_job"  -> "RUNNING"
      [] op \in {"trigger_savepoint", "patch_configmap"} -> cache[f]

-----------------------------------------------------------------------------
\* An answer reaches every proxy that waits for an update of that id.
Tell(ids, answer) ==
    reply' = [s \in Sagas |->
                IF reply[s] = "waiting" /\ \E u \in call[s] : u.id \in ids
                THEN answer ELSE reply[s]]

\* The handler at the head of the line returns or raises, and lets go of the lock.
Finish(f, answer) ==
    /\ Tell({Serving(f).id}, answer)
    /\ finished' = [finished EXCEPT ![f] = @ \union {[id |-> Serving(f).id, answer |-> answer]}]
    /\ queue' = [queue EXCEPT ![f] = Tail(@)]
    /\ steps' = [steps EXCEPT ![f] = <<>>]
    /\ attempt' = [attempt EXCEPT ![f] = 1]

\* The first run of an actor adopts what the cluster says.
Adopt(f) ==
    /\ actor[f] = "starting"
    /\ actor' = [actor EXCEPT ![f] = "ready"]
    /\ cache' = [cache EXCEPT ![f] = state[f]]
    /\ UNCHANGED <<cluster, queue, steps, attempt, finished, wire, call, reply,
                   ran, twice, bounds>>

\* The next update takes the lock, and returns at once when nothing is to do.
Enter(f) ==
    /\ actor[f] = "ready"
    /\ queue[f] # <<>>
    /\ ~Busy(f)
    /\ cache' = [cache EXCEPT ![f] = CacheAtStart(f, Serving(f))]
    /\ ran' = ran \union {Serving(f).id}
    /\ twice' = twice \union (ran \intersect {Serving(f).id})
    /\ LET todo == HandlerSteps(f, Serving(f))
       IN  IF todo = <<>> THEN Finish(f, "unchanged")
           ELSE /\ steps' = [steps EXCEPT ![f] = todo]
                /\ UNCHANGED <<queue, attempt, finished, reply>>
    /\ UNCHANGED <<cluster, actor, wire, call, bounds>>

\* The effect of one execution of the handler's next activity.
Effect(f) ==
    \E config \in IF Head(steps[f]) = "patch_configmap" THEN Serving(f).config ELSE {{}} :
        Mutate(Head(steps[f]), f, config)

\* One attempt of that activity.
Attempt(f, outcome) ==
    /\ Busy(f)
    /\ IF Committed(outcome) THEN Effect(f) ELSE UNCHANGED cluster
    /\ IF outcome = "ok" THEN UNCHANGED mishaps
       ELSE mishaps < MaxMishaps /\ mishaps' = mishaps + 1
    /\ UNCHANGED <<actor, wire, call, ran, twice, endedRuns>>

StepReturns(f) ==
    /\ Attempt(f, "ok")
    /\ cache' = [cache EXCEPT ![f] = CacheAfter(f, Head(steps[f]))]
    /\ IF Len(steps[f]) = 1 THEN Finish(f, "changed")
       ELSE /\ steps' = [steps EXCEPT ![f] = Tail(@)]
            /\ attempt' = [attempt EXCEPT ![f] = 1]
            /\ UNCHANGED <<queue, finished, reply>>

\* Fault: the budget is checked one attempt too late.
StepRetriedOnceMore(f, outcome) ==
    /\ Attempt(f, outcome)
    /\ Retryable(outcome)
    /\ attempt[f] <= MaxAttempts
    /\ attempt' = [attempt EXCEPT ![f] = @ + 1]
    /\ UNCHANGED <<cache, queue, steps, finished, reply>>

StepRetried(f, outcome) ==
    /\ Attempt(f, outcome)
    /\ Retryable(outcome)
    /\ attempt[f] < MaxAttempts
    /\ attempt' = [attempt EXCEPT ![f] = @ + 1]
    /\ UNCHANGED <<cache, queue, steps, finished, reply>>

\* The activity fails for good, and so does the update; the cache stays.
StepFails(f, outcome) ==
    /\ Attempt(f, outcome)
    /\ outcome = "permanent" \/ (Retryable(outcome) /\ attempt[f] = MaxAttempts)
    /\ Finish(f, "failed")
    /\ UNCHANGED cache

HandlerStep(f) ==
    \/ Adopt(f)
    \/ Enter(f)
    \/ StepReturns(f)
    \/ \E outcome \in Outcome : StepRetried(f, outcome)
    \/ \E outcome \in Outcome : StepFails(f, outcome)

-----------------------------------------------------------------------------
(* The end of a run.                                                       *)

\* The updates that have been accepted and not finished are aborted.
EndRun(f) ==
    /\ endedRuns < MaxEndedRuns
    /\ endedRuns' = endedRuns + 1
    /\ Tell({u.id : u \in ToSet(queue[f])}, "aborted")
    /\ queue' = [queue EXCEPT ![f] = <<>>]
    /\ steps' = [steps EXCEPT ![f] = <<>>]
    /\ attempt' = [attempt EXCEPT ![f] = 1]
    /\ finished' = [finished EXCEPT ![f] = {}]
    /\ UNCHANGED <<wire, call, ran, twice, mishaps>>

\* Fault: the new run starts from the state an actor is constructed with.
RolloverForgets(f) ==
    /\ actor[f] = "ready"
    /\ ~Busy(f)
    /\ EndRun(f)
    /\ cache' = [cache EXCEPT ![f] = "RUNNING"]
    /\ UNCHANGED <<cluster, actor>>

\* History has grown too long: `run` takes the lock in turn and continues as
\* a new run, which is given the state.  Those in line behind it are aborted.
Rollover(f) ==
    /\ actor[f] = "ready"
    /\ ~Busy(f)
    /\ EndRun(f)
    /\ UNCHANGED <<cluster, actor, cache>>

\* The actor is terminated, whatever it is doing.  An activity that is being
\* executed may still take effect.
Stop(f) ==
    /\ actor[f] # "absent"
    /\ UNCHANGED cluster \/ (Busy(f) /\ Effect(f))
    /\ EndRun(f)
    /\ actor' = [actor EXCEPT ![f] = "absent"]
    /\ cache' = [cache EXCEPT ![f] = "unset"]
=============================================================================
