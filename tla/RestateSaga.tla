---------------------------- MODULE RestateSaga -----------------------------
(***************************************************************************)
(* MoveDatatypeWorkflow on Restate: several moves, each a durable workflow *)
(* that calls the Virtual Objects of its two families and waits for each   *)
(* answer.  A workflow never dies: after a crash it is replayed from its   *)
(* journal, which neither repeats nor loses a call.  Nothing keeps two     *)
(* moves from touching the same family at the same time.                   *)
(***************************************************************************)
EXTENDS RestateActor

VARIABLES
    request,   \* saga -> the move it makes
    saga       \* saga -> its progress, a Progress record

vars == <<cluster, handlers, request, saga>>

Verdict ==
    {"none", "COMPLETED", "REJECTED", "COMPENSATED",
     "COMPENSATION_INCOMPLETE", "RAISED"}

\* The values a saga's progress starts with.
Fresh ==
    [pc |-> "idle", statuses |-> <<>>, done |-> 0, stack |-> <<>>,
     compensated |-> {}, noops |-> {}, errors |-> {}, verdict |-> "none"]

Progress ==
    [pc : {"idle", "read source", "read target", "validating",
           "forward", "unwinding", "ended"},
     statuses : UNION {[seen -> FamilyStatus] : seen \in SUBSET Families},
     done : 0..PlanLength,
     stack : Seq(IntentType),
     compensated : SUBSET IntentType,
     noops : SUBSET IntentType,
     errors : SUBSET IntentType,
     verdict : Verdict]

TypeOK ==
    /\ ClusterTypeOK
    /\ ActorTypeOK
    /\ request \in [Sagas -> MoveDatatypeRequest]
    /\ saga \in [Sagas -> Progress]

Init ==
    /\ Seed
    /\ ActorInit
    /\ request \in [Sagas -> MoveDatatypeRequest]
    /\ saga = [s \in Sagas |-> Fresh]

-----------------------------------------------------------------------------
(* A step of a saga changes its own progress and the queue of one object.  *)

Goto(s, pc) == saga' = [saga EXCEPT ![s].pc = pc]

End(s, outcome) == saga' = [saga EXCEPT ![s].pc = "ended", ![s].verdict = outcome]

Send(s, f, command, desired, config) ==
    /\ inbox' = [inbox EXCEPT ![f] = Append(@,
           [caller |-> s, command |-> command, desired |-> desired, config |-> config])]
    /\ reply' = [reply EXCEPT ![s] = "waiting"]
    /\ UNCHANGED <<cluster, cache, steps, attempt, mishaps, crashes, resets, request>>

\* The answer to the last call has been taken from the journal.
Receive(s, answers) ==
    /\ reply[s] \in answers
    /\ reply' = [reply EXCEPT ![s] = "none"]
    /\ UNCHANGED <<cluster, cache, inbox, steps, attempt, mishaps, crashes, resets, request>>

Alone == UNCHANGED <<cluster, handlers, request>>

Start(s) ==
    /\ saga[s].pc = "idle"
    /\ Goto(s, "read source")
    /\ Alone

\* The two snapshot reads are durable steps of their own, one after the other.
ReadFamily(s, f, next) ==
    /\ f \in Families
    /\ saga' = [saga EXCEPT ![s].statuses =
                    [g \in DOMAIN @ \union {f} |-> IF g = f THEN Read(f) ELSE @[g]],
                            ![s].pc = next]
    /\ Alone

ReadSource(s) ==
    /\ saga[s].pc = "read source"
    /\ ReadFamily(s, request[s].source, "read target")

ReadTarget(s) ==
    /\ saga[s].pc = "read target"
    /\ ReadFamily(s, request[s].target, "validating")

\* The read of an unknown family is a terminal error that nothing wraps.
ReadRaises(s) ==
    /\ \/ saga[s].pc = "read source" /\ request[s].source \notin Families
       \/ saga[s].pc = "read target" /\ request[s].target \notin Families
    /\ End(s, "RAISED")
    /\ Alone

Reject(s) ==
    /\ saga[s].pc = "validating"
    /\ Rejected(request[s], saga[s].statuses)
    /\ End(s, "REJECTED")
    /\ Alone

Accept(s) ==
    /\ saga[s].pc = "validating"
    /\ ~Rejected(request[s], saga[s].statuses)
    /\ Goto(s, "forward")
    /\ Alone

-----------------------------------------------------------------------------
(* Forward.                                                                *)

CurrentStep(s) == Plan(request[s])[saga[s].done + 1]

\* The command of a step of the plan.  Only a patch carries data.
SendStep(s, step) ==
    Send(s, step.family, step.command, {},
         IF step.command = "patch"
         THEN {NewConfig(request[s], saga[s].statuses, step.family)} ELSE {})

\* Fault: an intent is registered only when its step has been answered.
CallStepFirst(s) ==
    /\ saga[s].pc = "forward"
    /\ reply[s] = "none"
    /\ saga[s].done < PlanLength
    /\ saga' = [saga EXCEPT ![s].stack = SubSeq(Intents(request[s]), 1, saga[s].done)]
    /\ SendStep(s, CurrentStep(s))

\* The intent is registered, then the object is called.
CallStep(s) ==
    /\ saga[s].pc = "forward"
    /\ reply[s] = "none"
    /\ saga[s].done < PlanLength
    /\ saga' = [saga EXCEPT ![s].stack =
                    Append(@, Intents(request[s])[saga[s].done + 1])]
    /\ SendStep(s, CurrentStep(s))

StepAnswered(s) ==
    /\ saga[s].pc = "forward"
    /\ Receive(s, {"changed", "unchanged"})
    /\ saga' = [saga EXCEPT ![s].done = @ + 1]

StepFailed(s) ==
    /\ saga[s].pc = "forward"
    /\ Receive(s, {"failed"})
    /\ Goto(s, "unwinding")

Complete(s) ==
    /\ saga[s].pc = "forward"
    /\ reply[s] = "none"
    /\ saga[s].done = PlanLength
    /\ End(s, "COMPLETED")
    /\ Alone

-----------------------------------------------------------------------------
(* Unwind.                                                                 *)

CallRestore(s) ==
    /\ saga[s].pc = "unwinding"
    /\ reply[s] = "none"
    /\ saga[s].stack # <<>>
    /\ LET intent == Last(saga[s].stack)
           base   == saga[s].statuses[intent.family]
       IN  CASE intent.label = "revert" ->
                    Send(s, intent.family, "restore", {}, {base.datatypes})
             [] intent.label = "resume" ->
                    Send(s, intent.family, "restore", {base.state}, {})
             [] intent.label = "pause"  ->
                    Send(s, intent.family, "restore", {"SUSPENDED"}, {})
    /\ UNCHANGED saga

\* Each answer files the intent under its outcome, and the unwind goes on.
RestoreAnswered(s) ==
    /\ saga[s].pc = "unwinding"
    /\ Receive(s, {"changed", "unchanged", "failed"})
    /\ LET intent == {Last(saga[s].stack)}
       IN  saga' = [saga EXCEPT
                ![s].stack       = Front(@),
                ![s].compensated = IF reply[s] = "changed"   THEN @ \union intent ELSE @,
                ![s].noops       = IF reply[s] = "unchanged" THEN @ \union intent ELSE @,
                ![s].errors      = IF reply[s] = "failed"    THEN @ \union intent ELSE @]

\* Fault: the verdict does not look at the errors.
UnwoundClean(s) ==
    /\ saga[s].pc = "unwinding"
    /\ reply[s] = "none"
    /\ saga[s].stack = <<>>
    /\ End(s, "COMPENSATED")
    /\ Alone

Unwound(s) ==
    /\ saga[s].pc = "unwinding"
    /\ reply[s] = "none"
    /\ saga[s].stack = <<>>
    /\ End(s, IF saga[s].errors = {} THEN "COMPENSATED" ELSE "COMPENSATION_INCOMPLETE")
    /\ Alone

-----------------------------------------------------------------------------
SagaStep(s) ==
    \/ ReadSource(s)
    \/ ReadTarget(s)
    \/ ReadRaises(s)
    \/ Reject(s)
    \/ Accept(s)
    \/ CallStep(s)
    \/ StepAnswered(s)
    \/ StepFailed(s)
    \/ Complete(s)
    \/ CallRestore(s)
    \/ RestoreAnswered(s)
    \/ Unwound(s)

ObjectStep(f) ==
    /\ HandlerStep(f) \/ Crash(f) \/ Reset(f)
    /\ UNCHANGED <<request, saga>>

Next ==
    \/ \E s \in Sagas : Start(s)
    \/ \E s \in Sagas : SagaStep(s)
    \/ \E f \in Families : ObjectStep(f)

Spec == Init /\ [][Next]_vars

\* Restate keeps invoking what is not finished; it does not start moves, and
\* neither crashes nor resets are owed to anybody.
Fairness ==
    /\ \A s \in Sagas : WF_vars(SagaStep(s))
    /\ \A f \in Families : WF_vars(HandlerStep(f) /\ UNCHANGED <<request, saga>>)

FairSpec == Spec /\ Fairness

Active(s) == saga[s].pc \notin {"idle", "ended"}

Overlap(s, t) == FamiliesOf(request[s]) \intersect FamiliesOf(request[t]) # {}

\* What the callers have to see to themselves: a move is started only when no
\* other move of one of its families is under way.
Isolated ==
    \A s \in Sagas :
        saga[s].pc = "idle" /\ saga'[s].pc # "idle" =>
            \A t \in Sagas \ {s} : Active(t) => ~Overlap(s, t)

IsolatedSpec == Init /\ [][Next /\ Isolated]_vars

-----------------------------------------------------------------------------
(* Safety. *)

\* A restore that will read family f again is still to come.
RestoreOwed(s, f) ==
    /\ saga[s].pc = "unwinding" \/ reply[s] = "failed"
    /\ \E k \in DOMAIN saga[s].stack : saga[s].stack[k].family = f

\* Between two handlers a cache that is wrong about its job is either about to
\* be refreshed by the unwind of the move that failed on it, or a restore of
\* that family has failed and is reported (actor.py: the cache is written only
\* when a step has returned, `restore` reads the cluster first).  This holds
\* for moves that overlap too.
StaleCacheIsOwedOrReported ==
    \A f \in Families :
        ~Busy(f) /\ cache[f] \notin {"unset", state[f]} =>
            \E s \in Sagas :
                RestoreOwed(s, f) \/ \E i \in saga[s].errors : i.family = f

\* A running job is only suspended right after a savepoint of it, whoever else
\* commands the family and wherever the handler crashed and was replayed.
SuspendRightAfterSavepoint ==
    [][\A f \in Families :
        state[f] = "RUNNING" /\ state'[f] = "SUSPENDED" =>
            savepoint[f] # 0 /\ savepoint[f] = generation[f]]_vars

Ends(s) == saga[s].pc # "ended" /\ saga'[s].pc = "ended"

\* When a move completes, its datatype has left the source for the target, the
\* rest of both routings is untouched and both jobs run.
CompletedMoveIsWhole ==
    [][\A s \in Sagas : Ends(s) /\ saga'[s].verdict = "COMPLETED" =>
        /\ request[s].datatype \in datatypes[request[s].target]
        /\ request[s].datatype \notin datatypes[request[s].source]
        /\ \A f \in FamiliesOf(request[s]) :
            /\ state[f] = "RUNNING"
            /\ datatypes[f] \ {request[s].datatype}
                 = saga[s].statuses[f].datatypes \ {request[s].datatype}]_vars

\* When a move ends rolled back, every difference it leaves to its snapshot is
\* named among its errors; a COMPENSATED one leaves none.
RollbackNamesDeviations ==
    [][\A s \in Sagas :
        Ends(s) /\ saga'[s].verdict \in {"COMPENSATED", "COMPENSATION_INCOMPLETE"} =>
            \A f \in FamiliesOf(request[s]) :
                /\ datatypes[f] # saga[s].statuses[f].datatypes =>
                        Intent("revert", f) \in saga[s].errors
                /\ state[f] # saga[s].statuses[f].state =>
                        Intent("resume", f) \in saga[s].errors]_vars

\* Once every move is over and none asks for an operator, every job runs
\* (README.md: after COMPENSATED "no rollback repair is required").
NoJobIsLeftSuspended ==
    (\A s \in Sagas : saga[s].pc \in {"idle", "ended"}
                      /\ saga[s].verdict # "COMPENSATION_INCOMPLETE") =>
        \A f \in Families : state[f] = "RUNNING"

\* Moves that overlap pause and resume a job in turn, each command left out when
\* the cache says so.  Once every move is over and none asks for an operator, a
\* job is left suspended only on behalf of a move that rolled back and had read
\* it as SUSPENDED in its snapshot (saga.py, `pause_restore`).
SuspensionsWereThereBefore ==
    (\A s \in Sagas : saga[s].pc \in {"idle", "ended"}
                      /\ saga[s].verdict # "COMPENSATION_INCOMPLETE") =>
        \A f \in Families : state[f] = "SUSPENDED" =>
            \E s \in Sagas :
                /\ saga[s].verdict = "COMPENSATED"
                /\ f \in DOMAIN saga[s].statuses
                /\ saga[s].statuses[f].state = "SUSPENDED"

\* Once every move is over and none asks for an operator, each datatype is
\* routed to one family, as it was before the moves (domain.py,
\* `MoveDatatypeRequest`: not "owned by nobody (or by both)").
EveryDatatypeHasOneOwner ==
    (\A s \in Sagas : saga[s].pc \in {"idle", "ended"}
                      /\ saga[s].verdict # "COMPENSATION_INCOMPLETE") =>
        \A d \in Datatypes :
            \E f \in Families : \A g \in Families : d \in datatypes[g] <=> g = f

\* On its way forward a move rewrites the routing of a suspended job only
\* (POC_SCOPE.md: "Both families must be paused first").
ForwardPatchesSuspendedJobs ==
    [][\A f \in Families :
        datatypes'[f] # datatypes[f] /\ saga[Serving(f).caller].pc = "forward" =>
            state[f] = "SUSPENDED"]_vars

-----------------------------------------------------------------------------
(* Liveness. *)

\* A move that has been started ends, also when moves call the same objects in
\* opposite orders: an object never waits for a move, so nothing can lock up.
EveryMoveEnds == \A s \in Sagas : Active(s) ~> saga[s].pc = "ended"
=============================================================================
