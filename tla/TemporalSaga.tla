---------------------------- MODULE TemporalSaga ----------------------------
(***************************************************************************)
(* MoveDatatypeWorkflow on Temporal: executions of a durable workflow that *)
(* command the actors of their two families through the proxy activity.    *)
(* A workflow does not die with its worker: it is replayed, and neither    *)
(* repeats nor loses an activity whose result it has recorded.             *)
(***************************************************************************)
EXTENDS TemporalProxy

VARIABLES
    request,   \* saga -> the move it makes
    saga       \* saga -> its progress

vars == <<proxyVars, request, saga>>

Verdict ==
    {"none", "COMPLETED", "REJECTED", "COMPENSATED", "COMPENSATION_INCOMPLETE"}

\* The values a saga's progress starts with.
Fresh ==
    [pc |-> "idle", statuses |-> <<>>, done |-> 0, stack |-> <<>>,
     compensated |-> {}, noops |-> {}, errors |-> {}, verdict |-> "none"]

Progress ==
    [pc : {"idle", "read source", "read target", "validating",
           "forward", "unwinding", "ended"},
     statuses : UNION {[seen -> FamilyStatus] : seen \in SUBSET Families},
     done : 0..PlanLength,
     stack : Seq(IntentType),
     compensated : SUBSET IntentType,
     noops : SUBSET IntentType,
     errors : SUBSET IntentType,
     verdict : Verdict]

TypeOK ==
    /\ ClusterTypeOK
    /\ ProxyTypeOK
    /\ request \in [Sagas -> MoveDatatypeRequest]
    /\ saga \in [Sagas -> Progress]
    /\ \A s \in Sagas : DOMAIN saga[s].statuses \subseteq FamiliesOf(request[s])

Init ==
    /\ Seed
    /\ ProxyInit
    /\ request \in [Sagas -> MoveDatatypeRequest]
    /\ saga = [s \in Sagas |-> Fresh]

-----------------------------------------------------------------------------
(* Snapshot and validation.                                                *)

Goto(s, pc) == saga' = [saga EXCEPT ![s].pc = pc]

End(s, outcome) == saga' = [saga EXCEPT ![s].pc = "ended", ![s].verdict = outcome]

Alone == UNCHANGED <<proxyVars, request>>

Start(s) ==
    /\ saga[s].pc = "idle"
    /\ Goto(s, "read source")
    /\ Alone

\* The read of a family that does not exist fails, and is retried for ever
\* under the server's default policy: no step leads on from there.
ReadFamily(s, f, next) ==
    /\ f \in Families
    /\ saga' = [saga EXCEPT ![s].statuses =
                    [g \in DOMAIN @ \union {f} |-> IF g = f THEN Read(f) ELSE @[g]],
                            ![s].pc = next]
    /\ Alone

ReadSource(s) ==
    /\ saga[s].pc = "read source"
    /\ ReadFamily(s, request[s].source, "read target")

ReadTarget(s) ==
    /\ saga[s].pc = "read target"
    /\ ReadFamily(s, request[s].target, "validating")

Reject(s) ==
    /\ saga[s].pc = "validating"
    /\ Rejected(request[s], saga[s].statuses)
    /\ End(s, "REJECTED")
    /\ Alone

Accept(s) ==
    /\ saga[s].pc = "validating"
    /\ ~Rejected(request[s], saga[s].statuses)
    /\ Goto(s, "forward")
    /\ Alone

-----------------------------------------------------------------------------
(* Commands.                                                               *)

\* Fault: the id names the workflow and not its execution, and all the moves
\* here are executions of one workflow.
UpdateIdOfWorkflow(s, step) == <<CHOOSE t \in Sagas : TRUE, step>>

UpdateId(s, step) == <<s, step>>

\* A call of saga s, the id made from its step.
Command(s, step, family, command, desired, config) ==
    Send(s, [id |-> UpdateId(s, step), family |-> family, command |-> command,
             desired |-> desired, config |-> config])

CurrentStep(s) == Plan(request[s])[saga[s].done + 1]

CanCall(s) == saga[s].pc = "forward" /\ call[s] = {} /\ saga[s].done < PlanLength

CallCurrentStep(s) ==
    LET step == CurrentStep(s)
    IN  Command(s, saga[s].done + 1, step.family, step.command, {},
                IF step.command = "patch"
                THEN {NewConfig(request[s], saga[s].statuses, step.family)} ELSE {})

\* Fault: an intent is registered only when its step has been answered.
CallStepFirst(s) ==
    /\ CanCall(s)
    /\ saga' = [saga EXCEPT ![s].stack = SubSeq(Intents(request[s]), 1, saga[s].done)]
    /\ CallCurrentStep(s)
    /\ UNCHANGED request

\* The intent is registered, then the actor is called.
CallStep(s) ==
    /\ CanCall(s)
    /\ saga' = [saga EXCEPT ![s].stack =
                    Append(@, Intents(request[s])[saga[s].done + 1])]
    /\ CallCurrentStep(s)
    /\ UNCHANGED request

StepAnswered(s) ==
    /\ saga[s].pc = "forward"
    /\ Receive(s, {"changed", "unchanged"})
    /\ saga' = [saga EXCEPT ![s].done = @ + 1]
    /\ UNCHANGED request

StepFailed(s) ==
    /\ saga[s].pc = "forward"
    /\ Receive(s, {"failed"})
    /\ Goto(s, "unwinding")
    /\ UNCHANGED request

Complete(s) ==
    /\ saga[s].pc = "forward"
    /\ call[s] = {}
    /\ saga[s].done = PlanLength
    /\ End(s, "COMPLETED")
    /\ Alone

-----------------------------------------------------------------------------
(* Unwind.                                                                 *)

\* The restores are numbered on from the forward steps, in the order of the
\* unwind; the length of the stack when the unwind began is done + 1.
RestoreStep(s) == PlanLength + saga[s].done + 2 - Len(saga[s].stack)

CallRestore(s) ==
    /\ saga[s].pc = "unwinding"
    /\ call[s] = {}
    /\ saga[s].stack # <<>>
    /\ LET intent == Last(saga[s].stack)
           base   == saga[s].statuses[intent.family]
       IN  Command(s, RestoreStep(s), intent.family, "restore",
                   CASE intent.label = "revert" -> {}
                     [] intent.label = "resume" -> {base.state}
                     [] intent.label = "pause"  -> {"SUSPENDED"},
                   IF intent.label = "revert" THEN {base.datatypes} ELSE {})
    /\ UNCHANGED <<request, saga>>

\* Fault: a restore that has failed is tried again, under the same update id.
RestoreTriedAgain(s) ==
    /\ saga[s].pc = "unwinding"
    /\ Receive(s, Answers)
    /\ LET intent == {Last(saga[s].stack)}
       IN  saga' = [saga EXCEPT
                ![s].stack       = IF reply[s] = "failed" THEN @ ELSE Front(@),
                ![s].compensated = IF reply[s] = "changed"   THEN @ \union intent ELSE @,
                ![s].noops       = IF reply[s] = "unchanged" THEN @ \union intent ELSE @]
    /\ UNCHANGED request

\* Each answer files the intent under its outcome, and the unwind goes on.
RestoreAnswered(s) ==
    /\ saga[s].pc = "unwinding"
    /\ Receive(s, Answers)
    /\ LET intent == {Last(saga[s].stack)}
       IN  saga' = [saga EXCEPT
                ![s].stack       = Front(@),
                ![s].compensated = IF reply[s] = "changed"   THEN @ \union intent ELSE @,
                ![s].noops       = IF reply[s] = "unchanged" THEN @ \union intent ELSE @,
                ![s].errors      = IF reply[s] = "failed"    THEN @ \union intent ELSE @]
    /\ UNCHANGED request

Unwound(s) ==
    /\ saga[s].pc = "unwinding"
    /\ call[s] = {}
    /\ saga[s].stack = <<>>
    /\ End(s, IF saga[s].errors = {} THEN "COMPENSATED" ELSE "COMPENSATION_INCOMPLETE")
    /\ Alone

-----------------------------------------------------------------------------
SagaStep(s) ==
    \/ ReadSource(s)
    \/ ReadTarget(s)
    \/ Reject(s)
    \/ Accept(s)
    \/ CallStep(s)
    \/ StepAnswered(s)
    \/ StepFailed(s)
    \/ Complete(s)
    \/ CallRestore(s)
    \/ RestoreAnswered(s)
    \/ Unwound(s)

ActorStep(f) ==
    /\ HandlerStep(f) \/ Rollover(f) \/ Stop(f)
    /\ UNCHANGED <<tries, timeouts, request, saga>>

Next ==
    \/ \E s \in Sagas : Start(s)
    \/ \E s \in Sagas : SagaStep(s)
    \/ \E s \in Sagas : ProxyStep(s) /\ UNCHANGED <<request, saga>>
    \/ \E u \in wire : Deliver(u) /\ UNCHANGED <<request, saga>>
    \/ \E f \in Families : ActorStep(f)

Spec == Init /\ [][Next]_vars

\* No request outlives its call: an attempt that times out has sent its own,
\* or never will.
PromptSpec == Init /\ [][Next /\ NoneLate']_vars

\* The server hands out what is to be done: workflow and activity tasks, and
\* the requests of calls being made.  Nothing starts a move or ends a run, and
\* nobody has to time out.
Fairness ==
    /\ \A s \in Sagas :
        /\ WF_vars(SagaStep(s))
        /\ WF_vars(Refused(s) /\ UNCHANGED <<request, saga>>)
        /\ WF_vars((\E u \in call[s] : Deliver(u)) /\ UNCHANGED <<request, saga>>)
    /\ \A f \in Families :
        WF_vars(HandlerStep(f) /\ UNCHANGED <<tries, timeouts, request, saga>>)

FairSpec == PromptSpec /\ Fairness

Active(s) == saga[s].pc \notin {"idle", "ended"}

\* What the callers have to see to themselves: a move is started only when no
\* other is under way, nor waits for an operator to repair what it left.
Isolated ==
    \A s \in Sagas :
        saga[s].pc = "idle" /\ saga'[s].pc # "idle" =>
            \A t \in Sagas \ {s} :
                ~Active(t) /\ saga[t].verdict # "COMPENSATION_INCOMPLETE"

IsolatedSpec == Init /\ [][Next /\ NoneLate' /\ Isolated]_vars

-----------------------------------------------------------------------------
(* Safety. *)

\* Within one run of its actor no command is carried out twice, however often
\* the proxy sends it (actor_proxy.py: the update id).
NoCommandRunsTwice == endedRuns = 0 => twice = {}

\* A restore that will read family f again is still to come, or is in line.
RestoreOwed(s, f) ==
    /\ saga[s].pc = "unwinding" \/ reply[s] \in {"failed", "aborted", "waiting"}
    /\ \E k \in DOMAIN saga[s].stack : saga[s].stack[k].family = f

\* Between two handlers a cache that is wrong about its job is about to be
\* refreshed by the unwind of the move that failed on it, or a restore of that
\* family has failed and is reported.  A rollover hands a wrong cache on.
StaleCacheIsOwedOrReported ==
    \A f \in Families :
        actor[f] = "ready" /\ ~Busy(f) /\ cache[f] # state[f] =>
            \E s \in Sagas :
                RestoreOwed(s, f) \/ \E i \in saga[s].errors : i.family = f

RolledBack(s) == saga[s].verdict \in {"COMPENSATED", "COMPENSATION_INCOMPLETE"}

\* Whatever a rolled-back move has left different from its snapshot is named
\* among its errors, from the verdict on: a command that the saga gave up and
\* that is still in line is carried out before the restore that undoes it.
DeviationsStayNamed ==
    \A s \in Sagas : RolledBack(s) /\ (\A t \in Sagas \ {s} : saga[t].pc = "idle") =>
        \A f \in FamiliesOf(request[s]) :
            /\ datatypes[f] # saga[s].statuses[f].datatypes =>
                    Intent("revert", f) \in saga[s].errors
            /\ state[f] # saga[s].statuses[f].state =>
                    Intent("resume", f) \in saga[s].errors

Ends(s) == saga[s].pc # "ended" /\ saga'[s].pc = "ended"

\* When a move completes, its datatype has left the source for the target, the
\* rest of both routings is untouched and both jobs run; the actors may have
\* been replaced on the way, and an earlier move may have used the same steps.
CompletedMoveIsWhole ==
    [][\A s \in Sagas : Ends(s) /\ saga'[s].verdict = "COMPLETED" =>
        /\ request[s].datatype \in datatypes[request[s].target]
        /\ request[s].datatype \notin datatypes[request[s].source]
        /\ \A f \in FamiliesOf(request[s]) :
            /\ state[f] = "RUNNING"
            /\ datatypes[f] \ {request[s].datatype}
                 = saga[s].statuses[f].datatypes \ {request[s].datatype}]_vars

\* A running job is only suspended right after a savepoint of it, whatever
\* became of the run that had begun to pause it.
SuspendRightAfterSavepoint ==
    [][\A f \in Families :
        state[f] = "RUNNING" /\ state'[f] = "SUSPENDED" =>
            savepoint[f] # 0 /\ savepoint[f] = generation[f]]_vars

-----------------------------------------------------------------------------
(* Liveness. *)

\* A move that has been started ends, however its activities fail and whatever
\* becomes of the actors.
EveryMoveEnds == \A s \in Sagas : Active(s) ~> saga[s].pc = "ended"
=============================================================================
