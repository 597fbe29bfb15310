---------------------------- MODULE BaselineSaga ----------------------------
(***************************************************************************)
(* The bare-Python saga: one process runs one move at a time, calls the    *)
(* family actors synchronously, retries each cluster operation in place    *)
(* and, when a step fails, unwinds its stack of rollback intents.  The     *)
(* saga's memory is lost with the process; the cluster's is not.           *)
(*                                                                         *)
(* A step of the model is one attempt of one cluster operation, or a       *)
(* stretch of the saga's own code between two of them.                     *)
(***************************************************************************)
EXTENDS Cluster, SequencesExt

CONSTANTS
    MaxAttempts,  \* attempts of one cluster operation (4 in the code)
    MaxSagas      \* bound: how many moves one behaviour may start

ASSUME BaselineAssumption ==
    /\ MaxAttempts \in Nat \ {0}
    /\ MaxSagas \in Nat \ {0}

VARIABLES
    request,      \* the move being made
    sagas,        \* how many moves have been started
    pc,           \* reading, validating, forward, unwinding or ended
    statuses,     \* the snapshot read before the move; <<>> before the read
    done,         \* how many steps of the plan have returned
    stack,        \* the registered rollback intents, the newest last
    todo,         \* operations the current actor command still has to make
    attempt,      \* number of the next attempt of the first of them
    compensated,  \* intents whose restore changed the cluster
    noops,        \* intents that were found satisfied already
    errors,       \* intents whose restore failed
    verdict       \* how the move ended, "none" while it runs

report == <<compensated, noops, errors>>
saga == <<request, sagas, pc, statuses, done, stack, todo, attempt, report, verdict>>
vars == <<cluster, saga>>

Verdict ==
    {"none", "COMPLETED", "REJECTED", "COMPENSATED",
     "COMPENSATION_INCOMPLETE", "RAISED", "DIED"}

TypeOK ==
    /\ ClusterTypeOK
    /\ request \in MoveDatatypeRequest
    /\ sagas \in 1..MaxSagas
    /\ pc \in {"reading", "validating", "forward", "unwinding", "ended"}
    /\ \/ statuses = <<>>
       \/ statuses \in [FamiliesOf(request) -> FamilyStatus]
    /\ done \in 0..PlanLength
    /\ stack \in Seq(IntentType)
    /\ todo \in Seq(Operation)
    /\ attempt \in 1..MaxAttempts
    /\ compensated \subseteq IntentType
    /\ noops \subseteq IntentType
    /\ errors \subseteq IntentType
    /\ verdict \in Verdict

-----------------------------------------------------------------------------
(* What the saga and the actor compute from the state.                     *)

CurrentStep == Plan(request)[done + 1]

\* The family the command in progress is about, and the routing it writes.
Subject == IF pc = "forward" THEN CurrentStep.family ELSE Last(stack).family

\* Fault: the rollback rewrites what the cluster has now, not the snapshot.
ConfigFromCluster ==
    IF pc = "forward" THEN NewConfig(request, statuses, Subject)
                      ELSE datatypes[Subject]

ConfigToWrite ==
    IF pc = "forward" THEN NewConfig(request, statuses, Subject)
                      ELSE statuses[Subject].datatypes

PauseOps == <<"trigger_savepoint", "suspend_job">>

CommandOps(command) ==
    CASE command = "pause"  -> PauseOps
      [] command = "patch"  -> <<"patch_configmap">>
      [] command = "resume" -> <<"resume_job">>

\* The state a state-restoring intent asks for.
DesiredState(intent) ==
    IF intent.label = "pause" THEN "SUSPENDED"
                              ELSE statuses[intent.family].state

\* What a fresh read of the family shows against the intent.
Satisfied(intent) ==
    LET now == Read(intent.family)
    IN  IF intent.label = "revert"
        THEN now.datatypes = statuses[intent.family].datatypes
        ELSE now.state = DesiredState(intent)

RestoreOps(intent) ==
    CASE intent.label = "revert" -> <<"patch_configmap">>
      [] intent.label # "revert" /\ DesiredState(intent) = "SUSPENDED" -> PauseOps
      [] intent.label # "revert" /\ DesiredState(intent) # "SUSPENDED" ->
            <<"resume_job">>

-----------------------------------------------------------------------------
(* Starting and validating a move.                                         *)

Begin(r) ==
    /\ request' = r
    /\ pc' = "reading"
    /\ statuses' = <<>>
    /\ done' = 0
    /\ stack' = <<>>
    /\ todo' = <<>>
    /\ attempt' = 1
    /\ compensated' = {}
    /\ noops' = {}
    /\ errors' = {}
    /\ verdict' = "none"

Init ==
    /\ Seed
    /\ request \in MoveDatatypeRequest
    /\ sagas = 1
    /\ pc = "reading"
    /\ statuses = <<>>
    /\ done = 0
    /\ stack = <<>>
    /\ todo = <<>>
    /\ attempt = 1
    /\ compensated = {} /\ noops = {} /\ errors = {}
    /\ verdict = "none"

\* The process that ran the last move is gone; another makes another move.
NextSaga(r) ==
    /\ pc = "ended"
    /\ sagas < MaxSagas
    /\ sagas' = sagas + 1
    /\ Begin(r)
    /\ UNCHANGED cluster

End(outcome) ==
    /\ pc' = "ended"
    /\ verdict' = outcome

ReadAll ==
    /\ pc = "reading"
    /\ FamiliesOf(request) \subseteq Families
    /\ statuses' = [f \in FamiliesOf(request) |-> Read(f)]
    /\ pc' = "validating"
    /\ UNCHANGED <<cluster, request, sagas, done, stack, todo, attempt, report, verdict>>

\* A missing family raises from the read, outside the saga's own handler.
ReadRaises ==
    /\ pc = "reading"
    /\ ~(FamiliesOf(request) \subseteq Families)
    /\ End("RAISED")
    /\ UNCHANGED <<cluster, request, sagas, statuses, done, stack, todo, attempt, report>>

Reject ==
    /\ pc = "validating"
    /\ Rejected(request, statuses)
    /\ End("REJECTED")
    /\ UNCHANGED <<cluster, request, sagas, statuses, done, stack, todo, attempt, report>>

Accept ==
    /\ pc = "validating"
    /\ ~Rejected(request, statuses)
    /\ pc' = "forward"
    /\ UNCHANGED <<cluster, request, sagas, statuses, done, stack, todo, attempt,
                   report, verdict>>

-----------------------------------------------------------------------------
(* One attempt of the operation at the head of `todo`.                     *)

Attempt(outcome) ==
    /\ todo # <<>>
    /\ IF Committed(outcome) THEN Mutate(Head(todo), Subject, ConfigToWrite)
                             ELSE UNCHANGED cluster

\* Fault: the budget is checked one attempt too late.
RetryOnceMore(outcome) ==
    /\ Attempt(outcome)
    /\ Retryable(outcome)
    /\ attempt <= MaxAttempts
    /\ attempt' = attempt + 1
    /\ UNCHANGED <<request, sagas, pc, statuses, done, stack, todo, report, verdict>>

\* The wrapper swallows a transient error while attempts are left.
Retry(outcome) ==
    /\ Attempt(outcome)
    /\ Retryable(outcome)
    /\ attempt < MaxAttempts
    /\ attempt' = attempt + 1
    /\ UNCHANGED <<request, sagas, pc, statuses, done, stack, todo, report, verdict>>

\* The operation raises out of the actor command: a permanent error on any
\* attempt, a transient one on the last.
Raises(outcome) ==
    /\ Attempt(outcome)
    /\ outcome = "permanent" \/ (Retryable(outcome) /\ attempt = MaxAttempts)
    /\ todo' = <<>>
    /\ attempt' = 1

\* The operation returns to the actor command, which goes on to its next one.
Returns ==
    /\ Attempt("ok")
    /\ todo' = Tail(todo)
    /\ attempt' = 1

-----------------------------------------------------------------------------
(* The forward path: pause both, patch both, resume both.                  *)

\* Fault: the intent is registered only once its step has returned.
RegisterNothing ==
    /\ pc = "forward"
    /\ todo = <<>>
    /\ done < PlanLength
    /\ stack' = SubSeq(Intents(request), 1, done)
    /\ todo' = CommandOps(CurrentStep.command)
    /\ UNCHANGED <<cluster, request, sagas, pc, statuses, done, attempt, report, verdict>>

\* The intent is on the stack before the actor is called.
BeginStep ==
    /\ pc = "forward"
    /\ todo = <<>>
    /\ done < PlanLength
    /\ stack' = Append(stack, Intents(request)[done + 1])
    /\ todo' = CommandOps(CurrentStep.command)
    /\ UNCHANGED <<cluster, request, sagas, pc, statuses, done, attempt, report, verdict>>

StepReturns ==
    /\ pc = "forward"
    /\ Returns
    /\ done' = IF Tail(todo) = <<>> THEN done + 1 ELSE done
    /\ UNCHANGED <<request, sagas, pc, statuses, stack, report, verdict>>

StepRaises(outcome) ==
    /\ pc = "forward"
    /\ Raises(outcome)
    /\ pc' = "unwinding"
    /\ UNCHANGED <<request, sagas, statuses, done, stack, report, verdict>>

Complete ==
    /\ pc = "forward"
    /\ todo = <<>>
    /\ done = PlanLength
    /\ End("COMPLETED")
    /\ UNCHANGED <<cluster, request, sagas, statuses, done, stack, todo, attempt, report>>

-----------------------------------------------------------------------------
(* The unwind: every intent is reconciled against a fresh read, newest     *)
(* first, and a restore that fails is reported and does not stop the rest. *)

Restoring == pc = "unwinding" /\ stack # <<>>

RestoreNoop ==
    /\ Restoring
    /\ todo = <<>>
    /\ Satisfied(Last(stack))
    /\ noops' = noops \union {Last(stack)}
    /\ stack' = Front(stack)
    /\ UNCHANGED <<cluster, request, sagas, pc, statuses, done, todo, attempt,
                   compensated, errors, verdict>>

BeginRestore ==
    /\ Restoring
    /\ todo = <<>>
    /\ ~Satisfied(Last(stack))
    /\ todo' = RestoreOps(Last(stack))
    /\ UNCHANGED <<cluster, request, sagas, pc, statuses, done, stack, attempt,
                   report, verdict>>

RestoreReturns ==
    /\ Restoring
    /\ Returns
    /\ IF Tail(todo) = <<>>
       THEN /\ compensated' = compensated \union {Last(stack)}
            /\ stack' = Front(stack)
       ELSE UNCHANGED <<compensated, stack>>
    /\ UNCHANGED <<request, sagas, pc, statuses, done, noops, errors, verdict>>

\* Fault: the failing restore is dropped from the report.
RestoreRaisesSilently(outcome) ==
    /\ Restoring
    /\ Raises(outcome)
    /\ stack' = Front(stack)
    /\ UNCHANGED <<request, sagas, pc, statuses, done, compensated, noops,
                   errors, verdict>>

\* Fault: the first failing restore abandons the rest of the stack.
RestoreRaisesAborts(outcome) ==
    /\ Restoring
    /\ Raises(outcome)
    /\ errors' = errors \union {Last(stack)}
    /\ stack' = <<>>
    /\ UNCHANGED <<request, sagas, pc, statuses, done, compensated, noops, verdict>>

\* Fault: a failing restore is tried again and again.
RestoreRaisesRetried(outcome) ==
    /\ Restoring
    /\ Raises(outcome)
    /\ errors' = errors \union {Last(stack)}
    /\ UNCHANGED <<request, sagas, pc, statuses, done, stack, compensated, noops, verdict>>

RestoreRaises(outcome) ==
    /\ Restoring
    /\ Raises(outcome)
    /\ errors' = errors \union {Last(stack)}
    /\ stack' = Front(stack)
    /\ UNCHANGED <<request, sagas, pc, statuses, done, compensated, noops, verdict>>

\* Fault: the verdict does not look at the errors.
UnwoundClean ==
    /\ pc = "unwinding"
    /\ stack = <<>>
    /\ End("COMPENSATED")
    /\ UNCHANGED <<cluster, request, sagas, statuses, done, stack, todo, attempt, report>>

Unwound ==
    /\ pc = "unwinding"
    /\ stack = <<>>
    /\ End(IF errors = {} THEN "COMPENSATED" ELSE "COMPENSATION_INCOMPLETE")
    /\ UNCHANGED <<cluster, request, sagas, statuses, done, stack, todo, attempt, report>>

-----------------------------------------------------------------------------
\* The process dies: what it knew is gone, what it committed stays.
Die ==
    /\ pc # "ended"
    /\ End("DIED")
    /\ statuses' = <<>>
    /\ done' = 0
    /\ stack' = <<>>
    /\ todo' = <<>>
    /\ attempt' = 1
    /\ compensated' = {} /\ noops' = {} /\ errors' = {}
    /\ UNCHANGED <<cluster, request, sagas>>

\* Everything the saga's single thread does by itself.
SagaStep ==
    \/ ReadAll
    \/ ReadRaises
    \/ Reject
    \/ Accept
    \/ BeginStep
    \/ StepReturns
    \/ \E outcome \in Outcome : Retry(outcome)
    \/ \E outcome \in Outcome : StepRaises(outcome)
    \/ Complete
    \/ RestoreNoop
    \/ BeginRestore
    \/ RestoreReturns
    \/ \E outcome \in Outcome : RestoreRaises(outcome)
    \/ Unwound

Next ==
    \/ SagaStep
    \/ Die
    \/ \E r \in MoveDatatypeRequest : NextSaga(r)

Spec == Init /\ [][Next]_vars

\* The thread runs whenever it can; nothing makes a process die or start.
Fairness == WF_vars(SagaStep)

FairSpec == Spec /\ Fairness

-----------------------------------------------------------------------------
(* Safety.                                                                 *)

RolledBack == verdict \in {"COMPENSATED", "COMPENSATION_INCOMPLETE"}

\* A rolled-back move accounts for every difference it leaves behind: a family
\* whose routing or state is not the snapshot's has its "revert", respectively
\* "resume", intent among the reported errors.  In particular a COMPENSATED
\* move, which reports none, has put both families back (saga.py `_compensate`
\* and `run`, whatever was lost, retried or half applied on the way).
ErrorsNameEveryDeviation ==
    RolledBack =>
        \A f \in FamiliesOf(request) :
            /\ datatypes[f] # statuses[f].datatypes => Intent("revert", f) \in errors
            /\ state[f] # statuses[f].state => Intent("resume", f) \in errors

\* A rolled-back move reports each intent it registered, up to and including
\* the one of the step that failed, exactly once: as applied, as a no-op or as
\* an error.  None is forgotten when an earlier restore fails.
ReportAccountsForEveryIntent ==
    RolledBack =>
        /\ compensated \union noops \union errors
             = {Intents(request)[k] : k \in 1 .. done + 1}
        /\ compensated \intersect noops = {}
        /\ (compensated \union noops) \intersect errors = {}

\* A completed move has taken the datatype from the source, given it to the
\* target, left every other routing of both as it was, and both jobs run.
CompletedMovesDatatype ==
    verdict = "COMPLETED" =>
        /\ request.datatype \in datatypes[request.target] \ datatypes[request.source]
        /\ \A f \in FamiliesOf(request) :
            /\ state[f] = "RUNNING"
            /\ datatypes[f] \ {request.datatype}
                 = statuses[f].datatypes \ {request.datatype}

\* Routing is only rewritten while both families of the move are suspended,
\* on the way forward and on the way back (the phase barriers of `run` and the
\* order of the unwind); a suspend that failed during the unwind excepted.
PatchOnlyWhileSuspended ==
    [][datatypes' # datatypes /\ errors = {} =>
        \A f \in FamiliesOf(request) : state[f] = "SUSPENDED"]_vars

\* The unwind never starts a job before both families have their routing of
\* before the move back, unless restoring that failed and is reported.
ResumeOnlyAfterRevert ==
    [][pc = "unwinding" /\ errors = {}
       /\ (\E f \in Families : state[f] = "SUSPENDED" /\ state'[f] = "RUNNING") =>
        \A f \in FamiliesOf(request) : datatypes[f] = statuses[f].datatypes]_vars

\* A running job is only suspended right after a savepoint of it: nothing was
\* committed to the family in between, whatever was retried.
SuspendRightAfterSavepoint ==
    [][\A f \in Families :
        state[f] = "RUNNING" /\ state'[f] = "SUSPENDED" =>
            savepoint[f] # 0 /\ savepoint[f] = generation[f]]_vars

-----------------------------------------------------------------------------
(* Refinement: to an observer the saga is the all-or-nothing contract.     *)

Phase ==
    IF pc \in {"reading", "validating"} THEN "open"
    ELSE IF pc = "ended" THEN "ended" ELSE "moving"

Contract == INSTANCE MoveContract WITH
    phase <- Phase,
    base  <- statuses,
    blame <- IF pc = "ended" THEN errors ELSE {}

\* The saga implements the contract of MoveContract: only the two families of
\* the move change, only between snapshot and verdict, only to the old or the
\* new routing, and the verdict is true of the cluster when it is given.
ImplementsContract == Contract!Spec

-----------------------------------------------------------------------------
(* Liveness. *)

\* A move that is running ends, however its operations fail.
EverySagaEnds == pc # "ended" ~> pc = "ended"
=============================================================================
