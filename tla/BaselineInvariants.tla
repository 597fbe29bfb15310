------------------------ MODULE BaselineInvariants --------------------------
(***************************************************************************)
(* The inductive invariants behind the safety properties of BaselineSaga.  *)
(* They say, for every moment between two steps, where the saga is in its  *)
(* plan and what of the cluster it still has to put back.                  *)
(***************************************************************************)
EXTENDS BaselineSaga

Moving == pc \in {"forward", "unwinding"}

\* The source, then the target: the order of the plan and of the stack.
SnapshotTaken ==
    /\ FamiliesOf(request) \subseteq Families
    /\ statuses \in [FamiliesOf(request) -> FamilyStatus]

Accepted == SnapshotTaken /\ ~Rejected(request, statuses)

(* Where the saga is.                                                      *)

PhasesOK ==
    /\ pc = "ended" <=> verdict # "none"
    /\ pc \in {"reading", "validating"} => done = 0 /\ stack = <<>>
    /\ pc \notin {"forward", "unwinding"} => todo = <<>>
    /\ pc \in {"reading", "validating", "forward"} =>
            compensated = {} /\ noops = {} /\ errors = {}
    /\ pc = "validating" => SnapshotTaken
    /\ Moving \/ verdict = "COMPLETED" \/ RolledBack => Accepted

\* The stack holds the intents of the first steps of the plan, in order.
StackOK ==
    /\ Len(stack) <= PlanLength
    /\ \A k \in 1 .. Len(stack) : stack[k] = Intents(request)[k]
    /\ pc = "forward" =>
        Len(stack) = IF todo = <<>> THEN done ELSE done + 1
    /\ pc = "unwinding" =>
        /\ done < PlanLength
        /\ Len(stack) <= done + 1
        /\ todo # <<>> => stack # <<>>
    /\ RolledBack => stack = <<>> /\ done < PlanLength

\* The operations of a pause that may be left to make.
PauseLeft == todo = PauseOps \/ todo = <<"suspend_job">>

\* The operations left belong to the step, or to the restore, whose intent is
\* on top of the stack.
TodoOK ==
    todo # <<>> =>
        LET top == Last(stack)
        IN  /\ top.label = "revert" => todo = <<"patch_configmap">>
            /\ pc = "forward" /\ top.label = "resume" => PauseLeft
            /\ pc = "forward" /\ top.label = "pause" => todo = <<"resume_job">>
            /\ pc = "unwinding" /\ top.label # "revert" =>
                IF DesiredState(top) = "SUSPENDED" THEN PauseLeft
                                                   ELSE todo = <<"resume_job">>

Control == TypeOK /\ PhasesOK /\ StackOK /\ TodoOK

(* What is left to put back: a family that differs from the snapshot has   *)
(* the intent that undoes it on the stack or among the errors.  The intent *)
(* is on the stack when the stack reaches up to its position in the plan.  *)

ResumePosition(f) == IF f = request.source THEN 1 ELSE 2

RevertPosition(f) == IF f = request.source THEN 3 ELSE 4

DeviationsPending ==
    pc \in {"validating", "forward", "unwinding"} \/ RolledBack =>
        \A f \in FamiliesOf(request) :
            /\ datatypes[f] # statuses[f].datatypes =>
                 Len(stack) >= RevertPosition(f) \/ Intent("revert", f) \in errors
            /\ state[f] # statuses[f].state =>
                 Len(stack) >= ResumePosition(f) \/ Intent("resume", f) \in errors

(* The phase barriers: who is suspended and what is patched, by position.  *)

ForwardProgress ==
    pc = "forward" \/ verdict = "COMPLETED" =>
        /\ done \in 1 .. 3 => state[request.source] = "SUSPENDED"
        /\ done \in 2 .. 4 => state[request.target] = "SUSPENDED"
        /\ done >= 3 => datatypes[request.source]
                          = NewConfig(request, statuses, request.source)
        /\ done >= 4 => datatypes[request.target]
                          = NewConfig(request, statuses, request.target)
        /\ done >= 5 => state[request.source] = "RUNNING"
        /\ done >= 6 => state[request.target] = "RUNNING"
        /\ verdict = "COMPLETED" => done = PlanLength

UnwindBarrier ==
    pc = "unwinding" /\ errors = {} =>
        /\ Len(stack) \in 3 .. 4 => state[request.source] = "SUSPENDED"
        /\ Len(stack) \in 3 .. 5 => state[request.target] = "SUSPENDED"

Barriers == ForwardProgress /\ UnwindBarrier

\* When only the suspend of a pause is left, the savepoint is of this moment.
SavepointFresh ==
    todo = <<"suspend_job">> /\ state[Subject] = "RUNNING" =>
        savepoint[Subject] # 0 /\ savepoint[Subject] = generation[Subject]

\* What has left the stack has been reported, once.
ReportSoFar ==
    pc = "unwinding" \/ RolledBack =>
        /\ compensated \union noops \union errors
             = {Intents(request)[k] : k \in Len(stack) + 1 .. done + 1}
        /\ compensated \intersect noops = {}
        /\ (compensated \union noops) \intersect errors = {}

IInv ==
    /\ Control
    /\ DeviationsPending
    /\ Barriers
    /\ SavepointFresh
    /\ ReportSoFar
=============================================================================
