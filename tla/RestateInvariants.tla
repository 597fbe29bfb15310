------------------------- MODULE RestateInvariants --------------------------
(***************************************************************************)
(* The inductive invariants behind the properties of RestateSaga: where    *)
(* every workflow is in its plan, which call it waits for, what the object *)
(* that serves the call has left to do, and what of the cluster the        *)
(* workflow still has to put back.                                         *)
(***************************************************************************)
EXTENDS RestateSaga

Moving(s) == saga[s].pc \in {"forward", "unwinding"}

Height(s) == Len(saga[s].stack)

Top(s) == Last(saga[s].stack)

SnapshotTaken(s) ==
    /\ FamiliesOf(request[s]) \subseteq Families
    /\ saga[s].statuses \in [FamiliesOf(request[s]) -> FamilyStatus]

(* Where a workflow is.                                                    *)

SagaOK(s) ==
    /\ saga[s].pc = "ended" <=> saga[s].verdict # "none"
    /\ saga[s].pc \in {"idle", "read source"} => saga[s].statuses = <<>>
    /\ saga[s].pc = "read target" =>
        /\ request[s].source \in Families
        /\ saga[s].statuses \in [{request[s].source} -> FamilyStatus]
    /\ saga[s].pc \in {"validating", "forward", "unwinding"} => SnapshotTaken(s)
    /\ Moving(s) => ~Rejected(request[s], saga[s].statuses)
    /\ ~Moving(s) => reply[s] = "none"
    /\ saga[s].pc \notin {"forward", "unwinding", "ended"} =>
            saga[s].done = 0 /\ saga[s].stack = <<>>
    /\ saga[s].pc # "unwinding" /\ saga[s].verdict # "COMPENSATION_INCOMPLETE" =>
            saga[s].errors = {}

\* The stack holds the intents of the first steps of the plan, in order.
StackOK(s) ==
    /\ Height(s) <= PlanLength
    /\ \A k \in 1 .. Height(s) : saga[s].stack[k] = Intents(request[s])[k]
    /\ saga[s].pc = "forward" =>
        Height(s) = IF reply[s] = "none" THEN saga[s].done ELSE saga[s].done + 1
    /\ saga[s].pc = "unwinding" /\ reply[s] # "none" => saga[s].stack # <<>>

Answered(s) == reply[s] \in {"changed", "unchanged"}

\* The steps that have had their effect.
Effective(s) == IF Answered(s) THEN saga[s].done + 1 ELSE saga[s].done

(* A call that waits in the queue of object f.  Its caller waits for it,   *)
(* and it is the step, or the restore, whose intent is on top of the stack.*)

CommandFor(label) ==
    CASE label = "resume" -> "pause"
      [] label = "revert" -> "patch"
      [] label = "pause"  -> "resume"

ForwardCall(f, call) ==
    LET s == call.caller
    IN  /\ call.command = CommandFor(Top(s).label)
        /\ call.desired = {}
        /\ call.config = IF Top(s).label = "revert"
                         THEN {NewConfig(request[s], saga[s].statuses, f)} ELSE {}

RestoreCall(f, call) ==
    LET s == call.caller
    IN  /\ call.command = "restore"
        /\ call.config = IF Top(s).label = "revert"
                         THEN {saga[s].statuses[f].datatypes} ELSE {}
        /\ call.desired = IF Top(s).label = "revert" THEN {}
                          ELSE IF Top(s).label = "resume"
                          THEN {saga[s].statuses[f].state} ELSE {"SUSPENDED"}

CallOK(f, call) ==
    /\ Moving(call.caller)
    /\ reply[call.caller] = "waiting"
    /\ Top(call.caller).family = f
    /\ saga[call.caller].pc = "forward" => ForwardCall(f, call)
    /\ saga[call.caller].pc = "unwinding" => RestoreCall(f, call)

QueueOK(f) ==
    /\ \A k \in DOMAIN inbox[f] : CallOK(f, inbox[f][k])
    /\ \A j, k \in DOMAIN inbox[f] :
            inbox[f][j].caller = inbox[f][k].caller => j = k

(* The durable steps left belong to the call at the head of the queue.     *)

PauseLeft(f) == steps[f] = PauseSteps \/ steps[f] = <<"suspend_job">>

HandlerOK(f) ==
    Busy(f) =>
        /\ inbox[f] # <<>>
        /\ Serving(f).command = "pause" => PauseLeft(f)
        /\ Serving(f).command = "resume" => steps[f] = <<"resume_job">>
        /\ Serving(f).command = "patch" => steps[f] = <<"patch_configmap">>
        /\ Serving(f).command = "restore" =>
            /\ Serving(f).desired = {} => steps[f] = <<"patch_configmap">>
            /\ Serving(f).desired = {"SUSPENDED"} => PauseLeft(f)
            /\ Serving(f).desired = {"RUNNING"} => steps[f] = <<"resume_job">>

Control ==
    /\ TypeOK
    /\ \A s \in Sagas : SagaOK(s) /\ StackOK(s)
    /\ \A f \in Families : QueueOK(f) /\ HandlerOK(f)

-----------------------------------------------------------------------------
(* The objects, whoever calls them.                                        *)

\* A job that is about to be suspended has just been saved.
SavepointFresh ==
    \A f \in Families :
        steps[f] = <<"suspend_job">> /\ state[f] = "RUNNING" =>
            savepoint[f] # 0 /\ savepoint[f] = generation[f]

\* A restore of family f that has not been served is still to come.
RestoreUnserved(s, f) ==
    /\ saga[s].pc = "unwinding" \/ reply[s] = "failed"
    /\ \E k \in 1 .. Height(s) :
        /\ saga[s].stack[k].family = f
        /\ reply[s] \in {"changed", "unchanged"} => k < Height(s)

HasOwner(f) ==
    \E s \in Sagas : RestoreUnserved(s, f) \/ \E i \in saga[s].errors : i.family = f

\* A cache is wrong about its job in the middle of a handler that will set it,
\* or somebody is still to put it right or has reported that he could not.
CacheOK(f) ==
    /\ (~Busy(f) \/ steps[f] = <<"patch_configmap">>) /\ cache[f] \notin {"unset", state[f]}
        => HasOwner(f)
    /\ steps[f] = <<"patch_configmap">> /\ Serving(f).command = "restore"
        => cache[f] = state[f]

StaleCacheHasOwner == \A f \in Families : CacheOK(f)

-----------------------------------------------------------------------------
(* Suspended jobs, whoever suspended them.                                 *)

\* A move on its way forward has registered the pause of family f, step k of
\* the plan, and its resume of f, step k + 4, has had no effect yet.
HoldsSuspended(s, f) ==
    /\ saga[s].pc = "forward"
    /\ \E k \in 1 .. Height(s) :
        saga[s].stack[k] = Intent("resume", f) /\ Effective(s) < k + 4

\* A move that goes back, or has gone back, to a snapshot with the job suspended.
GoesBackToSuspended(s, f) ==
    /\ \/ saga[s].pc = "unwinding"
       \/ saga[s].verdict \in {"COMPENSATED", "COMPENSATION_INCOMPLETE"}
    /\ f \in DOMAIN saga[s].statuses
    /\ saga[s].statuses[f].state = "SUSPENDED"

\* Some move answers for it that family f is suspended.
Explained(f) ==
    \/ HasOwner(f)
    \/ \E s \in Sagas : HoldsSuspended(s, f) \/ GoesBackToSuspended(s, f)

SuspensionsExplained == \A f \in Families : state[f] = "SUSPENDED" => Explained(f)

-----------------------------------------------------------------------------
(* Moves that have their families to themselves.                           *)

MovesAreApart ==
    \A s, t \in Sagas : s # t /\ Active(s) /\ Active(t) => ~Overlap(s, t)

PausePosition(s, f) == IF f = request[s].source THEN 1 ELSE 2

PatchPosition(s, f) == IF f = request[s].source THEN 3 ELSE 4

ResumePosition(s, f) == IF f = request[s].source THEN 5 ELSE 6

\* Nothing changes a family between its read and the first command of its move.
SnapshotCurrent ==
    \A s \in Sagas : saga[s].pc \in {"read target", "validating"} =>
        \A f \in DOMAIN saga[s].statuses : saga[s].statuses[f] = Read(f)

\* The intent that undoes a deviation of the family is on the stack, and its
\* restore has not been served, or it is among the errors.
Pending(s, position) ==
    IF saga[s].pc = "unwinding" /\ Answered(s)
    THEN Height(s) > position ELSE Height(s) >= position

DeviationOwned(s, f) ==
    /\ datatypes[f] # saga[s].statuses[f].datatypes =>
            \/ Pending(s, PatchPosition(s, f))
            \/ Intent("revert", f) \in saga[s].errors
    /\ state[f] # saga[s].statuses[f].state =>
            \/ Pending(s, PausePosition(s, f))
            \/ Intent("resume", f) \in saga[s].errors

DeviationsPending ==
    \A s \in Sagas : Moving(s) => \A f \in FamiliesOf(request[s]) : DeviationOwned(s, f)

\* Once paused a family's cache says so, or nothing, until it is resumed: so
\* that the resume is not skipped, even where a stale cache skipped the pause.
Advanced(s, f) ==
    /\ Effective(s) >= PatchPosition(s, f) =>
            datatypes[f] = NewConfig(request[s], saga[s].statuses, f)
    /\ Effective(s) \in PausePosition(s, f) .. ResumePosition(s, f) - 1 =>
            cache[f] \in {"SUSPENDED", "unset"}
    /\ Effective(s) >= ResumePosition(s, f) => state[f] = "RUNNING"

ForwardProgress ==
    \A s \in Sagas : saga[s].pc = "forward" =>
        \A f \in FamiliesOf(request[s]) : Advanced(s, f)

OperatorAsked == \E s \in Sagas : saga[s].verdict = "COMPENSATION_INCOMPLETE"

\* A suspended job belongs to a move under way, unless an operator is asked for.
SuspensionsOwned ==
    \/ OperatorAsked
    \/ /\ \A f \in Families :
            \/ state[f] = "RUNNING"
            \/ \E s \in Sagas : Moving(s) /\ f \in FamiliesOf(request[s])
       /\ \A s \in Sagas : Active(s) =>
            \A f \in DOMAIN saga[s].statuses : saga[s].statuses[f].state = "RUNNING"

IsolatedInv ==
    /\ MovesAreApart
    /\ SnapshotCurrent
    /\ DeviationsPending
    /\ ForwardProgress
    /\ SuspensionsOwned
=============================================================================
