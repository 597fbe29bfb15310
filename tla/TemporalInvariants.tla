------------------------ MODULE TemporalInvariants --------------------------
(***************************************************************************)
(* The inductive invariants behind the properties of TemporalSaga: where   *)
(* every workflow is in its plan, which updates it has sent under which    *)
(* number, and which of them a run of an actor has in line, is carrying    *)
(* out or remembers.                                                       *)
(***************************************************************************)
EXTENDS TemporalSaga

Moving(s) == saga[s].pc \in {"forward", "unwinding"}

Unwinds(s) == saga[s].pc = "unwinding" \/ RolledBack(s)

Height(s) == Len(saga[s].stack)

SnapshotTaken(s) ==
    /\ FamiliesOf(request[s]) \subseteq Families
    /\ saga[s].statuses \in [FamiliesOf(request[s]) -> FamilyStatus]

(* Where a workflow is.                                                    *)

SagaOK(s) ==
    /\ saga[s].pc = "ended" <=> saga[s].verdict # "none"
    /\ saga[s].pc \in {"idle", "read source"} => saga[s].statuses = <<>>
    /\ saga[s].pc = "read target" =>
        /\ request[s].source \in Families
        /\ saga[s].statuses \in [{request[s].source} -> FamilyStatus]
    /\ saga[s].pc \in {"validating", "forward", "unwinding", "ended"} => SnapshotTaken(s)
    /\ ~Moving(s) => reply[s] = "none"
    /\ reply[s] = "none" <=> call[s] = {}
    /\ saga[s].pc \notin {"forward", "unwinding", "ended"} =>
            saga[s].done = 0 /\ saga[s].stack = <<>>

\* The stack holds the intents of the first steps of the plan, in order.
StackOK(s) ==
    /\ Height(s) <= PlanLength
    /\ \A k \in 1 .. Height(s) : saga[s].stack[k] = Intents(request[s])[k]
    /\ saga[s].pc = "forward" =>
        Height(s) = IF call[s] = {} THEN saga[s].done ELSE saga[s].done + 1
    /\ Unwinds(s) => saga[s].done < PlanLength /\ Height(s) <= saga[s].done + 1
    /\ saga[s].pc = "unwinding" /\ call[s] # {} => saga[s].stack # <<>>
    /\ RolledBack(s) => saga[s].stack = <<>>

-----------------------------------------------------------------------------
(* The number of an update says what it is: a forward step by its place in *)
(* the plan, a restore by how far the unwind has come.                     *)

ForwardUpdate(s, k) ==
    LET step == Plan(request[s])[k]
    IN  [id |-> <<s, k>>, family |-> step.family, command |-> step.command,
         desired |-> {},
         config |-> IF step.command = "patch"
                    THEN {NewConfig(request[s], saga[s].statuses, step.family)} ELSE {}]

\* The place on the stack of the intent that restore k undoes.
Place(s, k) == saga[s].done + 2 - (k - PlanLength)

RestoreUpdate(s, k) ==
    LET intent == Intents(request[s])[Place(s, k)]
        base   == saga[s].statuses[intent.family]
    IN  [id |-> <<s, k>>, family |-> intent.family, command |-> "restore",
         desired |-> CASE intent.label = "revert" -> {}
                       [] intent.label = "resume" -> {base.state}
                       [] intent.label = "pause"  -> {"SUSPENDED"},
         config |-> IF intent.label = "revert" THEN {base.datatypes} ELSE {}]

Numbered(s, k) == IF k <= PlanLength THEN ForwardUpdate(s, k) ELSE RestoreUpdate(s, k)

\* The numbers that the workflow has given out.
Forwards(s) == IF Unwinds(s) THEN saga[s].done + 1 ELSE Height(s)

Restores(s) ==
    IF ~Unwinds(s) THEN 0
    ELSE saga[s].done + 1 - Height(s) + IF call[s] = {} THEN 0 ELSE 1

Sent(s, k) ==
    \/ k \in 1 .. PlanLength /\ k <= Forwards(s)
    \/ k \in PlanLength + 1 .. PlanLength + Restores(s)

Genuine(update) ==
    LET s == update.id[1]
        k == update.id[2]
    IN  Sent(s, k) /\ update = Numbered(s, k)

\* The proxy makes the call of the step the workflow is at.
PresentStep(s) == IF saga[s].pc = "forward" THEN saga[s].done + 1 ELSE RestoreStep(s)

CallOK(s) == call[s] # {} => call[s] = {Numbered(s, PresentStep(s))}

-----------------------------------------------------------------------------
(* What an actor has to do with updates.                                   *)

InLine(f, id) == \E k \in DOMAIN queue[f] : queue[f][k].id = id

Remembered(f, id) == \E done \in finished[f] : done.id = id

QueueOK(f) ==
    /\ \A k \in DOMAIN queue[f] : Genuine(queue[f][k]) /\ queue[f][k].family = f
    /\ \A j, k \in DOMAIN queue[f] : queue[f][j].id = queue[f][k].id => j = k
    /\ \A done \in finished[f] :
        /\ Sent(done.id[1], done.id[2])
        /\ Numbered(done.id[1], done.id[2]).family = f
        /\ ~InLine(f, done.id)

\* The activities left belong to the update that has the lock.
PauseLeft(f) == steps[f] = PauseSteps \/ steps[f] = <<"suspend_job">>

HandlerOK(f) ==
    Busy(f) =>
        /\ actor[f] = "ready"
        /\ queue[f] # <<>>
        /\ Serving(f).command = "pause" => PauseLeft(f)
        /\ Serving(f).command = "resume" => steps[f] = <<"resume_job">>
        /\ Serving(f).command = "patch" => steps[f] = <<"patch_configmap">>
        /\ Serving(f).command = "restore" =>
            /\ Serving(f).desired = {} => steps[f] = <<"patch_configmap">>
            /\ Serving(f).desired = {"SUSPENDED"} => PauseLeft(f)
            /\ Serving(f).desired = {"RUNNING"} => steps[f] = <<"resume_job">>

Control ==
    /\ TypeOK
    /\ \A s \in Sagas : SagaOK(s) /\ StackOK(s) /\ CallOK(s)
    /\ \A update \in wire : Genuine(update)
    /\ \A f \in Families : QueueOK(f) /\ HandlerOK(f)

-----------------------------------------------------------------------------
\* An actor has carried the update out and remembers it, or is carrying it out.
Accounted(id) ==
    \E f \in Families : Remembered(f, id) \/ (Busy(f) /\ Serving(f).id = id)

\* While no run has ended, all that has been carried out is accounted for: its
\* number leads to the one family that can have done it.
RunsRemembered == endedRuns = 0 => twice = {} /\ \A id \in ran : Accounted(id)

\* A job that is about to be suspended has just been saved.
SavepointFresh ==
    \A f \in Families :
        steps[f] = <<"suspend_job">> /\ state[f] = "RUNNING" =>
            savepoint[f] # 0 /\ savepoint[f] = generation[f]
=============================================================================
