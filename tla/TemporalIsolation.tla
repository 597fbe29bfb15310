------------------------- MODULE TemporalIsolation --------------------------
(***************************************************************************)
(* What is true of TemporalSaga while moves follow one another and no      *)
(* request outlives its call.  A command may still be carried out by       *)
(* several runs of an actor, long after its workflow has heard of it: the  *)
(* invariant says what such a command finds, what the workflow owes to the *)
(* families and how far it has brought them.                               *)
(***************************************************************************)
EXTENDS TemporalInvariants

-----------------------------------------------------------------------------
(* Updates that are settled, and moves that are open.                      *)

\* The update of the step a workflow waits for.
Present(s) == Numbered(s, PresentStep(s))

\* It has been carried out well, and the workflow will hear of it unless the
\* proxy gives up.
Answered(s) ==
    \/ reply[s] \in {"changed", "unchanged"}
    \/ \E done \in finished[Present(s).family] :
        done.id = <<s, PresentStep(s)>> /\ done.answer # "failed"

\* As far as its workflow knows, update k has been carried out well.
Settled(s, k) ==
    \/ call[s] # {} /\ k = PresentStep(s) /\ Answered(s)
    \/ k \in 1 .. saga[s].done
    \/ /\ Unwinds(s)
       /\ k \in PlanLength + 1 .. PlanLength + saga[s].done + 1 - Height(s)
       /\ Intents(request[s])[Place(s, k)] \notin saga[s].errors

\* The number of the restore of a place on the stack.
Restored(s, p) == PlanLength + saga[s].done + 2 - p

\* The outcome of a move tells how its steps have gone.
OutcomesOK(s) ==
    /\ \A i \in saga[s].errors :
        Unwinds(s) /\ \E p \in Height(s) + 1 .. saga[s].done + 1 : i = Intents(request[s])[p]
    /\ saga[s].verdict = "REJECTED" => saga[s].done = 0 /\ saga[s].stack = <<>>
    /\ saga[s].verdict = "COMPLETED" => saga[s].done = PlanLength /\ Height(s) = PlanLength
    /\ saga[s].verdict = "COMPENSATED" => saga[s].errors = {}
    /\ Moving(s) \/ RolledBack(s) => ~Rejected(request[s], saga[s].statuses)

\* A move that is under way, or waits for an operator.
Open(s) == Active(s) \/ saga[s].verdict = "COMPENSATION_INCOMPLETE"

MovesAreApart == \A s, t \in Sagas : Open(s) /\ Open(t) => s = t

-----------------------------------------------------------------------------
(* What is in line at an actor.                                            *)

\* The updates of a move are in line in the order of their numbers, and nothing
\* is in line behind those of an open move.
InOrder(f) ==
    \A j, k \in DOMAIN queue[f] : j < k =>
        /\ queue[f][j].id[1] = queue[f][k].id[1] => queue[f][j].id[2] < queue[f][k].id[2]
        /\ Open(queue[f][j].id[1]) => queue[f][k].id[1] = queue[f][j].id[1]

\* No update is still in line when a later one of its move is settled.
NoneOvertaken(f) ==
    \A k \in DOMAIN queue[f], n \in 1 .. 2 * PlanLength :
        LET s == queue[f][k].id[1]
        IN  Settled(s, n) /\ Numbered(s, n).family = f => n <= queue[f][k].id[2]

\* What an update is to bring about is the case.
InEffect(f, update) ==
    /\ update.command = "pause" => state[f] = "SUSPENDED"
    /\ update.command = "resume" => state[f] = "RUNNING"
    /\ update.desired \subseteq {state[f]}
    /\ update.config \subseteq {datatypes[f]}

\* A settled update that is in line again finds its own effect.
EchoesHold(f) ==
    \A k \in DOMAIN queue[f] :
        Settled(queue[f][k].id[1], queue[f][k].id[2]) => InEffect(f, queue[f][k])

\* The workflow owes the family a restore, or is at the step that has left its
\* cache behind.
Owed(s, f) ==
    \/ /\ saga[s].pc = "forward" /\ call[s] # {} /\ ~Answered(s)
       /\ Present(s).family = f
       /\ \/ Present(s).command = "pause" /\ state[f] = "SUSPENDED"
          \/ Present(s).command = "resume" /\ state[f] = "RUNNING"
    \/ /\ Unwinds(s)
       /\ \E p \in 1 .. saga[s].done + 1 :
            Intents(request[s])[p].family = f /\ ~Settled(s, Restored(s, p))

CacheOK(f) ==
    /\ actor[f] = "ready" /\ cache[f] # state[f] => \E s \in Sagas : Open(s) /\ Owed(s, f)
    /\ steps[f] = <<"patch_configmap">> /\ Serving(f).command = "restore"
        => cache[f] = state[f]

-----------------------------------------------------------------------------
(* What a move has done to a family.                                       *)

PausePosition(s, f) == IF f = request[s].source THEN 1 ELSE 2

PatchPosition(s, f) == IF f = request[s].source THEN 3 ELSE 4

ResumePosition(s, f) == IF f = request[s].source THEN 5 ELSE 6

PresentHolds(s, f) ==
    call[s] # {} /\ Present(s).family = f /\ Answered(s) => InEffect(f, Present(s))

SnapshotCurrent(s, f) ==
    saga[s].pc \in {"read target", "validating"} /\ f \in DOMAIN saga[s].statuses =>
        saga[s].statuses[f] = Read(f)

Advanced(s, f) ==
    saga[s].pc = "forward" /\ f \in FamiliesOf(request[s]) =>
        /\ Height(s) < PausePosition(s, f) => state[f] = saga[s].statuses[f].state
        /\ Height(s) < PatchPosition(s, f) => datatypes[f] = saga[s].statuses[f].datatypes
        /\ saga[s].done >= PausePosition(s, f) /\ Height(s) < ResumePosition(s, f) =>
                state[f] = "SUSPENDED"
        /\ saga[s].done >= PatchPosition(s, f) =>
                datatypes[f] = NewConfig(request[s], saga[s].statuses, f)
        /\ saga[s].done >= ResumePosition(s, f) => state[f] = "RUNNING"

\* Nothing is left to do about the intent of a place: it has never been
\* registered, or its restore is settled.
Undone(s, p) == p > saga[s].done + 1 \/ Settled(s, Restored(s, p))

DeviationsOwned(s, f) ==
    /\ Unwinds(s) /\ f \in FamiliesOf(request[s])
    /\ Open(s) \/ \A t \in Sagas \ {s} : saga[t].pc = "idle"
    => /\ Undone(s, PatchPosition(s, f)) => datatypes[f] = saga[s].statuses[f].datatypes
       /\ Undone(s, PausePosition(s, f)) => state[f] = saga[s].statuses[f].state

FamilyInv(f) ==
    /\ InOrder(f)
    /\ NoneOvertaken(f)
    /\ EchoesHold(f)
    /\ CacheOK(f)
    /\ \A s \in Sagas :
        /\ PresentHolds(s, f)
        /\ SnapshotCurrent(s, f)
        /\ Advanced(s, f)
        /\ DeviationsOwned(s, f)

IsolatedInv ==
    /\ NoneLate
    /\ MovesAreApart
    /\ \A s \in Sagas : OutcomesOK(s)
    /\ \A f \in Families : FamilyInv(f)
=============================================================================
