-------------------------- MODULE RestateContract ---------------------------
(***************************************************************************)
(* Moves that have the cluster to themselves on Restate, one after the     *)
(* other, implement the same contract as the bare-Python ones, and never   *)
(* abandon it: their process may crash, a workflow does not die.           *)
(***************************************************************************)
EXTENDS RestateSaga

CONSTANT Order  \* the moves, in the order of their starts

ASSUME OrderAssumption ==
    /\ Sagas # {}
    /\ Order \in Seq(Sagas)
    /\ \A s \in Sagas : \E i \in DOMAIN Order : Order[i] = s
    /\ Len(Order) = Cardinality(Sagas)

Started == {s \in Sagas : saga[s].pc # "idle"}

\* What the callers see to: the next move starts when the last one has ended.
StartInOrder(s) ==
    /\ s \notin Started
    /\ s = Order[Cardinality(Started) + 1]
    /\ \A t \in Started : saga[t].pc = "ended"
    /\ Start(s)

SequentialNext ==
    \/ \E s \in Sagas : StartInOrder(s)
    \/ \E s \in Sagas : SagaStep(s)
    \/ \E f \in Families : ObjectStep(f)

SequentialSpec == Init /\ [][SequentialNext]_vars

\* The move that is under way, or the last one that was, or else the first.
Mover == Order[IF Started = {} THEN 1 ELSE Cardinality(Started)]

Phase ==
    CASE saga[Mover].pc \in {"idle", "read source", "read target", "validating"} -> "open"
      [] saga[Mover].pc \in {"forward", "unwinding"}                             -> "moving"
      [] saga[Mover].pc = "ended"                                                -> "ended"

\* The snapshot counts as taken when both families have been read.
Snapshot ==
    IF DOMAIN saga[Mover].statuses = FamiliesOf(request[Mover])
    THEN saga[Mover].statuses ELSE <<>>

\* Only the outcome of a move names intents.
Blame == IF saga[Mover].pc = "ended" THEN saga[Mover].errors ELSE {}

Contract == INSTANCE MoveContract WITH
    request <- request[Mover],
    phase   <- Phase,
    base    <- Snapshot,
    blame   <- Blame,
    verdict <- saga[Mover].verdict

\* The workflows and the objects together implement the contract: whatever is
\* retried, replayed after a crash or read from the stale cache an earlier move
\* left, only the two families change, only to the old or new routing, and the
\* verdict is true.
ImplementsContract == Contract!Spec
=============================================================================
