---------------------------- MODULE MoveContract ----------------------------
(***************************************************************************)
(* What a move promises to somebody who only sees the families' state and  *)
(* routing and the verdict: the cluster changes only between the snapshot  *)
(* and the verdict, only in the two families of the move, one family at a  *)
(* time, and never to a routing other than the old or the new one.  The    *)
(* verdict then says which of the two the cluster is in, or names what is  *)
(* neither.  A mover that dies promises nothing.                           *)
(***************************************************************************)
EXTENDS SagaPlan

VARIABLES
    state, datatypes,  \* the observable cluster
    request,           \* the move
    phase,             \* "open" until accepted, then "moving", then "ended"
    base,              \* the two families before the move; <<>> before the look
    blame,             \* the intents an incomplete rollback names
    verdict

cvars == <<state, datatypes, request, phase, base, blame, verdict>>

Observe(f) == [state |-> state[f], datatypes |-> datatypes[f]]

Init ==
    /\ state = [f \in Families |-> "RUNNING"]
    /\ datatypes \in [Families -> SUBSET Datatypes]
    /\ request \in MoveDatatypeRequest
    /\ phase = "open"
    /\ base = <<>>
    /\ blame = {}
    /\ verdict = "none"

Look ==
    /\ phase = "open"
    /\ FamiliesOf(request) \subseteq Families
    /\ base' = [f \in FamiliesOf(request) |-> Observe(f)]
    /\ UNCHANGED <<state, datatypes, request, phase, blame, verdict>>

Start ==
    /\ phase = "open"
    /\ DOMAIN base = FamiliesOf(request)
    /\ ~Rejected(request, base)
    /\ phase' = "moving"
    /\ UNCHANGED <<state, datatypes, request, base, blame, verdict>>

SwitchState(f) ==
    /\ \E s \in FamilyState : state' = [state EXCEPT ![f] = s]
    /\ UNCHANGED datatypes

Reroute(f) ==
    /\ \E c \in {base[f].datatypes, NewConfig(request, base, f)} :
            datatypes' = [datatypes EXCEPT ![f] = c]
    /\ UNCHANGED state

Move ==
    /\ phase = "moving"
    /\ \E f \in FamiliesOf(request) : SwitchState(f) \/ Reroute(f)
    /\ UNCHANGED <<request, phase, base, blame, verdict>>

Settle(outcome) ==
    /\ phase' = "ended"
    /\ verdict' = outcome
    /\ UNCHANGED <<state, datatypes, request>>

Refuse ==
    /\ phase = "open"
    /\ Settle("REJECTED") \/ Settle("RAISED")
    /\ UNCHANGED <<base, blame>>

Complete ==
    /\ phase = "moving"
    /\ \A f \in FamiliesOf(request) :
        Observe(f) = [state |-> "RUNNING", datatypes |-> NewConfig(request, base, f)]
    /\ Settle("COMPLETED")
    /\ UNCHANGED <<base, blame>>

Compensated ==
    /\ phase = "moving"
    /\ \A f \in FamiliesOf(request) : Observe(f) = base[f]
    /\ Settle("COMPENSATED")
    /\ UNCHANGED <<base, blame>>

Incomplete ==
    /\ phase = "moving"
    /\ blame' \subseteq IntentType
    /\ blame' # {}
    /\ \A f \in FamiliesOf(request) :
        /\ datatypes[f] # base[f].datatypes => Intent("revert", f) \in blame'
        /\ state[f] # base[f].state => Intent("resume", f) \in blame'
    /\ Settle("COMPENSATION_INCOMPLETE")
    /\ UNCHANGED base

Abandon ==
    /\ phase # "ended"
    /\ Settle("DIED")
    /\ base' = <<>>
    /\ UNCHANGED blame

Another ==
    /\ phase = "ended"
    /\ request' \in MoveDatatypeRequest
    /\ phase' = "open"
    /\ base' = <<>>
    /\ blame' = {}
    /\ verdict' = "none"
    /\ UNCHANGED <<state, datatypes>>

Next ==
    \/ Look
    \/ Start
    \/ Move
    \/ Refuse
    \/ Complete
    \/ Compensated
    \/ Incomplete
    \/ Abandon
    \/ Another

Spec == Init /\ [][Next]_cvars
=============================================================================
