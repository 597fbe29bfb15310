--------------------------- MODULE AtomicCluster ----------------------------
(***************************************************************************)
(* What one attempt of a cluster operation promises its caller, when each  *)
(* family has one caller at a time: between call and answer it changes its *)
(* own family at most once, all at once, and the answer tells the truth.   *)
(* "ok" and "lost" mean that the change was made, "transient" and          *)
(* "permanent" that it was not.  An attempt whose process dies has no      *)
(* answer.  The sagas' models take this for granted.                       *)
(***************************************************************************)
EXTENDS Cluster

VARIABLES
    asked,  \* family -> the request being carried out
    stage   \* family -> how far it is, or how the last one was answered

avars == <<cluster, asked, stage>>

Request == [op : Operation, config : SUBSET Datatypes]

NoRequest == [op |-> "none", config |-> {}]

Init ==
    /\ Seed
    /\ asked = [f \in Families |-> NoRequest]
    /\ stage = [f \in Families |-> "idle"]

Underway == {f \in Families : stage[f] \in {"called", "committed"}}

Invoke(f) ==
    /\ f \notin Underway
    /\ \E r \in Request : asked' = [asked EXCEPT ![f] = r]
    /\ stage' = [stage EXCEPT ![f] = "called"]
    /\ UNCHANGED cluster

Change(f) ==
    /\ stage[f] = "called"
    /\ Mutate(asked[f].op, f, asked[f].config)
    /\ stage' = [stage EXCEPT ![f] = "committed"]
    /\ UNCHANGED asked

Answer(f, outcome) ==
    /\ stage[f] = IF Committed(outcome) THEN "committed" ELSE "called"
    /\ stage' = [stage EXCEPT ![f] = outcome]
    /\ asked' = [asked EXCEPT ![f] = NoRequest]
    /\ UNCHANGED cluster

Vanish ==
    /\ \E dead \in SUBSET Underway :
        /\ stage' = [f \in Families |-> IF f \in dead THEN "idle" ELSE stage[f]]
        /\ asked' = [f \in Families |-> IF f \in dead THEN NoRequest ELSE asked[f]]
    /\ UNCHANGED cluster

Next ==
    \/ \E f \in Families : Invoke(f) \/ Change(f)
    \/ \E f \in Families, outcome \in Outcome : Answer(f, outcome)
    \/ Vanish

Spec == Init /\ [][Next]_avars
=============================================================================
