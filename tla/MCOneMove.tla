----------------------------- MODULE MCOneMove ------------------------------
(***************************************************************************)
(* One move of the baseline saga, for safety and liveness together.  A     *)
(* symmetry set is unsound for liveness, so one source and one moved       *)
(* datatype stand for all of them, and every other datatype is routed to   *)
(* both families: they are interchangeable in BaselineSaga.                *)
(***************************************************************************)
EXTENDS VerdictTransport

CONSTANTS Source, Moved

InitOfOneMove ==
    /\ Init
    /\ request.source = Source
    /\ request.datatype = Moved
    /\ \A f \in Families : Datatypes \ {Moved} \subseteq datatypes[f]

\* With a bound of one move, no other begins.
NextOfOneMove == SagaStep \/ Die

FairSpecOfOneMove == InitOfOneMove /\ [][NextOfOneMove]_vars /\ Fairness
=============================================================================
