--------------------------- MODULE MCRestateOverlap --------------------------
(***************************************************************************)
(* Two moves on Restate that call the same two objects in opposite         *)
(* orders.  A symmetry set is unsound for liveness, so which move takes    *)
(* which datatype which way is fixed: all are interchangeable.             *)
(***************************************************************************)
EXTENDS MCRestate

CONSTANTS First, Source, Moved

Opposite ==
    /\ request[First].source = Source
    /\ request[First].datatype = Moved
    /\ \A s \in Sagas :
        /\ request[s].source # request[s].target
        /\ request[s].datatype \in datatypes[request[s].source]
        /\ s # First => request[s].source = request[First].target

OppositeInit == OneOwnerInit /\ Opposite

FairOppositeSpec == OppositeInit /\ [][Next]_vars /\ Fairness
=============================================================================
