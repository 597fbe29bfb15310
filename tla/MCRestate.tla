----------------------------- MODULE MCRestate ------------------------------
(***************************************************************************)
(* Moves on Restate, on small instances.  The moves are given, and every   *)
(* datatype is routed to one family, as in the repository's scenarios.     *)
(***************************************************************************)
EXTENDS RestateSaga

OneOwner == \A d \in Datatypes : Cardinality({f \in Families : d \in datatypes[f]}) = 1

OneOwnerInit == Init /\ OneOwner

OneOwnerSpec == OneOwnerInit /\ [][Next]_vars

IsolatedOneOwnerSpec == OneOwnerInit /\ [][Next /\ Isolated]_vars
=============================================================================
