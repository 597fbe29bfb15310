---------------------------- MODULE MCTemporal ------------------------------
(***************************************************************************)
(* Moves on Temporal, on small instances.  Every datatype is routed to one *)
(* family, as in the repository's scenarios.  A symmetry set is unsound    *)
(* for liveness, so there the moves from one source stand for all.         *)
(***************************************************************************)
EXTENDS TemporalSaga

CONSTANT Source

OneOwner == \A d \in Datatypes : Cardinality({f \in Families : d \in datatypes[f]}) = 1

OneOwnerInit == Init /\ OneOwner

OneOwnerSpec == OneOwnerInit /\ [][Next]_vars

IsolatedOneOwnerSpec == OneOwnerInit /\ [][Next /\ NoneLate' /\ Isolated]_vars

InitFromSource == OneOwnerInit /\ \A s \in Sagas : request[s].source = Source

FairSpecFromSource == InitFromSource /\ [][Next /\ NoneLate']_vars /\ Fairness

Symmetry ==
    Permutations(Families) \union Permutations(Datatypes) \union Permutations(Sagas)
=============================================================================
