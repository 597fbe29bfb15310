--------------------------- MODULE MCClusterFiles ----------------------------
(***************************************************************************)
(* Two families of two moves, one being paused while the other is patched  *)
(* and resumed.                                                            *)
(***************************************************************************)
EXTENDS ClusterFiles, TLC

CONSTANTS Pausing, Patching

CallsOfTwoMoves ==
    (Pausing :> {[op |-> "trigger_savepoint", config |-> {}],
                 [op |-> "suspend_job", config |-> {}]}) @@
    (Patching :> {[op |-> "patch_configmap", config |-> Datatypes],
                  [op |-> "resume_job", config |-> {}]})

InitOfTwoMoves ==
    /\ Init
    /\ datatypes = (Pausing :> Datatypes) @@ (Patching :> {})
    /\ \A key \in DOMAIN rules : rules[key].times = 1

SpecOfTwoMoves == InitOfTwoMoves /\ [][Next]_fvars
=============================================================================
