--------------------------- MODULE MCAppRegistry ----------------------------
(***************************************************************************)
(* A workflow and its copy in a sandbox, a plain activity and a method,    *)
(* and two instances that have the method.                                 *)
(***************************************************************************)
EXTENDS AppRegistry, TLC

CONSTANTS Saga, Copy, Step, Proxy, Host, Other

SagaAndCopy == {Saga, Copy}
StepAndProxy == {Step, Proxy}
TwoInstances == {Host, Other}
ProvidesOfTwo == (Host :> {Proxy}) @@ (Other :> {Proxy, Step})
HiddenOfTwo == (Host :> {}) @@ (Other :> {Step})
Names == (Saga :> "move") @@ (Copy :> "move") @@ (Step :> "step") @@ (Proxy :> "step")
=============================================================================
