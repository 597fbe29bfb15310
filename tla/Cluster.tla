------------------------------ MODULE Cluster -------------------------------
(***************************************************************************)
(* The mock control surface: one persisted record per job family, and the  *)
(* four operations that mutate it.  An operation's attempt has one of four *)
(* outcomes for its caller:                                                *)
(*                                                                         *)
(*   "ok"         committed and reported                                   *)
(*   "transient"  nothing happened, a TransientClusterError was raised     *)
(*   "permanent"  nothing happened, a PermanentClusterError was raised     *)
(*   "lost"       committed, and a TransientClusterError was raised        *)
(*                                                                         *)
(* Which one occurs is left open here: the rules file may be rewritten at  *)
(* any time, and it is read again on every attempt.  ChaosBaseline adds    *)
(* the rules.  A savepoint is named by the generation that took it; 0 is   *)
(* the absence of a savepoint.                                             *)
(***************************************************************************)
EXTENDS SagaPlan

VARIABLES
    state,        \* family -> RUNNING or SUSPENDED
    datatypes,    \* family -> the datatypes routed to it
    generation,   \* family -> number of committed mutations
    savepoint     \* family -> generation of the last savepoint, 0 for none

cluster == <<state, datatypes, generation, savepoint>>

ClusterTypeOK ==
    /\ state \in [Families -> FamilyState]
    /\ datatypes \in [Families -> SUBSET Datatypes]
    /\ generation \in [Families -> Nat]
    /\ savepoint \in [Families -> Nat]

\* A fresh cluster: every family runs, with whatever routing it is given.
Seed ==
    /\ state = [f \in Families |-> "RUNNING"]
    /\ datatypes \in [Families -> SUBSET Datatypes]
    /\ generation = [f \in Families |-> 0]
    /\ savepoint = [f \in Families |-> 0]

\* Read is only meaningful for a family that exists.
Read(f) == [state |-> state[f], datatypes |-> datatypes[f]]

-----------------------------------------------------------------------------
Outcome == {"ok", "transient", "permanent", "lost"}

Committed(outcome) == outcome \in {"ok", "lost"}

Retryable(outcome) == outcome \in {"transient", "lost"}

Operation ==
    {"trigger_savepoint", "suspend_job", "resume_job", "patch_configmap"}

Commit(f) == generation' = [generation EXCEPT ![f] = @ + 1]

\* Fault: the savepoint is named after the generation before its own commit.
StaleTriggerSavepoint(f) ==
    /\ savepoint' = [savepoint EXCEPT ![f] = generation[f]]
    /\ Commit(f)
    /\ UNCHANGED <<state, datatypes>>

TriggerSavepoint(f) ==
    /\ savepoint' = [savepoint EXCEPT ![f] = generation[f] + 1]
    /\ Commit(f)
    /\ UNCHANGED <<state, datatypes>>

SuspendJob(f) ==
    /\ state' = [state EXCEPT ![f] = "SUSPENDED"]
    /\ Commit(f)
    /\ UNCHANGED <<datatypes, savepoint>>

ResumeJob(f) ==
    /\ state' = [state EXCEPT ![f] = "RUNNING"]
    /\ Commit(f)
    /\ UNCHANGED <<datatypes, savepoint>>

PatchConfigmap(f, config) ==
    /\ datatypes' = [datatypes EXCEPT ![f] = config]
    /\ Commit(f)
    /\ UNCHANGED <<state, savepoint>>

\* The committed effect of operation op on family f.
Mutate(op, f, config) ==
    \/ op = "trigger_savepoint" /\ TriggerSavepoint(f)
    \/ op = "suspend_job"       /\ SuspendJob(f)
    \/ op = "resume_job"        /\ ResumeJob(f)
    \/ op = "patch_configmap"   /\ PatchConfigmap(f, config)
=============================================================================
