------------------------------ MODULE SagaPlan ------------------------------
(***************************************************************************)
(* The move-datatype saga as data: what a request is, which steps it runs, *)
(* what routing configuration it writes and which rollback intent is       *)
(* registered before each step.  Nothing here has state; every engine of   *)
(* the repository follows this plan.                                       *)
(*                                                                         *)
(* A family's `datatypes` list is modelled as a set: no property looks at  *)
(* the order, and no operation of the code puts a datatype in twice.       *)
(***************************************************************************)
EXTENDS Naturals, Sequences

CONSTANTS
    Families,   \* the job families that exist in the cluster
    Names,      \* the family names a request may carry
    Datatypes   \* the datatypes that are routed to families

\* A request is free text: it can also name a family that does not exist.
ASSUME NamesAssumption == Families \subseteq Names

FamilyState == {"RUNNING", "SUSPENDED"}

\* What a read of one family returns, as far as the saga looks at it.
FamilyStatus == [state : FamilyState, datatypes : SUBSET Datatypes]

MoveDatatypeRequest ==
    [datatype : Datatypes, source : Names, target : Names]

FamiliesOf(r) == {r.source, r.target}

-----------------------------------------------------------------------------
(* Validation and the new routing, from the snapshot read before the move. *)

Rejected(r, snap) ==
    \/ r.source = r.target
    \/ r.datatype \notin snap[r.source].datatypes
    \/ r.datatype \in snap[r.target].datatypes

\* Fault: the target's configuration is replaced instead of extended.
NewConfigOverwrites(r, snap, f) ==
    IF f = r.source THEN snap[f].datatypes \ {r.datatype}
                    ELSE {r.datatype}

NewConfig(r, snap, f) ==
    IF f = r.source THEN snap[f].datatypes \ {r.datatype}
                    ELSE snap[f].datatypes \union {r.datatype}

-----------------------------------------------------------------------------
(* The six steps: the phases are global barriers, so that both families    *)
(* are paused before either is patched, and patched before either resumes. *)

Step(command, family) == [command |-> command, family |-> family]

\* Fault: each family runs its three phases without waiting for the other.
PlanPerFamily(r) ==
    << Step("pause",  r.source), Step("patch",  r.source),
       Step("resume", r.source), Step("pause",  r.target),
       Step("patch",  r.target), Step("resume", r.target) >>

Plan(r) ==
    << Step("pause",  r.source), Step("pause",  r.target),
       Step("patch",  r.source), Step("patch",  r.target),
       Step("resume", r.source), Step("resume", r.target) >>

PlanLength == 6

(* The intent registered before each step; its label says what the restore *)
(* will do.  A pause is undone by going back to the snapshot's state, a    *)
(* patch by the snapshot's routing, a resume by suspending again.          *)

Intent(label, family) == [label |-> label, family |-> family]

IntentType ==
    [label : {"resume", "revert", "pause"}, family : Names]

Intents(r) ==
    << Intent("resume", r.source), Intent("resume", r.target),
       Intent("revert", r.source), Intent("revert", r.target),
       Intent("pause",  r.source), Intent("pause",  r.target) >>
=============================================================================
