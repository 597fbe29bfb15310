---------------------------- MODULE ChaosBaseline ---------------------------
(***************************************************************************)
(* The baseline saga over the mock cluster's fault rules, which decide the *)
(* outcome of each attempt.  There is one process, so the files of the     *)
(* cluster are read and written as one (see ClusterFiles).  The counters   *)
(* outlast a move; installing rules resets them.                           *)
(***************************************************************************)
EXTENDS BaselineInvariants, ChaosRules

VARIABLES
    rules,     \* family and operation -> rule, for the operations under one
    hits,      \* family and operation -> how often its rule has struck
    installed  \* history: how many moves had been made when the rules were
               \* installed; nothing but a property looks at it

chaos == <<rules, hits, installed>>
chaosVars == <<vars, chaos>>

\* The outcome the rules give to one attempt of the operation.
ChaosOutcome(key) ==
    LET mode == ModeOf(rules, key)
    IN  CASE mode = "permanent" -> "permanent"
          [] mode = "transient" /\ Strikes(rules, hits, key) -> "transient"
          [] mode = "lost_response" /\ Strikes(rules, hits, key) -> "lost"
          [] OTHER -> "ok"

CountHit(key) ==
    hits' = IF Strikes(rules, hits, key) THEN [hits EXCEPT ![key] = @ + 1] ELSE hits

\* Fault: the counters of the rules before go on counting.
SetChaosOnly(table) ==
    /\ pc = "ended"
    /\ sagas < MaxSagas
    /\ rules' = table
    /\ installed' = sagas
    /\ UNCHANGED <<vars, hits>>

SetChaos(table) ==
    /\ pc = "ended"
    /\ sagas < MaxSagas
    /\ rules' = table
    /\ hits' = NoHits
    /\ installed' = sagas
    /\ UNCHANGED vars

-----------------------------------------------------------------------------
\* One attempt of a cluster operation, with the outcome the rules decide.
ChaosAttempt ==
    /\ todo # <<>>
    /\ LET key == <<Subject, Head(todo)>>
           outcome == ChaosOutcome(key)
       IN  /\ \/ outcome = "ok" /\ StepReturns
              \/ outcome = "ok" /\ RestoreReturns
              \/ Retry(outcome)
              \/ StepRaises(outcome)
              \/ RestoreRaises(outcome)
           /\ CountHit(key)
    /\ UNCHANGED <<rules, installed>>

\* The saga's own steps, which call no cluster operation.
OwnStep ==
    /\ \/ ReadAll
       \/ ReadRaises
       \/ Reject
       \/ Accept
       \/ BeginStep
       \/ Complete
       \/ RestoreNoop
       \/ BeginRestore
       \/ Unwound
       \/ Die
       \/ \E r \in MoveDatatypeRequest : NextSaga(r)
    /\ UNCHANGED chaos

ChaosInit ==
    /\ Init
    /\ rules \in RuleTables
    /\ hits = NoHits
    /\ installed = 0

ChaosNext ==
    \/ ChaosAttempt
    \/ OwnStep
    \/ \E table \in RuleTables : SetChaos(table)

ChaosSpec == ChaosInit /\ [][ChaosNext]_chaosVars

-----------------------------------------------------------------------------
(* What the retry budget absorbs and what it does not.                     *)

\* A fault that clears within the retry budget of one operation never reaches
\* the saga: a move turns to its rollback only because of an operation whose
\* rule is permanent or outlasts the budget, however many other operations are
\* faulty and whatever earlier moves have used up of their rules (the
\* "transient-retry" and "transient-exhausted" scenarios).
ShortFaultsAreAbsorbed ==
    [][pc = "forward" /\ pc' = "unwinding" =>
        \E key \in DOMAIN rules :
            /\ key = <<Subject, Head(todo)>>
            /\ rules[key].mode = "permanent" \/ rules[key].times >= MaxAttempts]_chaosVars

\* The verdict of a move of running families under one rule, by that rule:
\*  - within the budget, it completes;
\*  - a fault that still holds when the restore needs the same operation makes
\*    the rollback incomplete: a resume that never works, or a patch whose
\*    commits are never acknowledged;
\*  - everything else is rolled back.  In particular an operation that failed
\*    without committing needs no restore, however long its fault lasts.
OutlastsRestore(rule) == rule.mode = "permanent" \/ rule.times >= 2 * MaxAttempts

VerdictUnder(op, rule) ==
    CASE rule.mode # "permanent" /\ rule.times < MaxAttempts -> "COMPLETED"
      [] op = "resume_job" /\ OutlastsRestore(rule) -> "COMPENSATION_INCOMPLETE"
      [] op = "patch_configmap" /\ rule.mode = "lost_response"
         /\ rule.times >= 2 * MaxAttempts -> "COMPENSATION_INCOMPLETE"
      [] OTHER -> "COMPENSATED"

\* The first move that is made under a single rule ends as VerdictUnder says,
\* whatever the move before it, under other rules, has left of the cluster and
\* of the counters, as long as both jobs run (the scenario table of
\* scenarios.py, for every operation, mode and length of a fault).
SingleFaultVerdict ==
    [][/\ sagas = installed + 1
       /\ pc # "ended" /\ pc' = "ended"
       /\ verdict' \in {"COMPLETED", "COMPENSATED", "COMPENSATION_INCOMPLETE"}
       /\ \A f \in FamiliesOf(request) : statuses[f].state = "RUNNING"
       => \A key \in DOMAIN rules :
            DOMAIN rules = {key} /\ key[1] \in FamiliesOf(request) =>
                verdict' = VerdictUnder(key[2], rules[key])]_chaosVars
=============================================================================
