----------------------------- MODULE Scenarios ------------------------------
(***************************************************************************)
(* The named scenarios: each is a fault rule, or none, on one operation of *)
(* the source or of the target of a move, whether the move is expected to  *)
(* fail under it, and a description of what then happens.  The command     *)
(* line makes one such move on a fresh cluster and reports by its exit     *)
(* status whether the expectation was met.                                 *)
(***************************************************************************)
EXTENDS ChaosBaseline

\* The rules' lengths are given for a budget of 4; 99 is more than any move uses.
ASSUME ScenarioAssumption == MaxAttempts > 2 /\ MaxTimes > 2 * MaxAttempts

Source == request.source
Target == request.target

SOURCE(op) == {<<Source, op>>}
TARGET(op) == {<<Target, op>>}

Rule(mode, times) == [mode |-> mode, times |-> times]

Permanent == Rule("permanent", 1)

Scenario(under, rule, expect_failure, outcome, undone) ==
    [chaos |-> [key \in under |-> rule], expect_failure |-> expect_failure,
     outcome |-> outcome, undone |-> undone]

\* The last argument is what the description says is undone, by intent.
SCENARIOS ==
    [happy |->
        Scenario({}, Permanent, FALSE, "COMPLETED", {}),
     fail_in_pause |->
        Scenario(TARGET("suspend_job"), Permanent, TRUE, "COMPENSATED",
                 {Intent("resume", Source)}),
     fail_in_update |->
        Scenario(TARGET("patch_configmap"), Permanent, TRUE, "COMPENSATED",
                 {Intent("revert", Source),
                  Intent("resume", Source), Intent("resume", Target)}),
     fail_in_resume |->
        Scenario(TARGET("resume_job"), Rule("transient", MaxAttempts), TRUE,
                 "COMPENSATED",
                 {Intent("pause", Source),
                  Intent("revert", Source), Intent("revert", Target),
                  Intent("resume", Source), Intent("resume", Target)}),
     compensation_unreachable |->
        Scenario(TARGET("resume_job"), Permanent, TRUE, "COMPENSATION_INCOMPLETE",
                 {Intent("pause", Source), Intent("resume", Source),
                  Intent("revert", Source), Intent("revert", Target)}),
     transient_retry |->
        Scenario(TARGET("suspend_job"), Rule("transient", 2), FALSE, "COMPLETED", {}),
     transient_exhausted |->
        Scenario(TARGET("suspend_job"), Rule("transient", MaxTimes), TRUE,
                 "COMPENSATED", {Intent("resume", Source)}),
     lost_response_suspend |->
        Scenario(TARGET("suspend_job"), Rule("lost_response", MaxAttempts), TRUE,
                 "COMPENSATED", {Intent("resume", Source), Intent("resume", Target)}),
     lost_response_patch |->
        Scenario(SOURCE("patch_configmap"), Rule("lost_response", MaxAttempts), TRUE,
                 "COMPENSATED",
                 {Intent("revert", Source),
                  Intent("resume", Source), Intent("resume", Target)}),
     permanent_first_step |->
        Scenario(SOURCE("trigger_savepoint"), Permanent, TRUE, "COMPENSATED", {})]

\* Any error counts as a failure.
ExitStatus(scenario, outcome) ==
    IF scenario.expect_failure # (outcome # "COMPLETED") THEN 1 ELSE 0

\* A move of a fresh cluster under the rules of a scenario ends as the scenario
\* is described: with its verdict, with exactly the described steps undone, with
\* both families as before unless the rollback is incomplete, and then with only
\* the target suspended; and the command line exits with 0.
ScenariosEndAsDescribed ==
    [][sagas = 1 /\ pc # "ended" /\ (verdict' = "COMPLETED" \/ RolledBack') =>
        \A name \in DOMAIN SCENARIOS :
            LET s == SCENARIOS[name]
            IN  rules = s.chaos =>
                    /\ verdict' = s.outcome
                    /\ compensated' = s.undone
                    /\ state'[Source] = "RUNNING"
                    /\ state'[Target] = "SUSPENDED" <=> ~(errors' = {})
                    /\ ExitStatus(s, verdict') = 0]_chaosVars
=============================================================================
