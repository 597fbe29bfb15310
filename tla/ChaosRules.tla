----------------------------- MODULE ChaosRules -----------------------------
(***************************************************************************)
(* The mock cluster's fault rules.  A rule is keyed by family and          *)
(* operation and decides what an attempt does from the number of times it  *)
(* has already struck:                                                     *)
(*                                                                         *)
(*   permanent      every attempt fails, nothing is committed              *)
(*   transient      the first `times` attempts fail, nothing is committed  *)
(*   lost_response  the first `times` attempts commit and then fail        *)
(*                                                                         *)
(* A table of rules and a table of counters are two files.                 *)
(***************************************************************************)
EXTENDS Cluster, FiniteSetsExt

CONSTANTS
    MaxFaults,  \* bound: how many operations may be under a rule
    MaxTimes    \* bound: the largest `times` of a rule

ASSUME ChaosAssumption == MaxFaults \in Nat /\ MaxTimes \in Nat

Key == Families \X Operation

ChaosRule ==
    [mode : {"transient", "lost_response"}, times : 0..MaxTimes]
    \union [mode : {"permanent"}, times : {1}]

RuleTablesOver(keys) ==
    UNION {[under -> ChaosRule] :
              under \in UNION {kSubset(n, keys) : n \in 0..MaxFaults}}

RuleTables == RuleTablesOver(Key)

NoHits == [key \in Key |-> 0]

ModeOf(table, key) ==
    IF key \in DOMAIN table THEN table[key].mode ELSE "none"

\* Fault: a rule strikes once more than it says.
StrikesTooOften(table, counts, key) ==
    /\ ModeOf(table, key) \in {"transient", "lost_response"}
    /\ counts[key] <= table[key].times /\ counts[key] < MaxTimes

\* A counted rule strikes until it has struck `times` times.
Strikes(table, counts, key) ==
    /\ ModeOf(table, key) \in {"transient", "lost_response"}
    /\ counts[key] < table[key].times
=============================================================================
