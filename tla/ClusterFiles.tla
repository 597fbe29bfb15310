---------------------------- MODULE ClusterFiles ----------------------------
(***************************************************************************)
(* The mock cluster as the files it consists of.  An operation reads and   *)
(* writes several of them, one after the other and without a lock, while   *)
(* operations on other families do the same: the objects of one Restate    *)
(* service run their steps in threads, and several workers may share one   *)
(* directory.                                                              *)
(*                                                                         *)
(* A file is replaced in two steps: opening it for writing truncates it,   *)
(* and its new text is there when it is closed.  In between a family reads *)
(* as nothing, which is an error, and the counters read as no counters.  A *)
(* line is appended to the audit log in one step.                          *)
(*                                                                         *)
(* Each family has one caller, its actor, with one attempt at a time.      *)
(***************************************************************************)
EXTENDS ChaosRules, Sequences

CONSTANTS
    Calls,       \* family -> the requests its actor may make
    MaxCalls,    \* bound: attempts of all operations
    MaxCrashes   \* bound: how often a process dies

Request == [op : Operation, config : SUBSET Datatypes]

ASSUME FilesAssumption ==
    /\ Calls \in [Families -> SUBSET Request]
    /\ MaxCalls \in Nat
    /\ MaxCrashes \in Nat

VARIABLES
    torn,        \* families whose file is truncated; Cluster's variables then
                 \* still say what it contained
    rules,       \* chaos.json
    hits,        \* chaos_hits.json
    hitsTorn,    \* TRUE while that file is truncated
    audit,       \* audit.jsonl
    savepoints,  \* the files in savepoints/
    frame,       \* family -> the operation in progress, a Frame
    answer,      \* family -> how its last attempt ended
    calls,       \* attempts so far
    struck,      \* history: operation -> how often its rule has raised a fault
    crashes      \* how often a process has died

files == <<cluster, torn, rules, hits, hitsTorn, audit, savepoints>>
rest == <<answer, calls, struck, crashes>>
fvars == <<files, frame, rest>>

FileOf(f) ==
    [state |-> state[f], datatypes |-> datatypes[f],
     generation |-> generation[f], savepoint |-> savepoint[f]]

\* The local variables of an operation: what it does next, what it was asked,
\* the family's record and the counters as it has read them, the outcome that
\* it is about to record, and the sequence number for it.
NoStatus == [state |-> "RUNNING", datatypes |-> {}, generation |-> 0, savepoint |-> 0]

NoRequest == [op |-> "none", config |-> {}]

Idle == [pc |-> "idle", asked |-> NoRequest, status |-> NoStatus,
         counts |-> NoHits, ending |-> "none", seq |-> 0]

Access ==
    {"idle", "rules", "hits", "empty hits", "write hits", "read", "savepoint",
     "empty status", "write status", "count lines", "append", "lose"}

Record ==
    [state : FamilyState, datatypes : SUBSET Datatypes,
     generation : Nat, savepoint : Nat]

Frame ==
    [pc : Access,
     asked : Request \union {NoRequest},
     status : Record,
     counts : [Key -> 0..MaxTimes],
     ending : {"none", "ok", "transient", "permanent"},
     seq : Nat]

AuditEntry ==
    [seq : Nat, op : Operation, family : Families,
     outcome : {"ok", "transient", "permanent"}]

FilesTypeOK ==
    /\ ClusterTypeOK
    /\ torn \subseteq Families
    /\ rules \in RuleTables
    /\ hits \in [Key -> 0..MaxTimes]
    /\ hitsTorn \in BOOLEAN
    /\ audit \in Seq(AuditEntry)
    /\ savepoints \subseteq Families \X Nat
    /\ frame \in [Families -> Frame]
    /\ answer \in [Families -> Outcome \union {"none", "unreadable"}]
    /\ calls \in 0..MaxCalls
    /\ struck \in [Key -> Nat]
    /\ crashes \in 0..MaxCrashes

CalledKeys == UNION {{<<f, r.op>> : r \in Calls[f]} : f \in Families}

\* A seeded directory, with rules installed and no hit counted.
Init ==
    /\ Seed
    /\ torn = {}
    /\ rules \in RuleTablesOver(CalledKeys)
    /\ hits = NoHits
    /\ hitsTorn = FALSE
    /\ audit = <<>>
    /\ savepoints = {}
    /\ frame = [f \in Families |-> Idle]
    /\ answer = [f \in Families |-> "none"]
    /\ calls = 0
    /\ struck = NoHits
    /\ crashes = 0

-----------------------------------------------------------------------------
(* Control of one operation.                                               *)

At(f, pc) == frame[f].pc = pc

Goto(f, pc) == frame' = [frame EXCEPT ![f].pc = pc]

KeyOf(f) == <<f, frame[f].asked.op>>

Mode(f) == ModeOf(rules, KeyOf(f))

\* The operation is over and its caller sees the outcome.
Return(f, outcome) ==
    /\ frame' = [frame EXCEPT ![f] = Idle]
    /\ answer' = [answer EXCEPT ![f] = outcome]
    /\ struck' = IF outcome \in {"transient", "lost"}
                 THEN [struck EXCEPT ![KeyOf(f)] = @ + 1] ELSE struck
    /\ UNCHANGED <<calls, crashes>>

Call(f) ==
    /\ At(f, "idle")
    /\ calls < MaxCalls
    /\ \E r \in Calls[f] :
            frame' = [frame EXCEPT ![f].pc = "rules", ![f].asked = r]
    /\ calls' = calls + 1
    /\ answer' = [answer EXCEPT ![f] = "none"]
    /\ UNCHANGED <<files, struck, crashes>>

-----------------------------------------------------------------------------
(* _maybe_fail, and the counting it shares with _maybe_lose_response.      *)

\* Fault: the outcome of a permanent fault is never set.
ReadRulesOnly(f) ==
    /\ At(f, "rules")
    /\ frame' = [frame EXCEPT
           ![f].pc = CASE Mode(f) = "permanent"                -> "count lines"
                       [] Mode(f) = "transient"                -> "hits"
                       [] Mode(f) \in {"none", "lost_response"} -> "read"]
    /\ UNCHANGED <<files, rest>>

\* A permanent fault goes straight to the log, a transient one is counted.
ReadRules(f) ==
    /\ At(f, "rules")
    /\ frame' = [frame EXCEPT
           ![f].pc = CASE Mode(f) = "permanent"                -> "count lines"
                       [] Mode(f) = "transient"                -> "hits"
                       [] Mode(f) \in {"none", "lost_response"} -> "read",
           ![f].ending = IF Mode(f) = "permanent" THEN "permanent" ELSE "none"]
    /\ UNCHANGED <<files, rest>>

\* A truncated file of counters reads as one without counters.
HitsRead == IF hitsTorn THEN NoHits ELSE hits

ReadHits(f) ==
    /\ At(f, "hits")
    /\ Strikes(rules, HitsRead, KeyOf(f))
    /\ frame' = [frame EXCEPT
           ![f].pc = "empty hits",
           ![f].counts = [HitsRead EXCEPT ![KeyOf(f)] = @ + 1]]
    /\ UNCHANGED <<files, rest>>

\* The rule does not strike (any more): a transient one lets the operation
\* begin, and after one that loses responses the operation is over.
PassRule(f) ==
    /\ At(f, "hits")
    /\ ~Strikes(rules, HitsRead, KeyOf(f))
    /\ \/ Mode(f) = "transient" /\ Goto(f, "read") /\ UNCHANGED rest
       \/ Mode(f) = "lost_response" /\ Return(f, "ok")
    /\ UNCHANGED files

EmptyHits(f) ==
    /\ At(f, "empty hits")
    /\ hitsTorn' = TRUE
    /\ Goto(f, "write hits")
    /\ UNCHANGED <<cluster, torn, rules, hits, audit, savepoints, rest>>

\* Fault: the counters are written back without the hit.
WriteHitsUncounted(f) ==
    /\ At(f, "write hits")
    /\ hits' = [frame[f].counts EXCEPT ![KeyOf(f)] = @ - 1]
    /\ hitsTorn' = FALSE
    /\ \/ /\ Mode(f) = "transient"
          /\ frame' = [frame EXCEPT ![f].pc = "count lines", ![f].ending = "transient"]
          /\ UNCHANGED rest
       \/ Mode(f) = "lost_response" /\ Return(f, "lost")
    /\ UNCHANGED <<cluster, torn, rules, audit, savepoints>>

\* All counters are written back as they were read, with one more hit.
WriteHits(f) ==
    /\ At(f, "write hits")
    /\ hits' = frame[f].counts
    /\ hitsTorn' = FALSE
    /\ \/ /\ Mode(f) = "transient"
          /\ frame' = [frame EXCEPT ![f].pc = "count lines", ![f].ending = "transient"]
          /\ UNCHANGED rest
       \/ Mode(f) = "lost_response" /\ Return(f, "lost")
    /\ UNCHANGED <<cluster, torn, rules, audit, savepoints>>

-----------------------------------------------------------------------------
(* The operation itself: read the record, change it, write it back.        *)

\* Fault: an empty file reads as a record with every field at its default.
ReadStatusLeniently(f) ==
    /\ At(f, "read")
    /\ frame' = [frame EXCEPT
           ![f].status = IF f \in torn THEN NoStatus ELSE FileOf(f),
           ![f].pc = IF frame[f].asked.op = "trigger_savepoint"
                     THEN "savepoint" ELSE "empty status"]
    /\ UNCHANGED <<files, rest>>

ReadStatus(f) ==
    /\ At(f, "read")
    /\ f \notin torn
    /\ frame' = [frame EXCEPT
           ![f].status = FileOf(f),
           ![f].pc = IF frame[f].asked.op = "trigger_savepoint"
                     THEN "savepoint" ELSE "empty status"]
    /\ UNCHANGED <<files, rest>>

\* An empty file is no record: the error is neither of the cluster's two.
ReadFails(f) ==
    /\ At(f, "read")
    /\ f \in torn
    /\ Return(f, "unreadable")
    /\ UNCHANGED files

\* Fault: the savepoint's file is named after the generation before.
WriteStaleSavepoint(f) ==
    /\ At(f, "savepoint")
    /\ savepoints' = savepoints \union {<<f, frame[f].status.generation>>}
    /\ Goto(f, "empty status")
    /\ UNCHANGED <<cluster, torn, rules, hits, hitsTorn, audit, rest>>

\* The savepoint's own file comes before the record that names it.
WriteSavepoint(f) ==
    /\ At(f, "savepoint")
    /\ savepoints' = savepoints \union {<<f, frame[f].status.generation + 1>>}
    /\ Goto(f, "empty status")
    /\ UNCHANGED <<cluster, torn, rules, hits, hitsTorn, audit, rest>>

\* Fault: all families share one file.
EmptyAllStatuses(f) ==
    /\ At(f, "empty status")
    /\ torn' = Families
    /\ Goto(f, "write status")
    /\ UNCHANGED <<cluster, rules, hits, hitsTorn, audit, savepoints, rest>>

EmptyStatus(f) ==
    /\ At(f, "empty status")
    /\ torn' = torn \union {f}
    /\ Goto(f, "write status")
    /\ UNCHANGED <<cluster, rules, hits, hitsTorn, audit, savepoints, rest>>

\* What the request makes of a record.
Changed(old, asked) ==
    LET new == [old EXCEPT !.generation = @ + 1]
    IN  CASE asked.op = "trigger_savepoint" -> [new EXCEPT !.savepoint = new.generation]
          [] asked.op = "suspend_job"       -> [new EXCEPT !.state = "SUSPENDED"]
          [] asked.op = "resume_job"        -> [new EXCEPT !.state = "RUNNING"]
          [] asked.op = "patch_configmap"   -> [new EXCEPT !.datatypes = asked.config]

WriteStatus(f) ==
    /\ At(f, "write status")
    /\ torn' = torn \ {f}
    /\ LET new == Changed(frame[f].status, frame[f].asked)
       IN  /\ state' = [state EXCEPT ![f] = new.state]
           /\ datatypes' = [datatypes EXCEPT ![f] = new.datatypes]
           /\ generation' = [generation EXCEPT ![f] = new.generation]
           /\ savepoint' = [savepoint EXCEPT ![f] = new.savepoint]
    /\ frame' = [frame EXCEPT ![f].pc = "count lines", ![f].ending = "ok"]
    /\ UNCHANGED <<rules, hits, hitsTorn, audit, savepoints, rest>>

-----------------------------------------------------------------------------
(* _record: the line's number is the number of lines before it.            *)

\* Fault: only the lines of successful operations are counted.
CountSuccesses(f) ==
    /\ At(f, "count lines")
    /\ frame' = [frame EXCEPT
           ![f].pc = "append",
           ![f].seq = Cardinality({i \in DOMAIN audit : audit[i].outcome = "ok"})]
    /\ UNCHANGED <<files, rest>>

CountLines(f) ==
    /\ At(f, "count lines")
    /\ frame' = [frame EXCEPT ![f].pc = "append", ![f].seq = Len(audit)]
    /\ UNCHANGED <<files, rest>>

\* Fault: the log is written anew from the lines that were counted.
RewriteLog(f) ==
    /\ At(f, "append")
    /\ audit' = Append(SubSeq(audit, 1, frame[f].seq),
                       [seq |-> frame[f].seq, op |-> frame[f].asked.op,
                        family |-> f, outcome |-> frame[f].ending])
    /\ \/ frame[f].ending = "ok" /\ Goto(f, "lose") /\ UNCHANGED rest
       \/ frame[f].ending # "ok" /\ Return(f, frame[f].ending)
    /\ UNCHANGED <<cluster, torn, rules, hits, hitsTorn, savepoints>>

AppendLine(f) ==
    /\ At(f, "append")
    /\ audit' = Append(audit, [seq |-> frame[f].seq, op |-> frame[f].asked.op,
                               family |-> f, outcome |-> frame[f].ending])
    /\ \/ frame[f].ending = "ok" /\ Goto(f, "lose") /\ UNCHANGED rest
       \/ frame[f].ending # "ok" /\ Return(f, frame[f].ending)
    /\ UNCHANGED <<cluster, torn, rules, hits, hitsTorn, savepoints>>

\* _maybe_lose_response reads the rules again.
LoseResponse(f) ==
    /\ At(f, "lose")
    /\ \/ Mode(f) = "lost_response" /\ Goto(f, "hits") /\ UNCHANGED rest
       \/ Mode(f) # "lost_response" /\ Return(f, "ok")
    /\ UNCHANGED files

-----------------------------------------------------------------------------
Underway == {f \in Families : ~At(f, "idle")}

\* A process dies, and with it the operations it was carrying out.
Crash ==
    /\ crashes < MaxCrashes
    /\ crashes' = crashes + 1
    /\ \E dead \in (SUBSET Underway) \ {{}} :
            frame' = [f \in Families |-> IF f \in dead THEN Idle ELSE frame[f]]
    /\ UNCHANGED <<files, answer, calls, struck>>

OperationStep(f) ==
    \/ ReadRules(f)
    \/ ReadHits(f)
    \/ PassRule(f)
    \/ EmptyHits(f)
    \/ WriteHits(f)
    \/ ReadStatus(f)
    \/ ReadFails(f)
    \/ WriteSavepoint(f)
    \/ EmptyStatus(f)
    \/ WriteStatus(f)
    \/ CountLines(f)
    \/ AppendLine(f)
    \/ LoseResponse(f)

Next ==
    \/ \E f \in Families : Call(f) \/ OperationStep(f)
    \/ Crash

Spec == Init /\ [][Next]_fvars

-----------------------------------------------------------------------------
(* Properties.                                                             *)

Stage(f) ==
    CASE ~At(f, "idle") /\ frame[f].ending = "ok" -> "committed"
      [] ~At(f, "idle") /\ frame[f].ending # "ok" -> "called"
      [] At(f, "idle") /\ answer[f] = "none"       -> "idle"
      [] At(f, "idle") /\ answer[f] = "unreadable" -> "transient"
      [] At(f, "idle") /\ answer[f] \in Outcome    -> answer[f]

Atomic == INSTANCE AtomicCluster WITH
    asked <- [f \in Families |-> frame[f].asked],
    stage <- [f \in Families |-> Stage(f)]

\* The reads and writes of an operation amount to one change of one family,
\* whatever the operations on other families do in between and wherever a
\* process dies, and the error a caller sees tells whether it was made: what
\* every model of a saga here assumes of the cluster.
ImplementsAtomicCluster == Atomic!Spec

Lines(f, outcome) ==
    {i \in DOMAIN audit : audit[i].family = f /\ audit[i].outcome = outcome}

Unrecorded(f) == frame[f].ending = "ok" /\ frame[f].pc \in {"count lines", "append"}

\* The log has one "ok" line for every change of a family, up to the one that
\* is being recorded and those whose process died before it could: appending
\* loses no line of another family's.
LogAccountsForChanges ==
    \A f \in Families :
        LET missing == generation[f] - Cardinality(Lines(f, "ok"))
                           - (IF Unrecorded(f) THEN 1 ELSE 0)
        IN  0 <= missing /\ missing <= crashes

\* Two operations may record the same sequence number, but the lines of one
\* family are numbered in the order of its operations, and no number is ahead
\* of its line.
LinesOfAFamilyAreOrdered ==
    \A i \in DOMAIN audit :
        /\ audit[i].seq < i
        /\ \A j \in 1..(i - 1) :
            audit[j].family = audit[i].family => audit[j].seq < audit[i].seq

Counted == {key \in DOMAIN rules : rules[key].mode # "permanent"}

\* The savepoint that a family's record names has a file, even when the process
\* died between the two.
SavepointIsStored ==
    \A f \in Families : savepoint[f] # 0 => <<f, savepoint[f]>> \in savepoints

\* No operation fails to read its own family because of the operations on
\* others; only a process that died while writing it leaves it unreadable.
UnreadableOnlyAfterCrash ==
    \A f \in Families : answer[f] = "unreadable" => crashes > 0

\* The attempt on the key that is under way returns, and reports success.
Succeeds(key) ==
    KeyOf(key[1]) = key /\ answer[key[1]] # "ok" /\ answer'[key[1]] = "ok"

\* As long as the operations under counted rules are all of one family, a rule
\* strikes at most as often as it says, and as often again for each crash; and
\* where nothing crashed, an operation under a rule succeeds only after the rule
\* has struck exactly that often.  (Every scenario of the repository is of this
\* kind.  With rules of two families a rule may strike more often: the counters
\* are written back as a whole, and an operation on another family that has read
\* them earlier takes the count back.)
RulesOfOneFamilyAreExact ==
    [][(\A one, other \in Counted : one[1] = other[1]) =>
        \A key \in Counted :
            /\ struck'[key] <= rules[key].times * (crashes' + 1)
            /\ Succeeds(key) /\ crashes = 0 => struck[key] = rules[key].times]_fvars
=============================================================================
