------------------------- MODULE ClusterFilesProofs -------------------------
(***************************************************************************)
(* The file accesses of an operation amount to one change of one family,   *)
(* and leave its file readable, its savepoint stored and the log complete  *)
(* and in order, for any families, requests, rules and numbers of calls    *)
(* and crashes.                                                            *)
(***************************************************************************)
EXTENDS ClusterFiles, FiniteSetTheorems, TLAPS

-----------------------------------------------------------------------------
(* How far an operation is, by the next access it will make.               *)

\* What the frame of family f says is so.
Consistent(f) ==
    /\ At(f, "idle") => frame[f] = Idle
    /\ ~At(f, "idle") => frame[f].asked \in Request /\ answer[f] = "none"
    /\ frame[f].pc \in {"rules", "read", "savepoint", "empty status", "write status"} =>
        frame[f].ending = "none"
    /\ frame[f].pc \in {"hits", "empty hits", "write hits"} =>
        \/ Mode(f) = "transient" /\ frame[f].ending = "none"
        \/ Mode(f) = "lost_response" /\ frame[f].ending = "ok"
    /\ frame[f].pc \in {"count lines", "append"} => frame[f].ending # "none"
    /\ At(f, "lose") => frame[f].ending = "ok"

\* The record that the operation has read is still the one in the file.
UpToDate(f) ==
    frame[f].pc \in {"savepoint", "empty status", "write status"} =>
        frame[f].status = FileOf(f)

FInv ==
    /\ FilesTypeOK
    /\ \A f \in Families : Consistent(f) /\ UpToDate(f)

-----------------------------------------------------------------------------
(* Types.                                                                  *)

LEMMA TablesAreTyped ==
    ASSUME NEW table \in RuleTables
    PROVE  /\ DOMAIN table \subseteq Key
           /\ \A key \in DOMAIN table : table[key] \in ChaosRule
<1>1. PICK under \in UNION {kSubset(n, Key) : n \in 0..MaxFaults} :
            table \in [under -> ChaosRule]
  BY DEF RuleTables, RuleTablesOver
<1>2. under \subseteq Key
  BY DEF kSubset
<1> QED  BY <1>1, <1>2

LEMMA FewerKeysFewerTables ==
    ASSUME NEW keys \in SUBSET Key
    PROVE  RuleTablesOver(keys) \subseteq RuleTables
<1>1. \A n \in Nat : kSubset(n, keys) \subseteq kSubset(n, Key)
  BY DEF kSubset
<1>2. \A n \in 0..MaxFaults : kSubset(n, keys) \subseteq kSubset(n, Key)
  BY <1>1, ChaosAssumption
<1>3. UNION {kSubset(n, keys) : n \in 0..MaxFaults}
        \subseteq UNION {kSubset(n, Key) : n \in 0..MaxFaults}
  BY <1>2
<1> QED  BY <1>3 DEF RuleTables, RuleTablesOver

LEMMA IdleIsAFrame == Idle \in Frame
  BY ChaosAssumption DEF Idle, Frame, Access, Record, NoRequest, NoStatus, FamilyState, NoHits

LEMMA InitTyped == Init => FilesTypeOK
<1> SUFFICES ASSUME Init PROVE FilesTypeOK
  OBVIOUS
<1>1. ClusterTypeOK
  BY DEF Init, Seed, ClusterTypeOK, FamilyState
<1>2. CalledKeys \subseteq Key
  BY FilesAssumption DEF CalledKeys, Key, Request
<1>3. rules \in RuleTables
  BY <1>2, FewerKeysFewerTables DEF Init
<1>4. NoHits \in [Key -> 0..MaxTimes] /\ NoHits \in [Key -> Nat]
  BY ChaosAssumption DEF NoHits
<1>5. calls \in 0..MaxCalls /\ crashes \in 0..MaxCrashes
  BY FilesAssumption DEF Init
<1>6. hits \in [Key -> 0..MaxTimes] /\ struck \in [Key -> Nat]
  BY <1>4 DEF Init
<1>7. frame \in [Families -> Frame]
  BY IdleIsAFrame DEF Init
<1>8. answer \in [Families -> Outcome \union {"none", "unreadable"}]
  BY DEF Init
<1>9. torn \subseteq Families /\ hitsTorn \in BOOLEAN
  BY DEF Init
<1>10. audit \in Seq(AuditEntry)
  BY DEF Init
<1>11. savepoints \subseteq Families \X Nat
  BY DEF Init
<1> QED  BY <1>1, <1>3, <1>5, <1>6, <1>7, <1>8, <1>9, <1>10,
         <1>11 DEF FilesTypeOK

LEMMA ModesOfRules ==
    ASSUME FilesTypeOK, NEW key
    PROVE  /\ ModeOf(rules, key) \in {"none", "transient", "lost_response", "permanent"}
           /\ \A counts \in [Key -> 0..MaxTimes] :
                Strikes(rules, counts, key) =>
                    key \in Key /\ counts[key] + 1 \in 0..MaxTimes
<1>1. rules \in RuleTables
  BY DEF FilesTypeOK
<1>2. key \in DOMAIN rules => key \in Key /\ rules[key] \in ChaosRule
  BY <1>1, TablesAreTyped
<1>3. key \in DOMAIN rules =>
        /\ rules[key].mode \in {"transient", "lost_response", "permanent"}
        /\ rules[key].mode # "permanent" => rules[key].times \in 0..MaxTimes
  BY <1>2 DEF ChaosRule
<1> QED  BY <1>2, <1>3, ChaosAssumption DEF ModeOf, Strikes

LEMMA ReturnIsTyped ==
    ASSUME FilesTypeOK, NEW f \in Families, NEW outcome, Return(f, outcome)
    PROVE  /\ frame' \in [Families -> Frame]
           /\ outcome \in Outcome \union {"none", "unreadable"} =>
                answer' \in [Families -> Outcome \union {"none", "unreadable"}]
           /\ struck' \in [Key -> Nat]
           /\ UNCHANGED <<calls, crashes>>
<1>1. frame' \in [Families -> Frame]
  BY IdleIsAFrame DEF Return, FilesTypeOK
<1>2. outcome \in Outcome \union {"none", "unreadable"} =>
        answer' \in [Families -> Outcome \union {"none", "unreadable"}]
  BY DEF Return, FilesTypeOK
<1>3. struck' \in [Key -> Nat]
  <2>1. struck \in [Key -> Nat]
    BY DEF FilesTypeOK
  <2>2. struck' = struck \/ struck' = [struck EXCEPT ![KeyOf(f)] = @ + 1]
    BY DEF Return
  <2> QED  BY <2>1, <2>2
<1> QED  BY <1>1, <1>2, <1>3 DEF Return

\* What a request makes of a record is a record.
LEMMA ChangedIsTyped ==
    ASSUME NEW old \in Record, NEW asked \in Request
    PROVE  Changed(old, asked) \in Record
<1> DEFINE new == [old EXCEPT !.generation = @ + 1]
<1>1. new \in Record /\ new.generation \in Nat
  BY DEF Record
<1>2. asked.op \in Operation /\ asked.config \in SUBSET Datatypes
  BY DEF Request
<1>3. [new EXCEPT !.savepoint = new.generation] \in Record
  BY <1>1 DEF Record
<1>4. [new EXCEPT !.state = "SUSPENDED"] \in Record /\ [new EXCEPT !.state = "RUNNING"] \in Record
  BY <1>1 DEF Record, FamilyState
<1>5. [new EXCEPT !.datatypes = asked.config] \in Record
  BY <1>1, <1>2 DEF Record
<1> HIDE DEF new
<1>6. Changed(old, asked) = CASE asked.op = "trigger_savepoint" -> [new EXCEPT !.savepoint = new.generation]
          [] asked.op = "suspend_job"       -> [new EXCEPT !.state = "SUSPENDED"]
          [] asked.op = "resume_job"        -> [new EXCEPT !.state = "RUNNING"]
          [] asked.op = "patch_configmap"   -> [new EXCEPT !.datatypes = asked.config]
  BY DEF Changed, new
<1> QED  BY <1>2, <1>3, <1>4, <1>5, <1>6 DEF Operation

LEMMA TypeNext ==
    ASSUME FInv, [Next]_fvars
    PROVE  FilesTypeOK'
<1>0. FilesTypeOK /\ frame \in [Families -> Frame]
  BY DEF FInv, FilesTypeOK
<1>1. ASSUME NEW f \in Families, Call(f) PROVE FilesTypeOK'
  <2>1. PICK r \in Request, pc \in Access :
            frame' = [frame EXCEPT ![f].pc = pc, ![f].asked = r]
    BY <1>1, FilesAssumption DEF Call, Access
  <2>2. frame' \in [Families -> Frame]
    BY <1>0, <2>1 DEF Frame
  <2>3. calls' \in 0..MaxCalls
    BY <1>0, <1>1, FilesAssumption DEF Call, FilesTypeOK
  <2>4. answer' \in [Families -> Outcome \union {"none", "unreadable"}]
    BY <1>0, <1>1 DEF Call, FilesTypeOK
  <2> QED  BY <1>0, <1>1, <2>2, <2>3, <2>4
           DEF Call, FilesTypeOK, ClusterTypeOK, files, cluster
<1>2. ASSUME NEW f \in Families, ReadRules(f) PROVE FilesTypeOK'
  <2>1. frame' \in [Families -> Frame]
    <3>1. Mode(f) \in {"none", "transient", "lost_response", "permanent"}
      BY <1>0, ModesOfRules DEF Mode
    <3>2. PICK pc \in Access, e \in {"none", "permanent"} :
              frame' = [frame EXCEPT ![f].pc = pc, ![f].ending = e]
      BY <1>2, <3>1 DEF ReadRules, Access
    <3> QED  BY <1>0, <3>2 DEF Frame
  <2> QED  BY <1>0, <1>2, <2>1
           DEF ReadRules, FilesTypeOK, ClusterTypeOK, files, cluster, rest
<1>3. ASSUME NEW f \in Families, ReadHits(f) PROVE FilesTypeOK'
  <2>1. HitsRead \in [Key -> 0..MaxTimes]
    BY <1>0, ChaosAssumption DEF HitsRead, NoHits, FilesTypeOK
  <2>2. [HitsRead EXCEPT ![KeyOf(f)] = @ + 1] \in [Key -> 0..MaxTimes]
    BY <1>0, <1>3, <2>1, ModesOfRules DEF ReadHits
  <2>3. PICK counts \in [Key -> 0..MaxTimes], pc \in Access :
            frame' = [frame EXCEPT ![f].pc = pc, ![f].counts = counts]
    BY <1>3, <2>2 DEF ReadHits, Access
  <2>4. frame' \in [Families -> Frame]
    BY <1>0, <2>3 DEF Frame
  <2> QED  BY <1>0, <1>3, <2>4
           DEF ReadHits, FilesTypeOK, ClusterTypeOK, files, cluster, rest
<1>4. ASSUME NEW f \in Families, PassRule(f) PROVE FilesTypeOK'
  <2>1. CASE Return(f, "ok")
    BY <1>0, <1>4, <2>1, ReturnIsTyped
       DEF PassRule, Outcome, FilesTypeOK, ClusterTypeOK, files, cluster
  <2>2. CASE Goto(f, "read") /\ UNCHANGED rest
    <3>1. frame' \in [Families -> Frame]
      BY <1>0, <2>2 DEF Goto, Frame, Access
    <3> QED  BY <1>0, <1>4, <2>2, <3>1
             DEF PassRule, FilesTypeOK, ClusterTypeOK, files, cluster, rest
  <2> QED  BY <1>4, <2>1, <2>2 DEF PassRule
<1>5. ASSUME NEW f \in Families, EmptyHits(f) PROVE FilesTypeOK'
  <2>1. frame' \in [Families -> Frame]
    BY <1>0, <1>5 DEF EmptyHits, Goto, Frame, Access
  <2> QED  BY <1>0, <1>5, <2>1
           DEF EmptyHits, FilesTypeOK, ClusterTypeOK, cluster, rest
<1>6. ASSUME NEW f \in Families, WriteHits(f) PROVE FilesTypeOK'
  <2>1. hits' \in [Key -> 0..MaxTimes]
    BY <1>0, <1>6 DEF WriteHits, Frame
  <2>2. CASE Return(f, "lost")
    BY <1>0, <1>6, <2>1, <2>2, ReturnIsTyped
       DEF WriteHits, Outcome, FilesTypeOK, ClusterTypeOK, cluster
  <2>3. CASE ~Return(f, "lost")
    <3>0. PICK pc \in Access, ending \in {"ok", "transient"} :
              frame' = [frame EXCEPT ![f].pc = pc, ![f].ending = ending]
      BY <1>6, <2>3 DEF WriteHits, Access
    <3>1. frame' \in [Families -> Frame]
      BY <1>0, <3>0 DEF Frame
    <3>2. UNCHANGED rest
      BY <1>6, <2>3 DEF WriteHits
    <3> QED  BY <1>0, <1>6, <2>1, <3>1, <3>2
             DEF WriteHits, FilesTypeOK, ClusterTypeOK, cluster, rest
  <2> QED  BY <2>2, <2>3
<1>7. ASSUME NEW f \in Families, ReadStatus(f) PROVE FilesTypeOK'
  <2>1. FileOf(f) \in Record
    BY <1>0 DEF FileOf, Record, FilesTypeOK, ClusterTypeOK
  <2>2. PICK record \in Record, pc \in Access :
            frame' = [frame EXCEPT ![f].status = record, ![f].pc = pc]
    BY <1>7, <2>1 DEF ReadStatus, Access
  <2>3. frame' \in [Families -> Frame]
    BY <1>0, <2>2 DEF Frame
  <2> QED  BY <1>0, <1>7, <2>3
           DEF ReadStatus, FilesTypeOK, ClusterTypeOK, files, cluster, rest
<1>8. ASSUME NEW f \in Families, ReadFails(f) PROVE FilesTypeOK'
  BY <1>0, <1>8, ReturnIsTyped
     DEF ReadFails, FilesTypeOK, ClusterTypeOK, files, cluster
<1>9. ASSUME NEW f \in Families, WriteSavepoint(f) PROVE FilesTypeOK'
  <2>1. frame' \in [Families -> Frame]
    BY <1>0, <1>9 DEF WriteSavepoint, Goto, Frame, Access
  <2>2. savepoints' \subseteq Families \X Nat
    <3>1. frame[f].status.generation + 1 \in Nat
      BY <1>0 DEF Frame, Record
    <3>2. <<f, frame[f].status.generation + 1>> \in Families \X Nat
      BY <3>1
    <3>3. savepoints' = savepoints \union {<<f, frame[f].status.generation + 1>>}
      BY <1>9 DEF WriteSavepoint
    <3> QED  BY <1>0, <3>2, <3>3 DEF FilesTypeOK
  <2> QED  BY <1>0, <1>9, <2>1, <2>2
           DEF WriteSavepoint, FilesTypeOK, ClusterTypeOK, cluster, rest
<1>10. ASSUME NEW f \in Families, EmptyStatus(f) PROVE FilesTypeOK'
  <2>1. frame' \in [Families -> Frame]
    BY <1>0, <1>10 DEF EmptyStatus, Goto, Frame, Access
  <2> QED  BY <1>0, <1>10, <2>1
           DEF EmptyStatus, FilesTypeOK, ClusterTypeOK, cluster, rest
<1>11. ASSUME NEW f \in Families, WriteStatus(f) PROVE FilesTypeOK'
  <2>0. PICK pc \in Access, ending \in {"ok", "transient"} :
            frame' = [frame EXCEPT ![f].pc = pc, ![f].ending = ending]
    BY <1>11 DEF WriteStatus, Access
  <2>1. frame' \in [Families -> Frame]
    BY <1>0, <2>0 DEF Frame
  <2> DEFINE new == Changed(frame[f].status, frame[f].asked)
  <2>2. frame[f].status \in Record /\ frame[f].asked \in Request
    BY <1>0, <1>11 DEF Frame, WriteStatus, FInv, Consistent, At
  <2>3. new \in Record
    BY <2>2, ChangedIsTyped
  <2>4. /\ state' = [state EXCEPT ![f] = new.state]
        /\ datatypes' = [datatypes EXCEPT ![f] = new.datatypes]
        /\ generation' = [generation EXCEPT ![f] = new.generation]
        /\ savepoint' = [savepoint EXCEPT ![f] = new.savepoint]
    BY <1>11 DEF WriteStatus
  <2> HIDE DEF new
  <2>5. ClusterTypeOK'
    BY <1>0, <2>3, <2>4 DEF Record, FilesTypeOK, ClusterTypeOK
  <2> QED  BY <1>0, <1>11, <2>1, <2>5 DEF WriteStatus, FilesTypeOK, rest
<1>12. ASSUME NEW f \in Families, CountLines(f) PROVE FilesTypeOK'
  <2>1. Len(audit) \in Nat
    BY <1>0 DEF FilesTypeOK
  <2>2. PICK pc \in Access, seq \in Nat :
            frame' = [frame EXCEPT ![f].pc = pc, ![f].seq = seq]
    BY <1>12, <2>1 DEF CountLines, Access
  <2>3. frame' \in [Families -> Frame]
    BY <1>0, <2>2 DEF Frame
  <2> QED  BY <1>0, <1>12, <2>3
           DEF CountLines, FilesTypeOK, ClusterTypeOK, files, cluster, rest
<1>13. ASSUME NEW f \in Families, AppendLine(f) PROVE FilesTypeOK'
  <2> DEFINE line == [seq |-> frame[f].seq, op |-> frame[f].asked.op,
                      family |-> f, outcome |-> frame[f].ending]
  <2>1. /\ frame[f].asked \in Request
        /\ frame[f].ending \in {"ok", "transient", "permanent"}
        /\ frame[f].seq \in Nat
    BY <1>0, <1>13 DEF Frame, AppendLine, FInv, Consistent, At
  <2>2. line \in AuditEntry
    BY <2>1 DEF AuditEntry, Request
  <2>3. audit' = Append(audit, line)
    BY <1>13 DEF AppendLine
  <2> HIDE DEF line
  <2>4. audit' \in Seq(AuditEntry)
    BY <1>0, <2>2, <2>3 DEF FilesTypeOK
  <2>5. CASE Return(f, frame[f].ending)
    BY <1>0, <1>13, <2>1, <2>4, <2>5, ReturnIsTyped
       DEF AppendLine, Outcome, FilesTypeOK, ClusterTypeOK, cluster
  <2>6. CASE ~Return(f, frame[f].ending)
    <3>0. Goto(f, "lose") /\ UNCHANGED rest
      BY <1>13, <2>6 DEF AppendLine
    <3>1. frame' \in [Families -> Frame]
      BY <1>0, <3>0 DEF Goto, Frame, Access
    <3> QED  BY <1>0, <1>13, <2>4, <3>0, <3>1
             DEF AppendLine, FilesTypeOK, ClusterTypeOK, cluster, rest
  <2> QED  BY <2>5, <2>6
<1>14. ASSUME NEW f \in Families, LoseResponse(f) PROVE FilesTypeOK'
  <2>1. CASE Return(f, "ok")
    BY <1>0, <1>14, <2>1, ReturnIsTyped
       DEF LoseResponse, Outcome, FilesTypeOK, ClusterTypeOK, files, cluster
  <2>2. CASE Goto(f, "hits") /\ UNCHANGED rest
    <3>1. frame' \in [Families -> Frame]
      BY <1>0, <2>2 DEF Goto, Frame, Access
    <3> QED  BY <1>0, <1>14, <2>2, <3>1
             DEF LoseResponse, FilesTypeOK, ClusterTypeOK, files, cluster, rest
  <2> QED  BY <1>14, <2>1, <2>2 DEF LoseResponse
<1>15. CASE Crash
  <2>1. frame' \in [Families -> Frame]
    BY <1>0, <1>15, IdleIsAFrame DEF Crash
  <2>2. crashes' \in 0..MaxCrashes
    BY <1>0, <1>15, FilesAssumption DEF Crash, FilesTypeOK
  <2> QED  BY <1>0, <1>15, <2>1, <2>2
           DEF Crash, FilesTypeOK, ClusterTypeOK, files, cluster
<1>16. CASE UNCHANGED fvars
  BY <1>0, <1>16 DEF fvars, FilesTypeOK, ClusterTypeOK, files, cluster, rest
<1> QED
  BY <1>1, <1>2, <1>3, <1>4, <1>5, <1>6, <1>7, <1>8, <1>9, <1>10, <1>11, <1>12,
     <1>13, <1>14, <1>15, <1>16 DEF Next, OperationStep

-----------------------------------------------------------------------------
(* An operation touches its own family only.                               *)

LEMMA OthersUntouched ==
    ASSUME FilesTypeOK, NEW f \in Families, NEW g \in Families, g # f,
           Call(f) \/ OperationStep(f)
    PROVE  /\ frame'[g] = frame[g] /\ answer'[g] = answer[g]
           /\ FileOf(g)' = FileOf(g)
           /\ rules' = rules
<1>1. frame \in [Families -> Frame] /\ rules' = rules
  BY DEF FilesTypeOK, OperationStep, Call, ReadRules, ReadHits, PassRule, EmptyHits,
         WriteHits, ReadStatus, ReadFails, WriteSavepoint, EmptyStatus, WriteStatus,
         CountLines, AppendLine, LoseResponse, files
<1>2. \E new : frame' = [frame EXCEPT ![f] = new]
  BY DEF OperationStep, Call, ReadRules, ReadHits, PassRule, EmptyHits, WriteHits,
         ReadStatus, ReadFails, WriteSavepoint, EmptyStatus, WriteStatus,
         CountLines, AppendLine, LoseResponse, Return, Goto
<1>3. answer' = answer \/ \E new : answer' = [answer EXCEPT ![f] = new]
  BY DEF OperationStep, Call, ReadRules, ReadHits, PassRule, EmptyHits, WriteHits,
         ReadStatus, ReadFails, WriteSavepoint, EmptyStatus, WriteStatus,
         CountLines, AppendLine, LoseResponse, Return, rest
<1>4. FileOf(g)' = FileOf(g)
  <2>1. CASE UNCHANGED cluster
    BY <2>1 DEF FileOf, cluster
  <2>2. CASE WriteStatus(f)
    BY <2>2 DEF WriteStatus, FileOf, FilesTypeOK, ClusterTypeOK
  <2> QED
    BY <2>1, <2>2 DEF OperationStep, Call, ReadRules, ReadHits, PassRule, EmptyHits,
       WriteHits, ReadStatus, ReadFails, WriteSavepoint, EmptyStatus, CountLines,
       AppendLine, LoseResponse, files
<1> QED
  BY <1>1, <1>2, <1>3, <1>4 DEF FilesTypeOK

LEMMA InitInv == Init => FInv
<1> SUFFICES ASSUME Init PROVE FInv
  OBVIOUS
<1>1. \A f \in Families : Consistent(f) /\ UpToDate(f)
  BY DEF Init, Consistent, UpToDate, At, Idle
<1> QED  BY <1>1, InitTyped DEF FInv

\* What an operation leaves in its own frame.
LEMMA OwnFrame ==
    ASSUME FInv, NEW f \in Families, Call(f) \/ OperationStep(f)
    PROVE  (Consistent(f) /\ UpToDate(f))'
<1>0. /\ frame \in [Families -> Frame] /\ rules' = rules
      /\ answer \in [Families -> Outcome \union {"none", "unreadable"}]
      /\ Consistent(f) /\ UpToDate(f) /\ FilesTypeOK
  BY DEF FInv, FilesTypeOK, OperationStep, Call, ReadRules, ReadHits, PassRule, EmptyHits,
         WriteHits, ReadStatus, ReadFails, WriteSavepoint, EmptyStatus, WriteStatus,
         CountLines, AppendLine, LoseResponse, files
<1>1. ASSUME NEW outcome, Return(f, outcome) PROVE (Consistent(f) /\ UpToDate(f))'
  BY <1>0, <1>1 DEF Return, Consistent, UpToDate, At, Idle
<1>2. ASSUME UNCHANGED cluster PROVE FileOf(f)' = FileOf(f)
  BY <1>2 DEF FileOf, cluster
<1>3. CASE Call(f)
  <2>0. frame[f] = Idle
    BY <1>0, <1>3 DEF Call, Consistent
  <2>1. PICK r \in Request : frame' = [frame EXCEPT ![f].pc = "rules", ![f].asked = r]
    BY <1>3, FilesAssumption DEF Call
  <2>2. frame'[f].ending = "none" /\ frame'[f].pc = "rules" /\ frame'[f].asked \in Request
    BY <1>0, <2>0, <2>1 DEF Idle
  <2>3. answer'[f] = "none"
    BY <1>0, <1>3 DEF Call
  <2> QED  BY <2>2, <2>3 DEF Consistent, UpToDate, At
<1>4. CASE ReadRules(f)
  <2>1. Mode(f) \in {"none", "transient", "lost_response", "permanent"}
    BY <1>0, ModesOfRules DEF Mode
  <2>2. frame'[f].asked = frame[f].asked /\ answer' = answer /\ Mode(f)' = Mode(f)
    BY <1>0, <1>4 DEF ReadRules, rest, Mode, KeyOf, Frame
  <2>3. \/ Mode(f) = "permanent" /\ frame'[f].pc = "count lines" /\ frame'[f].ending = "permanent"
        \/ Mode(f) = "transient" /\ frame'[f].pc = "hits" /\ frame'[f].ending = "none"
        \/ frame'[f].pc = "read" /\ frame'[f].ending = "none"
    BY <1>0, <1>4, <2>1 DEF ReadRules, Frame
  <2> QED  BY <1>0, <1>4, <2>2, <2>3 DEF Consistent, UpToDate, At, ReadRules
<1>5. CASE ReadHits(f)
  <2>1. /\ frame'[f].asked = frame[f].asked /\ answer' = answer /\ Mode(f)' = Mode(f)
        /\ frame'[f].pc = "empty hits" /\ frame'[f].ending = frame[f].ending
    BY <1>0, <1>5 DEF ReadHits, rest, Mode, KeyOf, Frame
  <2> QED  BY <1>0, <1>5, <2>1 DEF Consistent, UpToDate, At, ReadHits
<1>6. CASE PassRule(f)
  <2>1. CASE Return(f, "ok")
    BY <1>1, <2>1
  <2>2. CASE Mode(f) = "transient" /\ Goto(f, "read") /\ UNCHANGED rest
    <3>1. /\ frame'[f].asked = frame[f].asked /\ answer' = answer
          /\ frame'[f].pc = "read" /\ frame'[f].ending = frame[f].ending
      BY <1>0, <2>2 DEF Goto, rest, Frame
    <3> QED  BY <1>0, <1>6, <2>2, <3>1 DEF Consistent, UpToDate, At, PassRule
  <2> QED  BY <1>6, <2>1, <2>2 DEF PassRule
<1>7. CASE EmptyHits(f)
  <2>1. /\ frame'[f].asked = frame[f].asked /\ answer' = answer /\ Mode(f)' = Mode(f)
        /\ frame'[f].pc = "write hits" /\ frame'[f].ending = frame[f].ending
    BY <1>0, <1>7 DEF EmptyHits, Goto, rest, Mode, KeyOf, Frame
  <2> QED  BY <1>0, <1>7, <2>1 DEF Consistent, UpToDate, At, EmptyHits
<1>8. CASE WriteHits(f)
  <2>1. CASE Return(f, "lost")
    BY <1>1, <2>1
  <2>2. CASE ~Return(f, "lost")
    <3>1. /\ frame' = [frame EXCEPT ![f].pc = "count lines", ![f].ending = "transient"]
          /\ answer' = answer
      BY <1>8, <2>2 DEF WriteHits, rest
    <3>2. frame[f] \in Frame
      BY <1>0
    <3>3. /\ frame'[f].asked = frame[f].asked /\ answer' = answer
          /\ frame'[f].pc = "count lines" /\ frame'[f].ending = "transient"
      BY <1>0, <3>1, <3>2 DEF Frame
    <3> QED  BY <1>0, <1>8, <3>3 DEF Consistent, UpToDate, At, WriteHits
  <2> QED  BY <2>1, <2>2
<1>9. CASE ReadStatus(f)
  <2>1. /\ frame'[f].asked = frame[f].asked /\ answer' = answer
        /\ frame'[f].pc \in {"savepoint", "empty status"}
        /\ frame'[f].ending = frame[f].ending /\ frame'[f].status = FileOf(f)
    BY <1>0, <1>9 DEF ReadStatus, rest, Frame
  <2>2. FileOf(f)' = FileOf(f)
    BY <1>2, <1>9 DEF ReadStatus, files
  <2> QED  BY <1>0, <1>9, <2>1, <2>2 DEF Consistent, UpToDate, At, ReadStatus
<1>10. CASE ReadFails(f)
  BY <1>1, <1>10 DEF ReadFails
<1>11. CASE WriteSavepoint(f)
  <2>1. /\ frame'[f].asked = frame[f].asked /\ answer' = answer
        /\ frame'[f].pc = "empty status"
        /\ frame'[f].ending = frame[f].ending /\ frame'[f].status = frame[f].status
    BY <1>0, <1>11 DEF WriteSavepoint, Goto, rest, Frame
  <2>2. FileOf(f)' = FileOf(f)
    BY <1>2, <1>11 DEF WriteSavepoint
  <2> QED  BY <1>0, <1>11, <2>1, <2>2 DEF Consistent, UpToDate, At, WriteSavepoint
<1>12. CASE EmptyStatus(f)
  <2>1. /\ frame'[f].asked = frame[f].asked /\ answer' = answer
        /\ frame'[f].pc = "write status"
        /\ frame'[f].ending = frame[f].ending /\ frame'[f].status = frame[f].status
    BY <1>0, <1>12 DEF EmptyStatus, Goto, rest, Frame
  <2>2. FileOf(f)' = FileOf(f)
    BY <1>2, <1>12 DEF EmptyStatus
  <2> QED  BY <1>0, <1>12, <2>1, <2>2 DEF Consistent, UpToDate, At, EmptyStatus
<1>13. CASE WriteStatus(f)
  <2>1. /\ frame'[f].asked = frame[f].asked /\ answer' = answer
        /\ frame'[f].pc = "count lines" /\ frame'[f].ending = "ok"
    BY <1>0, <1>13 DEF WriteStatus, rest, Frame
  <2> QED  BY <1>0, <1>13, <2>1 DEF Consistent, UpToDate, At, WriteStatus
<1>14. CASE CountLines(f)
  <2>1. /\ frame'[f].asked = frame[f].asked /\ answer' = answer
        /\ frame'[f].pc = "append" /\ frame'[f].ending = frame[f].ending
    BY <1>0, <1>14 DEF CountLines, rest, Frame
  <2> QED  BY <1>0, <1>14, <2>1 DEF Consistent, UpToDate, At, CountLines
<1>15. CASE AppendLine(f)
  <2>1. CASE Return(f, frame[f].ending)
    BY <1>1, <2>1
  <2>2. CASE frame[f].ending = "ok" /\ Goto(f, "lose") /\ UNCHANGED rest
    <3>1. /\ frame'[f].asked = frame[f].asked /\ answer' = answer
          /\ frame'[f].pc = "lose" /\ frame'[f].ending = "ok"
      BY <1>0, <2>2 DEF Goto, rest, Frame
    <3> QED  BY <1>0, <1>15, <3>1 DEF Consistent, UpToDate, At, AppendLine
  <2> QED  BY <1>15, <2>1, <2>2 DEF AppendLine
<1>16. CASE LoseResponse(f)
  <2>1. CASE Return(f, "ok")
    BY <1>1, <2>1
  <2>2. CASE Mode(f) = "lost_response" /\ Goto(f, "hits") /\ UNCHANGED rest
    <3>1. /\ frame'[f].asked = frame[f].asked /\ answer' = answer /\ Mode(f)' = Mode(f)
          /\ frame'[f].pc = "hits" /\ frame'[f].ending = frame[f].ending
      BY <1>0, <2>2 DEF Goto, rest, Mode, KeyOf, Frame
    <3> QED  BY <1>0, <1>16, <2>2, <3>1 DEF Consistent, UpToDate, At, LoseResponse
  <2> QED  BY <1>16, <2>1, <2>2 DEF LoseResponse
<1> QED
  BY <1>3, <1>4, <1>5, <1>6, <1>7, <1>8, <1>9, <1>10, <1>11, <1>12, <1>13, <1>14,
     <1>15, <1>16 DEF OperationStep

LEMMA NextInv ==
    ASSUME FInv, [Next]_fvars
    PROVE  FInv'
<1>1. FilesTypeOK'
  BY TypeNext
<1>2. ASSUME NEW f \in Families, Call(f) \/ OperationStep(f), NEW g \in Families
      PROVE  (Consistent(g) /\ UpToDate(g))'
  <2>1. CASE g = f
    BY <1>2, <2>1, OwnFrame
  <2>2. CASE g # f
    <3>1. /\ frame'[g] = frame[g] /\ answer'[g] = answer[g]
          /\ FileOf(g)' = FileOf(g) /\ Mode(g)' = Mode(g)
      BY <1>2, <2>2, OthersUntouched DEF FInv, Mode, KeyOf
    <3> QED  BY <3>1 DEF FInv, Consistent, UpToDate, At
  <2> QED  BY <2>1, <2>2
<1>3. ASSUME Crash, NEW g \in Families
      PROVE  (Consistent(g) /\ UpToDate(g))'
  <2>1. FileOf(g)' = FileOf(g) /\ rules' = rules /\ answer' = answer
    BY <1>3 DEF Crash, files, cluster, FileOf
  <2>2. CASE frame'[g] = Idle
    BY <2>2 DEF Consistent, UpToDate, At, Idle
  <2>3. CASE frame'[g] = frame[g]
    <3>1. Mode(g)' = Mode(g)
      BY <2>1, <2>3 DEF Mode, KeyOf
    <3> QED  BY <2>1, <2>3, <3>1 DEF FInv, Consistent, UpToDate, At
  <2> QED  BY <1>3, <2>2, <2>3 DEF Crash
<1>4. ASSUME UNCHANGED fvars, NEW g \in Families
      PROVE  (Consistent(g) /\ UpToDate(g))'
  BY <1>4 DEF fvars, files, rest, cluster, FInv, Consistent, UpToDate, At, Mode, KeyOf, FileOf
<1> QED
  BY <1>1, <1>2, <1>3, <1>4 DEF FInv, Next

LEMMA FInvHolds == Spec => []FInv
<1> QED  BY InitInv, NextInv, PTL DEF Spec

\* Every file, and every local variable of an operation, keeps its type.
THEOREM FilesAreTyped == Spec => []FilesTypeOK
<1>1. FInv => FilesTypeOK
  BY DEF FInv
<1> QED  BY <1>1, FInvHolds, PTL

-----------------------------------------------------------------------------
(* The refinement.                                                         *)

Stages == [f \in Families |-> Stage(f)]

Requests == [f \in Families |-> frame[f].asked]

LEMMA StagesAreKnown ==
    ASSUME FInv, NEW f \in Families
    PROVE  /\ ~At(f, "idle") /\ frame[f].ending = "ok" => Stage(f) = "committed"
           /\ ~At(f, "idle") /\ frame[f].ending # "ok" => Stage(f) = "called"
           /\ At(f, "idle") => Stage(f) \notin {"called", "committed"}
           /\ At(f, "idle") /\ answer[f] = "none" => Stage(f) = "idle"
           /\ At(f, "idle") /\ answer[f] = "unreadable" => Stage(f) = "transient"
           /\ At(f, "idle") /\ answer[f] \in Outcome => Stage(f) = answer[f]
<1>1. answer[f] \in Outcome \union {"none", "unreadable"}
  BY DEF FInv, FilesTypeOK
<1> QED  BY <1>1 DEF Stage, Outcome

LEMMA OneFamilyAtATime ==
    ASSUME FInv, NEW f \in Families, Call(f) \/ OperationStep(f)
    PROVE  /\ Stages' = [Stages EXCEPT ![f] = Stage(f)']
           /\ Requests' = [Requests EXCEPT ![f] = frame'[f].asked]
<1>1. ASSUME NEW g \in Families, g # f
      PROVE  Stage(g)' = Stage(g) /\ frame'[g] = frame[g]
  <2>1. frame'[g] = frame[g] /\ answer'[g] = answer[g]
    BY <1>1, OthersUntouched DEF FInv
  <2> QED  BY <2>1 DEF Stage, At
<1>2. Stages' = [Stages EXCEPT ![f] = Stage(f)']
  BY <1>1 DEF Stages
<1>3. Requests' = [Requests EXCEPT ![f] = frame'[f].asked]
  BY <1>1 DEF Requests
<1> QED  BY <1>2, <1>3

LEMMA InvokesOne ==
    ASSUME FInv, FInv', NEW f \in Families, Call(f)
    PROVE  Atomic!Invoke(f)
<1>1. /\ Stages' = [Stages EXCEPT ![f] = Stage(f)']
      /\ Requests' = [Requests EXCEPT ![f] = frame'[f].asked]
  BY OneFamilyAtATime
<1>2. frame'[f].pc = "rules"
  BY DEF Call, FInv, FilesTypeOK, Frame
<1>3. frame'[f].ending # "ok" /\ frame'[f].asked \in Request
  BY <1>2 DEF FInv, Consistent, At
<1>4. Stage(f)' = "called"
  BY <1>2, <1>3 DEF Stage, At
<1>5. f \notin Atomic!Underway
  BY StagesAreKnown DEF Atomic!Underway, Call
<1>6. UNCHANGED cluster
  BY DEF Call, files
<1> QED
  BY <1>1, <1>3, <1>4, <1>5, <1>6
     DEF Atomic!Invoke, Atomic!Request, Atomic!Operation, Atomic!cluster, Request,
         Operation, cluster, Stages, Requests

LEMMA ChangesOne ==
    ASSUME FInv, FInv', NEW f \in Families, WriteStatus(f)
    PROVE  Atomic!Change(f)
<1>1. /\ Stages' = [Stages EXCEPT ![f] = Stage(f)']
      /\ Requests' = [Requests EXCEPT ![f] = frame'[f].asked]
  BY OneFamilyAtATime DEF OperationStep
<1>2. /\ frame'[f].asked = frame[f].asked /\ frame'[f].pc = "count lines"
      /\ frame'[f].ending = "ok"
  <2>1. frame' = [frame EXCEPT ![f].pc = "count lines", ![f].ending = "ok"]
    BY DEF WriteStatus
  <2>2. frame \in [Families -> Frame]
    BY DEF FInv, FilesTypeOK
  <2> QED  BY <2>1, <2>2 DEF Frame
<1>3. Stage(f)' = "committed"
  BY <1>2 DEF Stage, At
<1>4. /\ Stage(f) = "called" /\ frame[f].asked \in Request
      /\ frame[f].status = FileOf(f)
  BY StagesAreKnown DEF WriteStatus, FInv, Consistent, UpToDate, At
<1>5. Requests' = Requests /\ Requests[f] = frame[f].asked
  BY <1>1, <1>2 DEF Requests
<1> DEFINE asked == frame[f].asked
           new == Changed(FileOf(f), asked)
<1>6. /\ state' = [state EXCEPT ![f] = new.state]
      /\ datatypes' = [datatypes EXCEPT ![f] = new.datatypes]
      /\ generation' = [generation EXCEPT ![f] = new.generation]
      /\ savepoint' = [savepoint EXCEPT ![f] = new.savepoint]
  BY <1>4 DEF WriteStatus
<1>7. Mutate(asked.op, f, asked.config)
  <2>0. /\ state \in [Families -> FamilyState] /\ datatypes \in [Families -> SUBSET Datatypes]
        /\ generation \in [Families -> Nat] /\ savepoint \in [Families -> Nat]
    BY DEF FInv, FilesTypeOK, ClusterTypeOK
  <2>1. asked.op \in Operation
    BY <1>4 DEF Request
  <2>2. new.generation = generation[f] + 1
    BY <2>1 DEF Changed, FileOf, Operation
  <2>3. generation' = [generation EXCEPT ![f] = @ + 1]
    BY <1>6, <2>0, <2>2
  <2>4. CASE asked.op = "trigger_savepoint"
    <3>1. /\ new.state = state[f] /\ new.datatypes = datatypes[f]
          /\ new.savepoint = generation[f] + 1
      BY <2>4 DEF Changed, FileOf
    <3> QED  BY <1>6, <2>0, <2>3, <2>4, <3>1 DEF Mutate, TriggerSavepoint, Commit
  <2>5. CASE asked.op = "suspend_job"
    <3>1. /\ new.state = "SUSPENDED" /\ new.datatypes = datatypes[f]
          /\ new.savepoint = savepoint[f]
      BY <2>5 DEF Changed, FileOf
    <3> QED  BY <1>6, <2>0, <2>3, <2>5, <3>1 DEF Mutate, SuspendJob, Commit
  <2>6. CASE asked.op = "resume_job"
    <3>1. /\ new.state = "RUNNING" /\ new.datatypes = datatypes[f]
          /\ new.savepoint = savepoint[f]
      BY <2>6 DEF Changed, FileOf
    <3> QED  BY <1>6, <2>0, <2>3, <2>6, <3>1 DEF Mutate, ResumeJob, Commit
  <2>7. CASE asked.op = "patch_configmap"
    <3>1. /\ new.state = state[f] /\ new.datatypes = asked.config
          /\ new.savepoint = savepoint[f]
      BY <2>7 DEF Changed, FileOf
    <3> QED  BY <1>6, <2>0, <2>3, <2>7, <3>1 DEF Mutate, PatchConfigmap, Commit
  <2> QED  BY <2>1, <2>4, <2>5, <2>6, <2>7 DEF Operation
<1>8. Atomic!Mutate(Requests[f].op, f, Requests[f].config)
  BY <1>5, <1>7
     DEF Mutate, TriggerSavepoint, SuspendJob, ResumeJob, PatchConfigmap, Commit,
         Atomic!Mutate, Atomic!TriggerSavepoint, Atomic!SuspendJob, Atomic!ResumeJob,
         Atomic!PatchConfigmap, Atomic!Commit
<1> QED
  BY <1>1, <1>3, <1>4, <1>5, <1>8 DEF Atomic!Change, Stages, Requests

\* An unreadable family is no news of a change either.
Told(given) == IF given = "unreadable" THEN "transient" ELSE given

LEMMA AnswersTruly ==
    ASSUME FInv, FInv', NEW f \in Families, OperationStep(f), UNCHANGED cluster,
           NEW given, Return(f, given), Told(given) \in Outcome,
           ~At(f, "idle"), Told(given) \in {"ok", "lost"} <=> frame[f].ending = "ok"
    PROVE  Atomic!Answer(f, Told(given))
<1> DEFINE outcome == Told(given)
<1>1. /\ Stages' = [Stages EXCEPT ![f] = Stage(f)']
      /\ Requests' = [Requests EXCEPT ![f] = frame'[f].asked]
  BY OneFamilyAtATime
<1>2. frame'[f] = Idle /\ answer'[f] = given
  BY DEF Return, FInv, FilesTypeOK
<1>3. Stage(f)' = outcome
  BY <1>2 DEF Stage, At, Idle, Outcome, Told
<1>4. frame'[f].asked = NoRequest
  BY <1>2 DEF Idle
<1>5. Stage(f) = IF outcome \in {"ok", "lost"} THEN "committed" ELSE "called"
  BY StagesAreKnown
<1> QED
  BY <1>1, <1>3, <1>4, <1>5
     DEF Atomic!Answer, Atomic!Committed, Atomic!NoRequest, NoRequest, Atomic!cluster,
         cluster, Stages, Requests

LEMMA StuttersInside ==
    ASSUME FInv, FInv', NEW f \in Families, OperationStep(f), UNCHANGED cluster,
           ~At(f, "idle"), frame'[f].pc # "idle", frame'[f].asked = frame[f].asked,
           frame'[f].ending = "ok" <=> frame[f].ending = "ok"
    PROVE  UNCHANGED Atomic!avars
<1>1. /\ Stages' = [Stages EXCEPT ![f] = Stage(f)']
      /\ Requests' = [Requests EXCEPT ![f] = frame'[f].asked]
  BY OneFamilyAtATime
<1>2. Stage(f)' = Stage(f)
  BY DEF Stage, At
<1>3. Stages' = Stages /\ Requests' = Requests
  BY <1>1, <1>2 DEF Stages, Requests
<1> QED  BY <1>3 DEF Atomic!avars, Atomic!cluster, cluster, Stages, Requests

LEMMA CrashVanishes ==
    ASSUME FInv, FInv', Crash
    PROVE  Atomic!Vanish
<1>1. PICK dead \in (SUBSET Underway) \ {{}} :
          frame' = [f \in Families |-> IF f \in dead THEN Idle ELSE frame[f]]
  BY DEF Crash
<1>2. answer' = answer /\ UNCHANGED cluster
  BY DEF Crash, files
<1>3. ASSUME NEW f \in dead PROVE f \in Families /\ ~At(f, "idle")
  BY <1>1, <1>3 DEF Underway
<1>4. ASSUME NEW f \in dead PROVE Stage(f)' = "idle"
  <2>1. answer[f] = "none"
    BY <1>3, <1>4 DEF FInv, Consistent
  <2>2. frame'[f] = Idle
    BY <1>1, <1>3, <1>4
  <2> QED  BY <1>2, <2>1, <2>2 DEF Stage, At, Idle, Outcome
<1>5. ASSUME NEW f \in Families, f \notin dead PROVE Stage(f)' = Stage(f)
  BY <1>1, <1>2, <1>5 DEF Stage, At
<1>6. dead \subseteq Atomic!Underway
  <2>1. ASSUME NEW f \in dead PROVE Stage(f) \in {"called", "committed"}
    BY <1>3, <2>1, StagesAreKnown
  <2> QED  BY <1>3, <2>1 DEF Atomic!Underway
<1>7. Stages' = [f \in Families |-> IF f \in dead THEN "idle" ELSE Stages[f]]
  BY <1>4, <1>5 DEF Stages
<1>8. Requests' = [f \in Families |-> IF f \in dead THEN NoRequest ELSE Requests[f]]
  BY <1>1 DEF Requests, Idle
<1> QED
  BY <1>2, <1>6, <1>7, <1>8
     DEF Atomic!Vanish, Atomic!NoRequest, NoRequest, Atomic!cluster, cluster, Stages, Requests

LEMMA OperationsAreAtomic ==
    ASSUME FInv, FInv', NEW f \in Families, Call(f) \/ OperationStep(f)
    PROVE  Atomic!Next \/ UNCHANGED Atomic!avars
<1>0. frame \in [Families -> Frame] /\ Consistent(f)
  BY DEF FInv, FilesTypeOK
<1>1. CASE Call(f)
  BY <1>1, InvokesOne DEF Atomic!Next
<1>2. CASE WriteStatus(f)
  BY <1>2, ChangesOne DEF Atomic!Next
<1>3. ASSUME NEW given, Return(f, given), Told(given) \in Outcome,
             OperationStep(f), UNCHANGED cluster, ~At(f, "idle"),
             Told(given) \in {"ok", "lost"} <=> frame[f].ending = "ok"
      PROVE  Atomic!Next
  <2>1. Atomic!Answer(f, Told(given))
    BY <1>3, AnswersTruly
  <2> QED  BY <1>3, <2>1 DEF Atomic!Next, Atomic!Outcome, Outcome
<1>4. CASE ReadRules(f) \/ ReadHits(f) \/ EmptyHits(f) \/ ReadStatus(f) \/ WriteSavepoint(f)
             \/ EmptyStatus(f) \/ CountLines(f)
  <2>1. UNCHANGED cluster /\ OperationStep(f) /\ ~At(f, "idle")
    BY <1>4 DEF ReadRules, ReadHits, EmptyHits, ReadStatus, WriteSavepoint, EmptyStatus,
                CountLines, files, OperationStep, At
  <2>2. frame'[f].asked = frame[f].asked
    BY <1>0, <1>4 DEF ReadRules, ReadHits, EmptyHits, ReadStatus, WriteSavepoint,
                      EmptyStatus, CountLines, Goto, Frame
  <2>3. frame'[f].ending = "ok" <=> frame[f].ending = "ok"
    <3>1. CASE ReadRules(f)
      BY <1>0, <3>1 DEF ReadRules, Consistent, At, Frame
    <3>2. CASE ~ReadRules(f)
      BY <1>0, <1>4, <3>2 DEF ReadHits, EmptyHits, ReadStatus, WriteSavepoint,
                      EmptyStatus, CountLines, Goto, Frame
    <3> QED  BY <3>1, <3>2
  <2>4. frame'[f].pc # "idle"
    <3>1. CASE ReadRules(f)
      <4>1. Mode(f) \in {"none", "transient", "lost_response", "permanent"}
        BY ModesOfRules DEF FInv, Mode
      <4> QED  BY <1>0, <3>1, <4>1 DEF ReadRules, Frame
    <3>2. CASE ~ReadRules(f)
      BY <1>0, <1>4, <3>2 DEF ReadHits, EmptyHits, ReadStatus, WriteSavepoint,
                      EmptyStatus, CountLines, Goto, Frame
    <3> QED  BY <3>1, <3>2
  <2> QED  BY <2>1, <2>2, <2>3, <2>4, StuttersInside
<1>5. CASE PassRule(f)
  <2>1. CASE Mode(f) = "lost_response" /\ Return(f, "ok")
    <3>1. UNCHANGED cluster /\ OperationStep(f) /\ ~At(f, "idle") /\ frame[f].ending = "ok"
      BY <1>0, <1>5, <2>1 DEF PassRule, OperationStep, Consistent, At, files
    <3>2. Told("ok") = "ok" /\ "ok" \in Outcome
      BY DEF Told, Outcome
    <3> QED  BY <1>3, <2>1, <3>1, <3>2
  <2>2. CASE Goto(f, "read")
    <3>1. frame'[f].pc = "read" /\ frame'[f].asked = frame[f].asked
          /\ frame'[f].ending = frame[f].ending
      BY <1>0, <2>2 DEF Goto, Frame
    <3> QED  BY <1>5, <3>1, StuttersInside DEF PassRule, OperationStep, At, files
  <2> QED  BY <1>5, <2>1, <2>2 DEF PassRule
<1>6. CASE WriteHits(f)
  <2>0. UNCHANGED cluster /\ OperationStep(f) /\ ~At(f, "idle")
    BY <1>6 DEF WriteHits, OperationStep, At
  <2>1. CASE Mode(f) = "lost_response" /\ Return(f, "lost")
    <3>1. frame[f].ending = "ok"
      BY <1>0, <1>6, <2>1 DEF WriteHits, Consistent, At
    <3>2. Told("lost") = "lost" /\ "lost" \in Outcome
      BY DEF Told, Outcome
    <3> QED  BY <1>3, <2>0, <2>1, <3>1, <3>2
  <2>2. CASE /\ Mode(f) = "transient"
             /\ frame' = [frame EXCEPT ![f].pc = "count lines", ![f].ending = "transient"]
    <3>1. frame'[f].pc = "count lines" /\ frame'[f].asked = frame[f].asked
          /\ frame'[f].ending = "transient"
      BY <1>0, <2>2 DEF Frame
    <3>2. frame[f].ending = "none"
      BY <1>0, <1>6, <2>2 DEF WriteHits, Consistent, At
    <3> QED  BY <2>0, <3>1, <3>2, StuttersInside
  <2> QED  BY <1>6, <2>1, <2>2 DEF WriteHits
<1>7. CASE ReadFails(f)
  <2>1. /\ UNCHANGED cluster /\ OperationStep(f) /\ ~At(f, "idle")
        /\ frame[f].ending = "none" /\ Return(f, "unreadable")
    BY <1>0, <1>7 DEF ReadFails, OperationStep, Consistent, At, files
  <2>2. Told("unreadable") = "transient" /\ "transient" \in Outcome
    BY DEF Told, Outcome
  <2>3. ("transient" \in {"ok", "lost"}) = FALSE /\ (frame[f].ending = "ok") = FALSE
    BY <2>1
  <2> QED  BY <1>3, <2>1, <2>2, <2>3
<1>8. CASE AppendLine(f)
  <2>0. UNCHANGED cluster /\ OperationStep(f) /\ ~At(f, "idle")
    BY <1>8 DEF AppendLine, OperationStep, At
  <2>1. CASE frame[f].ending # "ok" /\ Return(f, frame[f].ending)
    <3>1. frame[f].ending \in {"transient", "permanent"}
      BY <1>0, <1>8, <2>1 DEF AppendLine, Consistent, At, Frame
    <3>2. Told(frame[f].ending) = frame[f].ending /\ frame[f].ending \in Outcome
          /\ frame[f].ending \notin {"ok", "lost"}
      BY <3>1 DEF Told, Outcome
    <3> QED  BY <1>3, <2>0, <2>1, <3>2
  <2>2. CASE Goto(f, "lose")
    <3>1. frame'[f].pc = "lose" /\ frame'[f].asked = frame[f].asked
          /\ frame'[f].ending = frame[f].ending
      BY <1>0, <2>2 DEF Goto, Frame
    <3> QED  BY <2>0, <3>1, StuttersInside
  <2> QED  BY <1>8, <2>1, <2>2 DEF AppendLine
<1>9. CASE LoseResponse(f)
  <2>0. UNCHANGED cluster /\ OperationStep(f) /\ ~At(f, "idle") /\ frame[f].ending = "ok"
    BY <1>0, <1>9 DEF LoseResponse, OperationStep, At, files, Consistent
  <2>1. CASE Return(f, "ok")
    <3>1. Told("ok") = "ok" /\ "ok" \in Outcome
      BY DEF Told, Outcome
    <3> QED  BY <1>3, <2>0, <2>1, <3>1
  <2>2. CASE Goto(f, "hits")
    <3>1. frame'[f].pc = "hits" /\ frame'[f].asked = frame[f].asked
          /\ frame'[f].ending = frame[f].ending
      BY <1>0, <2>2 DEF Goto, Frame
    <3> QED  BY <2>0, <3>1, StuttersInside
  <2> QED  BY <1>9, <2>1, <2>2 DEF LoseResponse
<1> QED
  BY <1>1, <1>2, <1>4, <1>5, <1>6, <1>7, <1>8, <1>9 DEF OperationStep

\* The reads and writes of an operation, in any interleaving with those on
\* other families and with processes that die, amount to one change of its own
\* family, and the answer tells whether it was made.
THEOREM FilesImplementAtomicCluster == Spec => ImplementsAtomicCluster
<1>1. Init => Atomic!Init
  <2> SUFFICES ASSUME Init PROVE Atomic!Init
    OBVIOUS
  <2>1. \A f \in Families : Stage(f) = "idle"
    BY DEF Init, Stage, At, Idle, Outcome
  <2>2. Atomic!Seed
    BY DEF Init, Seed, Atomic!Seed
  <2>3. [f \in Families |-> frame[f].asked] = [f \in Families |-> NoRequest]
    BY DEF Init, Idle
  <2> QED  BY <2>1, <2>2, <2>3 DEF Atomic!Init, Atomic!NoRequest, NoRequest
<1>2. FInv /\ FInv' /\ [Next]_fvars => [Atomic!Next]_(Atomic!avars)
  <2> SUFFICES ASSUME FInv, FInv', [Next]_fvars
               PROVE  Atomic!Next \/ UNCHANGED Atomic!avars
    OBVIOUS
  <2>1. CASE Crash
    BY <2>1, CrashVanishes DEF Atomic!Next
  <2>2. CASE UNCHANGED fvars
    <3>1. \A f \in Families : Stage(f)' = Stage(f)
      BY <2>2 DEF fvars, rest, Stage, At
    <3>2. frame' = frame /\ UNCHANGED cluster
      BY <2>2 DEF fvars, files
    <3> QED  BY <3>1, <3>2 DEF Atomic!avars, Atomic!cluster, cluster
  <2>3. CASE \E f \in Families : Call(f) \/ OperationStep(f)
    BY <2>3, OperationsAreAtomic
  <2> QED  BY <2>1, <2>2, <2>3 DEF Next
<1> QED  BY <1>1, <1>2, FInvHolds, PTL DEF Spec, ImplementsAtomicCluster, Atomic!Spec

-----------------------------------------------------------------------------
(* A family's savepoint has a file.                                        *)

Backed(f) ==
    /\ savepoint[f] # 0 => <<f, savepoint[f]>> \in savepoints
    /\ frame[f].pc \in {"empty status", "write status"}
         /\ frame[f].asked.op = "trigger_savepoint" =>
           <<f, frame[f].status.generation + 1>> \in savepoints

LEMMA BackedNext ==
    ASSUME FInv, NEW g \in Families, Backed(g), [Next]_fvars
    PROVE  Backed(g)'
<1>0. frame \in [Families -> Frame] /\ ClusterTypeOK
  BY DEF FInv, FilesTypeOK
<1>1. ASSUME NEW f \in Families, f # g, Call(f) \/ OperationStep(f) PROVE Backed(g)'
  <2>1. frame'[g] = frame[g] /\ FileOf(g)' = FileOf(g)
    BY <1>1, OthersUntouched DEF FInv
  <2>2. savepoint'[g] = savepoint[g]
    BY <2>1 DEF FileOf
  <2>3. savepoints \subseteq savepoints'
    BY <1>1 DEF OperationStep, Call, ReadRules, ReadHits, PassRule, EmptyHits,
       WriteHits, ReadStatus, ReadFails, WriteSavepoint, EmptyStatus, WriteStatus,
       CountLines, AppendLine, LoseResponse, files
  <2> QED  BY <2>1, <2>2, <2>3 DEF Backed
<1>2. CASE WriteSavepoint(g)
  <2>1. frame'[g].asked = frame[g].asked /\ frame'[g].status = frame[g].status
    BY <1>0, <1>2 DEF WriteSavepoint, Goto, Frame
  <2>2. savepoints' = savepoints \union {<<g, frame[g].status.generation + 1>>}
        /\ savepoint' = savepoint
    BY <1>2 DEF WriteSavepoint, cluster
  <2> QED  BY <2>1, <2>2 DEF Backed
<1>3. CASE WriteStatus(g)
  <2> DEFINE new == Changed(frame[g].status, frame[g].asked)
  <2>1. savepoints' = savepoints /\ savepoint'[g] = new.savepoint
    BY <1>0, <1>3 DEF WriteStatus, ClusterTypeOK
  <2>2. frame'[g].pc = "count lines"
    BY <1>0, <1>3 DEF WriteStatus, Frame
  <2>3. /\ frame[g].status = FileOf(g) /\ frame[g].asked.op \in Operation
        /\ At(g, "write status")
    BY <1>3 DEF WriteStatus, FInv, Consistent, UpToDate, At, Request
  <2>4. CASE frame[g].asked.op = "trigger_savepoint"
    <3>1. new.savepoint = frame[g].status.generation + 1
      BY <2>3, <2>4 DEF Changed, FileOf
    <3> QED  BY <2>1, <2>2, <2>3, <2>4, <3>1 DEF Backed, At
  <2>5. CASE frame[g].asked.op # "trigger_savepoint"
    <3>1. new.savepoint = savepoint[g]
      <4>1. new = Changed(FileOf(g), frame[g].asked)
        BY <2>3
      <4>2. CASE frame[g].asked.op = "suspend_job"
        BY <4>1, <4>2 DEF Changed, FileOf
      <4>3. CASE frame[g].asked.op = "resume_job"
        BY <4>1, <4>3 DEF Changed, FileOf
      <4>4. CASE frame[g].asked.op = "patch_configmap"
        BY <4>1, <4>4 DEF Changed, FileOf
      <4> QED  BY <2>3, <2>5, <4>2, <4>3, <4>4 DEF Operation
    <3> QED  BY <2>1, <2>2, <3>1 DEF Backed
  <2> QED  BY <2>4, <2>5
<1>4. CASE EmptyStatus(g)
  <2>1. frame'[g].asked = frame[g].asked /\ frame'[g].status = frame[g].status
    BY <1>0, <1>4 DEF EmptyStatus, Goto, Frame
  <2> QED  BY <1>4, <2>1 DEF EmptyStatus, Backed, At, cluster
<1>5. CASE ReadStatus(g)
  <2>1. frame'[g].asked = frame[g].asked
        /\ (frame[g].asked.op = "trigger_savepoint" => frame'[g].pc = "savepoint")
    BY <1>0, <1>5 DEF ReadStatus, Frame
  <2> QED  BY <1>5, <2>1 DEF ReadStatus, Backed, files, cluster
<1>6. ASSUME UNCHANGED <<savepoint, savepoints>>,
             frame'[g].pc \notin {"empty status", "write status"} \/ frame'[g] = frame[g]
      PROVE  Backed(g)'
  BY <1>6 DEF Backed
<1>7. ASSUME NEW outcome, Return(g, outcome), UNCHANGED <<savepoint, savepoints>>
      PROVE  Backed(g)'
  <2>1. frame'[g].pc = "idle"
    BY <1>0, <1>7 DEF Return, Idle
  <2> QED  BY <1>6, <1>7, <2>1
<1>8. CASE Call(g) \/ ReadRules(g) \/ ReadHits(g) \/ EmptyHits(g) \/ CountLines(g)
  <2>1. UNCHANGED <<savepoint, savepoints>>
    BY <1>8 DEF Call, ReadRules, ReadHits, EmptyHits, CountLines, files, cluster
  <2>2. CASE ReadRules(g)
    <3>1. Mode(g) \in {"none", "transient", "lost_response", "permanent"}
      BY ModesOfRules DEF FInv, Mode
    <3>2. frame'[g].pc \in {"count lines", "hits", "read"}
      BY <1>0, <2>2, <3>1 DEF ReadRules, Frame
    <3> QED  BY <1>6, <2>1, <3>2
  <2>3. CASE Call(g)
    <3>1. \E r \in Request : frame' = [frame EXCEPT ![g].pc = "rules", ![g].asked = r]
      BY <2>3, FilesAssumption DEF Call
    <3>2. frame'[g].pc = "rules"
      BY <1>0, <3>1 DEF Frame
    <3> QED  BY <1>6, <2>1, <3>2
  <2>4. CASE ReadHits(g) \/ EmptyHits(g) \/ CountLines(g)
    <3>1. frame'[g].pc \in {"empty hits", "write hits", "append"}
      BY <1>0, <2>4 DEF ReadHits, EmptyHits, CountLines, Goto, Frame
    <3> QED  BY <1>6, <2>1, <3>1
  <2> QED  BY <1>8, <2>2, <2>3, <2>4
<1>9. CASE PassRule(g) \/ WriteHits(g) \/ ReadFails(g) \/ AppendLine(g) \/ LoseResponse(g)
  <2>1. UNCHANGED <<savepoint, savepoints>>
    BY <1>9 DEF PassRule, WriteHits, ReadFails, AppendLine, LoseResponse, files, cluster
  <2>2. CASE \E outcome : Return(g, outcome)
    BY <1>7, <2>1, <2>2
  <2>3. CASE ~\E outcome : Return(g, outcome)
    <3>1. \/ \E pc \in {"read", "lose", "hits"} : Goto(g, pc)
          \/ frame' = [frame EXCEPT ![g].pc = "count lines", ![g].ending = "transient"]
      BY <1>9, <2>3 DEF PassRule, WriteHits, ReadFails, AppendLine, LoseResponse
    <3>2. frame'[g].pc \in {"read", "lose", "hits", "count lines"}
      BY <1>0, <3>1 DEF Goto, Frame
    <3> QED  BY <1>6, <2>1, <3>2
  <2> QED  BY <2>2, <2>3
<1>10. CASE Crash
  <2>1. frame'[g] = frame[g] \/ frame'[g].pc = "idle"
    BY <1>10 DEF Crash, Idle
  <2>2. UNCHANGED <<savepoint, savepoints>>
    BY <1>10 DEF Crash, files, cluster
  <2> QED  BY <1>6, <2>1, <2>2
<1>11. CASE UNCHANGED fvars
  BY <1>6, <1>11 DEF fvars, files, cluster
<1> QED
  BY <1>1, <1>2, <1>3, <1>4, <1>5, <1>8, <1>9, <1>10, <1>11 DEF Next, OperationStep

\* The savepoint that a family's record names has a file, wherever a process
\* dies between writing the file and writing the record.
THEOREM SavepointsAreStored == Spec => []SavepointIsStored
<1> DEFINE B == \A g \in Families : Backed(g)
<1>1. Init => B
  <2> SUFFICES ASSUME Init, NEW g \in Families PROVE Backed(g)
    OBVIOUS
  <2>1. savepoint[g] = 0 /\ frame[g].pc = "idle"
    BY DEF Init, Seed, Idle
  <2> QED  BY <2>1 DEF Backed
<1>2. FInv /\ B /\ [Next]_fvars => B'
  BY BackedNext
<1>3. B => SavepointIsStored
  BY DEF Backed, SavepointIsStored
<1> HIDE DEF B
<1> QED  BY <1>1, <1>2, <1>3, FInvHolds, PTL DEF Spec

-----------------------------------------------------------------------------
(* A family can be read.                                                   *)

Whole(f) ==
    /\ f \in torn => At(f, "write status") \/ crashes > 0
    /\ answer[f] = "unreadable" => crashes > 0

LEMMA WholeNext ==
    ASSUME FInv, NEW g \in Families, Whole(g), [Next]_fvars
    PROVE  Whole(g)'
<1>0. /\ frame \in [Families -> Frame] /\ crashes \in Nat
      /\ answer \in [Families -> Outcome \union {"none", "unreadable"}]
  BY FilesAssumption DEF FInv, FilesTypeOK
<1>1. CASE Crash
  <2>1. crashes' > 0
    BY <1>0, <1>1 DEF Crash
  <2> QED  BY <2>1 DEF Whole
<1>2. CASE UNCHANGED fvars
  BY <1>2 DEF fvars, files, rest, Whole, At
<1>3. ASSUME NEW f \in Families, Call(f) \/ OperationStep(f) PROVE crashes' = crashes
  BY <1>3 DEF OperationStep, Call, ReadRules, ReadHits, PassRule, EmptyHits,
     WriteHits, ReadStatus, ReadFails, WriteSavepoint, EmptyStatus, WriteStatus,
     CountLines, AppendLine, LoseResponse, Return, rest
<1>4. CASE crashes > 0
  BY <1>1, <1>2, <1>3, <1>4 DEF Next, Whole
<1>5. ASSUME ~(crashes > 0), NEW f \in Families, f # g, Call(f) \/ OperationStep(f)
      PROVE  Whole(g)'
  <2>1. frame'[g] = frame[g] /\ answer'[g] = answer[g]
    BY <1>5, OthersUntouched DEF FInv
  <2>2. g \in torn' => g \in torn
    BY <1>5 DEF OperationStep, Call, ReadRules, ReadHits, PassRule, EmptyHits,
       WriteHits, ReadStatus, ReadFails, WriteSavepoint, EmptyStatus, WriteStatus,
       CountLines, AppendLine, LoseResponse, files
  <2> QED  BY <1>5, <2>1, <2>2 DEF Whole, At
<1>6. ASSUME ~(crashes > 0), Call(g) \/ OperationStep(g) PROVE Whole(g)'
  <2>1. CASE EmptyStatus(g)
    <3>1. frame'[g].pc = "write status"
      BY <1>0, <2>1 DEF EmptyStatus, Goto, Frame
    <3> QED  BY <1>6, <2>1, <3>1 DEF EmptyStatus, Whole, At, rest
  <2>2. CASE ~EmptyStatus(g)
    <3>1. g \notin torn'
      BY <1>6, <2>2 DEF OperationStep, Call, ReadRules, ReadHits, PassRule, EmptyHits,
         WriteHits, ReadStatus, ReadFails, WriteSavepoint, WriteStatus,
         CountLines, AppendLine, LoseResponse, files, Whole, At
    <3>2. ~ReadFails(g)
      BY <1>6 DEF ReadFails, Whole, At
    <3>3. answer'[g] # "unreadable"
      <4>1. CASE UNCHANGED answer
        BY <1>6, <4>1 DEF Whole
      <4>2. CASE Call(g)
        BY <1>0, <4>2 DEF Call
      <4>3. CASE AppendLine(g)
        <5>1. frame[g].ending # "unreadable"
          BY <1>0 DEF Frame
        <5>2. answer' = answer \/ answer' = [answer EXCEPT ![g] = frame[g].ending]
          BY <4>3 DEF AppendLine, Return, rest
        <5> QED  BY <1>0, <4>1, <5>1, <5>2
      <4>4. CASE PassRule(g) \/ WriteHits(g) \/ LoseResponse(g)
        <5>1. answer' = answer \/ answer' = [answer EXCEPT ![g] = "ok"]
              \/ answer' = [answer EXCEPT ![g] = "lost"]
          BY <4>4 DEF PassRule, WriteHits, LoseResponse, Return, rest
        <5> QED  BY <1>0, <4>1, <5>1
      <4> QED
        BY <1>6, <2>2, <3>2, <4>1, <4>2, <4>3, <4>4
           DEF OperationStep, ReadRules, ReadHits, EmptyHits, ReadStatus, WriteSavepoint,
               WriteStatus, CountLines, rest
    <3> QED  BY <3>1, <3>3 DEF Whole
  <2> QED  BY <2>1, <2>2
<1> QED
  BY <1>1, <1>2, <1>4, <1>5, <1>6 DEF Next

\* Only a process that died while it wrote a family's file makes an operation
\* fail to read it, never the operations on other families.
THEOREM FamiliesStayReadable == Spec => []UnreadableOnlyAfterCrash
<1> DEFINE W == \A g \in Families : Whole(g)
<1>1. Init => W
  BY DEF Init, Whole
<1>2. FInv /\ W /\ [Next]_fvars => W'
  BY WholeNext
<1>3. W => UnreadableOnlyAfterCrash
  BY DEF Whole, UnreadableOnlyAfterCrash
<1> HIDE DEF W
<1> QED  BY <1>1, <1>2, <1>3, FInvHolds, PTL DEF Spec

-----------------------------------------------------------------------------
(* The lines of a family are in order.                                     *)

\* The number that an operation has counted is past those of its family's lines.
Numbered(f) ==
    At(f, "append") =>
        /\ frame[f].seq <= Len(audit)
        /\ \A i \in DOMAIN audit : audit[i].family = f => audit[i].seq < frame[f].seq

LInv == LinesOfAFamilyAreOrdered /\ \A f \in Families : Numbered(f)

\* Which accesses lead to those of _record.
LEMMA StepsToTheLog ==
    ASSUME FilesTypeOK, NEW f \in Families, Call(f) \/ OperationStep(f)
    PROVE  /\ At(f, "append")' => CountLines(f)
           /\ At(f, "count lines")' => WriteStatus(f) \/ frame'[f].ending # "ok"
<1> DEFINE Goal == /\ At(f, "append")' => CountLines(f)
                   /\ At(f, "count lines")' => WriteStatus(f) \/ frame'[f].ending # "ok"
<1>0. frame \in [Families -> Frame]
  BY DEF FilesTypeOK
<1>1. ASSUME frame'[f].pc \notin {"append", "count lines"} PROVE Goal
  BY <1>1 DEF At
<1>2. ASSUME NEW outcome, Return(f, outcome) PROVE Goal
  BY <1>0, <1>1, <1>2 DEF Return, Idle
<1>3. ASSUME NEW pc, pc \notin {"append", "count lines"}, Goto(f, pc) PROVE Goal
  BY <1>0, <1>1, <1>3 DEF Goto, Frame
<1>4. CASE CountLines(f) \/ WriteStatus(f)
  <2>1. CASE CountLines(f)
    <3>1. frame'[f].pc = "append"
      BY <1>0, <2>1 DEF CountLines, Frame
    <3> QED  BY <2>1, <3>1 DEF At
  <2>2. CASE WriteStatus(f)
    <3>1. frame' = [frame EXCEPT ![f].pc = "count lines", ![f].ending = "ok"]
      BY <2>2 DEF WriteStatus
    <3>2. frame'[f].pc = "count lines"
      BY <1>0, <3>1 DEF Frame
    <3> QED  BY <2>2, <3>2 DEF At
  <2> QED  BY <1>4, <2>1, <2>2
<1>5. CASE Call(f)
  <2>1. PICK r \in Request : frame' = [frame EXCEPT ![f].pc = "rules", ![f].asked = r]
    BY <1>5, FilesAssumption DEF Call
  <2>2. frame'[f].pc = "rules"
    BY <1>0, <2>1 DEF Frame
  <2> QED  BY <1>1, <2>2
<1>6. CASE ReadRules(f)
  <2>1. Mode(f) \in {"none", "transient", "lost_response", "permanent"}
    BY ModesOfRules DEF Mode
  <2>2. CASE Mode(f) = "permanent"
    <3>1. frame' = [frame EXCEPT ![f].pc = "count lines", ![f].ending = "permanent"]
      BY <1>6, <2>2 DEF ReadRules
    <3>2. frame'[f].pc = "count lines" /\ frame'[f].ending = "permanent"
      BY <1>0, <3>1 DEF Frame
    <3> QED  BY <3>2 DEF At
  <2>3. CASE Mode(f) # "permanent"
    <3>1. PICK pc \in {"hits", "read"} : frame' = [frame EXCEPT ![f].pc = pc, ![f].ending = "none"]
      BY <1>6, <2>1, <2>3 DEF ReadRules
    <3>2. frame'[f].pc = pc
      BY <1>0, <3>1 DEF Frame
    <3> QED  BY <1>1, <3>2
  <2> QED  BY <2>2, <2>3
<1>7. CASE ReadHits(f) \/ EmptyHits(f)
  <2>1. frame'[f].pc \in {"empty hits", "write hits"}
    BY <1>0, <1>7 DEF ReadHits, EmptyHits, Goto, Frame
  <2> QED  BY <1>1, <2>1
<1>8. CASE WriteHits(f)
  <2>1. CASE frame' = [frame EXCEPT ![f].pc = "count lines", ![f].ending = "transient"]
    <3>1. frame'[f].pc = "count lines" /\ frame'[f].ending = "transient"
      BY <1>0, <2>1 DEF Frame
    <3> QED  BY <3>1 DEF At
  <2>2. CASE Return(f, "lost")
    BY <1>2, <2>2
  <2> QED  BY <1>8, <2>1, <2>2 DEF WriteHits
<1>9. CASE PassRule(f) \/ ReadFails(f) \/ LoseResponse(f) \/ AppendLine(f)
  <2>1. \/ \E outcome : Return(f, outcome)
        \/ Goto(f, "read") \/ Goto(f, "hits") \/ Goto(f, "lose")
    BY <1>9 DEF PassRule, ReadFails, LoseResponse, AppendLine
  <2> QED  BY <1>2, <1>3, <2>1
<1>10. CASE WriteSavepoint(f) \/ EmptyStatus(f)
  <2>1. \E pc \in {"empty status", "write status"} : frame' = [frame EXCEPT ![f].pc = pc]
    BY <1>10 DEF WriteSavepoint, EmptyStatus, Goto
  <2>2. frame'[f].pc \in {"empty status", "write status"}
    BY <1>0, <2>1 DEF Frame
  <2> QED  BY <1>1, <2>2
<1>11. CASE ReadStatus(f)
  <2>1. PICK pc \in {"savepoint", "empty status"} :
            frame' = [frame EXCEPT ![f].status = FileOf(f), ![f].pc = pc]
    BY <1>11 DEF ReadStatus
  <2>2. frame'[f].pc = pc
    BY <1>0, <2>1 DEF Frame
  <2> QED  BY <1>1, <2>2
<1> QED
  BY <1>4, <1>5, <1>6, <1>7, <1>8, <1>9, <1>10, <1>11 DEF OperationStep

\* The log only grows, by a line of the operation's own family.
LEMMA LogGrows ==
    ASSUME FInv, NEW f \in Families, Call(f) \/ OperationStep(f)
    PROVE  /\ ~AppendLine(f) => audit' = audit
           /\ AppendLine(f) => \E line \in AuditEntry :
                 /\ line.family = f /\ line.seq = frame[f].seq
                 /\ line.outcome = frame[f].ending
                 /\ audit' = Append(audit, line)
<1>1. CASE AppendLine(f)
  <2> DEFINE line == [seq |-> frame[f].seq, op |-> frame[f].asked.op,
                      family |-> f, outcome |-> frame[f].ending]
  <2>1. /\ frame[f].asked \in Request
        /\ frame[f].ending \in {"ok", "transient", "permanent"}
        /\ frame[f].seq \in Nat
    BY <1>1 DEF Frame, AppendLine, FInv, FilesTypeOK, Consistent, At
  <2>2. /\ line \in AuditEntry /\ line.family = f /\ line.seq = frame[f].seq
        /\ line.outcome = frame[f].ending
    BY <2>1 DEF AuditEntry, Request
  <2>3. audit' = Append(audit, line)
    BY <1>1 DEF AppendLine
  <2> HIDE DEF line
  <2> QED  BY <1>1, <2>2, <2>3
<1>2. CASE ~AppendLine(f)
  BY <1>2 DEF OperationStep, Call, ReadRules, ReadHits, PassRule, EmptyHits,
     WriteHits, ReadStatus, ReadFails, WriteSavepoint, EmptyStatus, WriteStatus,
     CountLines, LoseResponse, files
<1> QED  BY <1>1, <1>2

LEMMA LinesNext ==
    ASSUME FInv, LInv, [Next]_fvars
    PROVE  LInv'
<1>0. /\ frame \in [Families -> Frame] /\ audit \in Seq(AuditEntry)
      /\ Len(audit) \in Nat /\ DOMAIN audit = 1..Len(audit)
      /\ \A i \in DOMAIN audit : audit[i].seq \in Nat /\ audit[i].family \in Families
  <2>1. frame \in [Families -> Frame] /\ audit \in Seq(AuditEntry)
    BY DEF FInv, FilesTypeOK
  <2>2. Len(audit) \in Nat /\ DOMAIN audit = 1..Len(audit)
        /\ \A i \in DOMAIN audit : audit[i] \in AuditEntry
    BY <2>1
  <2> QED  BY <2>1, <2>2 DEF AuditEntry
<1>1. ASSUME NEW f \in Families, NEW line \in AuditEntry, AppendLine(f),
             line.family = f, line.seq = frame[f].seq, audit' = Append(audit, line)
      PROVE  LInv'
  <2>1. /\ Len(audit') = Len(audit) + 1 /\ DOMAIN audit' = 1..(Len(audit) + 1)
        /\ \A i \in 1..Len(audit) : audit'[i] = audit[i]
        /\ audit'[Len(audit) + 1] = line
    BY <1>0, <1>1
  <2>2. /\ line.seq \in Nat /\ line.seq <= Len(audit)
        /\ \A i \in DOMAIN audit : audit[i].family = f => audit[i].seq < line.seq
    BY <1>1 DEF LInv, Numbered, AppendLine, AuditEntry
  <2>3. LinesOfAFamilyAreOrdered'
    <3> SUFFICES ASSUME NEW i \in 1..(Len(audit) + 1)
                 PROVE  /\ audit'[i].seq < i
                        /\ \A j \in 1..(i - 1) : audit'[j].family = audit'[i].family =>
                             audit'[j].seq < audit'[i].seq
      BY <2>1 DEF LinesOfAFamilyAreOrdered
    <3>1. CASE i \in 1..Len(audit)
      <4>1. \A j \in 1..(i - 1) : j \in 1..Len(audit)
        BY <1>0, <3>1
      <4> QED  BY <1>0, <2>1, <3>1, <4>1 DEF LInv, LinesOfAFamilyAreOrdered
    <3>2. CASE i = Len(audit) + 1
      <4>1. 1..(i - 1) = DOMAIN audit
        BY <1>0, <3>2
      <4>2. audit'[i] = line /\ line.seq < i
        BY <1>0, <2>1, <2>2, <3>2
      <4> QED  BY <1>0, <1>1, <2>1, <2>2, <4>1, <4>2
    <3> QED  BY <1>0, <3>1, <3>2
  <2>4. ASSUME NEW g \in Families PROVE Numbered(g)'
    <3>1. CASE g = f
      <4>1. frame'[g].pc \in {"idle", "lose"}
        BY <1>0, <1>1, <3>1 DEF AppendLine, Return, Goto, Idle, Frame
      <4> QED  BY <4>1 DEF Numbered, At
    <3>2. CASE g # f
      <4>1. frame'[g] = frame[g]
        BY <1>1, <3>2, OthersUntouched DEF FInv, OperationStep
      <4>2. frame[g].seq \in Nat
        BY <1>0 DEF Frame
      <4>3. Numbered(g)
        BY DEF LInv
      <4>4. SUFFICES ASSUME At(g, "append")
                     PROVE  /\ frame[g].seq <= Len(audit')
                            /\ \A i \in DOMAIN audit' :
                                 audit'[i].family = g => audit'[i].seq < frame[g].seq
        BY <4>1 DEF Numbered, At
      <4>5. frame[g].seq <= Len(audit')
        BY <1>0, <2>1, <4>2, <4>3, <4>4 DEF Numbered
      <4>6. ASSUME NEW i \in DOMAIN audit', audit'[i].family = g
            PROVE  audit'[i].seq < frame[g].seq
        <5>1. i \in 1..Len(audit)
          BY <1>0, <1>1, <2>1, <3>2, <4>6
        <5> QED  BY <1>0, <2>1, <4>3, <4>4, <4>6, <5>1 DEF Numbered
      <4> QED  BY <4>5, <4>6
    <3> QED  BY <3>1, <3>2
  <2> QED  BY <2>3, <2>4 DEF LInv
<1>2. ASSUME audit' = audit,
             \A g \in Families : At(g, "append")' =>
                \/ frame'[g].seq = frame[g].seq /\ At(g, "append")
                \/ frame'[g].seq = Len(audit)
      PROVE  LInv'
  <2>1. LinesOfAFamilyAreOrdered'
    BY <1>2 DEF LInv, LinesOfAFamilyAreOrdered
  <2>2. ASSUME NEW g \in Families PROVE Numbered(g)'
    <3>1. CASE frame'[g].seq = frame[g].seq /\ At(g, "append")
      BY <1>2, <3>1 DEF LInv, Numbered
    <3>2. CASE frame'[g].seq = Len(audit)
      <4>1. \A i \in DOMAIN audit : audit[i].seq < Len(audit)
        BY <1>0 DEF LInv, LinesOfAFamilyAreOrdered
      <4> QED  BY <1>0, <1>2, <3>2, <4>1 DEF Numbered
    <3> QED  BY <1>2, <3>1, <3>2 DEF Numbered
  <2> QED  BY <2>1, <2>2 DEF LInv
<1>3. ASSUME NEW f \in Families, Call(f) \/ OperationStep(f), ~AppendLine(f)
      PROVE  LInv'
  <2>0. audit' = audit
    BY <1>3, LogGrows
  <2>1. frame \in [Families -> Frame]
    BY DEF FInv, FilesTypeOK
  <2>2. ASSUME NEW g \in Families, At(g, "append")'
        PROVE  \/ frame'[g].seq = frame[g].seq /\ At(g, "append")
               \/ frame'[g].seq = Len(audit)
    <3>1. CASE g # f
      BY <1>3, <2>2, <3>1, OthersUntouched DEF FInv, At
    <3>2. CASE g = f
      <4>1. CASE CountLines(f)
        BY <2>1, <3>2, <4>1 DEF CountLines, Frame
      <4>2. CASE ~CountLines(f)
        BY <1>3, <2>2, <3>2, <4>2, StepsToTheLog DEF FInv
      <4> QED  BY <4>1, <4>2
    <3> QED  BY <3>1, <3>2
  <2> QED  BY <1>2, <2>0, <2>2
<1>4. CASE Crash
  <2>1. audit' = audit /\ \A g \in Families : frame'[g] = frame[g] \/ frame'[g] = Idle
    BY <1>4 DEF Crash, files
  <2>2. \A g \in Families : At(g, "append")' => frame'[g].seq = frame[g].seq /\ At(g, "append")
    BY <2>1 DEF At, Idle
  <2> QED  BY <1>2, <2>1, <2>2
<1>5. CASE UNCHANGED fvars
  BY <1>2, <1>5 DEF fvars, files, At
<1>6. ASSUME NEW f \in Families, Call(f) \/ OperationStep(f) PROVE LInv'
  <2>1. CASE AppendLine(f)
    <3>1. PICK line \in AuditEntry :
              line.family = f /\ line.seq = frame[f].seq /\ audit' = Append(audit, line)
      BY <1>6, <2>1, LogGrows
    <3> QED  BY <1>1, <2>1, <3>1
  <2> QED  BY <1>3, <1>6, <2>1
<1> QED  BY <1>4, <1>5, <1>6 DEF Next

\* The log's sequence numbers are read before they are written, and two lines
\* may carry the same one, but the lines of one family are numbered in the
\* order of its operations.
THEOREM LinesAreOrdered == Spec => []LinesOfAFamilyAreOrdered
<1>1. Init => LInv
  BY DEF Init, LInv, LinesOfAFamilyAreOrdered, Numbered, At, Idle
<1>2. FInv /\ LInv /\ [Next]_fvars => LInv'
  BY LinesNext
<1>3. LInv => LinesOfAFamilyAreOrdered
  BY DEF LInv
<1> QED  BY <1>1, <1>2, <1>3, FInvHolds, PTL DEF Spec

-----------------------------------------------------------------------------
(* The log accounts for every change.                                      *)

LEMMA LinesAreFinite ==
    ASSUME FilesTypeOK, NEW f, NEW outcome
    PROVE  /\ IsFiniteSet(Lines(f, outcome))
           /\ Cardinality(Lines(f, outcome)) \in Nat
<1>1. Len(audit) \in Nat /\ DOMAIN audit = 1..Len(audit)
  BY DEF FilesTypeOK
<1>2. IsFiniteSet(1..Len(audit))
  BY <1>1, FS_Interval
<1>3. Lines(f, outcome) \subseteq 1..Len(audit)
  BY <1>1 DEF Lines
<1> QED  BY <1>2, <1>3, FS_Subset, FS_CardinalityType

LEMMA AppendingALine ==
    ASSUME FilesTypeOK, NEW line \in AuditEntry, audit' = Append(audit, line), NEW f
    PROVE  Cardinality(Lines(f, "ok"))' =
             Cardinality(Lines(f, "ok")) +
               (IF line.family = f /\ line.outcome = "ok" THEN 1 ELSE 0)
<1>1. /\ Len(audit) \in Nat /\ DOMAIN audit = 1..Len(audit)
      /\ DOMAIN audit' = 1..(Len(audit) + 1)
      /\ \A i \in 1..Len(audit) : audit'[i] = audit[i]
      /\ audit'[Len(audit) + 1] = line
  BY DEF FilesTypeOK
<1>2. /\ IsFiniteSet(Lines(f, "ok")) /\ Cardinality(Lines(f, "ok")) \in Nat
  BY LinesAreFinite
<1>3. CASE line.family = f /\ line.outcome = "ok"
  <2>1. Lines(f, "ok")' = Lines(f, "ok") \union {Len(audit) + 1}
    BY <1>1, <1>3 DEF Lines
  <2>2. Len(audit) + 1 \notin Lines(f, "ok")
    BY <1>1 DEF Lines
  <2>3. Cardinality(Lines(f, "ok") \union {Len(audit) + 1}) = Cardinality(Lines(f, "ok")) + 1
    BY <1>2, <2>2, FS_AddElement
  <2> QED  BY <1>3, <2>1, <2>3
<1>4. CASE ~(line.family = f /\ line.outcome = "ok")
  <2>1. Lines(f, "ok")' = Lines(f, "ok")
    BY <1>1, <1>4 DEF Lines
  <2> QED  BY <1>2, <1>4, <2>1
<1> QED  BY <1>3, <1>4

LEMMA BooksNext ==
    ASSUME FInv, LogAccountsForChanges, [Next]_fvars
    PROVE  LogAccountsForChanges'
<1> DEFINE Recorded(f) == Cardinality(Lines(f, "ok"))
           Due(f) == IF Unrecorded(f) THEN 1 ELSE 0
<1>0. /\ frame \in [Families -> Frame] /\ generation \in [Families -> Nat]
      /\ crashes \in Nat /\ \A f \in Families : Recorded(f) \in Nat
  BY LinesAreFinite, FilesAssumption DEF FInv, FilesTypeOK, ClusterTypeOK
<1>1. \A f \in Families : /\ 0 <= generation[f] - Recorded(f) - Due(f)
                          /\ generation[f] - Recorded(f) - Due(f) <= crashes
  BY DEF LogAccountsForChanges
<1> SUFFICES ASSUME NEW g \in Families
             PROVE  /\ 0 <= generation'[g] - Recorded(g)' - Due(g)'
                    /\ generation'[g] - Recorded(g)' - Due(g)' <= crashes'
  BY DEF LogAccountsForChanges
<1>2. audit' = audit => Recorded(g)' = Recorded(g)
  BY DEF Lines
<1>3. ASSUME generation'[g] = generation[g], audit' = audit, Unrecorded(g)' = Unrecorded(g),
             crashes' = crashes
      PROVE  /\ 0 <= generation'[g] - Recorded(g)' - Due(g)'
             /\ generation'[g] - Recorded(g)' - Due(g)' <= crashes'
  BY <1>1, <1>2, <1>3
<1> HIDE DEF Recorded
<1>4. CASE Crash
  <2>1. generation' = generation /\ audit' = audit /\ crashes' = crashes + 1
    BY <1>4 DEF Crash, files, cluster
  <2>2. Unrecorded(g)' => Unrecorded(g)
    <3>1. frame'[g] = frame[g] \/ frame'[g].pc = "idle"
      BY <1>4 DEF Crash, Idle
    <3>2. CASE frame'[g] = frame[g]
      BY <3>2 DEF Unrecorded
    <3>3. CASE frame'[g].pc = "idle"
      BY <3>3 DEF Unrecorded
    <3> QED  BY <3>1, <3>2, <3>3
  <2>3. Due(g)' = Due(g) \/ (Due(g)' = 0 /\ Due(g) = 1)
    BY <2>2
  <2>4. Due(g) \in {0, 1} /\ generation[g] \in Nat /\ Recorded(g) \in Nat
    BY <1>0
  <2> HIDE DEF Due
  <2> QED  BY <1>0, <1>1, <1>2, <2>1, <2>3, <2>4
<1>5. CASE UNCHANGED fvars
  BY <1>3, <1>5 DEF fvars, files, rest, cluster, Unrecorded
<1>6. ASSUME NEW f \in Families, Call(f) \/ OperationStep(f)
      PROVE  /\ 0 <= generation'[g] - Recorded(g)' - Due(g)'
             /\ generation'[g] - Recorded(g)' - Due(g)' <= crashes'
  <2>1. crashes' = crashes
    BY <1>6 DEF OperationStep, Call, ReadRules, ReadHits, PassRule, EmptyHits,
       WriteHits, ReadStatus, ReadFails, WriteSavepoint, EmptyStatus, WriteStatus,
       CountLines, AppendLine, LoseResponse, Return, rest
  <2>2. CASE AppendLine(f)
    <3>1. PICK line \in AuditEntry :
              /\ line.family = f /\ line.outcome = frame[f].ending
              /\ audit' = Append(audit, line)
      BY <1>6, <2>2, LogGrows
    <3>2. Recorded(g)' = Recorded(g) + (IF g = f /\ frame[f].ending = "ok" THEN 1 ELSE 0)
      BY <3>1, AppendingALine DEF FInv, Recorded
    <3>3. generation' = generation
      BY <2>2 DEF AppendLine, cluster
    <3>4. Due(g)' = Due(g) - (IF g = f /\ frame[f].ending = "ok" THEN 1 ELSE 0)
      <4>1. CASE g = f
        <5>1. Unrecorded(f) <=> frame[f].ending = "ok"
          BY <2>2 DEF AppendLine, Unrecorded, At
        <5>2. ~Unrecorded(f)'
          <6>1. frame'[f].pc \in {"idle", "lose"}
            BY <1>0, <2>2 DEF AppendLine, Return, Goto, Idle, Frame
          <6> QED  BY <6>1 DEF Unrecorded
        <5> QED  BY <4>1, <5>1, <5>2
      <4>2. CASE g # f
        <5>1. Unrecorded(g)' = Unrecorded(g)
          BY <1>6, <4>2, OthersUntouched DEF FInv, Unrecorded
        <5> QED  BY <4>2, <5>1
      <4> QED  BY <4>1, <4>2
    <3> HIDE DEF Due
    <3>5. Due(g) \in {0, 1}
      BY DEF Due
    <3> QED  BY <1>0, <1>1, <2>1, <3>2, <3>3, <3>4, <3>5
  <2>3. CASE ~AppendLine(f)
    <3>1. audit' = audit
      BY <1>6, <2>3, LogGrows
    <3>2. CASE g # f
      <4>1. frame'[g] = frame[g] /\ FileOf(g)' = FileOf(g)
        BY <1>6, <3>2, OthersUntouched DEF FInv
      <4>2. generation'[g] = generation[g] /\ Unrecorded(g)' = Unrecorded(g)
        BY <4>1 DEF FileOf, Unrecorded
      <4> QED  BY <1>3, <2>1, <3>1, <4>2
    <3>3. CASE g = f /\ WriteStatus(f)
      <4>1. generation'[g] = generation[g] + 1
        <5>1. /\ frame[f].status = FileOf(f) /\ frame[f].asked.op \in Operation
          BY <3>3 DEF WriteStatus, FInv, Consistent, UpToDate, At, Request
        <5>2. Changed(FileOf(f), frame[f].asked).generation = generation[f] + 1
          BY <5>1 DEF Changed, FileOf, Operation
        <5>3. generation'[f] = Changed(frame[f].status, frame[f].asked).generation
          BY <1>0, <3>3 DEF WriteStatus
        <5> QED  BY <3>3, <5>1, <5>2, <5>3
      <4>2. Due(g) = 0 /\ Due(g)' = 1
        <5>1. frame' = [frame EXCEPT ![f].pc = "count lines", ![f].ending = "ok"]
          BY <3>3 DEF WriteStatus
        <5>2. Unrecorded(f)'
          BY <1>0, <5>1 DEF Unrecorded, Frame
        <5> QED  BY <3>3, <5>2 DEF WriteStatus, Unrecorded, At
      <4> HIDE DEF Due
      <4> QED  BY <1>0, <1>1, <1>2, <2>1, <3>1, <4>1, <4>2
    <3>4. CASE g = f /\ ~WriteStatus(f)
      <4>1. generation' = generation
        BY <1>6, <3>4 DEF OperationStep, Call, ReadRules, ReadHits, PassRule, EmptyHits,
           WriteHits, ReadStatus, ReadFails, WriteSavepoint, EmptyStatus,
           CountLines, AppendLine, LoseResponse, files, cluster
      <4>2. Unrecorded(f)' = Unrecorded(f)
        <5>1. CASE CountLines(f)
          <6>1. /\ frame'[f].ending = frame[f].ending /\ frame'[f].pc = "append"
                /\ frame[f].pc = "count lines"
            BY <1>0, <5>1 DEF CountLines, Frame, At
          <6> QED  BY <6>1 DEF Unrecorded
        <5>2. CASE ~CountLines(f)
          <6>1. ~Unrecorded(f)'
            BY <1>6, <3>4, <5>2, StepsToTheLog DEF FInv, Unrecorded, At
          <6>2. frame[f].pc \notin {"count lines", "append"}
            BY <1>6, <2>3, <5>2 DEF OperationStep, Call, ReadRules, ReadHits, PassRule,
               EmptyHits, WriteHits, ReadStatus, ReadFails, WriteSavepoint, EmptyStatus,
               WriteStatus, LoseResponse, At
          <6> QED  BY <6>1, <6>2 DEF Unrecorded
        <5> QED  BY <5>1, <5>2
      <4> QED  BY <1>3, <2>1, <3>1, <3>4, <4>1, <4>2
    <3> QED  BY <3>2, <3>3, <3>4
  <2> QED  BY <2>2, <2>3
<1> QED  BY <1>4, <1>5, <1>6 DEF Next

\* The log has an "ok" line for every change of a family, except the one that is
\* being recorded and at most one for every process that died: appending loses
\* no line of another family's, whatever the threads do in between.
THEOREM LogIsComplete == Spec => []LogAccountsForChanges
<1>1. Init => LogAccountsForChanges
  <2> SUFFICES ASSUME Init PROVE LogAccountsForChanges
    OBVIOUS
  <2> SUFFICES ASSUME NEW f \in Families
               PROVE  /\ 0 <= generation[f] - Cardinality(Lines(f, "ok"))
                                  - (IF Unrecorded(f) THEN 1 ELSE 0)
                      /\ generation[f] - Cardinality(Lines(f, "ok"))
                            - (IF Unrecorded(f) THEN 1 ELSE 0) <= crashes
    BY DEF LogAccountsForChanges
  <2>1. Lines(f, "ok") = {}
    BY DEF Init, Lines
  <2>2. Cardinality(Lines(f, "ok")) = 0
    BY <2>1, FS_EmptySet
  <2>3. generation[f] = 0 /\ crashes = 0 /\ frame[f].pc = "idle"
    BY DEF Init, Seed, Idle
  <2>4. ~Unrecorded(f)
    BY <2>3 DEF Unrecorded
  <2> QED  BY <2>2, <2>3, <2>4
<1>2. FInv /\ LogAccountsForChanges /\ [Next]_fvars => LogAccountsForChanges'
  BY BooksNext
<1> QED  BY <1>1, <1>2, FInvHolds, PTL DEF Spec

-----------------------------------------------------------------------------
(* The counters of one family between a read and the write that follows.   *)

OneFamily == \A one, other \in Counted : one[1] = other[1]

Writing(f) == At(f, "write hits")

Counting(f) == At(f, "empty hits") \/ At(f, "write hits")

\* The hits counted for the key, the one that is being written not yet included.
Tally(key) ==
    IF Writing(key[1])
    THEN frame[key[1]].counts[key] - (IF KeyOf(key[1]) = key THEN 1 ELSE 0)
    ELSE HitsRead[key]

\* A hit that is counted, and that the caller has not seen.
Pending(key) ==
    IF KeyOf(key[1]) = key /\ frame[key[1]].ending = "transient" THEN 1 ELSE 0

\* A transient rule has let the operation begin.
Passed(f) ==
    /\ Mode(f) = "transient"
    /\ \/ frame[f].pc \in {"read", "savepoint", "empty status", "write status"}
       \/ frame[f].ending = "ok"

Hit(key) ==
    /\ At(key[1], "empty hits") =>
        frame[key[1]].counts[key] = HitsRead[key] + (IF KeyOf(key[1]) = key THEN 1 ELSE 0)
    /\ Counting(key[1]) /\ KeyOf(key[1]) = key =>
        frame[key[1]].counts[key] \in 1..rules[key].times
    /\ Writing(key[1]) => HitsRead[key] = 0

Exact(key) ==
    /\ Tally(key) \in 0..rules[key].times
    /\ struck[key] + Pending(key) <= Tally(key) + rules[key].times * crashes
    /\ crashes = 0 => struck[key] + Pending(key) = Tally(key)
    /\ Hit(key)
    /\ KeyOf(key[1]) = key /\ Passed(key[1]) => Tally(key) = rules[key].times

LEMMA RuleOfKey ==
    ASSUME FilesTypeOK, NEW key \in Counted
    PROVE  /\ key \in Key /\ key[1] \in Families /\ key[2] \in Operation
           /\ key = <<key[1], key[2]>>
           /\ rules[key].times \in Nat
           /\ ModeOf(rules, key) \in {"transient", "lost_response"}
           /\ \A counts : Strikes(rules, counts, key) <=> counts[key] < rules[key].times
           /\ hits[key] \in Nat /\ HitsRead[key] \in Nat /\ struck[key] \in Nat
           /\ crashes \in Nat
<1>1. key \in Key /\ rules[key] \in ChaosRule /\ key \in DOMAIN rules /\ rules[key].mode # "permanent"
  BY TablesAreTyped DEF Counted, FilesTypeOK
<1>2. rules[key].mode \in {"transient", "lost_response"} /\ rules[key].times \in Nat
  BY <1>1, ChaosAssumption DEF ChaosRule
<1>3. hits[key] \in Nat /\ struck[key] \in Nat /\ crashes \in Nat
  BY <1>1, ChaosAssumption, FilesAssumption DEF FilesTypeOK
<1>4. HitsRead[key] \in Nat
  BY <1>1, <1>3 DEF HitsRead, NoHits
<1> QED  BY <1>1, <1>2, <1>3, <1>4 DEF Key, ModeOf, Strikes

\* An operation on a family without a counted rule does not touch the counters.
LEMMA OthersCountNothing ==
    ASSUME FInv, NEW key \in Counted, NEW g \in Families, g # key[1], OneFamily,
           Call(g) \/ OperationStep(g)
    PROVE  UNCHANGED <<hits, hitsTorn, crashes>> /\ struck'[key] = struck[key]
<1>1. KeyOf(g) \notin Counted
  BY DEF OneFamily, KeyOf
<1>2. Mode(g) \notin {"transient", "lost_response"}
  <2>1. KeyOf(g) \in DOMAIN rules => rules[KeyOf(g)].mode = "permanent"
    BY <1>1 DEF Counted
  <2> QED  BY <2>1 DEF Mode, ModeOf
<1>3. ~EmptyHits(g) /\ ~WriteHits(g)
  BY <1>2 DEF EmptyHits, WriteHits, FInv, Consistent, At
<1>4. UNCHANGED <<hits, hitsTorn, crashes>>
  BY <1>3 DEF OperationStep, Call, ReadRules, ReadHits, PassRule,
         ReadStatus, ReadFails, WriteSavepoint, EmptyStatus, WriteStatus,
         CountLines, AppendLine, LoseResponse, files, rest, Return
<1>5. struck' = struck \/ struck' = [struck EXCEPT ![KeyOf(g)] = @ + 1]
  BY <1>3 DEF OperationStep, Call, ReadRules, ReadHits, PassRule,
         ReadStatus, ReadFails, WriteSavepoint, EmptyStatus, WriteStatus,
         CountLines, AppendLine, LoseResponse, files, rest, Return
<1>6. KeyOf(g) # key /\ struck \in [Key -> Nat] /\ key \in Key
  BY <1>1, RuleOfKey DEF FInv, FilesTypeOK
<1> QED  BY <1>4, <1>5, <1>6

\* A step that leaves the counters alone.
LEMMA NothingCounted ==
    ASSUME FInv, NEW key \in Counted, Exact(key), NEW f \in Families, f = key[1],
           UNCHANGED <<rules, hits, hitsTorn, struck, crashes>>,
           \/ KeyOf(f)' = KeyOf(f)
           \/ KeyOf(f) # key /\ ~Passed(f)',
           ~Writing(f), ~Counting(f)',
           Pending(key)' = Pending(key),
           Passed(f)' /\ KeyOf(f)' = key =>
             Passed(f) \/ HitsRead[key] >= rules[key].times
    PROVE  Exact(key)'
<1>1. HitsRead' = HitsRead
  BY DEF HitsRead
<1>2. Tally(key)' = HitsRead[key] /\ Tally(key) = HitsRead[key]
  BY <1>1 DEF Tally, Writing, Counting
<1>3. Hit(key)'
  BY DEF Hit, Counting, Writing
<1>4. HitsRead[key] \in 0..rules[key].times /\ rules[key].times \in Nat
  BY <1>2, RuleOfKey DEF Exact, FInv
<1>5. (KeyOf(f) = key /\ Passed(f))' => HitsRead[key] = rules[key].times
  BY <1>2, <1>4 DEF Exact
<1> QED  BY <1>2, <1>3, <1>4, <1>5 DEF Exact

LEMMA IdleCountsNothing ==
    ASSUME FilesTypeOK, NEW key \in Counted, NEW f, frame'[f] = Idle
    PROVE  KeyOf(f)' # key /\ ~Counting(f)' /\ ~Writing(f)'
<1>1. frame'[f].asked.op = "none" /\ frame'[f].pc = "idle"
  BY DEF Idle, NoRequest
<1>2. key[2] # "none"
  BY RuleOfKey DEF Operation
<1>3. KeyOf(f)'[2] = "none"
  BY <1>1 DEF KeyOf
<1>4. KeyOf(f)' # key
  BY <1>2, <1>3
<1>5. ~Counting(f)' /\ ~Writing(f)'
  BY <1>1 DEF At, Writing, Counting
<1> QED  BY <1>4, <1>5

\* The outcomes by which a caller sees that a counted rule has struck.
Reveals(outcome) == outcome \in {"transient", "lost"}

\* An operation returns; the caller sees the hit that was pending, if any.
LEMMA ReturnsPending ==
    ASSUME FInv, NEW key \in Counted, Exact(key), NEW f \in Families, f = key[1], NEW outcome,
           Return(f, outcome), UNCHANGED <<rules, hits, hitsTorn>>,
           ~Writing(f),
           Reveals(outcome) <=> frame[f].ending = "transient"
    PROVE  Exact(key)'
<1>0. /\ frame \in [Families -> Frame] /\ struck \in [Key -> Nat] /\ f \in Families
      /\ key \in Key /\ struck[key] \in Nat
  BY RuleOfKey DEF FInv, FilesTypeOK
<1>1. frame'[f] = Idle /\ crashes' = crashes
  BY <1>0 DEF Return
<1>2. KeyOf(f)' # key /\ ~Counting(f)' /\ ~Writing(f)'
  BY <1>1, IdleCountsNothing DEF FInv
<1>3. Pending(key)' = 0 /\ Hit(key)'
  BY <1>1, <1>2 DEF Pending, Hit, Counting
<1>4. Pending(key) \in {0, 1}
  BY DEF Pending
<1>5. struck'[key] = struck[key] + Pending(key)
  <2>1. CASE frame[f].ending = "transient"
    <3>1. struck' = [struck EXCEPT ![KeyOf(f)] = @ + 1]
      BY <2>1 DEF Return, Reveals
    <3>2. Pending(key) = IF KeyOf(f) = key THEN 1 ELSE 0
      BY <2>1 DEF Pending
    <3> QED  BY <1>0, <3>1, <3>2
  <2>2. CASE frame[f].ending # "transient"
    <3>1. struck' = struck /\ Pending(key) = 0
      BY <2>2 DEF Return, Reveals, Pending
    <3> QED  BY <1>0, <3>1
  <2> QED  BY <2>1, <2>2
<1>6. Tally(key)' = Tally(key)
  <2>1. HitsRead' = HitsRead
    BY DEF HitsRead
  <2> QED  BY <1>2, <2>1 DEF Tally
<1>7. struck'[key] + Pending(key)' = struck[key] + Pending(key)
  BY <1>0, <1>3, <1>4, <1>5
<1> QED  BY <1>1, <1>2, <1>3, <1>6, <1>7 DEF Exact

\* Reading the counters, emptying their file and writing them.
LEMMA HitIsCounted ==
    ASSUME FInv, NEW key \in Counted, Exact(key), NEW f \in Families, f = key[1],
           ReadHits(f) \/ EmptyHits(f) \/ WriteHits(f)
    PROVE  Exact(key)'
<1>0. /\ frame \in [Families -> Frame] /\ struck \in [Key -> Nat] /\ frame[f] \in Frame
      /\ key \in Key /\ struck[key] \in Nat /\ HitsRead[key] \in Nat
      /\ rules[key].times \in Nat /\ HitsRead \in [Key -> 0..MaxTimes]
      /\ crashes \in Nat
  BY RuleOfKey, ChaosAssumption DEF FInv, FilesTypeOK, HitsRead, NoHits
<1> DEFINE own == IF KeyOf(f) = key THEN 1 ELSE 0
<1>1. CASE ReadHits(f)
  <2>1. /\ frame' = [frame EXCEPT ![f].pc = "empty hits",
                              ![f].counts = [HitsRead EXCEPT ![KeyOf(f)] = @ + 1]]
        /\ Strikes(rules, HitsRead, KeyOf(f))
        /\ UNCHANGED <<files, rest>> /\ At(f, "hits")
    BY <1>1 DEF ReadHits
  <2>2. /\ frame'[f].asked = frame[f].asked /\ frame'[f].ending = frame[f].ending
        /\ frame'[f].pc = "empty hits"
        /\ frame'[f].counts = [HitsRead EXCEPT ![KeyOf(f)] = @ + 1]
    BY <1>0, <2>1 DEF Frame
  <2>3. /\ ~Writing(f) /\ ~Writing(f)' /\ KeyOf(f)' = KeyOf(f) /\ Mode(f)' = Mode(f)
        /\ HitsRead' = HitsRead /\ UNCHANGED <<rules, struck, crashes>>
    BY <2>1, <2>2 DEF Writing, At, KeyOf, Mode, files, rest, HitsRead
  <2>4. Tally(key)' = Tally(key) /\ Pending(key)' = Pending(key)
    BY <2>2, <2>3 DEF Tally, Pending
  <2>5. frame'[f].counts[key] = HitsRead[key] + own
    <3>1. CASE KeyOf(f) = key
      BY <1>0, <2>2, <3>1
    <3>2. CASE KeyOf(f) # key
      <4>1. frame'[f].counts[key] = HitsRead[key]
        BY <1>0, <2>2, <3>2
      <4>2. own = 0
        BY <3>2
      <4> HIDE DEF own
      <4> QED  BY <1>0, <4>1, <4>2
    <3> QED  BY <3>1, <3>2
  <2>6. KeyOf(f) = key => HitsRead[key] < rules[key].times
    BY <2>1, RuleOfKey DEF FInv
  <2>7. KeyOf(f) = key => frame'[f].counts[key] \in 1..rules[key].times
    BY <1>0, <2>5, <2>6
  <2>8. Hit(key)'
    BY <2>3, <2>5, <2>7 DEF Hit
  <2>9. ~Passed(f)' \/ Passed(f)
    BY <2>2, <2>3 DEF Passed
  <2> QED  BY <2>3, <2>4, <2>8, <2>9 DEF Exact
<1>2. CASE EmptyHits(f)
  <2>1. /\ frame' = [frame EXCEPT ![f].pc = "write hits"] /\ At(f, "empty hits")
        /\ UNCHANGED <<rules, struck, crashes>>
    BY <1>2 DEF EmptyHits, Goto, rest
  <2>2. /\ frame'[f].asked = frame[f].asked /\ frame'[f].ending = frame[f].ending
        /\ frame'[f].pc = "write hits" /\ frame'[f].counts = frame[f].counts
    BY <1>0, <2>1 DEF Frame
  <2>3. /\ ~Writing(f) /\ Writing(f)' /\ Counting(f) /\ KeyOf(f)' = KeyOf(f)
        /\ Mode(f)' = Mode(f)
    BY <2>1, <2>2 DEF Writing, Counting, At, KeyOf, Mode
  <2>4. frame[f].counts[key] = HitsRead[key] + own
    BY <2>1 DEF Exact, Hit
  <2>5. Tally(key)' = HitsRead[key] /\ Tally(key) = HitsRead[key]
    <3>1. Tally(key)' = frame'[f].counts[key] - own
      BY <2>3 DEF Tally
    <3>2. Tally(key) = HitsRead[key]
      BY <2>3 DEF Tally
    <3>3. own \in {0, 1}
      OBVIOUS
    <3> HIDE DEF own
    <3>4. frame'[f].counts[key] = HitsRead[key] + own /\ HitsRead[key] \in Nat
      BY <1>0, <2>2, <2>4
    <3> QED  BY <3>1, <3>2, <3>3, <3>4
  <2>6. Pending(key)' = Pending(key)
    BY <2>2, <2>3 DEF Pending
  <2>7. Hit(key)'
    <3>1. HitsRead'[key] = 0
      BY <1>0, <1>2 DEF EmptyHits, HitsRead, NoHits
    <3> QED  BY <2>1, <2>2, <2>3, <3>1 DEF Exact, Hit, At
  <2>8. ~Passed(f)' \/ Passed(f)
    BY <2>2, <2>3 DEF Passed
  <2> QED  BY <2>1, <2>3, <2>5, <2>6, <2>7, <2>8 DEF Exact
<1>3. CASE WriteHits(f)
  <2>1. /\ hits' = frame[f].counts /\ hitsTorn' = FALSE /\ rules' = rules
        /\ Writing(f) /\ Counting(f)
        /\ frame[f].counts \in [Key -> 0..MaxTimes]
    BY <1>0, <1>3 DEF WriteHits, Writing, Counting, Frame
  <2>2. HitsRead'[key] = frame[f].counts[key] /\ HitsRead'[key] \in Nat
    BY <1>0, <2>1, ChaosAssumption DEF HitsRead
  <2>3. HitsRead'[key] = Tally(key) + own
    BY <1>0, <2>1, <2>2 DEF Tally
  <2>4. KeyOf(f) = key => HitsRead'[key] \in 1..rules[key].times
    BY <2>1, <2>2 DEF Exact, Hit
  <2>5. frame[f].ending # "transient" /\ ~Passed(f)
    BY <1>3 DEF WriteHits, FInv, Consistent, At, Passed
  <2>6. CASE Return(f, "lost")
    <3>1. frame'[f] = Idle /\ crashes' = crashes
      BY <1>0, <2>6 DEF Return
    <3>2. KeyOf(f)' # key /\ ~Counting(f)' /\ ~Writing(f)'
      BY <3>1, IdleCountsNothing DEF FInv
    <3>3. Tally(key)' = Tally(key) + own /\ Pending(key)' = 0 /\ Pending(key) = 0 /\ Hit(key)'
      BY <2>3, <2>5, <3>2 DEF Tally, Pending, Hit, Counting
    <3>4. struck' = [struck EXCEPT ![KeyOf(f)] = @ + 1]
      BY <2>6 DEF Return
    <3>5. struck'[key] = struck[key] + own
      BY <1>0, <3>4
    <3>6. Tally(key)' \in 0..rules[key].times
      BY <2>3, <2>4, <3>3 DEF Exact
    <3> QED  BY <1>0, <2>1, <3>1, <3>2, <3>3, <3>5, <3>6 DEF Exact
  <2>7. CASE ~Return(f, "lost")
    <3>1. /\ frame' = [frame EXCEPT ![f].pc = "count lines", ![f].ending = "transient"]
          /\ UNCHANGED <<struck, crashes>>
      BY <1>3, <2>7 DEF WriteHits, rest
    <3>2. /\ frame'[f].asked = frame[f].asked /\ frame'[f].ending = "transient"
          /\ frame'[f].pc = "count lines"
      BY <1>0, <3>1 DEF Frame
    <3>3. KeyOf(f)' = KeyOf(f) /\ ~Counting(f)' /\ ~Writing(f)' /\ ~Passed(f)'
      BY <3>2 DEF KeyOf, Counting, Writing, At, Passed
    <3>4. Tally(key)' = Tally(key) + own /\ Pending(key)' = own /\ Pending(key) = 0 /\ Hit(key)'
      BY <2>3, <2>5, <3>2, <3>3 DEF Tally, Pending, Hit, Counting
    <3>5. Tally(key)' \in 0..rules[key].times
      BY <2>3, <2>4, <3>4 DEF Exact
    <3>6. /\ struck[key] <= Tally(key) + rules[key].times * crashes
          /\ crashes = 0 => struck[key] = Tally(key)
          /\ Tally(key) \in Nat /\ rules[key].times * crashes \in Nat /\ own \in {0, 1}
      BY <1>0, <3>4 DEF Exact
    <3> HIDE DEF own
    <3>7. /\ struck'[key] + Pending(key)' <= Tally(key)' + (rules[key].times * crashes)'
          /\ crashes' = 0 => struck'[key] + Pending(key)' = Tally(key)'
      <4>1. /\ (rules[key].times * crashes)' = rules[key].times * crashes
            /\ struck'[key] = struck[key] /\ crashes' = crashes
        BY <2>1, <3>1
      <4> QED  BY <1>0, <3>4, <3>6, <4>1
    <3> QED  BY <2>1, <3>3, <3>4, <3>5, <3>7 DEF Exact
  <2> QED  BY <2>6, <2>7
<1> QED  BY <1>1, <1>2, <1>3

\* Every other access of the operation.
LEMMA OtherAccess ==
    ASSUME FInv, NEW key \in Counted, Exact(key), NEW f \in Families, f = key[1],
           Call(f) \/ OperationStep(f), ~ReadHits(f), ~EmptyHits(f), ~WriteHits(f)
    PROVE  Exact(key)'
<1>0. /\ frame \in [Families -> Frame] /\ frame[f] \in Frame /\ Consistent(f)
      /\ UNCHANGED <<rules, hits, hitsTorn>>
  BY DEF FInv, FilesTypeOK, OperationStep, Call, ReadRules, PassRule, ReadStatus,
         ReadFails, WriteSavepoint, EmptyStatus, WriteStatus, CountLines, AppendLine,
         LoseResponse, files
<1>1. ASSUME UNCHANGED rest, ~Writing(f), ~Counting(f)', KeyOf(f)' = KeyOf(f),
             frame'[f].ending = frame[f].ending \/ "transient" \notin {frame'[f].ending, frame[f].ending},
             Passed(f)' /\ KeyOf(f)' = key => Passed(f) \/ HitsRead[key] >= rules[key].times
      PROVE  Exact(key)'
  <2>1. UNCHANGED <<struck, crashes>>
    BY <1>1 DEF rest
  <2>2. Pending(key)' = Pending(key)
    BY <1>1 DEF Pending
  <2>3. /\ UNCHANGED <<rules, hits, hitsTorn, struck, crashes>>
        /\ ~Writing(f) /\ ~Counting(f)' /\ KeyOf(f)' = KeyOf(f)
        /\ Passed(f)' /\ KeyOf(f)' = key => Passed(f) \/ HitsRead[key] >= rules[key].times
    BY <1>0, <1>1, <2>1
  <2> QED  BY <2>2, <2>3, NothingCounted
<1>2. CASE Call(f)
  <2>1. PICK r \in Request : frame' = [frame EXCEPT ![f].pc = "rules", ![f].asked = r]
    BY <1>2, FilesAssumption DEF Call
  <2>2. frame[f].pc = "idle" /\ frame[f].asked.op = "none" /\ frame[f].ending = "none"
    BY <1>0, <1>2 DEF Call, Consistent, At, Idle, NoRequest
  <2>3. frame'[f].pc = "rules" /\ frame'[f].ending = "none"
    BY <1>0, <2>1, <2>2 DEF Frame
  <2>4. KeyOf(f)[2] = "none" /\ key[2] # "none"
    BY <2>2, RuleOfKey DEF KeyOf, FInv, Operation
  <2>5. KeyOf(f) # key /\ ~Passed(f)' /\ ~Writing(f) /\ ~Counting(f)'
    BY <2>2, <2>3, <2>4 DEF Passed, Writing, Counting, At
  <2>6. Pending(key)' = Pending(key)
    BY <2>2, <2>3 DEF Pending
  <2> QED  BY <1>0, <1>2, <2>5, <2>6, NothingCounted DEF Call
<1>3. CASE ReadRules(f)
  <2>1. Mode(f) \in {"none", "transient", "lost_response", "permanent"}
    BY ModesOfRules DEF Mode, FInv
  <2>2. /\ frame'[f].asked = frame[f].asked /\ frame[f].ending = "none" /\ At(f, "rules")
        /\ UNCHANGED rest
        /\ \/ Mode(f) = "permanent" /\ frame'[f].pc = "count lines"
              /\ frame'[f].ending = "permanent"
           \/ Mode(f) = "transient" /\ frame'[f].pc = "hits" /\ frame'[f].ending = "none"
           \/ Mode(f) # "transient" /\ frame'[f].pc = "read" /\ frame'[f].ending = "none"
    BY <1>0, <1>3, <2>1 DEF ReadRules, Frame, Consistent, At
  <2>3. KeyOf(f)' = KeyOf(f) /\ Mode(f)' = Mode(f) /\ ~Writing(f) /\ ~Counting(f)' /\ ~Passed(f)'
    BY <1>0, <2>2 DEF KeyOf, Mode, Writing, Counting, Passed, At
  <2> QED  BY <1>1, <2>2, <2>3
<1>4. CASE PassRule(f)
  <2>1. At(f, "hits") /\ ~Strikes(rules, HitsRead, KeyOf(f))
    BY <1>4 DEF PassRule
  <2>2. ~Writing(f)
    BY <2>1 DEF At, Writing
  <2>3. CASE Return(f, "ok")
    <3>1. frame[f].ending # "transient"
      BY <1>0, <2>1 DEF Consistent, At
    <3> QED  BY <1>0, <2>2, <2>3, <3>1, ReturnsPending DEF Reveals
  <2>4. CASE Mode(f) = "transient" /\ Goto(f, "read") /\ UNCHANGED rest
    <3>1. /\ frame'[f].asked = frame[f].asked /\ frame'[f].pc = "read"
          /\ frame'[f].ending = frame[f].ending
      BY <1>0, <2>4 DEF Goto, Frame
    <3>2. KeyOf(f)' = KeyOf(f) /\ ~Counting(f)'
      BY <3>1 DEF KeyOf, Counting, At
    <3>3. KeyOf(f) = key => HitsRead[key] >= rules[key].times
      BY <2>1, RuleOfKey DEF FInv
    <3> QED  BY <1>1, <2>2, <2>4, <3>1, <3>2, <3>3
  <2> QED  BY <1>4, <2>3, <2>4 DEF PassRule
<1>5. CASE ReadFails(f)
  <2>1. frame[f].ending = "none" /\ ~Writing(f) /\ Return(f, "unreadable")
    BY <1>0, <1>5 DEF ReadFails, Consistent, At, Writing
  <2> QED  BY <1>0, <2>1, ReturnsPending DEF Reveals
<1>6. CASE ReadStatus(f) \/ WriteSavepoint(f) \/ EmptyStatus(f)
  <2>1. /\ frame'[f].asked = frame[f].asked /\ frame'[f].ending = frame[f].ending
        /\ frame'[f].pc \in {"savepoint", "empty status", "write status"}
    <3>1. CASE ReadStatus(f)
      BY <1>0, <3>1 DEF ReadStatus, Frame
    <3>2. CASE WriteSavepoint(f) \/ EmptyStatus(f)
      <4>1. \E pc \in {"empty status", "write status"} : frame' = [frame EXCEPT ![f].pc = pc]
        BY <3>2 DEF WriteSavepoint, EmptyStatus, Goto
      <4> QED  BY <1>0, <4>1 DEF Frame
    <3> QED  BY <1>6, <3>1, <3>2
  <2>2. /\ frame[f].pc \in {"read", "savepoint", "empty status"} /\ UNCHANGED rest
    BY <1>6 DEF ReadStatus, WriteSavepoint, EmptyStatus, At
  <2>3. /\ KeyOf(f)' = KeyOf(f) /\ Mode(f)' = Mode(f) /\ ~Writing(f) /\ ~Counting(f)'
        /\ Passed(f)' => Passed(f)
    BY <1>0, <2>1, <2>2 DEF KeyOf, Mode, Writing, Counting, Passed, At
  <2> QED  BY <1>1, <2>1, <2>2, <2>3
<1>7. CASE WriteStatus(f)
  <2>1. frame' = [frame EXCEPT ![f].pc = "count lines", ![f].ending = "ok"]
        /\ frame[f].pc = "write status" /\ UNCHANGED rest
    BY <1>7 DEF WriteStatus, At
  <2>2. /\ frame'[f].asked = frame[f].asked /\ frame'[f].ending = "ok"
        /\ frame'[f].pc = "count lines" /\ frame[f].ending = "none"
    BY <1>0, <2>1 DEF Frame, Consistent
  <2>3. /\ KeyOf(f)' = KeyOf(f) /\ Mode(f)' = Mode(f) /\ ~Writing(f) /\ ~Counting(f)'
        /\ Passed(f)' => Passed(f)
    BY <1>0, <2>1, <2>2 DEF KeyOf, Mode, Writing, Counting, Passed, At
  <2> QED  BY <1>1, <2>1, <2>2, <2>3
<1>8. CASE CountLines(f)
  <2>1. /\ frame'[f].asked = frame[f].asked /\ frame'[f].ending = frame[f].ending
        /\ frame'[f].pc = "append" /\ frame[f].pc = "count lines" /\ UNCHANGED rest
    BY <1>0, <1>8 DEF CountLines, Frame, At
  <2>2. /\ KeyOf(f)' = KeyOf(f) /\ Mode(f)' = Mode(f) /\ ~Writing(f) /\ ~Counting(f)'
        /\ Passed(f)' => Passed(f)
    BY <1>0, <2>1 DEF KeyOf, Mode, Writing, Counting, Passed, At
  <2> QED  BY <1>1, <2>1, <2>2
<1>9. CASE AppendLine(f) \/ LoseResponse(f)
  <2>1. frame[f].pc \in {"append", "lose"} /\ ~Writing(f)
    BY <1>9 DEF AppendLine, LoseResponse, At, Writing
  <2>2. CASE \E outcome : Return(f, outcome)
    <3>1. PICK outcome : Return(f, outcome) /\ (Reveals(outcome) <=> frame[f].ending = "transient")
      <4>1. CASE Return(f, frame[f].ending)
        <5>1. frame[f].ending \in {"none", "ok", "transient", "permanent"}
          BY <1>0 DEF Frame
        <5> QED  BY <4>1, <5>1 DEF Reveals
      <4>2. CASE LoseResponse(f) /\ Return(f, "ok")
        BY <1>0, <4>2 DEF LoseResponse, Consistent, At, Reveals
      <4>3. ~Goto(f, "lose") /\ ~Goto(f, "hits")
        BY <1>0, <2>2 DEF Goto, Return, Idle, Frame
      <4> QED  BY <1>9, <4>1, <4>2, <4>3 DEF AppendLine, LoseResponse
    <3> QED  BY <1>0, <2>1, <3>1, ReturnsPending
  <2>3. CASE ~\E outcome : Return(f, outcome)
    <3>1. /\ Goto(f, "lose") \/ Goto(f, "hits")
          /\ UNCHANGED rest /\ frame[f].ending = "ok"
      BY <1>0, <1>9, <2>3 DEF AppendLine, LoseResponse, Consistent, At
    <3>2. /\ frame'[f].asked = frame[f].asked /\ frame'[f].ending = frame[f].ending
          /\ frame'[f].pc \in {"lose", "hits"}
      BY <1>0, <3>1 DEF Goto, Frame
    <3>3. /\ KeyOf(f)' = KeyOf(f) /\ Mode(f)' = Mode(f) /\ ~Counting(f)'
          /\ Passed(f)' => Passed(f)
      BY <1>0, <3>1, <3>2 DEF KeyOf, Mode, Counting, Passed, At
    <3> QED  BY <1>1, <2>1, <3>1, <3>2, <3>3
  <2> QED  BY <2>2, <2>3
<1> QED
  BY <1>2, <1>3, <1>4, <1>5, <1>6, <1>7, <1>8, <1>9 DEF OperationStep

LEMMA CrashLosesHits ==
    ASSUME FInv, NEW key \in Counted, Exact(key), NEW f \in Families, f = key[1], Crash
    PROVE  Exact(key)'
<1> DEFINE times == rules[key].times
<1>1. /\ UNCHANGED <<rules, hits, hitsTorn, struck>> /\ HitsRead' = HitsRead
      /\ crashes' = crashes + 1 /\ crashes \in Nat /\ crashes' # 0
      /\ frame'[f] = Idle \/ frame'[f] = frame[f]
      /\ times \in Nat /\ struck[key] \in Nat /\ times' = times
  BY RuleOfKey DEF Crash, files, HitsRead, FInv
<1>2. times * crashes' = times * crashes + times /\ times * crashes \in Nat
  <2>1. \A a, b \in Nat : a * (b + 1) = a * b + a /\ a * b \in Nat
    OBVIOUS
  <2> HIDE DEF times
  <2> QED  BY <1>1, <2>1
<1>3. CASE frame'[f] = frame[f]
  <2>1. /\ Tally(key)' = Tally(key) /\ Pending(key)' = Pending(key) /\ Hit(key)'
        /\ KeyOf(f)' = KeyOf(f) /\ Passed(f)' = Passed(f)
    BY <1>1, <1>3 DEF Tally, Pending, Hit, KeyOf, Passed, Mode, Writing, Counting, At, Exact
  <2>2. Pending(key) \in {0, 1} /\ Tally(key) \in 0..times
        /\ struck[key] + Pending(key) <= Tally(key) + times * crashes
    BY DEF Exact, Pending
  <2>3. struck'[key] + Pending(key)' <= Tally(key)' + (times * crashes)'
    BY <1>1, <1>2, <2>1, <2>2
  <2> QED  BY <1>1, <2>1, <2>2, <2>3 DEF Exact
<1>4. CASE frame'[f] = Idle
  <2>1. KeyOf(f)' # key /\ ~Counting(f)' /\ ~Writing(f)'
    BY <1>4, IdleCountsNothing DEF FInv
  <2>2. Tally(key)' = HitsRead[key] /\ Pending(key)' = 0 /\ Hit(key)'
    BY <1>1, <2>1 DEF Tally, Pending, Hit, Counting, Writing
  <2>3. /\ Pending(key) \in {0, 1} /\ Tally(key) \in 0..times
        /\ struck[key] + Pending(key) <= Tally(key) + times * crashes
        /\ HitsRead[key] = 0 \/ HitsRead[key] = Tally(key)
    BY DEF Exact, Pending, Hit, Tally
  <2>4. HitsRead[key] \in 0..times
        /\ struck'[key] + Pending(key)' <= Tally(key)' + (times * crashes)'
    BY <1>1, <1>2, <2>2, <2>3
  <2> QED  BY <1>1, <2>1, <2>2, <2>4 DEF Exact
<1> QED  BY <1>1, <1>3, <1>4

LEMMA ExactNext ==
    ASSUME FInv, OneFamily, NEW key \in Counted, Exact(key), [Next]_fvars
    PROVE  Exact(key)'
<1> DEFINE f == key[1]
<1>0. f \in Families
  BY RuleOfKey DEF FInv
<1>1. ASSUME frame'[f] = frame[f], UNCHANGED <<rules, hits, hitsTorn, crashes>>,
             struck'[key] = struck[key]
      PROVE  Exact(key)'
  BY <1>1 DEF Exact, Tally, Pending, Hit, KeyOf, Passed, Mode, Writing, Counting, At, HitsRead
<1>2. CASE Call(f) \/ OperationStep(f)
  <2>1. CASE ReadHits(f) \/ EmptyHits(f) \/ WriteHits(f)
    BY <1>0, <2>1, HitIsCounted
  <2> QED  BY <1>0, <1>2, <2>1, OtherAccess
<1>3. CASE \E g \in Families : g # f /\ (Call(g) \/ OperationStep(g))
  <2>1. PICK g \in Families : g # f /\ (Call(g) \/ OperationStep(g))
    BY <1>3
  <2>2. frame'[f] = frame[f] /\ rules' = rules
    BY <1>0, <2>1, OthersUntouched DEF FInv
  <2>3. UNCHANGED <<hits, hitsTorn, crashes>> /\ struck'[key] = struck[key]
    BY <2>1, OthersCountNothing
  <2> QED  BY <1>1, <2>2, <2>3
<1>4. CASE Crash
  BY <1>0, <1>4, CrashLosesHits
<1>5. CASE UNCHANGED fvars
  BY <1>1, <1>5 DEF fvars, files, rest
<1> QED  BY <1>2, <1>3, <1>4, <1>5 DEF Next

CountedExactly == OneFamily => \A key \in Counted : Exact(key)

LEMMA CountedExactlyInit == Init => CountedExactly
<1> SUFFICES ASSUME Init, NEW key \in Counted PROVE Exact(key)
  BY DEF CountedExactly
<1>1. /\ key \in Key /\ key[1] \in Families /\ rules[key].times \in Nat
  BY InitTyped, RuleOfKey
<1>2. /\ frame[key[1]].pc = "idle" /\ frame[key[1]].ending = "none"
      /\ HitsRead[key] = 0 /\ struck[key] = 0 /\ crashes = 0
  BY <1>1 DEF Init, Idle, HitsRead, NoHits
<1>3. ~Writing(key[1]) /\ ~Counting(key[1]) /\ ~Passed(key[1]) /\ Pending(key) = 0
  BY <1>2 DEF Writing, Counting, Passed, Pending, At
<1>4. Tally(key) = 0 /\ Hit(key)
  BY <1>2, <1>3 DEF Tally, Hit, Counting
<1> QED  BY <1>1, <1>2, <1>3, <1>4 DEF Exact

LEMMA RulesAreFinal == [Next]_fvars => rules' = rules
  BY DEF Next, Crash, OperationStep, Call, ReadRules, ReadHits, PassRule, EmptyHits,
     WriteHits, ReadStatus, ReadFails, WriteSavepoint, EmptyStatus, WriteStatus,
     CountLines, AppendLine, LoseResponse, fvars, files

LEMMA CountedExactlyNext ==
    ASSUME FInv, CountedExactly, [Next]_fvars
    PROVE  CountedExactly'
<1>1. rules' = rules
  BY RulesAreFinal
<1>2. Counted' = Counted
  BY <1>1 DEF Counted
<1>3. OneFamily' = OneFamily
  BY <1>2 DEF OneFamily
<1> QED  BY <1>2, <1>3, ExactNext DEF CountedExactly

\* An operation that succeeds has got past its rule.
LEMMA SuccessIsPastTheRule ==
    ASSUME FInv, OneFamily, NEW key \in Counted, Exact(key), [Next]_fvars, Succeeds(key)
    PROVE  Tally(key) = rules[key].times /\ Pending(key) = 0
<1> DEFINE f == key[1]
<1>0. /\ f \in Families /\ KeyOf(f) = key /\ answer[f] # "ok" /\ answer'[f] = "ok"
      /\ Consistent(f) /\ answer \in [Families -> Outcome \union {"none", "unreadable"}]
      /\ HitsRead[key] \in Nat /\ rules[key].times \in Nat
  BY RuleOfKey DEF FInv, FilesTypeOK, Succeeds
<1>1. PICK g \in Families : OperationStep(g) \/ Call(g)
  BY <1>0 DEF Next, Crash, fvars, rest
<1>2. g = f
  BY <1>0, <1>1, OthersUntouched DEF FInv
<1>3. /\ PassRule(f) \/ LoseResponse(f)
      /\ Return(f, "ok")
  <2>1. ASSUME NEW outcome, Return(f, outcome) PROVE outcome = "ok"
    BY <1>0, <2>1 DEF Return
  <2>2. ~UNCHANGED rest
    BY <1>0 DEF rest
  <2>3. ~Call(f)
    BY <1>0 DEF Call
  <2> QED
    BY <1>1, <1>2, <2>1, <2>2, <2>3
       DEF OperationStep, ReadRules, ReadHits, PassRule, EmptyHits, WriteHits, ReadStatus,
           ReadFails, WriteSavepoint, EmptyStatus, WriteStatus, CountLines, AppendLine,
           LoseResponse
<1>4. ~Writing(f) /\ frame[f].ending # "transient"
  BY <1>0, <1>3 DEF PassRule, LoseResponse, Writing, At, Consistent
<1>5. Tally(key) = HitsRead[key] /\ Pending(key) = 0
  BY <1>4 DEF Tally, Pending
<1>6. CASE PassRule(f)
  <2>1. HitsRead[key] >= rules[key].times
    BY <1>0, <1>6, RuleOfKey DEF PassRule, FInv
  <2> QED  BY <1>0, <1>5, <2>1 DEF Exact
<1>7. CASE LoseResponse(f)
  <2>1. Mode(f) # "lost_response"
    <3>1. ~Goto(f, "hits")
      BY <1>0, <1>3, <1>6 DEF Goto, Return, Idle, FInv, FilesTypeOK, Frame
    <3> QED  BY <1>7, <3>1 DEF LoseResponse
  <2>2. Mode(f) = "transient"
    BY <1>0, <2>1, RuleOfKey DEF Mode, FInv
  <2>3. frame[f].ending = "ok"
    BY <1>0, <1>7 DEF LoseResponse, Consistent, At
  <2> QED  BY <1>0, <1>5, <2>2, <2>3 DEF Exact, Passed
<1> QED  BY <1>3, <1>6, <1>7

\* While all counted rules are of one family, whatever operations on other
\* families do to the shared file of counters: a rule strikes at most as often as
\* it says, and as often again for each crash, and without a crash an operation
\* succeeds only after its rule has struck exactly that often.
THEOREM RulesStrikeExactly == Spec => RulesOfOneFamilyAreExact
<1>1. ASSUME FInv, FInv', CountedExactly, CountedExactly', [Next]_fvars, OneFamily,
             NEW key \in Counted
      PROVE  /\ struck'[key] <= rules[key].times * (crashes' + 1)
             /\ Succeeds(key) /\ crashes = 0 => struck[key] = rules[key].times
  <2>1. rules' = rules /\ Counted' = Counted /\ OneFamily'
    BY <1>1, RulesAreFinal DEF Counted, OneFamily
  <2>2. Exact(key) /\ Exact(key)'
    BY <1>1, <2>1 DEF CountedExactly
  <2> DEFINE times == rules[key].times
  <2>3. /\ times \in Nat /\ struck[key] \in Nat /\ struck'[key] \in Nat
        /\ crashes' \in Nat /\ times' = times
    BY <1>1, <2>1, RuleOfKey DEF FInv, FilesTypeOK
  <2>4. struck'[key] <= times * (crashes' + 1)
    <3>1. /\ struck'[key] + Pending(key)' <= Tally(key)' + times * crashes'
          /\ Tally(key)' \in 0..times /\ Pending(key)' \in {0, 1}
      BY <2>1, <2>2 DEF Exact, Pending
    <3>2. times * (crashes' + 1) = times * crashes' + times /\ times * crashes' \in Nat
      BY <2>3
    <3> QED  BY <2>3, <3>1, <3>2
  <2>5. Succeeds(key) /\ crashes = 0 => struck[key] = times
    <3> SUFFICES ASSUME Succeeds(key), crashes = 0 PROVE struck[key] = times
      OBVIOUS
    <3>1. Tally(key) = times /\ Pending(key) = 0
      BY <1>1, <2>2, SuccessIsPastTheRule
    <3> QED  BY <2>2, <2>3, <3>1 DEF Exact
  <2> QED  BY <2>4, <2>5
<1>2. FInv /\ FInv' /\ CountedExactly /\ CountedExactly' /\ [Next]_fvars =>
        [(\A one, other \in Counted : one[1] = other[1]) =>
            \A key \in Counted :
                /\ struck'[key] <= rules[key].times * (crashes' + 1)
                /\ Succeeds(key) /\ crashes = 0 => struck[key] = rules[key].times]_fvars
  BY <1>1 DEF OneFamily
<1> QED
  BY <1>2, CountedExactlyInit, CountedExactlyNext, FInvHolds, PTL
     DEF Spec, RulesOfOneFamilyAreExact
=============================================================================
