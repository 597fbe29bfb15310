---------------------- MODULE TemporalIsolationProofs -----------------------
(***************************************************************************)
(* What the Temporal saga guarantees to moves that follow one another, for *)
(* any number of moves, families, datatypes, attempts, tries, timeouts and *)
(* ended runs, as long as no request outlives its call: completed moves    *)
(* are whole, reports stay true, and a stale cache is owed a restore or    *)
(* reported.  IsolatedInv is inductive relative to Control.                *)
(*                                                                         *)
(* Each kind of step has one lemma that it keeps IsolatedInv.  A step that *)
(* settles no update and leaves a family's job and routing alone is quiet, *)
(* which most steps are at most families (QuietFamily, SameLine); what is  *)
(* left are the activities of a handler and the answers they give.         *)
(***************************************************************************)
EXTENDS TemporalIsolation, TemporalProofs

-----------------------------------------------------------------------------
(* Updates that are settled.                                               *)

\* Where an unwind is, in numbers.
LEMMA UnwindFacts ==
    ASSUME Control, NEW s \in Sagas, Unwinds(s)
    PROVE  \E d \in 0 .. 5, h \in 0 .. 6 :
             /\ d = saga[s].done /\ h = Height(s) /\ h <= d + 1
             /\ saga[s].pc \in {"unwinding", "ended"}
             /\ RestoreStep(s) = d + 8 - h
             /\ Forwards(s) = d + 1
             /\ Restores(s) = d + 1 - h + IF call[s] = {} THEN 0 ELSE 1
             /\ call[s] # {} => /\ h # 0 /\ saga[s].pc = "unwinding"
                                /\ PresentStep(s) = d + 8 - h
             /\ \A k \in 1 .. 12 : Place(s, k) = d + 8 - k
             /\ \A p \in 1 .. 6 : Restored(s, p) = d + 8 - p
<1>1. /\ saga[s].done \in 0 .. 5 /\ Height(s) \in 0 .. 6 /\ Height(s) <= saga[s].done + 1
      /\ Forwards(s) = saga[s].done + 1 /\ saga[s].pc \in {"unwinding", "ended"}
  BY Counts, WorkflowFacts
<1>2. PICK d \in 0 .. 5, h \in 0 .. 6 : d = saga[s].done /\ h = Height(s) /\ h <= d + 1
  BY <1>1
<1>3. RestoreStep(s) = d + 8 - h
  BY <1>2 DEF RestoreStep, PlanLength, Height
<1>4. Restores(s) = d + 1 - h + IF call[s] = {} THEN 0 ELSE 1
  BY <1>2 DEF Restores
<1>5. ASSUME call[s] # {} PROVE h # 0 /\ saga[s].pc = "unwinding" /\ PresentStep(s) = d + 8 - h
  <2>1. saga[s].pc = "unwinding"
    BY <1>1, <1>5, WorkflowFacts DEF Moving
  <2>2. saga[s].stack # <<>> /\ saga[s].stack \in Seq(IntentType)
    BY <1>5, <2>1, WorkflowFacts DEF StackOK
  <2> QED  BY <1>2, <1>3, <2>1, <2>2, EmptySeq DEF Height, PresentStep
<1>6. \A k \in 1 .. 12 : Place(s, k) = d + 8 - k
  BY <1>2 DEF Place, PlanLength
<1>7. \A p \in 1 .. 6 : Restored(s, p) = d + 8 - p
  BY <1>2 DEF Restored, PlanLength
<1> QED  BY <1>1, <1>2, <1>3, <1>4, <1>5, <1>6, <1>7

\* Where a call of a forward step is, in numbers.
LEMMA ForwardFacts ==
    ASSUME Control, NEW s \in Sagas, saga[s].pc = "forward"
    PROVE  /\ ~Unwinds(s) /\ Restores(s) = 0 /\ Forwards(s) = Height(s)
           /\ saga[s].done \in 0 .. 6
           /\ PresentStep(s) = saga[s].done + 1
           /\ call[s] = {} => Height(s) = saga[s].done
           /\ call[s] # {} => Height(s) = saga[s].done + 1 /\ saga[s].done \in 0 .. 5
<1>1. /\ ~Unwinds(s) /\ Restores(s) = 0 /\ Forwards(s) = Height(s)
      /\ saga[s].done \in 0 .. 6 /\ Height(s) \in 0 .. 6
  BY Counts, WorkflowFacts
<1>2. Height(s) = IF call[s] = {} THEN saga[s].done ELSE saga[s].done + 1
  BY WorkflowFacts DEF StackOK
<1> QED  BY <1>1, <1>2 DEF PresentStep

\* Which numbers have been given out.
LEMMA SentRange ==
    ASSUME Control, NEW s \in Sagas, NEW k \in 1 .. 12
    PROVE  Sent(s, k) <=> \/ k <= 6 /\ k <= Forwards(s)
                          \/ k > 6 /\ k <= 6 + Restores(s)
<1>1. Forwards(s) \in 0 .. 6 /\ Restores(s) \in 0 .. 6
  BY Counts
<1> QED  BY <1>1 DEF Sent, PlanLength

\* How a move stands, by its verdict.
LEMMA Standing ==
    ASSUME Control, NEW s \in Sagas, OutcomesOK(s)
    PROVE  \/ saga[s].pc \in {"idle", "read source", "read target", "validating"}
           \/ saga[s].pc = "forward"
           \/ saga[s].pc = "unwinding" /\ Unwinds(s)
           \/ saga[s].pc = "ended" /\ saga[s].verdict = "REJECTED"
           \/ saga[s].pc = "ended" /\ saga[s].verdict = "COMPLETED" /\ ~Unwinds(s)
           \/ saga[s].pc = "ended" /\ RolledBack(s) /\ Unwinds(s) /\ Height(s) = 0
<1>1. /\ saga[s] \in Progress /\ saga[s].verdict \in Verdict
      /\ SagaOK(s) /\ StackOK(s)
  BY WorkflowFacts
<1>2. saga[s].pc \in {"idle", "read source", "read target", "validating",
                      "forward", "unwinding", "ended"}
  BY <1>1 DEF Progress
<1>3. saga[s].pc = "ended" <=> saga[s].verdict # "none"
  BY <1>1 DEF SagaOK
<1>4. RolledBack(s) => Height(s) = 0
  BY <1>1 DEF StackOK, Height
<1> QED  BY <1>1, <1>2, <1>3, <1>4 DEF Verdict, RolledBack, Unwinds

\* Before the plan is begun nothing has been sent.
NotBegun(s) ==
    \/ saga[s].pc \in {"idle", "read source", "read target", "validating"}
    \/ saga[s].verdict = "REJECTED"

LEMMA NothingSent ==
    ASSUME Control, NEW s \in Sagas, OutcomesOK(s), NotBegun(s)
    PROVE  /\ Forwards(s) = 0 /\ Restores(s) = 0 /\ call[s] = {} /\ saga[s].done = 0
           /\ ~Unwinds(s)
           /\ \A k \in 1 .. 12 : ~Sent(s, k) /\ ~Settled(s, k)
<1>1. SagaOK(s) /\ StackOK(s)
  BY WorkflowFacts
<1>2. saga[s].pc = "ended" <=> saga[s].verdict # "none"
  BY <1>1 DEF SagaOK
<1>3. call[s] = {}
  BY <1>2, WorkflowFacts DEF Moving, NotBegun
<1>4. saga[s].done = 0 /\ saga[s].stack = <<>>
  <2>1. CASE saga[s].verdict = "REJECTED"
    BY <2>1 DEF OutcomesOK
  <2>2. CASE saga[s].pc \in {"idle", "read source", "read target", "validating"}
    BY <1>1, <2>2 DEF SagaOK
  <2> QED  BY <2>1, <2>2 DEF NotBegun
<1>5. ~Unwinds(s)
  BY <1>2 DEF NotBegun, Unwinds, RolledBack
<1>6. Forwards(s) = 0 /\ Restores(s) = 0
  BY <1>4, <1>5 DEF Forwards, Restores, Height
<1>7. ASSUME NEW k \in 1 .. 12, Sent(s, k) PROVE FALSE
  <2>1. Forwards(s) \in 0 .. 6 /\ Restores(s) \in 0 .. 6
    BY Counts
  <2> QED  BY <1>6, <1>7, <2>1, SentRange
<1>8. ASSUME NEW k \in 1 .. 12, Settled(s, k) PROVE FALSE
  <2>1. k \in 1 .. saga[s].done
    BY <1>3, <1>5, <1>8 DEF Settled
  <2>2. saga[s].done = 0 /\ saga[s].done \in 0 .. 6
    BY <1>4, WorkflowFacts
  <2> QED  BY <2>1, <2>2
<1> QED  BY <1>3, <1>4, <1>5, <1>6, <1>7, <1>8

LEMMA SettledIsSent ==
    ASSUME Control, NEW s \in Sagas, OutcomesOK(s), NEW k \in 1 .. 12, Settled(s, k)
    PROVE  Sent(s, k)
<1>1. CASE call[s] # {} /\ k = PresentStep(s)
  BY <1>1, CallIsGenuine DEF Genuine
<1>2. CASE k \in 1 .. saga[s].done
  <2>1. saga[s].done \in 0 .. 6 /\ Height(s) \in 0 .. 6
    BY WorkflowFacts
  <2>2. CASE Unwinds(s)
    <3>1. PICK d \in 0 .. 5 : d = saga[s].done /\ Forwards(s) = d + 1
      BY <2>2, UnwindFacts
    <3> QED  BY <1>2, <3>1, SentRange
  <2>3. CASE saga[s].pc = "forward"
    <3>1. Forwards(s) = Height(s) /\ saga[s].done <= Height(s)
      BY <2>1, <2>3, ForwardFacts
    <3> QED  BY <1>2, <2>1, <3>1, SentRange
  <2>4. CASE saga[s].verdict = "COMPLETED" /\ ~Unwinds(s)
    <3>1. Forwards(s) = 6
      BY <2>4 DEF Forwards, OutcomesOK, PlanLength
    <3> QED  BY <1>2, <2>1, <3>1, SentRange
  <2> QED  BY <1>2, <2>1, <2>2, <2>3, <2>4, Standing, NothingSent DEF NotBegun
<1>3. CASE Unwinds(s) /\ k \in 7 .. 6 + saga[s].done + 1 - Height(s)
  <2>1. PICK d \in 0 .. 5, h \in 0 .. 6 :
            /\ d = saga[s].done /\ h = Height(s) /\ h <= d + 1
            /\ Restores(s) = d + 1 - h + IF call[s] = {} THEN 0 ELSE 1
    BY <1>3, UnwindFacts
  <2>2. k \in 7 .. 6 + d + 1 - h
    BY <1>3, <2>1
  <2>3. k > 6 /\ k <= 6 + Restores(s)
    BY <2>1, <2>2
  <2> QED  BY <2>3, SentRange
<1> QED  BY <1>1, <1>2, <1>3 DEF Settled, PlanLength

\* The update of a call is the last that its move has sent.
LEMMA PresentIsLast ==
    ASSUME Control, NEW s \in Sagas, call[s] # {}, NEW k \in 1 .. 12, Sent(s, k)
    PROVE  k <= PresentStep(s)
<1>1. Moving(s)
  BY WorkflowFacts
<1>2. CASE saga[s].pc = "forward"
  BY <1>2, ForwardFacts, SentRange
<1>3. CASE Unwinds(s)
  <2>1. PICK d \in 0 .. 5, h \in 0 .. 6 :
            /\ h <= d + 1
            /\ Restores(s) = d + 1 - h + IF call[s] = {} THEN 0 ELSE 1
            /\ PresentStep(s) = d + 8 - h
    BY <1>3, UnwindFacts
  <2> QED  BY <2>1, SentRange
<1> QED  BY <1>1, <1>2, <1>3 DEF Moving, Unwinds

\* An update that is not settled is the one its move is waiting for, or the
\* last forward one of a move that has failed, or a restore that has failed.
LEMMA UnsettledKinds ==
    ASSUME Control, NEW s \in Sagas, OutcomesOK(s), NEW k \in 1 .. 12, Sent(s, k), ~Settled(s, k)
    PROVE  \/ /\ saga[s].pc = "forward" /\ call[s] # {} /\ ~Answered(s)
              /\ k = PresentStep(s) /\ k = saga[s].done + 1
           \/ Unwinds(s) /\ k = saga[s].done + 1
           \/ /\ Unwinds(s) /\ k > 6
              /\ \/ saga[s].pc = "unwinding"
                 \/ saga[s].errors # {}
              /\ Place(s, k) \in 1 .. saga[s].done + 1
              /\ k = Restored(s, Place(s, k))
<1>1. saga[s].done \in 0 .. 6 /\ k > saga[s].done
  BY WorkflowFacts DEF Settled
<1>2. CASE saga[s].pc = "forward"
  <2>1. k <= 6 /\ k <= Height(s)
    BY <1>1, <1>2, ForwardFacts, SentRange, WorkflowFacts
  <2>2. call[s] # {} /\ k = saga[s].done + 1
    BY <1>1, <1>2, <2>1, ForwardFacts, WorkflowFacts
  <2> QED  BY <1>2, <2>2, ForwardFacts DEF Settled
<1>3. CASE Unwinds(s)
  <2>1. PICK d \in 0 .. 5, h \in 0 .. 6 :
            /\ d = saga[s].done /\ h = Height(s) /\ h <= d + 1
            /\ saga[s].pc \in {"unwinding", "ended"}
            /\ Forwards(s) = d + 1
            /\ Restores(s) = d + 1 - h + IF call[s] = {} THEN 0 ELSE 1
            /\ call[s] # {} => h # 0 /\ saga[s].pc = "unwinding" /\ PresentStep(s) = d + 8 - h
            /\ \A n \in 1 .. 12 : Place(s, n) = d + 8 - n
            /\ \A p \in 1 .. 6 : Restored(s, p) = d + 8 - p
    BY <1>3, UnwindFacts
  <2>2. CASE k <= 6
    BY <1>1, <1>3, <2>1, <2>2, SentRange
  <2>3. CASE k > 6
    <3>1. k <= 6 + (d + 1 - h + IF call[s] = {} THEN 0 ELSE 1)
      BY <2>1, <2>3, SentRange
    <3>2. Place(s, k) = d + 8 - k
      BY <2>1
    <3>3. Place(s, k) \in 1 .. d + 1
      BY <2>1, <2>3, <3>1, <3>2
    <3>4. k = Restored(s, Place(s, k))
      BY <2>1, <3>2, <3>3
    <3>5. saga[s].pc = "unwinding" \/ saga[s].errors # {}
      <4>1. SUFFICES ASSUME call[s] = {} PROVE saga[s].errors # {}
        BY <2>1
      <4>2. k \in 7 .. 6 + d + 1 - h
        BY <2>3, <3>1, <4>1
      <4> QED  BY <1>3, <2>1, <4>2 DEF Settled, PlanLength
    <3> QED  BY <1>3, <2>1, <2>3, <3>3, <3>4, <3>5
  <2> QED  BY <2>2, <2>3
<1>4. CASE saga[s].verdict = "COMPLETED" /\ ~Unwinds(s)
  <2>1. saga[s].done = 6 /\ Restores(s) = 0 /\ Forwards(s) \in 0 .. 6
    BY <1>4, Counts DEF OutcomesOK, PlanLength
  <2> QED  BY <1>1, <2>1, SentRange
<1> QED  BY <1>2, <1>3, <1>4, Standing, NothingSent DEF NotBegun

-----------------------------------------------------------------------------
(* What an update asks for, by its number.                                 *)

LEMMA ForwardNumbered ==
    ASSUME Control, NEW s \in Sagas, NEW k \in 1 .. 6
    PROVE  LET step == Plan(request[s])[k]
               update == Numbered(s, k)
           IN  /\ update.family = step.family /\ update.family = Intents(request[s])[k].family
               /\ update.family \in FamiliesOf(request[s])
               /\ update.command = step.command
               /\ update.desired = {}
               /\ k \in {1, 2} => update.command = "pause" /\ update.config = {}
               /\ k \in {3, 4} =>
                    /\ update.command = "patch"
                    /\ update.config =
                         {NewConfig(request[s], saga[s].statuses, update.family)}
               /\ k \in {5, 6} => update.command = "resume" /\ update.config = {}
<1>1. request[s] \in MoveDatatypeRequest
  BY WorkflowFacts
<1> DEFINE step == Plan(request[s])[k]  update == Numbered(s, k)
           config == NewConfig(request[s], saga[s].statuses, step.family)
<1>2. update = [id |-> <<s, k>>, family |-> step.family, command |-> step.command,
                desired |-> {},
                config |-> IF step.command = "patch" THEN {config} ELSE {}]
  BY DEF Numbered, ForwardUpdate, PlanLength
<1>3. /\ step.family = Intents(request[s])[k].family
      /\ step.family \in FamiliesOf(request[s])
      /\ k \in {1, 2} => step.command = "pause"
      /\ k \in {3, 4} => step.command = "patch"
      /\ k \in {5, 6} => step.command = "resume"
  BY <1>1, IntentFamily
<1> HIDE DEF step, update, config
<1>4. /\ update.family = step.family /\ update.command = step.command
      /\ update.desired = {}
      /\ update.config = IF step.command = "patch" THEN {config} ELSE {}
  BY <1>2
<1>5. /\ update.family = step.family /\ update.family = Intents(request[s])[k].family
      /\ update.family \in FamiliesOf(request[s])
      /\ update.command = step.command
      /\ update.desired = {}
      /\ k \in {1, 2} => update.command = "pause" /\ update.config = {}
      /\ k \in {3, 4} => update.command = "patch" /\ update.config = {config}
      /\ k \in {5, 6} => update.command = "resume" /\ update.config = {}
  BY <1>3, <1>4
<1> QED  BY <1>4, <1>5 DEF step, update, config

LEMMA RestoreNumbered ==
    ASSUME Control, NEW s \in Sagas, NEW k \in 7 .. 12, NEW p \in 1 .. 6, p = Place(s, k),
           NEW f, f = Intents(request[s])[p].family
    PROVE  /\ Numbered(s, k).family = f /\ f \in FamiliesOf(request[s])
           /\ Numbered(s, k).command = "restore"
           /\ p \in {1, 2} => /\ Numbered(s, k).desired = {saga[s].statuses[f].state}
                              /\ Numbered(s, k).config = {}
           /\ p \in {3, 4} => /\ Numbered(s, k).desired = {}
                              /\ Numbered(s, k).config = {saga[s].statuses[f].datatypes}
           /\ p \in {5, 6} => /\ Numbered(s, k).desired = {"SUSPENDED"}
                              /\ Numbered(s, k).config = {}
<1>1. request[s] \in MoveDatatypeRequest
  BY WorkflowFacts
<1> DEFINE intent == Intents(request[s])[p]  update == Numbered(s, k)
           base == saga[s].statuses[f]
<1>2. update = [id |-> <<s, k>>, family |-> intent.family, command |-> "restore",
                desired |-> CASE intent.label = "revert" -> {}
                              [] intent.label = "resume" -> {base.state}
                              [] intent.label = "pause"  -> {"SUSPENDED"},
                config |-> IF intent.label = "revert" THEN {base.datatypes} ELSE {}]
  <2>1. update = RestoreUpdate(s, k)
    BY DEF Numbered, PlanLength
  <2> QED  BY <2>1 DEF RestoreUpdate
<1>3. /\ intent.family \in FamiliesOf(request[s]) /\ f = intent.family
      /\ p \in {1, 2} => intent.label = "resume"
      /\ p \in {3, 4} => intent.label = "revert"
      /\ p \in {5, 6} => intent.label = "pause"
  BY <1>1, IntentFamily
<1> HIDE DEF intent, update, base
<1>4. /\ update.family = intent.family /\ update.command = "restore"
      /\ intent.label = "resume" => update.desired = {base.state} /\ update.config = {}
      /\ intent.label = "revert" => update.desired = {} /\ update.config = {base.datatypes}
      /\ intent.label = "pause" => update.desired = {"SUSPENDED"} /\ update.config = {}
  BY <1>2
<1>5. /\ update.family = intent.family /\ f = intent.family
      /\ intent.family \in FamiliesOf(request[s])
      /\ update.command = "restore"
      /\ p \in {1, 2} => update.desired = {base.state} /\ update.config = {}
      /\ p \in {3, 4} => update.desired = {} /\ update.config = {base.datatypes}
      /\ p \in {5, 6} => update.desired = {"SUSPENDED"} /\ update.config = {}
  BY <1>3, <1>4
<1> QED  BY <1>5 DEF intent, update, base

LEMMA RestoreFamily ==
    ASSUME NEW s \in Sagas, NEW k \in 7 .. 12
    PROVE  Numbered(s, k).family = Intents(request[s])[Place(s, k)].family
<1>1. Numbered(s, k) = RestoreUpdate(s, k)
  BY DEF Numbered, PlanLength
<1>2. RestoreUpdate(s, k).family = Intents(request[s])[Place(s, k)].family
  BY DEF RestoreUpdate
<1> QED  BY <1>1, <1>2

\* The first restore goes to the family of the step that has failed.
LEMMA FirstRestore ==
    ASSUME Control, NEW s \in Sagas, Unwinds(s)
    PROVE  Numbered(s, 7).family = Numbered(s, saga[s].done + 1).family
<1>1. PICK d \in 0 .. 5 : d = saga[s].done /\ Place(s, 7) = d + 1
  BY UnwindFacts
<1>2. PICK p \in 1 .. 6, k \in 7 .. 12 : p = d + 1 /\ k = 7
  BY <1>1
<1>3. Numbered(s, p).family = Intents(request[s])[p].family
  BY ForwardNumbered
<1>4. Numbered(s, k).family = Intents(request[s])[p].family
  <2>1. p = Place(s, k)
    BY <1>1, <1>2
  <2> QED  BY <2>1, RestoreFamily
<1> QED  BY <1>1, <1>2, <1>3, <1>4

\* Each family of a move has three of the six places.
LEMMA Positions ==
    ASSUME Control, NEW s \in Sagas, NEW f \in FamiliesOf(request[s]),
           request[s].source # request[s].target
    PROVE  /\ PausePosition(s, f) \in {1, 2}
           /\ PatchPosition(s, f) = PausePosition(s, f) + 2
           /\ ResumePosition(s, f) = PausePosition(s, f) + 4
           /\ \A k \in 1 .. 6 : Intents(request[s])[k].family = f <=>
                k \in {PausePosition(s, f), PatchPosition(s, f), ResumePosition(s, f)}
<1>1. /\ PausePosition(s, f) = IF f = request[s].source THEN 1 ELSE 2
      /\ PatchPosition(s, f) = IF f = request[s].source THEN 3 ELSE 4
      /\ ResumePosition(s, f) = IF f = request[s].source THEN 5 ELSE 6
  BY DEF PausePosition, PatchPosition, ResumePosition
<1>2. ASSUME NEW k \in 1 .. 6
      PROVE  Intents(request[s])[k].family = f <=>
                k \in {PausePosition(s, f), PatchPosition(s, f), ResumePosition(s, f)}
  <2>1. Intents(request[s])[k].family
            = IF k \in {1, 3, 5} THEN request[s].source ELSE request[s].target
    BY WorkflowFacts, IntentFamily
  <2>2. f \in {request[s].source, request[s].target}
    BY DEF FamiliesOf
  <2> QED  BY <1>1, <2>1, <2>2
<1> QED  BY <1>1, <1>2

-----------------------------------------------------------------------------
(* What is in line.                                                        *)

LEMMA QueuedNumber ==
    ASSUME Control, NEW f \in Families, NEW k \in DOMAIN queue[f]
    PROVE  \E s \in Sagas, n \in 1 .. 12 :
             /\ queue[f][k].id = <<s, n>> /\ queue[f][k].id[1] = s /\ queue[f][k].id[2] = n
             /\ Sent(s, n) /\ queue[f][k] = Numbered(s, n) /\ Numbered(s, n).family = f
<1>1. queue[f][k].id \in UpdateKey /\ Genuine(queue[f][k]) /\ queue[f][k].family = f
  BY QueuedUpdate
<1>2. PICK s \in Sagas, n \in 1 .. 12 : queue[f][k].id = <<s, n>>
  BY <1>1 DEF UpdateKey, PlanLength
<1>3. Sent(s, n) /\ queue[f][k] = Numbered(s, n)
  BY <1>1, <1>2 DEF Genuine
<1> QED  BY <1>1, <1>2, <1>3

\* What is in line and not settled is of the open move.
LEMMA UnsettledInLine ==
    ASSUME Control, IsolatedInv, NEW f \in Families, NEW k \in DOMAIN queue[f],
           NEW s \in Sagas, NEW n \in 1 .. 12, queue[f][k].id = <<s, n>>, ~Settled(s, n)
    PROVE  /\ Open(s) /\ Sent(s, n) /\ queue[f][k] = Numbered(s, n) /\ Numbered(s, n).family = f
           /\ \/ /\ saga[s].pc = "forward" /\ call[s] # {} /\ ~Answered(s)
                 /\ n = PresentStep(s) /\ n = saga[s].done + 1
              \/ Unwinds(s) /\ n = saga[s].done + 1
              \/ /\ Unwinds(s) /\ n > 6 /\ Place(s, n) \in 1 .. saga[s].done + 1
                 /\ n = Restored(s, Place(s, n))
<1>1. Sent(s, n) /\ queue[f][k] = Numbered(s, n) /\ Numbered(s, n).family = f
  BY QueuedNumber
<1>2. OutcomesOK(s) /\ NoneOvertaken(f)
  BY DEF IsolatedInv, FamilyInv
<1>3. \/ /\ saga[s].pc = "forward" /\ call[s] # {} /\ ~Answered(s)
         /\ n = PresentStep(s) /\ n = saga[s].done + 1
      \/ Unwinds(s) /\ n = saga[s].done + 1
      \/ /\ Unwinds(s) /\ n > 6
         /\ saga[s].pc = "unwinding" \/ saga[s].errors # {}
         /\ Place(s, n) \in 1 .. saga[s].done + 1
         /\ n = Restored(s, Place(s, n))
  BY <1>1, <1>2, UnsettledKinds
<1>4. Open(s)
  <2>1. CASE saga[s].pc \in {"forward", "unwinding"}
    BY <2>1 DEF Open, Active
  <2>2. CASE Unwinds(s) /\ saga[s].pc # "unwinding"
    <3>1. RolledBack(s) /\ Height(s) = 0
      <4>1. RolledBack(s)
        BY <2>2 DEF Unwinds
      <4> QED  BY <4>1, WorkflowFacts DEF StackOK, Height
    <3>2. SUFFICES ASSUME saga[s].verdict = "COMPENSATED" PROVE FALSE
      BY <3>1 DEF RolledBack, Open
    <3>3. saga[s].errors = {}
      BY <1>2, <3>2 DEF OutcomesOK
    <3>4. n = saga[s].done + 1
      BY <1>3, <2>2, <3>3, Counts
    <3>5. saga[s].done \in 0 .. 5 /\ Place(s, 7) = saga[s].done + 1
      BY <2>2, UnwindFacts
    <3>6. Settled(s, 7)
      <4>1. 7 \in 7 .. 6 + saga[s].done + 1 - Height(s)
        BY <3>1, <3>5
      <4> QED  BY <2>2, <3>3, <4>1 DEF Settled, PlanLength
    <3>7. Numbered(s, 7).family = f
      BY <1>1, <2>2, <3>4, FirstRestore
    <3>8. 7 <= n
      <4>1. queue[f][k].id[1] = s /\ queue[f][k].id[2] = n
        OBVIOUS
      <4> QED  BY <1>2, <3>6, <3>7, <4>1 DEF NoneOvertaken, PlanLength
    <3> QED  BY <3>4, <3>5, <3>8
  <2> QED  BY <1>3, <2>1, <2>2
<1> QED  BY <1>1, <1>3, <1>4

\* Behind an update that is not settled nothing is.
LEMMA NoneSettledBehind ==
    ASSUME Control, IsolatedInv, NEW f \in Families, 1 \in DOMAIN queue[f],
           ~Settled(queue[f][1].id[1], queue[f][1].id[2]), NEW k \in DOMAIN queue[f]
    PROVE  ~Settled(queue[f][k].id[1], queue[f][k].id[2])
<1>1. PICK s \in Sagas, n \in 1 .. 12 :
        /\ queue[f][1].id = <<s, n>> /\ queue[f][1].id[1] = s /\ queue[f][1].id[2] = n
  BY QueuedNumber
<1>2. PICK t \in Sagas, m \in 1 .. 12 :
        /\ queue[f][k].id[1] = t /\ queue[f][k].id[2] = m
        /\ Numbered(t, m).family = f
  BY QueuedNumber
<1>3. Open(s)
  BY <1>1, UnsettledInLine
<1>4. InOrder(f) /\ NoneOvertaken(f)
  BY DEF IsolatedInv, FamilyInv
<1>5. CASE k # 1
  <2>1. 1 < k
    BY <1>5, Typed, QueueDomain
  <2>2. s = t /\ n < m
    BY <1>1, <1>2, <1>3, <1>4, <2>1 DEF InOrder
  <2>3. SUFFICES ASSUME Settled(s, m) PROVE FALSE
    BY <1>2, <2>2
  <2>4. m <= n
    BY <1>1, <1>2, <1>4, <2>2, <2>3 DEF NoneOvertaken, PlanLength
  <2> QED  BY <2>2, <2>4
<1> QED  BY <1>5

-----------------------------------------------------------------------------
(* What a step leaves alone keeps its part of the invariant.               *)

\* Nothing the actor of f has to do becomes settled.
NoneSettlesAt(f) ==
    \A t \in Sagas, k \in 1 .. 12 :
        Settled(t, k)' /\ (Numbered(t, k).family)' = f => Settled(t, k)

\* The line at f gets no longer.
Shorter(f) ==
    \E d \in {0, 1} : \A k \in DOMAIN queue'[f] :
        k \in Nat /\ k + d \in DOMAIN queue[f] /\ queue'[f][k] = queue[f][k + d]

Quiet(f) == state'[f] = state[f] /\ datatypes'[f] = datatypes[f]

LEMMA SameLine ==
    ASSUME Control, NEW f \in Families, queue'[f] = queue[f]
    PROVE  Shorter(f)
<1>1. \A k \in DOMAIN queue'[f] : k \in Nat /\ k + 0 = k
  BY Typed, QueueDomain
<1> QED  BY <1>1 DEF Shorter

LEMMA SameWorkflow ==
    ASSUME NEW s \in Sagas, saga'[s] = saga[s], request' = request, call'[s] = call[s]
    PROVE  /\ Height(s)' = Height(s) /\ PresentStep(s)' = PresentStep(s)
           /\ Unwinds(s)' <=> Unwinds(s)
           /\ Present(s)' = Present(s)
           /\ Open(s)' <=> Open(s)
           /\ \A k : Place(s, k)' = Place(s, k) /\ Numbered(s, k)' = Numbered(s, k)
           /\ \A p : Restored(s, p)' = Restored(s, p)
<1>1. /\ Height(s)' = Height(s) /\ PresentStep(s)' = PresentStep(s)
      /\ Unwinds(s)' <=> Unwinds(s)
      /\ Open(s)' <=> Open(s)
  BY DEF Height, PresentStep, RestoreStep, Unwinds, RolledBack, Open, Active
<1>2. \A k : Place(s, k)' = Place(s, k)
  BY DEF Place
<1>3. \A p : Restored(s, p)' = Restored(s, p)
  BY DEF Restored
<1>4. ASSUME NEW k PROVE Numbered(s, k)' = Numbered(s, k)
  <2>1. ForwardUpdate(s, k)' = ForwardUpdate(s, k)
    BY DEF ForwardUpdate
  <2>2. RestoreUpdate(s, k)' = RestoreUpdate(s, k)
    BY DEF RestoreUpdate, Place
  <2> QED  BY <2>1, <2>2 DEF Numbered
<1>5. Present(s)' = Present(s)
  <2>1. PICK n : n = PresentStep(s)
    OBVIOUS
  <2>2. PresentStep(s)' = n /\ Numbered(s, n)' = Numbered(s, n)
    BY <1>1, <1>4, <2>1
  <2>3. Present(s)' = Numbered(s, n)'
    BY <2>2 DEF Present
  <2> QED  BY <2>1, <2>2, <2>3 DEF Present
<1> QED  BY <1>1, <1>2, <1>3, <1>4, <1>5

LEMMA InOrderKept ==
    ASSUME Control, NEW f \in Families, InOrder(f), Shorter(f),
           \A t \in Sagas : Open(t)' => Open(t) \/ \A k \in 1 .. 12 : ~Sent(t, k)
    PROVE  InOrder(f)'
<1>1. PICK d \in {0, 1} : \A k \in DOMAIN queue'[f] :
        k \in Nat /\ k + d \in DOMAIN queue[f] /\ queue'[f][k] = queue[f][k + d]
  BY DEF Shorter
<1>2. ASSUME NEW j \in DOMAIN queue'[f], NEW k \in DOMAIN queue'[f], j < k
      PROVE  /\ queue'[f][j].id[1] = queue'[f][k].id[1] =>
                    queue'[f][j].id[2] < queue'[f][k].id[2]
             /\ Open(queue[f][j].id[1])' => queue'[f][k].id[1] = queue'[f][j].id[1]
  <2>1. /\ j + d \in DOMAIN queue[f] /\ queue'[f][j] = queue[f][j + d]
        /\ k + d \in DOMAIN queue[f] /\ queue'[f][k] = queue[f][k + d]
        /\ j + d < k + d
    BY <1>1, <1>2
  <2>2. /\ queue[f][j + d].id[1] = queue[f][k + d].id[1] =>
                queue[f][j + d].id[2] < queue[f][k + d].id[2]
        /\ Open(queue[f][j + d].id[1]) => queue[f][k + d].id[1] = queue[f][j + d].id[1]
    BY <2>1 DEF InOrder
  <2>3. PICK t \in Sagas, n \in 1 .. 12 : queue[f][j + d].id[1] = t /\ Sent(t, n)
    BY <2>1, QueuedNumber
  <2>4. Open(t)' => Open(t)
    BY <2>3
  <2>5. Open(queue[f][j].id[1])' <=> Open(t)'
    BY <2>1, <2>3
  <2> QED  BY <2>1, <2>2, <2>3, <2>4, <2>5
<1> QED  BY <1>2 DEF InOrder

LEMMA NoneOvertakenKept ==
    ASSUME Control, SentKept, NEW f \in Families, NoneOvertaken(f), Shorter(f),
           NoneSettlesAt(f), \A s \in Sagas : OutcomesOK(s)
    PROVE  NoneOvertaken(f)'
<1>1. PICK d \in {0, 1} : \A k \in DOMAIN queue'[f] :
        k \in Nat /\ k + d \in DOMAIN queue[f] /\ queue'[f][k] = queue[f][k + d]
  BY DEF Shorter
<1>2. ASSUME NEW k \in DOMAIN queue'[f], NEW n \in 1 .. 12,
             Settled(queue[f][k].id[1], n)', (Numbered(queue[f][k].id[1], n).family)' = f
      PROVE  n <= queue'[f][k].id[2]
  <2>1. k + d \in DOMAIN queue[f] /\ queue'[f][k] = queue[f][k + d]
    BY <1>1, <1>2
  <2>2. PICK t \in Sagas : queue[f][k + d].id[1] = t
    BY <2>1, QueuedNumber
  <2>3. Settled(t, n)' /\ (Numbered(t, n).family)' = f
    BY <1>2, <2>1, <2>2
  <2>4. Settled(t, n)
    BY <2>3 DEF NoneSettlesAt
  <2>5. Numbered(t, n)' = Numbered(t, n)
    BY <2>4, SettledIsSent DEF SentKept
  <2>6. Numbered(t, n).family = f
    BY <2>3, <2>5
  <2>7. n <= queue[f][k + d].id[2]
    BY <2>1, <2>2, <2>4, <2>6 DEF NoneOvertaken, PlanLength
  <2> QED  BY <2>1, <2>7
<1> QED  BY <1>2 DEF NoneOvertaken, PlanLength

LEMMA EchoesHoldKept ==
    ASSUME Control, SentKept, NEW f \in Families, EchoesHold(f), Shorter(f),
           NoneSettlesAt(f),
           \/ Quiet(f)
           \/ \A k \in DOMAIN queue[f] : ~Settled(queue[f][k].id[1], queue[f][k].id[2])
    PROVE  EchoesHold(f)'
<1>1. PICK d \in {0, 1} : \A k \in DOMAIN queue'[f] :
        k \in Nat /\ k + d \in DOMAIN queue[f] /\ queue'[f][k] = queue[f][k + d]
  BY DEF Shorter
<1>2. ASSUME NEW k \in DOMAIN queue'[f], Settled(queue[f][k].id[1], queue[f][k].id[2])'
      PROVE  InEffect(f, queue[f][k])'
  <2>1. k + d \in DOMAIN queue[f] /\ queue'[f][k] = queue[f][k + d]
    BY <1>1, <1>2
  <2>2. PICK t \in Sagas, n \in 1 .. 12, u \in Update :
            /\ u = queue[f][k + d] /\ u.id[1] = t /\ u.id[2] = n
            /\ Sent(t, n) /\ u = Numbered(t, n) /\ Numbered(t, n).family = f
    BY <2>1, QueuedNumber, QueuedUpdate
  <2>3. queue'[f][k] = u
    BY <2>1, <2>2
  <2>4. Settled(t, n)'
    BY <1>2, <2>2, <2>3
  <2>5. (Numbered(t, n).family)' = f
    BY <2>2 DEF SentKept
  <2>6. Settled(t, n)
    BY <2>4, <2>5 DEF NoneSettlesAt
  <2>7. Settled(queue[f][k + d].id[1], queue[f][k + d].id[2])
    BY <2>2, <2>6
  <2>8. Quiet(f) /\ InEffect(f, u)
    BY <2>1, <2>2, <2>7 DEF EchoesHold
  <2>9. InEffect(f, u)'
    BY <2>8 DEF InEffect, Quiet
  <2> QED  BY <2>3, <2>9
<1> QED  BY <1>2 DEF EchoesHold

\* The restore of a place of this family, settled after the step, was so before.
LEMMA RestoreKept ==
    ASSUME Control, NEW s \in Sagas, NEW f, NoneSettlesAt(f), Unwinds(s),
           saga'[s] = saga[s], request' = request, call'[s] = call[s],
           NEW p \in 1 .. saga[s].done + 1, Intents(request[s])[p].family = f,
           Settled(s, Restored(s, p))'
    PROVE  Settled(s, Restored(s, p))
<1>1. PICK d \in 0 .. 5 :
        /\ d = saga[s].done
        /\ \A k \in 1 .. 12 : Place(s, k) = d + 8 - k
        /\ \A q \in 1 .. 6 : Restored(s, q) = d + 8 - q
  BY UnwindFacts
<1>2. PICK q \in 1 .. 6 : q = p /\ q <= d + 1
  BY <1>1
<1>3. PICK k \in 7 .. 12 : k = Restored(s, q) /\ k = d + 8 - q
  BY <1>1, <1>2
<1>4. Place(s, k) = q
  BY <1>1, <1>3
<1>5. (Numbered(s, k).family)' = f
  BY <1>2, <1>4, RestoreFamily, SameWorkflow
<1>6. Restored(s, q)' = k
  BY <1>3, SameWorkflow
<1>7. Settled(s, Restored(s, q))'
  BY <1>2
<1>8. Settled(s, k)'
  BY <1>6, <1>7
<1>9. Settled(s, k)
  BY <1>5, <1>8 DEF NoneSettlesAt
<1> QED  BY <1>2, <1>3, <1>9

LEMMA AnsweredKept ==
    ASSUME Control, NEW s \in Sagas, NoneSettlesAt(Present(s).family), OutcomesOK(s),
           saga'[s] = saga[s], request' = request, call'[s] = call[s], call[s] # {},
           Answered(s)'
    PROVE  Answered(s)
<1>1. PICK n \in 1 .. 12 : n = PresentStep(s)
  BY CallIsGenuine
<1>2. /\ PresentStep(s)' = n /\ Present(s)' = Present(s)
      /\ Numbered(s, n)' = Present(s)
  BY <1>1, SameWorkflow DEF Present
<1>3. Settled(s, n)' /\ (Numbered(s, n).family)' = Present(s).family
  BY <1>2 DEF Settled
<1>4. Settled(s, n)
  BY <1>3 DEF NoneSettlesAt
<1>5. Moving(s)
  BY WorkflowFacts
<1>6. CASE saga[s].pc = "forward"
  <2>1. n = saga[s].done + 1 /\ ~Unwinds(s) /\ saga[s].done \in 0 .. 6
    BY <1>1, <1>6, ForwardFacts
  <2> QED  BY <1>4, <2>1 DEF Settled
<1>7. CASE saga[s].pc = "unwinding"
  <2>1. PICK d \in 0 .. 5, h \in 1 .. 6 :
            d = saga[s].done /\ h = Height(s) /\ h <= d + 1 /\ n = d + 8 - h
    BY <1>1, <1>7, UnwindFacts DEF Unwinds
  <2>2. n \notin 1 .. d /\ n \notin 7 .. 6 + d + 1 - h
    BY <2>1
  <2> QED  BY <1>4, <2>1, <2>2 DEF Settled, PlanLength
<1> QED  BY <1>5, <1>6, <1>7 DEF Moving

LEMMA OwedKept ==
    ASSUME Control, NEW s \in Sagas, NEW f, NoneSettlesAt(f), OutcomesOK(s),
           saga'[s] = saga[s], request' = request, call'[s] = call[s],
           state'[f] = state[f], Owed(s, f)
    PROVE  Owed(s, f)'
<1>1. CASE /\ saga[s].pc = "forward" /\ call[s] # {} /\ ~Answered(s)
           /\ Present(s).family = f
           /\ \/ Present(s).command = "pause" /\ state[f] = "SUSPENDED"
              \/ Present(s).command = "resume" /\ state[f] = "RUNNING"
  <2>1. ~Answered(s)'
    BY <1>1, AnsweredKept
  <2>2. Present(s)' = Present(s)
    BY SameWorkflow
  <2> QED  BY <1>1, <2>1, <2>2 DEF Owed
<1>2. CASE /\ Unwinds(s)
           /\ \E p \in 1 .. saga[s].done + 1 :
                Intents(request[s])[p].family = f /\ ~Settled(s, Restored(s, p))
  <2>1. PICK p \in 1 .. saga[s].done + 1 :
            Intents(request[s])[p].family = f /\ ~Settled(s, Restored(s, p))
    BY <1>2
  <2>2. ~Settled(s, Restored(s, p))'
    BY <1>2, <2>1, RestoreKept
  <2>3. Unwinds(s)'
    BY <1>2, SameWorkflow
  <2> QED  BY <2>1, <2>2, <2>3 DEF Owed
<1> QED  BY <1>1, <1>2 DEF Owed

LEMMA PresentHoldsKept ==
    ASSUME Control, NEW s \in Sagas, NEW f, NoneSettlesAt(f), OutcomesOK(s),
           saga'[s] = saga[s], request' = request, call'[s] = call[s],
           Quiet(f), PresentHolds(s, f)
    PROVE  PresentHolds(s, f)'
<1>1. Present(s)' = Present(s)
  BY SameWorkflow
<1>2. SUFFICES ASSUME call[s] # {}, Present(s).family = f, Answered(s)'
               PROVE  InEffect(f, Present(s))'
  BY <1>1 DEF PresentHolds
<1>3. InEffect(f, Present(s))
  BY <1>2, AnsweredKept DEF PresentHolds
<1>4. PICK u : u = Present(s)
  OBVIOUS
<1>5. InEffect(f, u)'
  BY <1>3, <1>4 DEF InEffect, Quiet
<1> QED  BY <1>1, <1>4, <1>5

LEMMA UndoneKept ==
    ASSUME Control, NEW s \in Sagas, NEW f, NoneSettlesAt(f), Unwinds(s),
           saga'[s] = saga[s], request' = request, call'[s] = call[s],
           NEW p \in 1 .. 6, Intents(request[s])[p].family = f, Undone(s, p)'
    PROVE  Undone(s, p)
<1>1. saga[s].done \in 0 .. 5
  BY Counts
<1>2. CASE p > saga[s].done + 1
  BY <1>2 DEF Undone
<1>3. CASE p <= saga[s].done + 1
  <2>1. p \in 1 .. saga[s].done + 1 /\ Settled(s, Restored(s, p))'
    BY <1>1, <1>3 DEF Undone
  <2> QED  BY <2>1, RestoreKept DEF Undone
<1> QED  BY <1>1, <1>2, <1>3

\* A move never goes back to where it has not been started.
NoneResets == \A t \in Sagas : saga'[t].pc = "idle" => saga[t].pc = "idle"

LEMMA DeviationsKept ==
    ASSUME Control, NEW s \in Sagas, NEW f, NoneSettlesAt(f), NoneResets, OutcomesOK(s),
           saga'[s] = saga[s], request' = request, call'[s] = call[s],
           Quiet(f), DeviationsOwned(s, f)
    PROVE  DeviationsOwned(s, f)'
<1>1. SUFFICES ASSUME Unwinds(s), f \in FamiliesOf(request[s]),
                      Open(s) \/ \A t \in Sagas \ {s} : saga[t].pc = "idle"
               PROVE  /\ Undone(s, PatchPosition(s, f))' =>
                            datatypes[f] = saga[s].statuses[f].datatypes
                      /\ Undone(s, PausePosition(s, f))' =>
                            state[f] = saga[s].statuses[f].state
  <2>1. (Unwinds(s)' <=> Unwinds(s)) /\ (Open(s)' <=> Open(s))
    BY SameWorkflow
  <2> QED  BY <2>1 DEF DeviationsOwned, NoneResets, Quiet
<1>2. request[s].source # request[s].target
  BY <1>1 DEF OutcomesOK, Unwinds, Moving, Rejected
<1>3. PICK pause \in 1 .. 6, patch \in 1 .. 6 :
        /\ pause = PausePosition(s, f) /\ patch = PatchPosition(s, f)
        /\ Intents(request[s])[pause].family = f /\ Intents(request[s])[patch].family = f
  BY <1>1, <1>2, Positions
<1>4. PausePosition(s, f)' = pause /\ PatchPosition(s, f)' = patch
  BY <1>3 DEF PausePosition, PatchPosition
<1>5. Undone(s, pause)' => Undone(s, pause)
  BY <1>1, <1>3, UndoneKept
<1>6. Undone(s, patch)' => Undone(s, patch)
  BY <1>1, <1>3, UndoneKept
<1>7. /\ Undone(s, patch) => datatypes[f] = saga[s].statuses[f].datatypes
      /\ Undone(s, pause) => state[f] = saga[s].statuses[f].state
  BY <1>1, <1>3 DEF DeviationsOwned
<1> QED  BY <1>4, <1>5, <1>6, <1>7

\* The cache of f is not left behind where it was not.
CacheNoWorse(f) ==
    /\ actor'[f] = "ready" /\ cache'[f] # state'[f] => actor[f] = "ready" /\ cache[f] # state[f]
    /\ steps'[f] = <<"patch_configmap">> /\ Serving(f)'.command = "restore"
        => cache'[f] = state'[f]

\* A step that settles nothing at f and changes neither its job nor its routing.
LEMMA QuietRest ==
    ASSUME Control, SentKept, IsolatedInv, NEW f \in Families, UNCHANGED <<request, saga, call>>,
           NoneSettlesAt(f), Quiet(f), CacheNoWorse(f)
    PROVE  /\ CacheOK(f)'
           /\ \A s \in Sagas : /\ PresentHolds(s, f)' /\ SnapshotCurrent(s, f)'
                               /\ Advanced(s, f)' /\ DeviationsOwned(s, f)'
<1>1. FamilyInv(f) /\ \A s \in Sagas : OutcomesOK(s)
  BY DEF IsolatedInv
<1>2. CacheOK(f)'
  <2>1. ASSUME actor'[f] = "ready", cache'[f] # state'[f]
        PROVE  \E s \in Sagas : Open(s)' /\ Owed(s, f)'
    <3>1. PICK s \in Sagas : Open(s) /\ Owed(s, f)
      BY <1>1, <2>1 DEF FamilyInv, CacheOK, CacheNoWorse
    <3>2. Owed(s, f)'
      BY <1>1, <3>1, OwedKept DEF Quiet
    <3>3. Open(s)'
      BY <3>1, SameWorkflow
    <3> QED  BY <3>2, <3>3
  <2> QED  BY <2>1 DEF CacheOK, CacheNoWorse
<1>3. ASSUME NEW s \in Sagas
      PROVE  /\ PresentHolds(s, f)' /\ SnapshotCurrent(s, f)'
             /\ Advanced(s, f)' /\ DeviationsOwned(s, f)'
  <2>1. /\ PresentHolds(s, f) /\ SnapshotCurrent(s, f)
        /\ Advanced(s, f) /\ DeviationsOwned(s, f)
    BY <1>1 DEF FamilyInv
  <2>2. PresentHolds(s, f)'
    BY <1>1, <2>1, PresentHoldsKept
  <2>3. SnapshotCurrent(s, f)'
    BY <2>1 DEF SnapshotCurrent, Quiet, Read
  <2>4. Advanced(s, f)'
    BY <2>1 DEF Advanced, Quiet, Height, PausePosition, PatchPosition, ResumePosition
  <2>5. DeviationsOwned(s, f)'
    BY <1>1, <2>1, DeviationsKept DEF NoneResets
  <2> QED  BY <2>2, <2>3, <2>4, <2>5
<1> QED  BY <1>2, <1>3

LEMMA QuietFamily ==
    ASSUME Control, SentKept, IsolatedInv, NEW f \in Families, UNCHANGED <<request, saga, call>>,
           NoneSettlesAt(f), Shorter(f), Quiet(f), CacheNoWorse(f)
    PROVE  FamilyInv(f)'
<1>1. FamilyInv(f) /\ \A s \in Sagas : OutcomesOK(s)
  BY DEF IsolatedInv
<1>2. \A t \in Sagas : Open(t)' => Open(t)
  BY SameWorkflow
<1>3. InOrder(f)' /\ NoneOvertaken(f)' /\ EchoesHold(f)'
  BY <1>1, <1>2, InOrderKept, NoneOvertakenKept, EchoesHoldKept DEF FamilyInv
<1> QED  BY <1>3, QuietRest DEF FamilyInv

\* Only an answer settles anything while the workflows stand still.
LEMMA NoNewAnswer ==
    ASSUME Control, UNCHANGED <<request, saga, call>>, NEW f,
           \A t \in Sagas : call[t] # {} /\ Present(t).family = f /\ Answered(t)' => Answered(t)
    PROVE  NoneSettlesAt(f)
<1> SUFFICES ASSUME NEW t \in Sagas, NEW k \in 1 .. 12,
                    Settled(t, k)', (Numbered(t, k).family)' = f
             PROVE  Settled(t, k)
  BY DEF NoneSettlesAt
<1>1. /\ Height(t)' = Height(t) /\ PresentStep(t)' = PresentStep(t)
      /\ Unwinds(t)' <=> Unwinds(t)
      /\ Place(t, k)' = Place(t, k) /\ Numbered(t, k)' = Numbered(t, k)
  BY SameWorkflow
<1>2. CASE call[t] # {} /\ k = PresentStep(t) /\ Answered(t)'
  <2>1. Present(t).family = f
    BY <1>1, <1>2 DEF Present
  <2> QED  BY <1>2, <2>1 DEF Settled
<1>3. CASE \/ k \in 1 .. saga[t].done
           \/ /\ Unwinds(t)
              /\ k \in PlanLength + 1 .. PlanLength + saga[t].done + 1 - Height(t)
              /\ Intents(request[t])[Place(t, k)] \notin saga[t].errors
  BY <1>3 DEF Settled
<1> QED  BY <1>1, <1>2, <1>3 DEF Settled

\* What the present call of a workflow has heard, and what is remembered of it.
LEMMA AnswerCases ==
    ASSUME NEW t \in Sagas, saga'[t] = saga[t], request' = request, call'[t] = call[t],
           Answered(t)',
           reply'[t] = reply[t] \/ reply'[t] \notin {"changed", "unchanged"},
           \A done \in finished'[Present(t).family] :
                done.answer # "failed" => done \in finished[Present(t).family]
    PROVE  Answered(t)
<1>1. Present(t)' = Present(t) /\ PresentStep(t)' = PresentStep(t)
  BY SameWorkflow
<1>2. PICK u, n : u = Present(t) /\ n = PresentStep(t)
  OBVIOUS
<1>3. \/ reply'[t] \in {"changed", "unchanged"}
      \/ \E done \in finished'[u.family] : done.id = <<t, n>> /\ done.answer # "failed"
  BY <1>1, <1>2 DEF Answered
<1> QED  BY <1>2, <1>3 DEF Answered

-----------------------------------------------------------------------------
(* A step of a handler for an update that is not settled.                  *)

\* Update u, number n of move o, is the one that has the lock or is next.
Serves(f, o, n, u) ==
    /\ 1 \in DOMAIN queue[f] /\ u = queue[f][1] /\ u = Serving(f)
    /\ u.id = <<o, n>> /\ u.id[1] = o /\ u.id[2] = n
    /\ Sent(o, n) /\ u = Numbered(o, n) /\ Numbered(o, n).family = f

LEMMA ServesOne ==
    ASSUME Control, NEW f \in Families, queue[f] # <<>>
    PROVE  \E o \in Sagas, n \in 1 .. 12, u \in Update : Serves(f, o, n, u)
<1>1. 1 \in DOMAIN queue[f] /\ Serving(f) = queue[f][1] /\ Serving(f) \in Update
  BY BeingServed
<1>2. PICK o \in Sagas, n \in 1 .. 12 :
        /\ queue[f][1].id = <<o, n>> /\ queue[f][1].id[1] = o /\ queue[f][1].id[2] = n
        /\ Sent(o, n) /\ queue[f][1] = Numbered(o, n) /\ Numbered(o, n).family = f
  BY <1>1, QueuedNumber
<1> QED  BY <1>1, <1>2 DEF Serves

\* The move of an update that is not settled is open, and nothing after it is
\* settled at this family.
LEMMA UnsettledHead ==
    ASSUME Control, IsolatedInv, NEW f \in Families, NEW o \in Sagas, NEW n \in 1 .. 12,
           NEW u \in Update, Serves(f, o, n, u), ~Settled(o, n)
    PROVE  /\ Open(o)
           /\ \A k \in 1 .. 12 : Settled(o, k) /\ Numbered(o, k).family = f => k < n
           /\ \/ /\ saga[o].pc = "forward" /\ call[o] # {} /\ ~Answered(o)
                 /\ n = PresentStep(o) /\ n = saga[o].done + 1
              \/ Unwinds(o) /\ n = saga[o].done + 1
              \/ /\ Unwinds(o) /\ n > 6 /\ Place(o, n) \in 1 .. saga[o].done + 1
                 /\ n = Restored(o, Place(o, n))
<1>1. 1 \in DOMAIN queue[f] /\ queue[f][1].id = <<o, n>>
      /\ queue[f][1].id[1] = o /\ queue[f][1].id[2] = n
  BY DEF Serves
<1>2. ASSUME NEW k \in 1 .. 12, Settled(o, k), Numbered(o, k).family = f
      PROVE  k < n
  <2>1. NoneOvertaken(f)
    BY DEF IsolatedInv, FamilyInv
  <2>2. k <= n
    BY <1>1, <1>2, <2>1 DEF NoneOvertaken, PlanLength
  <2>3. k # n
    BY <1>2
  <2> QED  BY <2>2, <2>3
<1> QED  BY <1>1, <1>2, UnsettledInLine

\* What the move of such an update has not undone, and what the update asks for.
LEMMA UnsettledRestores ==
    ASSUME Control, IsolatedInv, NEW f \in Families, NEW o \in Sagas, NEW n \in 1 .. 12,
           NEW u \in Update, Serves(f, o, n, u), ~Settled(o, n), Unwinds(o)
    PROVE  /\ f \in FamiliesOf(request[o]) /\ request[o].source # request[o].target
           /\ ~Undone(o, PausePosition(o, f))
           /\ Undone(o, PatchPosition(o, f)) => u.config = {}
           /\ n = Restored(o, PausePosition(o, f)) =>
                u.desired = {saga[o].statuses[f].state}
           /\ n = Restored(o, PatchPosition(o, f)) =>
                u.config = {saga[o].statuses[f].datatypes}
<1>1. u = Numbered(o, n) /\ Numbered(o, n).family = f
  BY DEF Serves
<1>2. PICK d \in 0 .. 5 :
        /\ d = saga[o].done
        /\ saga[o].pc \in {"unwinding", "ended"}
        /\ \A k \in 1 .. 12 : Place(o, k) = d + 8 - k
        /\ \A p \in 1 .. 6 : Restored(o, p) = d + 8 - p
  BY UnwindFacts
<1>3. request[o].source # request[o].target
  <2>1. OutcomesOK(o)
    BY DEF IsolatedInv
  <2> QED  BY <2>1 DEF OutcomesOK, Unwinds, Moving, Rejected
<1>4. \/ n \in 1 .. 6 /\ n = d + 1
      \/ n \in 7 .. 12 /\ Place(o, n) \in 1 .. d + 1 /\ n = Restored(o, Place(o, n))
  <2>1. saga[o].pc # "forward"
    BY <1>2
  <2>2. \/ n = saga[o].done + 1
        \/ n > 6 /\ Place(o, n) \in 1 .. saga[o].done + 1 /\ n = Restored(o, Place(o, n))
    BY <2>1, UnsettledHead
  <2>3. CASE n = saga[o].done + 1
    BY <1>2, <2>3
  <2>4. CASE n > 6 /\ Place(o, n) \in 1 .. saga[o].done + 1 /\ n = Restored(o, Place(o, n))
    BY <1>2, <2>4
  <2> QED  BY <2>2, <2>3, <2>4
<1>5. f \in FamiliesOf(request[o])
  <2>1. CASE n \in 1 .. 6
    BY <1>1, <2>1, ForwardNumbered
  <2>2. CASE n \in 7 .. 12 /\ Place(o, n) \in 1 .. 6
    BY <1>1, <2>2, RestoreFamily, IntentFamily, WorkflowFacts
  <2> QED  BY <1>4, <2>1, <2>2
<1>6. PICK a \in {1, 2}, b \in {3, 4} :
        /\ a = PausePosition(o, f) /\ b = PatchPosition(o, f) /\ b = a + 2
        /\ ResumePosition(o, f) = a + 4
        /\ \A k \in 1 .. 6 : Intents(request[o])[k].family = f <=> k \in {a, a + 2, a + 4}
  BY <1>3, <1>5, Positions
<1>7. \A k \in 1 .. 12 : Settled(o, k) /\ Numbered(o, k).family = f => k < n
  BY UnsettledHead
\* The place of the update among those of the family.
<1>8. \/ n \in 1 .. 6 /\ n = d + 1 /\ n \in {a, a + 2, a + 4}
      \/ /\ n \in 7 .. 12
         /\ \E p \in {a, a + 2, a + 4} : p = Place(o, n) /\ p <= d + 1 /\ n = d + 8 - p
  <2>1. CASE n \in 1 .. 6 /\ n = d + 1
    BY <1>1, <1>6, <2>1, ForwardNumbered
  <2>2. CASE n \in 7 .. 12 /\ Place(o, n) \in 1 .. d + 1
    <3>1. Intents(request[o])[Place(o, n)].family = f
      BY <1>1, <2>2, RestoreFamily
    <3> QED  BY <1>2, <1>6, <2>2, <3>1
  <2> QED  BY <1>4, <2>1, <2>2
<1>9. ASSUME NEW p \in {a, a + 2}, p <= d + 1, Settled(o, Restored(o, p))
      PROVE  d + 8 - p < n
  <2>1. PICK q \in 1 .. 6, k \in 7 .. 12 : q = p /\ k = d + 8 - q
    BY <1>9
  <2>2. Restored(o, q) = k /\ Place(o, k) = q
    BY <1>2, <2>1
  <2>3. Numbered(o, k).family = f
    BY <1>6, <1>9, <2>1, <2>2, RestoreFamily
  <2>4. Settled(o, k)
    BY <1>9, <2>1, <2>2
  <2> QED  BY <1>7, <2>1, <2>3, <2>4
<1>10. ~Undone(o, a)
  <2>1. a <= d + 1
    BY <1>8
  <2>2. ~(d + 8 - a < n)
    BY <1>8
  <2> QED  BY <1>2, <1>9, <2>1, <2>2 DEF Undone
<1>11. ASSUME Undone(o, b) PROVE u.config = {}
  <2>1. CASE n \in 1 .. 6 /\ n = d + 1 /\ n \in {a, a + 2, a + 4}
    <3>1. n # b
      <4>1. SUFFICES ASSUME n = b PROVE FALSE
        OBVIOUS
      <4>2. Settled(o, Restored(o, a + 2))
        BY <1>2, <1>6, <1>11, <2>1, <4>1 DEF Undone
      <4> QED  BY <1>6, <1>9, <2>1, <4>1, <4>2
    <3>2. n \in {1, 2} \/ n \in {5, 6}
      BY <1>6, <2>1, <3>1
    <3> QED  BY <1>1, <2>1, <3>2, ForwardNumbered
  <2>2. ASSUME NEW p \in {a, a + 2, a + 4}, n \in 7 .. 12, p = Place(o, n),
               p <= d + 1, n = d + 8 - p
        PROVE  u.config = {}
    <3>1. p # b
      <4>1. SUFFICES ASSUME p = b PROVE FALSE
        OBVIOUS
      <4>2. Settled(o, Restored(o, a + 2))
        BY <1>2, <1>6, <1>11, <2>2, <4>1 DEF Undone
      <4> QED  BY <1>6, <1>9, <2>2, <4>1, <4>2
    <3>2. p \in 1 .. 6 /\ (p \in {1, 2} \/ p \in {5, 6})
      BY <1>6, <2>2, <3>1
    <3> QED  BY <1>1, <2>2, <3>2, RestoreNumbered
  <2> QED  BY <1>8, <2>1, <2>2
<1>12. ASSUME NEW p \in 1 .. 6, n = Restored(o, p), Intents(request[o])[p].family = f
       PROVE  /\ p \in {1, 2} => u.desired = {saga[o].statuses[f].state}
              /\ p \in {3, 4} => u.config = {saga[o].statuses[f].datatypes}
  <2>1. n = d + 8 - p
    BY <1>2, <1>12
  <2>2. n \in 7 .. 12 /\ p = Place(o, n)
    BY <1>2, <1>8, <1>12, <2>1
  <2>3. /\ p \in {1, 2} => Numbered(o, n).desired = {saga[o].statuses[f].state}
        /\ p \in {3, 4} => Numbered(o, n).config = {saga[o].statuses[f].datatypes}
    <3>1. PICK k \in 7 .. 12 : k = n /\ p = Place(o, k)
      BY <2>2
    <3>2. /\ p \in {1, 2} => Numbered(o, k).desired = {saga[o].statuses[f].state}
          /\ p \in {3, 4} => Numbered(o, k).config = {saga[o].statuses[f].datatypes}
      BY <1>12, <3>1, RestoreNumbered
    <3> QED  BY <3>1, <3>2
  <2> QED  BY <1>1, <1>12, <2>3
<1>13. /\ n = Restored(o, a) => u.desired = {saga[o].statuses[f].state}
       /\ n = Restored(o, b) => u.config = {saga[o].statuses[f].datatypes}
  <2>1. a \in 1 .. 6 /\ b \in 1 .. 6 /\ Intents(request[o])[a].family = f
        /\ Intents(request[o])[b].family = f
    BY <1>6
  <2> QED  BY <1>12, <2>1
<1> QED  BY <1>3, <1>5, <1>6, <1>10, <1>11, <1>13

\* The step settles at f no more than update n of move o.
SettlesOnly(f, o, n) ==
    \A t \in Sagas, k \in 1 .. 12 :
        Settled(t, k)' /\ (Numbered(t, k).family)' = f => Settled(t, k) \/ (t = o /\ k = n)

\* It does to the family what update u is for.
Scoped(f, u) ==
    /\ state'[f] # state[f] => u.command \in {"pause", "resume"} \/ u.desired # {}
    /\ datatypes'[f] # datatypes[f] => u.config # {}

LEMMA PresentSettled ==
    ASSUME Control, NEW s \in Sagas, call[s] # {}, Settled(s, PresentStep(s))
    PROVE  Answered(s)
<1>1. PICK n \in 1 .. 12 : n = PresentStep(s)
  BY CallIsGenuine
<1>2. Moving(s)
  BY WorkflowFacts
<1>3. CASE saga[s].pc = "forward"
  <2>1. n = saga[s].done + 1 /\ ~Unwinds(s) /\ saga[s].done \in 0 .. 6
    BY <1>1, <1>3, ForwardFacts
  <2> QED  BY <1>1, <2>1 DEF Settled
<1>4. CASE saga[s].pc = "unwinding"
  <2>1. PICK d \in 0 .. 5, h \in 1 .. 6 :
            d = saga[s].done /\ h = Height(s) /\ h <= d + 1 /\ n = d + 8 - h
    BY <1>1, <1>4, UnwindFacts DEF Unwinds
  <2>2. n \notin 1 .. d /\ n \notin 7 .. 6 + d + 1 - h
    BY <2>1
  <2> QED  BY <1>1, <2>1, <2>2 DEF Settled, PlanLength
<1> QED  BY <1>2, <1>3, <1>4 DEF Moving

\* A workflow that waits has not gone over to another family unanswered.
LEMMA UnsettledPresent ==
    ASSUME Control, SentKept, IsolatedInv, NEW f \in Families, NEW o \in Sagas, NEW n \in 1 .. 12,
           NEW u \in Update, Serves(f, o, n, u), ~Settled(o, n),
           UNCHANGED <<request, saga, call>>, SettlesOnly(f, o, n),
           Settled(o, n)' => InEffect(f, u)', NEW s \in Sagas
    PROVE  PresentHolds(s, f)'
<1>1. SUFFICES ASSUME call[s] # {}, Present(s).family = f, Answered(s)'
               PROVE  InEffect(f, Present(s))'
  BY SameWorkflow DEF PresentHolds
<1>2. PICK m \in 1 .. 12 : m = PresentStep(s)
  BY <1>1, CallIsGenuine
<1>3. PresentStep(s)' = m /\ Present(s) = Numbered(s, m) /\ Numbered(s, m)' = Numbered(s, m)
      /\ Present(s)' = Present(s)
  BY <1>2, SameWorkflow DEF Present
<1>4. Settled(s, m)'
  BY <1>1, <1>3 DEF Settled
<1>5. (Numbered(s, m).family)' = f
  BY <1>1, <1>3
<1>6. Settled(s, m) \/ (s = o /\ m = n)
  BY <1>4, <1>5 DEF SettlesOnly
<1>7. ASSUME Settled(s, m) PROVE FALSE
  <2>1. Moving(s)
    BY <1>1, WorkflowFacts
  <2>2. s = o
    <3>1. Open(s)
      BY <2>1 DEF Moving, Open, Active
    <3> QED  BY <3>1, UnsettledHead DEF IsolatedInv, MovesAreApart
  <2>3. m < n
    BY <1>1, <1>3, <1>7, <2>2, UnsettledHead
  <2>4. Sent(o, n)
    BY DEF Serves
  <2>5. n <= m
    BY <1>1, <1>2, <2>2, <2>4, PresentIsLast
  <2> QED  BY <2>3, <2>5
<1>8. s = o /\ m = n
  BY <1>6, <1>7
<1>9. Present(s)' = u
  BY <1>3, <1>8 DEF Serves
<1>10. InEffect(f, u)'
  BY <1>4, <1>8
<1> QED  BY <1>9, <1>10

\* A move that has been read for, but not begun, has nothing in line.
LEMMA UnsettledSnapshot ==
    ASSUME Control, IsolatedInv, NEW f \in Families, NEW o \in Sagas, NEW n \in 1 .. 12,
           NEW u \in Update, Serves(f, o, n, u), ~Settled(o, n),
           saga' = saga, NEW s \in Sagas
    PROVE  SnapshotCurrent(s, f)'
<1>1. SUFFICES ASSUME saga[s].pc \in {"read target", "validating"} PROVE FALSE
  BY DEF SnapshotCurrent
<1>2. s = o
  <2>1. Open(s)
    BY <1>1 DEF Open, Active
  <2> QED  BY <2>1, UnsettledHead DEF IsolatedInv, MovesAreApart
<1>3. ~Sent(o, n)
  BY <1>1, <1>2, NothingSent DEF NotBegun, IsolatedInv
<1> QED  BY <1>3 DEF Serves

\* A forward step does what it is for.
LEMMA UnsettledAdvances ==
    ASSUME Control, IsolatedInv, NEW f \in Families, NEW o \in Sagas, NEW n \in 1 .. 12,
           NEW u \in Update, Serves(f, o, n, u), ~Settled(o, n),
           UNCHANGED <<request, saga>>, Scoped(f, u), NEW s \in Sagas
    PROVE  Advanced(s, f)'
<1>1. SUFFICES ASSUME saga[s].pc = "forward", f \in FamiliesOf(request[s])
               PROVE  Advanced(s, f)'
  BY DEF Advanced
<1>2. s = o
  <2>1. Open(s)
    BY <1>1 DEF Open, Active
  <2> QED  BY <2>1, UnsettledHead DEF IsolatedInv, MovesAreApart
<1>3. /\ Advanced(s, f) /\ request[s].source # request[s].target
  BY <1>1 DEF IsolatedInv, FamilyInv, OutcomesOK, Moving, Rejected
<1>4. PICK a \in {1, 2} :
        /\ a = PausePosition(s, f)
        /\ PatchPosition(s, f) = a + 2 /\ ResumePosition(s, f) = a + 4
        /\ \A k \in 1 .. 6 : Intents(request[s])[k].family = f <=> k \in {a, a + 2, a + 4}
  BY <1>1, <1>3, Positions
<1>5. PICK m \in 1 .. 6 : m = n /\ saga[s].done = m - 1 /\ Height(s) = m
  <2>1. ~Unwinds(s)
    BY <1>1, ForwardFacts
  <2>2. call[s] # {} /\ n = saga[s].done + 1
    BY <1>1, <1>2, <2>1, UnsettledHead
  <2> QED  BY <1>1, <2>2, ForwardFacts
<1>6. u = Numbered(s, m) /\ Intents(request[s])[m].family = f
  BY <1>2, <1>5, ForwardNumbered DEF Serves
<1>7. m \in {a, a + 2, a + 4}
  BY <1>4, <1>6
<1>8. /\ m = a => u.config = {}
      /\ m = a + 2 => u.command = "patch" /\ u.desired = {}
      /\ m = a + 4 => u.config = {}
  BY <1>4, <1>6, ForwardNumbered
<1>9. /\ m = a => datatypes'[f] = datatypes[f]
      /\ m = a + 2 => state'[f] = state[f]
      /\ m = a + 4 => datatypes'[f] = datatypes[f]
  BY <1>8 DEF Scoped
<1>10. /\ m < a + 2 => datatypes[f] = saga[s].statuses[f].datatypes
       /\ m - 1 >= a /\ m < a + 4 => state[f] = "SUSPENDED"
       /\ m - 1 >= a + 2 => datatypes[f] = NewConfig(request[s], saga[s].statuses, f)
  BY <1>1, <1>3, <1>4, <1>5 DEF Advanced
<1>11. /\ ~(m < a) /\ ~(m - 1 >= a + 4)
       /\ m < a + 2 => datatypes'[f] = saga[s].statuses[f].datatypes
       /\ m - 1 >= a /\ m < a + 4 => state'[f] = "SUSPENDED"
       /\ m - 1 >= a + 2 => datatypes'[f] = NewConfig(request[s], saga[s].statuses, f)
  BY <1>4, <1>7, <1>9, <1>10
<1>12. /\ PausePosition(s, f)' = a /\ PatchPosition(s, f)' = a + 2
       /\ ResumePosition(s, f)' = a + 4
       /\ Height(s)' = m /\ saga'[s].done = m - 1
  BY <1>4, <1>5 DEF PausePosition, PatchPosition, ResumePosition, Height
<1> QED  BY <1>1, <1>11, <1>12 DEF Advanced

\* A restore undoes what it is for, and nothing that has been undone is done again.
LEMMA UnsettledDeviations ==
    ASSUME Control, SentKept, IsolatedInv, NEW f \in Families, NEW o \in Sagas, NEW n \in 1 .. 12,
           NEW u \in Update, Serves(f, o, n, u), ~Settled(o, n),
           UNCHANGED <<request, saga, call>>, SettlesOnly(f, o, n), Scoped(f, u),
           Settled(o, n)' => InEffect(f, u)', NEW s \in Sagas
    PROVE  DeviationsOwned(s, f)'
<1>1. SUFFICES ASSUME Unwinds(s), f \in FamiliesOf(request[s]),
                      Open(s) \/ \A t \in Sagas \ {s} : saga[t].pc = "idle"
               PROVE  /\ Undone(s, PatchPosition(s, f))' =>
                            datatypes'[f] = saga[s].statuses[f].datatypes
                      /\ Undone(s, PausePosition(s, f))' =>
                            state'[f] = saga[s].statuses[f].state
  <2>1. (Unwinds(s)' <=> Unwinds(s)) /\ (Open(s)' <=> Open(s))
    BY SameWorkflow
  <2> QED  BY <2>1 DEF DeviationsOwned
<1>2. s = o
  <2>1. Open(o)
    BY UnsettledHead
  <2>2. CASE Open(s)
    BY <2>1, <2>2 DEF IsolatedInv, MovesAreApart
  <2>3. CASE \A t \in Sagas \ {s} : saga[t].pc = "idle"
    <3>1. saga[o].pc # "idle"
      <4>1. SagaOK(o)
        BY WorkflowFacts
      <4> QED  BY <2>1, <4>1 DEF Open, Active, SagaOK
    <3> QED  BY <2>3, <3>1
  <2> QED  BY <1>1, <2>2, <2>3
<1>3. /\ request[o].source # request[o].target
      /\ ~Undone(o, PausePosition(o, f))
      /\ Undone(o, PatchPosition(o, f)) => u.config = {}
      /\ n = Restored(o, PausePosition(o, f)) => u.desired = {saga[o].statuses[f].state}
      /\ n = Restored(o, PatchPosition(o, f)) => u.config = {saga[o].statuses[f].datatypes}
  BY <1>1, <1>2, UnsettledRestores
<1>4. PICK a \in 1 .. 6, b \in 1 .. 6 :
        /\ a = PausePosition(o, f) /\ b = PatchPosition(o, f)
        /\ Intents(request[o])[a].family = f /\ Intents(request[o])[b].family = f
  BY <1>1, <1>2, <1>3, Positions
<1>5. PausePosition(o, f)' = a /\ PatchPosition(o, f)' = b
  BY <1>4 DEF PausePosition, PatchPosition
<1>6. PICK d \in 0 .. 5 :
        /\ d = saga[o].done
        /\ \A k \in 1 .. 12 : Place(o, k) = d + 8 - k
        /\ \A p \in 1 .. 6 : Restored(o, p) = d + 8 - p
  BY <1>1, <1>2, UnwindFacts
\* What is undone by this step is undone by this update.
<1>7. ASSUME NEW p \in 1 .. 6, Intents(request[o])[p].family = f, Undone(o, p)', ~Undone(o, p)
      PROVE  n = Restored(o, p) /\ InEffect(f, u)'
  <2>1. p <= d + 1
    BY <1>6, <1>7 DEF Undone
  <2>2. PICK k \in 7 .. 12 : k = Restored(o, p) /\ k = d + 8 - p
    BY <1>6, <1>7, <2>1
  <2>3. Restored(o, p)' = k
    BY <2>2, SameWorkflow
  <2>4. Settled(o, k)'
    <3>1. Settled(o, Restored(o, p))'
      BY <1>6, <1>7, <2>1 DEF Undone
    <3> QED  BY <2>3, <3>1
  <2>5. ~Settled(o, k)
    BY <1>7, <2>2 DEF Undone
  <2>6. (Numbered(o, k).family)' = f
    <3>1. Place(o, k) = p
      BY <1>6, <1>7, <2>2
    <3>2. Numbered(o, k).family = f
      BY <1>7, <3>1, RestoreFamily
    <3> QED  BY <3>2, SameWorkflow
  <2>7. k = n
    BY <2>4, <2>5, <2>6 DEF SettlesOnly
  <2> QED  BY <2>2, <2>4, <2>7
<1>8. ASSUME Undone(o, b)'
      PROVE  datatypes'[f] = saga[o].statuses[f].datatypes
  <2>1. CASE Undone(o, b)
    <3>1. datatypes[f] = saga[o].statuses[f].datatypes
      <4>1. DeviationsOwned(o, f)
        BY DEF IsolatedInv, FamilyInv
      <4> QED  BY <1>1, <1>2, <1>4, <2>1, <4>1 DEF DeviationsOwned
    <3>2. u.config = {}
      BY <1>3, <1>4, <2>1
    <3> QED  BY <3>1, <3>2 DEF Scoped
  <2>2. CASE ~Undone(o, b)
    <3>1. n = Restored(o, b) /\ InEffect(f, u)'
      BY <1>4, <1>7, <1>8, <2>2
    <3>2. u.config = {saga[o].statuses[f].datatypes}
      BY <1>3, <1>4, <3>1
    <3> QED  BY <3>1, <3>2 DEF InEffect
  <2> QED  BY <2>1, <2>2
<1>9. ASSUME Undone(o, a)'
      PROVE  state'[f] = saga[o].statuses[f].state
  <2>1. ~Undone(o, a)
    BY <1>3, <1>4
  <2>2. n = Restored(o, a) /\ InEffect(f, u)'
    BY <1>4, <1>7, <1>9, <2>1
  <2>3. u.desired = {saga[o].statuses[f].state}
    BY <1>3, <1>4, <2>2
  <2> QED  BY <2>2, <2>3 DEF InEffect
<1> QED  BY <1>2, <1>5, <1>8, <1>9

LEMMA UnsettledLine ==
    ASSUME Control, SentKept, IsolatedInv, NEW f \in Families, NEW o \in Sagas, NEW n \in 1 .. 12,
           NEW u \in Update, Serves(f, o, n, u), ~Settled(o, n),
           UNCHANGED <<request, saga, call>>, Shorter(f), SettlesOnly(f, o, n),
           Settled(o, n)' => InEffect(f, u)'
    PROVE  InOrder(f)' /\ NoneOvertaken(f)' /\ EchoesHold(f)'
<1>1. InOrder(f) /\ NoneOvertaken(f) /\ \A s \in Sagas : OutcomesOK(s)
  BY DEF IsolatedInv, FamilyInv
<1>2. InOrder(f)'
  <2>1. \A t \in Sagas : Open(t)' => Open(t)
    BY SameWorkflow
  <2> QED  BY <1>1, <2>1, InOrderKept
<1>3. PICK d \in {0, 1} : \A k \in DOMAIN queue'[f] :
        k \in Nat /\ k + d \in DOMAIN queue[f] /\ queue'[f][k] = queue[f][k + d]
  BY DEF Shorter
<1>4. ASSUME NEW k \in DOMAIN queue'[f], NEW m \in 1 .. 12,
             Settled(queue[f][k].id[1], m)', (Numbered(queue[f][k].id[1], m).family)' = f
      PROVE  m <= queue'[f][k].id[2]
  <2>1. k + d \in DOMAIN queue[f] /\ queue'[f][k] = queue[f][k + d]
    BY <1>3, <1>4
  <2>2. PICK t \in Sagas, l \in 1 .. 12 : queue[f][k + d].id[1] = t /\ queue[f][k + d].id[2] = l
    BY <2>1, QueuedNumber
  <2>3. Settled(t, m)' /\ (Numbered(t, m).family)' = f
    BY <1>4, <2>1, <2>2
  <2>4. Settled(t, m) \/ (t = o /\ m = n)
    BY <2>3 DEF SettlesOnly
  <2>5. CASE Settled(t, m)
    <3>1. Numbered(t, m).family = f
      BY <2>3, SameWorkflow
    <3> QED  BY <1>1, <2>1, <2>2, <2>5, <3>1 DEF NoneOvertaken, PlanLength
  <2>6. CASE t = o /\ m = n
    <3>1. 1 \in DOMAIN queue[f] /\ queue[f][1].id[1] = o /\ queue[f][1].id[2] = n
      BY DEF Serves
    <3>2. CASE k + d = 1
      BY <2>1, <2>2, <2>6, <3>1, <3>2
    <3>3. CASE 1 < k + d
      BY <1>1, <2>1, <2>2, <2>6, <3>1, <3>3 DEF InOrder
    <3> QED  BY <2>1, <3>2, <3>3, Typed, QueueDomain
  <2> QED  BY <2>4, <2>5, <2>6
<1>5. ASSUME NEW k \in DOMAIN queue'[f], Settled(queue[f][k].id[1], queue[f][k].id[2])'
      PROVE  InEffect(f, queue[f][k])'
  <2>1. k + d \in DOMAIN queue[f] /\ queue'[f][k] = queue[f][k + d]
    BY <1>3, <1>5
  <2>2. PICK t \in Sagas, l \in 1 .. 12, v \in Update :
            /\ v = queue[f][k + d] /\ v.id[1] = t /\ v.id[2] = l
            /\ v = Numbered(t, l) /\ Numbered(t, l).family = f
    BY <2>1, QueuedNumber, QueuedUpdate
  <2>3. Settled(t, l)'
    BY <1>5, <2>1, <2>2
  <2>4. (Numbered(t, l).family)' = f
    BY <2>2, SameWorkflow
  <2>5. Settled(t, l) \/ (t = o /\ l = n)
    BY <2>3, <2>4 DEF SettlesOnly
  <2>6. ~Settled(t, l)
    <3>1. 1 \in DOMAIN queue[f] /\ ~Settled(queue[f][1].id[1], queue[f][1].id[2])
      BY DEF Serves
    <3>2. ~Settled(queue[f][k + d].id[1], queue[f][k + d].id[2])
      BY <2>1, <3>1, NoneSettledBehind
    <3> QED  BY <2>2, <3>2
  <2>7. InEffect(f, u)' /\ v = u
    BY <2>2, <2>3, <2>5, <2>6 DEF Serves
  <2>8. queue'[f][k] = u
    BY <2>1, <2>2, <2>7
  <2> QED  BY <2>7, <2>8
<1>6. NoneOvertaken(f)'
  BY <1>4 DEF NoneOvertaken, PlanLength
<1>7. EchoesHold(f)'
  BY <1>5 DEF EchoesHold
<1> QED  BY <1>2, <1>6, <1>7

LEMMA UnsettledStep ==
    ASSUME Control, SentKept, IsolatedInv, NEW f \in Families, NEW o \in Sagas, NEW n \in 1 .. 12,
           NEW u \in Update, Serves(f, o, n, u), ~Settled(o, n),
           UNCHANGED <<request, saga, call>>, Shorter(f), SettlesOnly(f, o, n), Scoped(f, u),
           Settled(o, n)' => InEffect(f, u)', CacheOK(f)'
    PROVE  FamilyInv(f)'
<1>1. InOrder(f)' /\ NoneOvertaken(f)' /\ EchoesHold(f)'
  BY UnsettledLine
<1>2. ASSUME NEW s \in Sagas
      PROVE  /\ PresentHolds(s, f)' /\ SnapshotCurrent(s, f)'
             /\ Advanced(s, f)' /\ DeviationsOwned(s, f)'
  <2>1. PresentHolds(s, f)'
    BY <1>2, UnsettledPresent
  <2>2. SnapshotCurrent(s, f)'
    BY <1>2, UnsettledSnapshot
  <2>3. Advanced(s, f)'
    BY <1>2, UnsettledAdvances
  <2>4. DeviationsOwned(s, f)'
    BY <1>2, UnsettledDeviations
  <2> QED  BY <2>1, <2>2, <2>3, <2>4
<1> QED  BY <1>1, <1>2 DEF FamilyInv

-----------------------------------------------------------------------------
(* What a handler carries out.                                             *)

LEMMA ServedRestore ==
    ASSUME Control, NEW f \in Families, NEW o \in Sagas, NEW n \in 7 .. 12, NEW u \in Update,
           Serves(f, o, n, u)
    PROVE  /\ u.command = "restore"
           /\ \/ u.desired = {} /\ \E c : u.config = {c}
              \/ u.desired \in {{"SUSPENDED"}, {"RUNNING"}} /\ u.config = {}
<1>1. u = Numbered(o, n) /\ Sent(o, n)
  BY DEF Serves
<1>2. u.command = "restore"
  <2>1. u = RestoreUpdate(o, n)
    BY <1>1 DEF Numbered, PlanLength
  <2> QED  BY <2>1 DEF RestoreUpdate
<1>3. \/ u.command \in {"pause", "resume"}
      \/ u.command = "patch" /\ u.config # {}
      \/ /\ u.command = "restore"
         /\ u.desired = {} /\ \E c : u.config = {c}
      \/ /\ u.command = "restore"
         /\ u.desired \in {{"SUSPENDED"}, {"RUNNING"}} /\ u.config = {}
  <2>1. PICK k \in 1 .. 12 : k = n
    OBVIOUS
  <2>2. Sent(o, k) /\ u = Numbered(o, k)
    BY <1>1, <2>1
  <2> QED  BY <2>2, NumberedFacts
<1> QED  BY <1>2, <1>3

LEMMA ServedForward ==
    ASSUME Control, NEW f \in Families, NEW o \in Sagas, NEW n \in 1 .. 6, NEW u \in Update,
           Serves(f, o, n, u)
    PROVE  u.desired = {} /\ u.command \in {"pause", "patch", "resume"}
<1>1. u = Numbered(o, n) /\ Sent(o, n)
  BY DEF Serves
<1>2. n \in {1, 2} \/ n \in {3, 4} \/ n \in {5, 6}
  OBVIOUS
<1> QED  BY <1>1, <1>2, ForwardNumbered

Suspends(u) ==
    /\ \/ u.command = "pause" /\ u.desired = {}
       \/ u.command = "restore" /\ u.desired = {"SUSPENDED"}
    /\ u.config = {}

Resumes(u) ==
    /\ \/ u.command = "resume" /\ u.desired = {}
       \/ u.command = "restore" /\ u.desired = {"RUNNING"}
    /\ u.config = {}

Patches(u) == u.command \in {"patch", "restore"} /\ u.desired = {} /\ \E c : u.config = {c}

LEMMA UpdateKinds ==
    ASSUME Control, NEW f \in Families, NEW o \in Sagas, NEW n \in 1 .. 12, NEW u \in Update,
           Serves(f, o, n, u)
    PROVE  Suspends(u) \/ Resumes(u) \/ Patches(u)
<1>1. CASE n <= 6
  <2>1. PICK k \in 1 .. 6 : k = n /\ u = Numbered(o, k)
    BY <1>1 DEF Serves
  <2>2. CASE k \in {1, 2}
    BY <2>1, <2>2, ForwardNumbered DEF Suspends
  <2>3. CASE k \in {3, 4}
    BY <2>1, <2>3, ForwardNumbered DEF Patches
  <2>4. CASE k \in {5, 6}
    BY <2>1, <2>4, ForwardNumbered DEF Resumes
  <2> QED  BY <2>2, <2>3, <2>4
<1>2. CASE n > 6
  <2>1. /\ u.command = "restore"
        /\ \/ u.desired = {} /\ \E c : u.config = {c}
           \/ u.desired = {"SUSPENDED"} /\ u.config = {}
           \/ u.desired = {"RUNNING"} /\ u.config = {}
    <3>1. PICK k \in 7 .. 12 : k = n
      BY <1>2
    <3>2. Serves(f, o, k, u)
      BY <3>1
    <3> QED  BY <3>2, ServedRestore
  <2> QED  BY <2>1 DEF Suspends, Resumes, Patches
<1> QED  BY <1>1, <1>2

LEMMA Carrying ==
    ASSUME Control, NEW f \in Families, NEW o \in Sagas, NEW n \in 1 .. 12, NEW u \in Update,
           Serves(f, o, n, u), Busy(f)
    PROVE  /\ Suspends(u) => /\ Head(steps[f]) \in {"trigger_savepoint", "suspend_job"}
                             /\ steps[f] = PauseSteps \/ steps[f] = <<"suspend_job">>
           /\ Resumes(u) => Head(steps[f]) = "resume_job" /\ steps[f] = <<"resume_job">>
           /\ Patches(u) => Head(steps[f]) = "patch_configmap" /\ steps[f] = <<"patch_configmap">>
<1>1. /\ u.command = "pause" => PauseLeft(f)
      /\ u.command = "resume" => steps[f] = <<"resume_job">>
      /\ u.command = "patch" => steps[f] = <<"patch_configmap">>
      /\ u.command = "restore" =>
            /\ u.desired = {} => steps[f] = <<"patch_configmap">>
            /\ u.desired = {"SUSPENDED"} => PauseLeft(f)
            /\ u.desired = {"RUNNING"} => steps[f] = <<"resume_job">>
  <2>1. HandlerOK(f) /\ u = Serving(f)
    BY DEF Control, Serves
  <2> QED  BY <2>1 DEF HandlerOK
<1>2. Suspends(u) => steps[f] = PauseSteps \/ steps[f] = <<"suspend_job">>
  BY <1>1 DEF Suspends, PauseLeft
<1>3. Resumes(u) => steps[f] = <<"resume_job">>
  BY <1>1 DEF Resumes
<1>4. Patches(u) => steps[f] = <<"patch_configmap">>
  BY <1>1 DEF Patches
<1>5. /\ Head(PauseSteps) = "trigger_savepoint"
      /\ Head(<<"suspend_job">>) = "suspend_job"
      /\ Head(<<"resume_job">>) = "resume_job"
      /\ Head(<<"patch_configmap">>) = "patch_configmap"
  BY StepsAsSequences
<1> QED  BY <1>2, <1>3, <1>4, <1>5

\* The effect on the family of one execution of its handler's next activity.
LEMMA EffectOnFamily ==
    ASSUME Control, NEW f \in Families, NEW o \in Sagas, NEW n \in 1 .. 12, NEW u \in Update,
           Serves(f, o, n, u), Busy(f), Effect(f)
    PROVE  /\ \A g \in Families \ {f} : datatypes'[g] = datatypes[g]
           /\ Suspends(u) => /\ datatypes'[f] = datatypes[f]
                             /\ IF steps[f] = <<"suspend_job">> THEN state'[f] = "SUSPENDED"
                                ELSE state'[f] = state[f]
           /\ Resumes(u) => datatypes'[f] = datatypes[f] /\ state'[f] = "RUNNING"
           /\ Patches(u) => u.config = {datatypes'[f]} /\ state'[f] = state[f]
<1>1. datatypes \in [Families -> SUBSET Datatypes]
  BY Typed DEF ClusterTypeOK
<1>2. u = Serving(f)
  BY DEF Serves
<1>3. PICK config : /\ Mutate(Head(steps[f]), f, config)
                    /\ Head(steps[f]) = "patch_configmap" => config \in u.config
  BY <1>2 DEF Effect
<1>4. /\ Head(steps[f]) # "patch_configmap" => datatypes' = datatypes
      /\ Head(steps[f]) = "patch_configmap" =>
            datatypes' = [datatypes EXCEPT ![f] = config] /\ state' = state
  BY <1>3 DEF Mutate, TriggerSavepoint, SuspendJob, ResumeJob, PatchConfigmap
<1>5. \A g \in Families \ {f} : datatypes'[g] = datatypes[g]
  BY <1>1, <1>4
<1>6. ASSUME Suspends(u)
      PROVE  /\ datatypes'[f] = datatypes[f]
             /\ IF steps[f] = <<"suspend_job">> THEN state'[f] = "SUSPENDED"
                ELSE state'[f] = state[f]
  <2>1. CASE steps[f] = <<"suspend_job">>
    <3>1. Head(steps[f]) = "suspend_job"
      BY <2>1, StepsAsSequences
    <3> QED  BY <1>4, <2>1, <3>1, EffectFacts
  <2>2. CASE steps[f] # <<"suspend_job">>
    <3>1. Head(steps[f]) = "trigger_savepoint"
      BY <1>6, <2>2, Carrying, StepsAsSequences
    <3> QED  BY <1>4, <2>2, <3>1, EffectFacts
  <2> QED  BY <2>1, <2>2
<1>7. ASSUME Resumes(u)
      PROVE  datatypes'[f] = datatypes[f] /\ state'[f] = "RUNNING"
  BY <1>4, <1>7, Carrying, EffectFacts
<1>8. ASSUME Patches(u)
      PROVE  u.config = {datatypes'[f]} /\ state'[f] = state[f]
  <2>1. Head(steps[f]) = "patch_configmap"
    BY <1>8, Carrying
  <2>2. datatypes'[f] = config /\ config \in u.config
    BY <1>1, <1>3, <1>4, <2>1
  <2>3. PICK c : u.config = {c}
    BY <1>8 DEF Patches
  <2> QED  BY <1>4, <2>1, <2>2, <2>3
<1> QED  BY <1>5, <1>6, <1>7, <1>8

LEMMA EffectScoped ==
    ASSUME Control, NEW f \in Families, NEW o \in Sagas, NEW n \in 1 .. 12, NEW u \in Update,
           Serves(f, o, n, u), UNCHANGED cluster \/ (Busy(f) /\ Effect(f))
    PROVE  Scoped(f, u)
<1>1. CASE UNCHANGED cluster
  BY <1>1 DEF Scoped, cluster
<1>2. CASE Busy(f) /\ Effect(f)
  <2>1. CASE Suspends(u)
    <3>1. datatypes'[f] = datatypes[f]
      BY <1>2, <2>1, EffectOnFamily
    <3> QED  BY <2>1, <3>1 DEF Suspends, Scoped
  <2>2. CASE Resumes(u)
    <3>1. datatypes'[f] = datatypes[f]
      BY <1>2, <2>2, EffectOnFamily
    <3> QED  BY <2>2, <3>1 DEF Resumes, Scoped
  <2>3. CASE Patches(u)
    <3>0. u.config = {datatypes'[f]} /\ state'[f] = state[f]
      BY <1>2, <2>3, EffectOnFamily
    <3>1. state'[f] = state[f] /\ u.config # {}
      BY <3>0
    <3> QED  BY <3>1 DEF Scoped
  <2> QED  BY <2>1, <2>2, <2>3, UpdateKinds
<1> QED  BY <1>1, <1>2

\* An update that is carried out once more, though it is settled, changes nothing.
LEMMA EffectQuiet ==
    ASSUME Control, IsolatedInv, NEW f \in Families, NEW o \in Sagas, NEW n \in 1 .. 12,
           NEW u \in Update, Serves(f, o, n, u), Settled(o, n),
           UNCHANGED cluster \/ (Busy(f) /\ Effect(f))
    PROVE  Quiet(f)
<1>1. CASE UNCHANGED cluster
  BY <1>1 DEF Quiet, cluster
<1>2. CASE Busy(f) /\ Effect(f)
  <2>1. InEffect(f, u)
    BY DEF IsolatedInv, FamilyInv, EchoesHold, Serves
  <2>2. CASE Suspends(u)
    <3>1. state[f] = "SUSPENDED"
      BY <2>1, <2>2 DEF InEffect, Suspends
    <3> QED  BY <1>2, <2>2, <3>1, EffectOnFamily DEF Quiet
  <2>3. CASE Resumes(u)
    <3>1. state[f] = "RUNNING"
      BY <2>1, <2>3 DEF InEffect, Resumes
    <3> QED  BY <1>2, <2>3, <3>1, EffectOnFamily DEF Quiet
  <2>4. CASE Patches(u)
    <3>1. u.config \subseteq {datatypes[f]}
      BY <2>1 DEF InEffect
    <3>2. u.config = {datatypes'[f]} /\ state'[f] = state[f]
      BY <1>2, <2>4, EffectOnFamily
    <3> QED  BY <3>1, <3>2 DEF Quiet
  <2> QED  BY <2>2, <2>3, <2>4, UpdateKinds
<1> QED  BY <1>1, <1>2

-----------------------------------------------------------------------------
(* What an answer settles.                                                 *)

LEMMA PresentCall ==
    ASSUME Control, NEW t \in Sagas, call[t] # {}
    PROVE  \E m \in 1 .. 12, v \in Update :
             /\ m = PresentStep(t) /\ v = Present(t) /\ v = Numbered(t, m)
             /\ call[t] = {v} /\ v.id = <<t, m>> /\ Sent(t, m)
<1>1. PICK v \in Update : call[t] = {v}
  <2>1. call[t] = {Present(t)} /\ call[t] \subseteq Update
    BY WorkflowFacts DEF CallOK, Present
  <2> QED  BY <2>1
<1>2. v = Present(t) /\ v.id = <<t, PresentStep(t)>> /\ PresentStep(t) \in 1 .. 12 /\ Genuine(v)
  BY <1>1, CallIsGenuine DEF Present
<1>3. PICK m \in 1 .. 12 : m = PresentStep(t)
  BY <1>2
<1>4. v = Numbered(t, m) /\ Sent(t, m)
  BY <1>2, <1>3 DEF Present, Genuine
<1> QED  BY <1>1, <1>2, <1>3, <1>4

\* Nothing is settled by a step that gives no good answer.
LEMMA NothingSettles ==
    ASSUME Control, UNCHANGED <<request, saga, call>>,
           \A t \in Sagas : reply'[t] = reply[t] \/ reply'[t] \notin {"changed", "unchanged"},
           \A h \in Families : \A done \in finished'[h] :
                done.answer # "failed" => done \in finished[h],
           NEW g
    PROVE  NoneSettlesAt(g)
<1>1. ASSUME NEW t \in Sagas, call[t] # {}, Answered(t)' PROVE Answered(t)
  <2>1. Present(t).family \in Families
    <3>1. PICK v \in Update : v = Present(t)
      BY <1>1, PresentCall
    <3> QED  BY <3>1 DEF Update
  <2> QED  BY <1>1, <2>1, AnswerCases
<1> QED  BY <1>1, NoNewAnswer

LEMMA FinishAnswers ==
    ASSUME Control, NEW f \in Families, NEW o \in Sagas, NEW n \in 1 .. 12, NEW u \in Update,
           Serves(f, o, n, u), NEW a \in Answers, Finish(f, a), queue[f] # <<>>,
           UNCHANGED <<request, saga, call>>, NEW t \in Sagas, call[t] # {}, Answered(t)'
    PROVE  Answered(t) \/ (a # "failed" /\ t = o /\ PresentStep(t) = n)
<1>1. PICK m \in 1 .. 12, v \in Update :
        m = PresentStep(t) /\ v = Present(t) /\ call[t] = {v} /\ v.id = <<t, m>>
  BY PresentCall
<1>2. PresentStep(t)' = m /\ Present(t)' = v
  BY <1>1, SameWorkflow
<1>3. u = Serving(f) /\ u.id = <<o, n>>
  BY DEF Serves
<1>4. CASE reply'[t] \in {"changed", "unchanged"}
  <2>1. \/ reply'[t] = reply[t]
        \/ reply'[t] = a /\ \E w \in call[t] : w.id \in {Serving(f).id}
    BY DEF Finish, Tell
  <2>2. CASE reply'[t] = reply[t]
    BY <1>4, <2>2 DEF Answered
  <2>3. CASE reply'[t] = a /\ \E w \in call[t] : w.id \in {Serving(f).id}
    <3>1. <<t, m>> = <<o, n>>
      BY <1>1, <1>3, <2>3
    <3> QED  BY <1>1, <1>4, <2>3, <3>1
  <2> QED  BY <2>1, <2>2, <2>3
<1>5. ASSUME NEW done \in finished'[v.family], done.id = <<t, m>>, done.answer # "failed"
      PROVE  Answered(t) \/ (a # "failed" /\ t = o /\ PresentStep(t) = n)
  <2>1. CASE done \in finished[v.family]
    BY <1>1, <1>5, <2>1 DEF Answered
  <2>2. CASE done \notin finished[v.family]
    <3>1. v.family \in Families
      BY DEF Update
    <3>2. done = [id |-> Serving(f).id, answer |-> a]
      BY <1>5, <2>2, <3>1, FinishFacts
    <3>3. <<t, m>> = <<o, n>> /\ a # "failed"
      BY <1>3, <1>5, <3>2
    <3> QED  BY <1>1, <3>3
  <2> QED  BY <2>1, <2>2
<1>6. \/ reply'[t] \in {"changed", "unchanged"}
      \/ \E done \in finished'[v.family] : done.id = <<t, m>> /\ done.answer # "failed"
  BY <1>2 DEF Answered
<1> QED  BY <1>4, <1>5, <1>6

\* The end of a handler settles its update and no other.
LEMMA FinishSettles ==
    ASSUME Control, NEW f \in Families, NEW o \in Sagas, NEW n \in 1 .. 12, NEW u \in Update,
           Serves(f, o, n, u), NEW a \in Answers, Finish(f, a), queue[f] # <<>>,
           UNCHANGED <<request, saga, call>>, NEW g \in Families
    PROVE  /\ SettlesOnly(g, o, n)
           /\ g # f \/ a = "failed" \/ Settled(o, n) => NoneSettlesAt(g)
<1>1. ASSUME NEW t \in Sagas, NEW k \in 1 .. 12, Settled(t, k)'
      PROVE  Settled(t, k) \/ (a # "failed" /\ t = o /\ k = n)
  <2>1. /\ Height(t)' = Height(t) /\ PresentStep(t)' = PresentStep(t)
        /\ Unwinds(t)' <=> Unwinds(t)
        /\ Place(t, k)' = Place(t, k)
    BY SameWorkflow
  <2>2. CASE call[t] # {} /\ k = PresentStep(t) /\ Answered(t)'
    <3>1. Answered(t) \/ (a # "failed" /\ t = o /\ PresentStep(t) = n)
      BY <2>2, FinishAnswers
    <3> QED  BY <2>2, <3>1 DEF Settled
  <2>3. CASE \/ k \in 1 .. saga[t].done
             \/ /\ Unwinds(t)
                /\ k \in PlanLength + 1 .. PlanLength + saga[t].done + 1 - Height(t)
                /\ Intents(request[t])[Place(t, k)] \notin saga[t].errors
    BY <2>3 DEF Settled
  <2> QED  BY <1>1, <2>1, <2>2, <2>3 DEF Settled
<1>2. SettlesOnly(g, o, n)
  BY <1>1 DEF SettlesOnly
<1>3. (Numbered(o, n).family)' = f
  <2>1. Numbered(o, n).family = f
    BY DEF Serves
  <2> QED  BY <2>1, SameWorkflow
<1>4. ASSUME g # f \/ a = "failed" \/ Settled(o, n), NEW t \in Sagas, NEW k \in 1 .. 12,
             Settled(t, k)', (Numbered(t, k).family)' = g
      PROVE  Settled(t, k)
  BY <1>1, <1>3, <1>4
<1> QED  BY <1>2, <1>4 DEF NoneSettlesAt

LEMMA FinishShortens ==
    ASSUME Control, NEW f \in Families, queue[f] # <<>>, NEW a \in Answers, Finish(f, a),
           NEW g \in Families
    PROVE  Shorter(g)
<1>1. CASE g # f
  <2>1. queue'[g] = queue[g]
    BY <1>1, FinishFacts
  <2> QED  BY <2>1, SameLine
<1>2. CASE g = f
  <2>1. queue'[f] = Tail(queue[f]) /\ queue[f] \in Seq(Update)
    BY FinishFacts, Typed
  <2>2. \A k \in DOMAIN queue'[f] :
            k \in Nat /\ k + 1 \in DOMAIN queue[f] /\ queue'[f][k] = queue[f][k + 1]
    BY <2>1, Dequeue
  <2> QED  BY <1>2, <2>2 DEF Shorter
<1> QED  BY <1>1, <1>2

-----------------------------------------------------------------------------
(* What a cache says.                                                      *)

\* The restore of a family's pause comes after all that is in line there.
LEMMA HeadOwes ==
    ASSUME Control, IsolatedInv, NEW f \in Families, NEW o \in Sagas, NEW n \in 1 .. 12,
           NEW u \in Update, Serves(f, o, n, u), ~Settled(o, n), Unwinds(o)
    PROVE  \E p \in 1 .. saga[o].done + 1 :
             Intents(request[o])[p].family = f /\ ~Settled(o, Restored(o, p))
<1>1. f \in FamiliesOf(request[o]) /\ request[o].source # request[o].target
      /\ ~Undone(o, PausePosition(o, f))
  BY UnsettledRestores
<1>2. PICK a \in 1 .. 6 : a = PausePosition(o, f) /\ Intents(request[o])[a].family = f
  BY <1>1, Positions
<1>3. ~(a > saga[o].done + 1) /\ ~Settled(o, Restored(o, a))
  BY <1>1, <1>2 DEF Undone
<1>4. saga[o].done \in 0 .. 5
  BY Counts
<1>5. a \in 1 .. saga[o].done + 1
  BY <1>3, <1>4
<1> QED  BY <1>2, <1>3, <1>5

\* The step a workflow waits for, when it is the one that has the lock.
LEMMA UnsettledForward ==
    ASSUME Control, IsolatedInv, NEW f \in Families, NEW o \in Sagas, NEW n \in 1 .. 12,
           NEW u \in Update, Serves(f, o, n, u), ~Settled(o, n), ~Unwinds(o)
    PROVE  /\ saga[o].pc = "forward" /\ call[o] # {} /\ ~Answered(o)
           /\ n <= 6 /\ n = PresentStep(o) /\ u = Present(o) /\ Present(o).family = f
<1>1. saga[o].pc = "forward" /\ call[o] # {} /\ ~Answered(o)
      /\ n = PresentStep(o) /\ n = saga[o].done + 1
  BY UnsettledHead
<1>2. n <= 6
  BY <1>1, ForwardFacts
<1>3. u = Present(o) /\ Present(o).family = f
  BY <1>1 DEF Serves, Present
<1> QED  BY <1>1, <1>2, <1>3

\* A cache that is left behind is owed a restore by the move that has done it.
LEMMA EffectOwes ==
    ASSUME Control, IsolatedInv, NEW f \in Families, NEW o \in Sagas, NEW n \in 1 .. 12,
           NEW u \in Update, Serves(f, o, n, u), ~Settled(o, n),
           UNCHANGED <<request, saga, call>>, NoneSettlesAt(f),
           Busy(f), Effect(f), state'[f] # state[f]
    PROVE  Owed(o, f)'
<1>1. OutcomesOK(o)
  BY DEF IsolatedInv
<1>2. CASE Unwinds(o)
  <2>1. PICK p \in 1 .. saga[o].done + 1 :
            Intents(request[o])[p].family = f /\ ~Settled(o, Restored(o, p))
    BY <1>2, HeadOwes
  <2>2. ~Settled(o, Restored(o, p))'
    BY <1>2, <2>1, RestoreKept
  <2>3. Unwinds(o)'
    BY <1>2, SameWorkflow
  <2> QED  BY <2>1, <2>2, <2>3 DEF Owed
<1>3. CASE ~Unwinds(o)
  <2>1. /\ saga[o].pc = "forward" /\ call[o] # {} /\ ~Answered(o)
        /\ n <= 6 /\ u = Present(o) /\ Present(o).family = f
    BY <1>3, UnsettledForward
  <2>2. ~Answered(o)'
    BY <1>1, <2>1, AnsweredKept
  <2>3. Present(o)' = u
    BY <2>1, SameWorkflow
  <2>4. u.family = f
    BY <2>1
  <2>5. u.command \in {"pause", "patch", "resume"}
    <3>1. PICK k \in 1 .. 6 : k = n
      BY <2>1
    <3>2. Serves(f, o, k, u)
      BY <3>1
    <3> QED  BY <3>2, ServedForward
  <2>6. \/ u.command = "pause" /\ state'[f] = "SUSPENDED"
        \/ u.command = "resume" /\ state'[f] = "RUNNING"
    <3>1. CASE Suspends(u)
      BY <2>5, <3>1, EffectOnFamily DEF Suspends
    <3>2. CASE Resumes(u)
      BY <2>5, <3>2, EffectOnFamily DEF Resumes
    <3>3. CASE Patches(u)
      BY <3>3, EffectOnFamily
    <3> QED  BY <3>1, <3>2, <3>3, UpdateKinds
  <2> QED  BY <2>1, <2>2, <2>3, <2>4, <2>6 DEF Owed
<1> QED  BY <1>2, <1>3

LEMMA StaleIsOwed ==
    ASSUME Control, IsolatedInv, NEW f \in Families, NEW o \in Sagas, Open(o),
           actor[f] = "ready", cache[f] # state[f]
    PROVE  Owed(o, f)
<1>1. PICK s \in Sagas : Open(s) /\ Owed(s, f)
  BY DEF IsolatedInv, FamilyInv, CacheOK
<1>2. s = o
  BY <1>1 DEF IsolatedInv, MovesAreApart
<1> QED  BY <1>1, <1>2

\* The cache is not touched, whatever becomes of the job.
LEMMA CacheStays ==
    ASSUME Control, IsolatedInv, NEW f \in Families, NEW o \in Sagas, NEW n \in 1 .. 12,
           NEW u \in Update, Serves(f, o, n, u), ~Settled(o, n),
           UNCHANGED <<request, saga, call>>, NoneSettlesAt(f),
           UNCHANGED cluster \/ (Busy(f) /\ Effect(f)),
           cache'[f] = cache[f], actor'[f] = actor[f],
           steps'[f] = <<"patch_configmap">> /\ Serving(f)'.command = "restore" =>
                steps[f] = <<"patch_configmap">> /\ u.command = "restore"
    PROVE  CacheOK(f)'
<1>1. Open(o)
  BY UnsettledHead
<1>2. Open(o)'
  BY <1>1, SameWorkflow
<1>3. ASSUME actor'[f] = "ready", cache'[f] # state'[f]
      PROVE  Owed(o, f)'
  <2>1. CASE state'[f] = state[f]
    <3>1. Owed(o, f)
      BY <1>1, <1>3, <2>1, StaleIsOwed
    <3>2. OutcomesOK(o)
      BY DEF IsolatedInv
    <3> QED  BY <2>1, <3>1, <3>2, OwedKept
  <2>2. CASE state'[f] # state[f]
    <3>1. Busy(f) /\ Effect(f)
      BY <2>2 DEF cluster
    <3> QED  BY <2>2, <3>1, EffectOwes
  <2> QED  BY <2>1, <2>2
<1>4. ASSUME steps[f] = <<"patch_configmap">>, u.command = "restore"
      PROVE  cache'[f] = state'[f]
  <2>1. cache[f] = state[f]
    BY <1>4 DEF IsolatedInv, FamilyInv, CacheOK, Serves
  <2>2. state'[f] = state[f]
    <3>1. CASE UNCHANGED cluster
      BY <3>1 DEF cluster
    <3>2. CASE Busy(f) /\ Effect(f)
      <4>1. Head(steps[f]) = "patch_configmap"
        BY <1>4, StepsAsSequences
      <4> QED  BY <3>2, <4>1, EffectFacts
    <3> QED  BY <3>1, <3>2
  <2> QED  BY <2>1, <2>2
<1> QED  BY <1>2, <1>3, <1>4 DEF CacheOK

-----------------------------------------------------------------------------
(* The steps of an actor, at its own family.                               *)

LEMMA NoneThenOnly ==
    ASSUME NEW f, NEW o \in Sagas, NEW n \in 1 .. 12, NoneSettlesAt(f),
           UNCHANGED <<request, saga, call>>, Numbered(o, n).family = f, ~Settled(o, n)
    PROVE  SettlesOnly(f, o, n) /\ ~Settled(o, n)'
<1>1. (Numbered(o, n).family)' = f
  BY SameWorkflow
<1> QED  BY <1>1 DEF NoneSettlesAt, SettlesOnly

\* A step that gives no good answer and leaves the cache alone.
LEMMA CacheUntouched ==
    ASSUME Control, SentKept, IsolatedInv, NEW f \in Families, NEW o \in Sagas,
           NEW n \in 1 .. 12, NEW u \in Update, Serves(f, o, n, u),
           UNCHANGED <<request, saga, call>>, NoneSettlesAt(f), Shorter(f),
           UNCHANGED cluster \/ (Busy(f) /\ Effect(f)),
           cache'[f] = cache[f], actor'[f] = actor[f],
           steps'[f] = <<"patch_configmap">> /\ Serving(f)'.command = "restore" =>
                steps[f] = <<"patch_configmap">> /\ u.command = "restore"
    PROVE  FamilyInv(f)'
<1>1. CASE Settled(o, n)
  <2>1. Quiet(f)
    BY <1>1, EffectQuiet
  <2>2. steps[f] = <<"patch_configmap">> /\ u.command = "restore" => cache[f] = state[f]
    BY DEF IsolatedInv, FamilyInv, CacheOK, Serves
  <2>3. CacheNoWorse(f)
    BY <2>1, <2>2 DEF Quiet, CacheNoWorse
  <2> QED  BY <2>1, <2>3, QuietFamily
<1>2. CASE ~Settled(o, n)
  <2>1. Numbered(o, n).family = f
    BY DEF Serves
  <2>2. SettlesOnly(f, o, n) /\ ~Settled(o, n)'
    BY <1>2, <2>1, NoneThenOnly
  <2>3. Scoped(f, u)
    BY EffectScoped
  <2>4. CacheOK(f)'
    BY <1>2, CacheStays
  <2> QED  BY <1>2, <2>2, <2>3, <2>4, UnsettledStep
<1> QED  BY <1>1, <1>2

LEMMA IsoAdopt ==
    ASSUME Control, SentKept, IsolatedInv, NEW f \in Families, Adopt(f), UNCHANGED <<request, saga>>
    PROVE  FamilyInv(f)'
<1>1. UNCHANGED <<cluster, queue, steps, finished, call, reply>>
  BY DEF Adopt
<1>2. NoneSettlesAt(f)
  BY <1>1, NothingSettles
<1>3. Shorter(f)
  BY <1>1, SameLine
<1>4. Quiet(f)
  BY <1>1 DEF Quiet, cluster
<1>5. CacheNoWorse(f)
  <2>1. cache'[f] = state'[f]
    BY <1>1, Typed DEF Adopt, cluster
  <2> QED  BY <2>1 DEF CacheNoWorse
<1> QED  BY <1>1, <1>2, <1>3, <1>4, <1>5, QuietFamily

LEMMA IsoStepRetried ==
    ASSUME Control, SentKept, IsolatedInv, NEW f \in Families, NEW outcome \in Outcome,
           StepRetried(f, outcome), UNCHANGED <<request, saga>>
    PROVE  FamilyInv(f)'
<1>1. /\ Attempt(f, outcome) /\ UNCHANGED <<cache, queue, steps, finished, reply>>
  BY DEF StepRetried
<1>2. /\ UNCHANGED <<actor, call>> /\ queue[f] # <<>>
      /\ UNCHANGED cluster \/ (Busy(f) /\ Effect(f))
  BY <1>1, AttemptFacts DEF Attempt
<1>3. PICK o \in Sagas, n \in 1 .. 12, u \in Update : Serves(f, o, n, u)
  BY <1>2, ServesOne
<1>4. NoneSettlesAt(f)
  BY <1>1, <1>2, NothingSettles
<1>5. Shorter(f)
  BY <1>1, SameLine
<1>6. Serving(f)' = u
  BY <1>1, <1>3 DEF Serves, Serving
<1> QED  BY <1>1, <1>2, <1>3, <1>4, <1>5, <1>6, CacheUntouched

LEMMA IsoStepFails ==
    ASSUME Control, SentKept, IsolatedInv, NEW f \in Families, NEW outcome \in Outcome,
           StepFails(f, outcome), UNCHANGED <<request, saga>>
    PROVE  FamilyInv(f)'
<1>1. Attempt(f, outcome) /\ Finish(f, "failed") /\ UNCHANGED cache
  BY DEF StepFails
<1>2. /\ UNCHANGED <<actor, call>> /\ queue[f] # <<>> /\ "failed" \in Answers
      /\ UNCHANGED cluster \/ (Busy(f) /\ Effect(f))
  BY <1>1, AttemptFacts DEF Attempt, Answers
<1>3. PICK o \in Sagas, n \in 1 .. 12, u \in Update : Serves(f, o, n, u)
  BY <1>2, ServesOne
<1>4. NoneSettlesAt(f)
  BY <1>1, <1>2, <1>3, FinishSettles
<1>5. Shorter(f) /\ steps'[f] = <<>>
  BY <1>1, <1>2, FinishShortens, FinishFacts
<1>6. steps'[f] # <<"patch_configmap">>
  BY <1>5, StepsAsSequences
<1> QED  BY <1>1, <1>2, <1>3, <1>4, <1>5, <1>6, CacheUntouched

LEMMA IsoEndRun ==
    ASSUME Control, SentKept, IsolatedInv, NEW f \in Families, Rollover(f) \/ Stop(f),
           UNCHANGED <<request, saga>>
    PROVE  FamilyInv(f)'
<1>1. EndRun(f) /\ call' = call
  BY DEF Rollover, Stop, EndRun
<1>2. NoneSettlesAt(f)
  <2>1. \A t \in Sagas : reply'[t] = reply[t] \/ reply'[t] \notin {"changed", "unchanged"}
    BY <1>1 DEF EndRun, Tell
  <2>2. \A h \in Families : finished'[h] \subseteq finished[h]
    BY <1>1, Typed DEF EndRun
  <2> QED  BY <1>1, <2>1, <2>2, NothingSettles
<1>3. queue'[f] = <<>> /\ steps'[f] = <<>>
  BY <1>1, Typed DEF EndRun
<1>4. Shorter(f)
  BY <1>3 DEF Shorter
<1>5. steps'[f] # <<"patch_configmap">>
  BY <1>3, StepsAsSequences
<1>6. CASE Rollover(f)
  <2>1. Quiet(f) /\ actor' = actor /\ cache' = cache
    BY <1>6 DEF Rollover, cluster, Quiet
  <2>2. CacheNoWorse(f)
    BY <1>5, <2>1 DEF Quiet, CacheNoWorse
  <2> QED  BY <1>1, <1>2, <1>4, <2>1, <2>2, QuietFamily
<1>7. CASE Stop(f)
  <2>1. actor'[f] = "absent"
    BY <1>7, Typed DEF Stop
  <2>2. CacheNoWorse(f) /\ CacheOK(f)'
    BY <1>5, <2>1 DEF CacheNoWorse, CacheOK
  <2>3. CASE Quiet(f)
    BY <1>1, <1>2, <1>4, <2>2, <2>3, QuietFamily
  <2>4. CASE ~Quiet(f)
    <3>1. Busy(f) /\ Effect(f)
      BY <1>7, <2>4 DEF Stop, cluster, Quiet
    <3>2. queue[f] # <<>>
      BY <3>1, StepsLeft
    <3>3. PICK o \in Sagas, n \in 1 .. 12, u \in Update : Serves(f, o, n, u)
      BY <3>2, ServesOne
    <3>4. ~Settled(o, n)
      BY <2>4, <3>1, <3>3, EffectQuiet
    <3>5. Scoped(f, u)
      BY <3>1, <3>3, EffectScoped
    <3>6. SettlesOnly(f, o, n) /\ ~Settled(o, n)'
      BY <1>1, <1>2, <3>3, <3>4, NoneThenOnly DEF Serves
    <3> QED  BY <1>1, <1>4, <2>2, <3>3, <3>4, <3>5, <3>6, UnsettledStep
  <2> QED  BY <2>3, <2>4
<1> QED  BY <1>6, <1>7

\* When a handler has nothing to do.
LEMMA NothingToDo ==
    ASSUME Control, NEW f \in Families, NEW o \in Sagas, NEW n \in 1 .. 12, NEW u \in Update,
           Serves(f, o, n, u), HandlerSteps(f, u) = <<>>
    PROVE  /\ Suspends(u) => \/ u.command = "pause" /\ cache[f] = "SUSPENDED"
                             \/ u.command = "restore" /\ state[f] = "SUSPENDED"
           /\ Resumes(u) => \/ u.command = "resume" /\ cache[f] = "RUNNING"
                            \/ u.command = "restore" /\ state[f] = "RUNNING"
           /\ Patches(u) => u.command = "restore" /\ u.config \subseteq {datatypes[f]}
<1> DEFINE a == RestoreStateSteps(f, u.desired)  b == RestoreConfigSteps(f, u.config)
<1>1. /\ PauseSteps # <<>> /\ <<"resume_job">> # <<>> /\ <<"patch_configmap">> # <<>>
      /\ PauseSteps \in Seq(Operation) /\ <<"resume_job">> \in Seq(Operation)
      /\ <<"patch_configmap">> \in Seq(Operation) /\ <<>> \in Seq(Operation)
  BY StepsAsSequences
<1>2. /\ u.command = "pause" => cache[f] = "SUSPENDED"
      /\ u.command = "resume" => cache[f] = "RUNNING"
      /\ u.command # "patch"
  BY <1>1 DEF HandlerSteps
<1>3. u.command = "restore" => a \o b = <<>>
  BY DEF HandlerSteps
<1>4. state[f] \in {"RUNNING", "SUSPENDED"}
  BY Typed DEF ClusterTypeOK, FamilyState
<1>5. ASSUME u.command = "restore", u.desired \in {{"SUSPENDED"}, {"RUNNING"}}, u.config = {}
      PROVE  u.desired = {state[f]}
  <2>1. b = <<>>
    BY <1>5 DEF RestoreConfigSteps
  <2>2. CASE u.desired # {state[f]}
    <3>1. a \in {PauseSteps, <<"resume_job">>}
      BY <1>4, <1>5, <2>2 DEF RestoreStateSteps
    <3> HIDE DEF a, b
    <3>2. a \o b = a
      BY <1>1, <2>1, <3>1, ConcatEmptySeq
    <3> QED  BY <1>1, <1>3, <1>5, <3>1, <3>2
  <2> QED  BY <2>2
<1>6. ASSUME u.command = "restore", u.desired = {}
      PROVE  u.config \subseteq {datatypes[f]}
  <2>1. a = <<>>
    BY <1>6 DEF RestoreStateSteps
  <2>2. CASE ~(u.config \subseteq {datatypes[f]})
    <3>1. b = <<"patch_configmap">>
      BY <2>2 DEF RestoreConfigSteps
    <3> HIDE DEF a, b
    <3>2. a \o b = b
      BY <1>1, <2>1, <3>1, ConcatEmptySeq
    <3> QED  BY <1>1, <1>3, <1>6, <3>1, <3>2
  <2> QED  BY <2>2
<1>7. ASSUME Suspends(u)
      PROVE  \/ u.command = "pause" /\ cache[f] = "SUSPENDED"
             \/ u.command = "restore" /\ state[f] = "SUSPENDED"
  BY <1>2, <1>5, <1>7 DEF Suspends
<1>8. ASSUME Resumes(u)
      PROVE  \/ u.command = "resume" /\ cache[f] = "RUNNING"
             \/ u.command = "restore" /\ state[f] = "RUNNING"
  BY <1>2, <1>5, <1>8 DEF Resumes
<1>9. ASSUME Patches(u)
      PROVE  u.command = "restore" /\ u.config \subseteq {datatypes[f]}
  BY <1>2, <1>6, <1>9 DEF Patches
<1> QED  BY <1>7, <1>8, <1>9

\* A step that a workflow has given up settles nothing, and its undoing is owed.
LEMMA OwedPast ==
    ASSUME Control, IsolatedInv, NEW f \in Families, NEW o \in Sagas, NEW n \in 1 .. 6,
           NEW u \in Update, Serves(f, o, n, u), ~Settled(o, n), Unwinds(o),
           UNCHANGED <<request, saga, call>>, SettlesOnly(f, o, n)
    PROVE  ~Settled(o, n)' /\ Owed(o, f)'
<1>1. PICK d \in 0 .. 5, h \in 0 .. 6 :
        /\ d = saga[o].done /\ h = Height(o) /\ h <= d + 1
        /\ call[o] # {} => PresentStep(o) = d + 8 - h
        /\ \A k \in 1 .. 12 : Place(o, k) = d + 8 - k
        /\ \A q \in 1 .. 6 : Restored(o, q) = d + 8 - q
  BY UnwindFacts
<1>2. ~Settled(o, n)'
  <2>1. n \notin 1 .. d
    BY <1>1 DEF Settled
  <2>2. ~(call[o] # {} /\ n = PresentStep(o))
    BY <1>1
  <2>3. n \notin 7 .. 6 + d + 1 - h
    OBVIOUS
  <2>4. /\ PresentStep(o)' = PresentStep(o) /\ Height(o)' = h
    BY <1>1, SameWorkflow
  <2> QED  BY <1>1, <2>1, <2>2, <2>3, <2>4 DEF Settled, PlanLength
<1>3. PICK p \in 1 .. saga[o].done + 1 :
        Intents(request[o])[p].family = f /\ ~Settled(o, Restored(o, p))
  BY HeadOwes
<1>4. PICK q \in 1 .. 6, k \in 7 .. 12 : q = p /\ k = Restored(o, q) /\ k = d + 8 - q
  <2>1. p \in 1 .. 6 /\ d + 8 - p \in 7 .. 12
    BY <1>1, <1>3
  <2> QED  BY <1>1, <2>1
<1>5. (Numbered(o, k).family)' = f
  <2>1. Place(o, k) = q
    BY <1>1, <1>4
  <2>2. Numbered(o, k).family = f
    BY <1>3, <1>4, <2>1, RestoreFamily
  <2> QED  BY <2>2, SameWorkflow
<1>6. ~Settled(o, k)'
  <2>1. ~Settled(o, k) /\ k # n
    BY <1>3, <1>4
  <2> QED  BY <1>5, <2>1 DEF SettlesOnly
<1>7. Restored(o, p)' = k
  BY <1>4, SameWorkflow
<1>8. Unwinds(o)'
  BY SameWorkflow
<1> QED  BY <1>2, <1>3, <1>6, <1>7, <1>8 DEF Owed

LEMMA EnterFacts ==
    ASSUME Control, NEW f \in Families, NEW o \in Sagas, NEW n \in 1 .. 12, NEW u \in Update,
           Serves(f, o, n, u), Enter(f)
    PROVE  /\ actor[f] = "ready" /\ queue[f] # <<>> /\ UNCHANGED <<cluster, actor, call>>
           /\ u.command = "restore" => cache'[f] = state[f]
           /\ u.command # "restore" => cache'[f] = cache[f]
           /\ \/ HandlerSteps(f, u) = <<>> /\ Finish(f, "unchanged")
              \/ HandlerSteps(f, u) # <<>> /\ UNCHANGED <<queue, finished, reply>>
<1>1. u = Serving(f)
  BY DEF Serves
<1>2. cache' = [cache EXCEPT ![f] = CacheAtStart(f, u)]
  BY <1>1 DEF Enter
<1>3. cache'[f] = IF u.command = "restore" THEN state[f] ELSE cache[f]
  BY <1>2, Typed DEF CacheAtStart
<1> QED  BY <1>1, <1>3 DEF Enter

LEMMA IsoEnter ==
    ASSUME Control, SentKept, IsolatedInv, NEW f \in Families, Enter(f), UNCHANGED <<request, saga>>
    PROVE  FamilyInv(f)'
<1>1. queue[f] # <<>>
  BY DEF Enter
<1>2. PICK o \in Sagas, n \in 1 .. 12, u \in Update : Serves(f, o, n, u)
  BY <1>1, ServesOne
<1>3. /\ actor[f] = "ready" /\ UNCHANGED <<cluster, actor, call>>
      /\ u.command = "restore" => cache'[f] = state[f]
      /\ u.command # "restore" => cache'[f] = cache[f]
      /\ \/ HandlerSteps(f, u) = <<>> /\ Finish(f, "unchanged")
         \/ HandlerSteps(f, u) # <<>> /\ UNCHANGED <<queue, finished, reply>>
  BY <1>2, EnterFacts
<1>4. Quiet(f)
  BY <1>3 DEF Quiet, cluster
<1>5. CASE UNCHANGED <<queue, finished, reply>>
  <2>1. NoneSettlesAt(f)
    BY <1>3, <1>5, NothingSettles
  <2>2. Shorter(f)
    BY <1>5, SameLine
  <2>3. Serving(f)' = u
    BY <1>2, <1>5 DEF Serves, Serving
  <2>4. CacheNoWorse(f)
    BY <1>3, <1>4, <2>3 DEF CacheNoWorse, Quiet
  <2> QED  BY <1>3, <1>4, <2>1, <2>2, <2>4, QuietFamily
<1>6. CASE HandlerSteps(f, u) = <<>> /\ Finish(f, "unchanged")
  <2>1. "unchanged" \in Answers
    BY DEF Answers
  <2>2. /\ SettlesOnly(f, o, n)
        /\ Settled(o, n) => NoneSettlesAt(f)
    BY <1>1, <1>2, <1>3, <1>6, <2>1, FinishSettles
  <2>3. Shorter(f) /\ steps'[f] = <<>>
    BY <1>1, <1>6, <2>1, FinishShortens, FinishFacts
  <2>4. steps'[f] # <<"patch_configmap">>
    BY <2>3, StepsAsSequences
  <2>5. CASE Settled(o, n)
    <3>1. CacheNoWorse(f)
      BY <1>3, <1>4, <2>4 DEF CacheNoWorse, Quiet
    <3> QED  BY <1>3, <1>4, <2>2, <2>3, <2>5, <3>1, QuietFamily
  <2>6. CASE ~Settled(o, n)
    <3>1. Scoped(f, u)
      BY <1>2, <1>3, EffectScoped
    <3>2. Open(o) /\ Open(o)'
      BY <1>2, <1>3, <2>6, UnsettledHead, SameWorkflow
    <3>3. ASSUME u.command = "restore"
          PROVE  InEffect(f, u)' /\ CacheOK(f)'
      <4>1. InEffect(f, u)
        <5>1. CASE Suspends(u)
          BY <1>2, <1>6, <3>3, <5>1, NothingToDo DEF Suspends, InEffect
        <5>2. CASE Resumes(u)
          BY <1>2, <1>6, <3>3, <5>2, NothingToDo DEF Resumes, InEffect
        <5>3. CASE Patches(u)
          BY <1>2, <1>6, <3>3, <5>3, NothingToDo DEF Patches, InEffect
        <5> QED  BY <1>2, <5>1, <5>2, <5>3, UpdateKinds
      <4>2. InEffect(f, u)'
        BY <1>4, <4>1 DEF InEffect, Quiet
      <4>3. CacheOK(f)'
        BY <1>3, <1>4, <2>4, <3>3 DEF CacheOK, Quiet
      <4> QED  BY <4>2, <4>3
    <3>4. ASSUME u.command # "restore"
          PROVE  (Settled(o, n)' => InEffect(f, u)') /\ CacheOK(f)'
      <4>1. PICK k \in 1 .. 6 : k = n
        <5>1. SUFFICES ASSUME n \notin 1 .. 6 PROVE FALSE
          OBVIOUS
        <5>2. PICK k \in 7 .. 12 : k = n
          BY <5>1
        <5>3. Serves(f, o, k, u)
          BY <1>2, <5>2
        <5> QED  BY <3>4, <5>3, ServedRestore
      <4>2. Serves(f, o, k, u) /\ ~Settled(o, k) /\ SettlesOnly(f, o, k)
        BY <1>2, <2>2, <2>6, <4>1
      <4>3. CASE Unwinds(o)
        <5>1. ~Settled(o, k)' /\ Owed(o, f)'
          BY <1>3, <4>2, <4>3, OwedPast
        <5>2. CacheOK(f)'
          BY <2>4, <3>2, <5>1 DEF CacheOK
        <5> QED  BY <4>1, <5>1, <5>2
      <4>4. CASE ~Unwinds(o)
        <5>1. u = Present(o) /\ ~Unwinds(o)
          BY <1>2, <2>6, <4>4, UnsettledForward
        <5>2. cache[f] # state[f] =>
                  \/ u.command = "pause" /\ state[f] = "SUSPENDED"
                  \/ u.command = "resume" /\ state[f] = "RUNNING"
          BY <1>3, <3>2, <5>1, StaleIsOwed DEF Owed
        <5>3. \/ u.command = "pause" /\ cache[f] = "SUSPENDED" /\ u.desired = {} /\ u.config = {}
              \/ u.command = "resume" /\ cache[f] = "RUNNING" /\ u.desired = {} /\ u.config = {}
          <6>1. CASE Suspends(u)
            BY <1>2, <1>6, <3>4, <6>1, NothingToDo DEF Suspends
          <6>2. CASE Resumes(u)
            BY <1>2, <1>6, <3>4, <6>2, NothingToDo DEF Resumes
          <6>3. CASE Patches(u)
            BY <1>2, <1>6, <3>4, <6>3, NothingToDo
          <6> QED  BY <1>2, <6>1, <6>2, <6>3, UpdateKinds
        <5>4. cache[f] = state[f]
          BY <5>2, <5>3
        <5>5. InEffect(f, u)'
          BY <1>4, <5>3, <5>4 DEF InEffect, Quiet
        <5>6. CacheOK(f)'
          BY <1>3, <1>4, <2>4, <3>4, <5>4 DEF CacheOK, Quiet
        <5> QED  BY <5>5, <5>6
      <4> QED  BY <4>3, <4>4
    <3>5. (Settled(o, n)' => InEffect(f, u)') /\ CacheOK(f)'
      BY <3>3, <3>4
    <3> QED  BY <1>2, <1>3, <2>2, <2>3, <2>6, <3>1, <3>5, UnsettledStep
  <2> QED  BY <2>5, <2>6
<1> QED  BY <1>3, <1>5, <1>6

\* An activity that returns has had its effect, and the cache follows it.
LEMMA ReturnFacts ==
    ASSUME Control, NEW f \in Families, NEW o \in Sagas, NEW n \in 1 .. 12, NEW u \in Update,
           Serves(f, o, n, u), StepReturns(f)
    PROVE  /\ Busy(f) /\ Effect(f) /\ queue[f] # <<>> /\ actor[f] = "ready"
           /\ UNCHANGED <<actor, call>>
           /\ \/ /\ Suspends(u) /\ steps[f] = PauseSteps
                 /\ cache'[f] = cache[f] /\ steps'[f] = <<"suspend_job">>
                 /\ UNCHANGED <<queue, finished, reply>>
              \/ /\ Suspends(u) \/ Resumes(u)
                 /\ cache'[f] = state'[f] /\ Finish(f, "changed")
              \/ /\ Patches(u) /\ steps[f] = <<"patch_configmap">>
                 /\ cache'[f] = cache[f] /\ state'[f] = state[f] /\ Finish(f, "changed")
           /\ Suspends(u) /\ Finish(f, "changed") => state'[f] = "SUSPENDED"
<1>1. Attempt(f, "ok") /\ cache' = [cache EXCEPT ![f] = CacheAfter(f, Head(steps[f]))]
  BY DEF StepReturns
<1>2. Busy(f) /\ Effect(f) /\ UNCHANGED <<actor, call>>
  BY <1>1 DEF Attempt, Committed
<1>3. queue[f] # <<>> /\ actor[f] = "ready"
  BY <1>2, StepsLeft
<1>4. cache'[f] = CacheAfter(f, Head(steps[f]))
  BY <1>1, Typed
<1>5. /\ Len(PauseSteps) = 2 /\ Head(PauseSteps) = "trigger_savepoint"
      /\ Tail(PauseSteps) = <<"suspend_job">>
      /\ PauseSteps # <<"suspend_job">>
      /\ Len(<<"suspend_job">>) = 1 /\ Head(<<"suspend_job">>) = "suspend_job"
      /\ Len(<<"resume_job">>) = 1 /\ Head(<<"resume_job">>) = "resume_job"
      /\ Len(<<"patch_configmap">>) = 1 /\ Head(<<"patch_configmap">>) = "patch_configmap"
  BY StepsAsSequences
<1>6. CASE Suspends(u) /\ steps[f] = PauseSteps
  <2>1. cache'[f] = cache[f]
    BY <1>4, <1>5, <1>6 DEF CacheAfter
  <2>2. steps'[f] = <<"suspend_job">> /\ UNCHANGED <<queue, finished, reply>>
    <3>1. Len(steps[f]) # 1
      BY <1>5, <1>6
    <3>2. steps' = [steps EXCEPT ![f] = Tail(@)] /\ UNCHANGED <<queue, finished, reply>>
      BY <3>1 DEF StepReturns
    <3> QED  BY <1>5, <1>6, <3>2, Typed
  <2>3. ~Finish(f, "changed")
    <3>1. SUFFICES ASSUME Finish(f, "changed") PROVE FALSE
      OBVIOUS
    <3>2. steps'[f] = <<>>
      BY <1>3, <3>1, FinishFacts DEF Answers
    <3> QED  BY <2>2, <3>2, StepsAsSequences
  <2> QED  BY <1>2, <1>3, <1>6, <2>1, <2>2, <2>3
<1>7. CASE Suspends(u) /\ steps[f] = <<"suspend_job">>
  <2>1. state'[f] = "SUSPENDED"
    BY <1>2, <1>7, EffectOnFamily
  <2>2. cache'[f] = "SUSPENDED" /\ Finish(f, "changed")
    BY <1>4, <1>5, <1>7 DEF CacheAfter, StepReturns
  <2> QED  BY <1>2, <1>3, <1>7, <2>1, <2>2
<1>8. CASE Resumes(u)
  <2>1. state'[f] = "RUNNING" /\ steps[f] = <<"resume_job">>
    BY <1>2, <1>8, EffectOnFamily, Carrying
  <2>2. cache'[f] = "RUNNING" /\ Finish(f, "changed")
    BY <1>4, <1>5, <2>1 DEF CacheAfter, StepReturns
  <2>3. ~Suspends(u)
    BY <1>8 DEF Suspends, Resumes
  <2> QED  BY <1>2, <1>3, <1>8, <2>1, <2>2, <2>3
<1>9. CASE Patches(u)
  <2>1. state'[f] = state[f] /\ steps[f] = <<"patch_configmap">>
    BY <1>2, <1>9, EffectOnFamily, Carrying
  <2>2. cache'[f] = cache[f] /\ Finish(f, "changed")
    BY <1>4, <1>5, <2>1 DEF CacheAfter, StepReturns
  <2>3. ~Suspends(u)
    BY <1>9 DEF Suspends, Patches
  <2> QED  BY <1>2, <1>3, <1>9, <2>1, <2>2, <2>3
<1> QED  BY <1>2, <1>6, <1>7, <1>8, <1>9, Carrying, UpdateKinds

\* The effect of an update's last activity is what the update is for.
LEMMA ReturnTakesEffect ==
    ASSUME Control, NEW f \in Families, NEW o \in Sagas, NEW n \in 1 .. 12, NEW u \in Update,
           Serves(f, o, n, u), StepReturns(f), Finish(f, "changed")
    PROVE  InEffect(f, u)'
<1>1. Busy(f) /\ Effect(f) /\ (Suspends(u) => state'[f] = "SUSPENDED")
  BY ReturnFacts
<1>2. CASE Suspends(u)
  BY <1>1, <1>2 DEF Suspends, InEffect
<1>3. CASE Resumes(u)
  <2>1. state'[f] = "RUNNING"
    BY <1>1, <1>3, EffectOnFamily
  <2> QED  BY <1>3, <2>1 DEF Resumes, InEffect
<1>4. CASE Patches(u)
  <2>1. u.config = {datatypes'[f]}
    BY <1>1, <1>4, EffectOnFamily
  <2>2. u.command \in {"patch", "restore"} /\ u.desired = {}
    BY <1>4 DEF Patches
  <2> QED  BY <2>1, <2>2 DEF InEffect
<1> QED  BY <1>2, <1>3, <1>4, UpdateKinds

\* A cache that a patch leaves behind was left behind before, and is owed.
LEMMA PatchLeavesOwed ==
    ASSUME Control, IsolatedInv, NEW f \in Families, NEW o \in Sagas, NEW n \in 1 .. 12,
           NEW u \in Update, Serves(f, o, n, u), ~Settled(o, n),
           UNCHANGED <<request, saga, call>>, SettlesOnly(f, o, n),
           Patches(u), steps[f] = <<"patch_configmap">>, actor[f] = "ready",
           cache[f] # state[f]
    PROVE  Owed(o, f)'
<1>1. Owed(o, f)
  BY StaleIsOwed, UnsettledHead
<1>2. u.command = "patch"
  <2>1. u.command # "restore"
    BY DEF IsolatedInv, FamilyInv, CacheOK, Serves
  <2> QED  BY <2>1 DEF Patches
<1>3. PICK k \in 1 .. 6 : k = n
  <2>1. SUFFICES ASSUME n \notin 1 .. 6 PROVE FALSE
    OBVIOUS
  <2>2. PICK m \in 7 .. 12 : m = n
    BY <2>1
  <2>3. Serves(f, o, m, u)
    BY <2>2
  <2> QED  BY <1>2, <2>3, ServedRestore
<1>4. Serves(f, o, k, u) /\ ~Settled(o, k) /\ SettlesOnly(f, o, k)
  BY <1>3
<1>5. Unwinds(o)
  <2>1. SUFFICES ASSUME ~Unwinds(o) PROVE FALSE
    OBVIOUS
  <2>2. u = Present(o)
    BY <2>1, UnsettledForward
  <2>3. Present(o).command \in {"pause", "resume"}
    BY <1>1, <2>1 DEF Owed
  <2> QED  BY <1>2, <2>2, <2>3
<1> QED  BY <1>4, <1>5, OwedPast

LEMMA IsoStepReturns ==
    ASSUME Control, SentKept, IsolatedInv, NEW f \in Families, StepReturns(f),
           UNCHANGED <<request, saga>>
    PROVE  FamilyInv(f)'
<1>1. queue[f] # <<>>
  BY StepsLeft DEF StepReturns, Attempt
<1>2. PICK o \in Sagas, n \in 1 .. 12, u \in Update : Serves(f, o, n, u)
  BY <1>1, ServesOne
<1>3. /\ Busy(f) /\ Effect(f) /\ actor[f] = "ready"
      /\ UNCHANGED <<actor, call>>
  BY <1>2, ReturnFacts
<1>4. CASE /\ Suspends(u) /\ steps[f] = PauseSteps
           /\ cache'[f] = cache[f] /\ steps'[f] = <<"suspend_job">>
           /\ UNCHANGED <<queue, finished, reply>>
  <2>1. NoneSettlesAt(f)
    BY <1>3, <1>4, NothingSettles
  <2>2. Shorter(f)
    BY <1>4, SameLine
  <2>3. steps'[f] # <<"patch_configmap">>
    <3>1. Head(<<"suspend_job">>) = "suspend_job" /\ Head(<<"patch_configmap">>) = "patch_configmap"
      BY StepsAsSequences
    <3> QED  BY <1>4, <3>1
  <2> QED  BY <1>2, <1>3, <1>4, <2>1, <2>2, <2>3, CacheUntouched
<1>5. CASE /\ Finish(f, "changed")
           /\ \/ cache'[f] = state'[f]
              \/ /\ Patches(u) /\ steps[f] = <<"patch_configmap">>
                 /\ cache'[f] = cache[f] /\ state'[f] = state[f]
  <2>1. "changed" \in Answers
    BY DEF Answers
  <2>2. /\ SettlesOnly(f, o, n)
        /\ Settled(o, n) => NoneSettlesAt(f)
    BY <1>1, <1>2, <1>3, <1>5, <2>1, FinishSettles
  <2>3. Shorter(f) /\ steps'[f] = <<>>
    BY <1>1, <1>5, <2>1, FinishShortens, FinishFacts
  <2>4. steps'[f] # <<"patch_configmap">>
    BY <2>3, StepsAsSequences
  <2>5. CASE Settled(o, n)
    <3>1. Quiet(f)
      BY <1>2, <1>3, <2>5, EffectQuiet
    <3>2. CacheNoWorse(f)
      BY <1>3, <1>5, <2>4 DEF CacheNoWorse
    <3> QED  BY <1>3, <2>2, <2>3, <2>5, <3>1, <3>2, QuietFamily
  <2>6. CASE ~Settled(o, n)
    <3>1. Scoped(f, u)
      BY <1>2, <1>3, EffectScoped
    <3>2. InEffect(f, u)'
      BY <1>2, <1>5, ReturnTakesEffect
    <3>3. Open(o)'
      BY <1>2, <1>3, <2>6, UnsettledHead, SameWorkflow
    <3>4. CacheOK(f)'
      <4>1. SUFFICES ASSUME cache'[f] # state'[f] PROVE Owed(o, f)'
        BY <2>4, <3>3 DEF CacheOK
      <4>2. /\ Patches(u) /\ steps[f] = <<"patch_configmap">> /\ cache[f] # state[f]
        BY <1>5, <4>1
      <4> QED  BY <1>2, <1>3, <2>2, <2>6, <4>2, PatchLeavesOwed
    <3> QED  BY <1>2, <1>3, <2>2, <2>3, <2>6, <3>1, <3>2, <3>4, UnsettledStep
  <2> QED  BY <2>5, <2>6
<1> QED  BY <1>2, <1>4, <1>5, ReturnFacts

-----------------------------------------------------------------------------
(* The steps of an actor, elsewhere.                                       *)

LEMMA ActorAnswers ==
    ASSUME Control, NEW f \in Families, ActorStep(f)
    PROVE  /\ call' = call
           /\ \/ queue[f] # <<>> /\ \E a \in Answers : Finish(f, a)
              \/ EndRun(f)
              \/ UNCHANGED <<queue, finished, reply>>
           /\ \A g \in Families \ {f} : cache'[g] = cache[g] /\ actor'[g] = actor[g]
<1>1. CASE Adopt(f)
  BY <1>1, Typed DEF Adopt
<1>2. CASE Enter(f)
  <2>1. call' = call /\ actor' = actor
    BY <1>2 DEF Enter
  <2>2. \A g \in Families \ {f} : cache'[g] = cache[g]
    BY <1>2, Typed DEF Enter
  <2>3. \/ queue[f] # <<>> /\ Finish(f, "unchanged")
        \/ UNCHANGED <<queue, finished, reply>>
    BY <1>2 DEF Enter
  <2> QED  BY <2>1, <2>2, <2>3 DEF Answers
<1>3. CASE StepReturns(f)
  <2>1. Attempt(f, "ok")
    BY <1>3 DEF StepReturns
  <2>2. call' = call /\ actor' = actor /\ queue[f] # <<>>
    BY <2>1, AttemptFacts DEF Attempt
  <2>3. \A g \in Families \ {f} : cache'[g] = cache[g]
    BY <1>3, Typed DEF StepReturns
  <2>4. Finish(f, "changed") \/ UNCHANGED <<queue, finished, reply>>
    BY <1>3 DEF StepReturns
  <2> QED  BY <2>2, <2>3, <2>4 DEF Answers
<1>4. CASE \E outcome \in Outcome : StepRetried(f, outcome)
  BY <1>4 DEF StepRetried, Attempt
<1>5. ASSUME NEW outcome \in Outcome, StepFails(f, outcome)
      PROVE  /\ call' = call /\ actor' = actor /\ cache' = cache
             /\ queue[f] # <<>> /\ \E a \in Answers : Finish(f, a)
  <2>1. Attempt(f, outcome) /\ Finish(f, "failed") /\ cache' = cache
    BY <1>5 DEF StepFails
  <2>2. call' = call /\ actor' = actor /\ queue[f] # <<>>
    BY <2>1, AttemptFacts DEF Attempt
  <2> QED  BY <2>1, <2>2 DEF Answers
<1>6. CASE Rollover(f) \/ Stop(f)
  BY <1>6, Typed DEF Rollover, Stop, EndRun
<1> QED  BY <1>1, <1>2, <1>3, <1>4, <1>5, <1>6 DEF ActorStep, HandlerStep

LEMMA EndRunSettles ==
    ASSUME Control, NEW f \in Families, EndRun(f), UNCHANGED <<request, saga>>, NEW g
    PROVE  NoneSettlesAt(g)
<1>1. \A t \in Sagas : reply'[t] = reply[t] \/ reply'[t] \notin {"changed", "unchanged"}
  BY DEF EndRun, Tell
<1>2. \A h \in Families : finished'[h] \subseteq finished[h]
  BY Typed DEF EndRun
<1>3. call' = call
  BY DEF EndRun
<1> QED  BY <1>1, <1>2, <1>3, NothingSettles

LEMMA IsoElsewhere ==
    ASSUME Control, SentKept, IsolatedInv, NEW f \in Families, ActorStep(f),
           NEW g \in Families, g # f
    PROVE  FamilyInv(g)'
<1>1. UNCHANGED <<request, saga, call>>
  BY ActorAnswers DEF ActorStep
<1>2. /\ state'[g] = state[g] /\ steps'[g] = steps[g]
      /\ queue'[g] = queue[g] /\ finished'[g] = finished[g]
      /\ cache'[g] = cache[g] /\ actor'[g] = actor[g]
  BY ActorFrame, ActorAnswers
<1>3. datatypes'[g] = datatypes[g]
  <2>1. CASE UNCHANGED cluster
    BY <2>1 DEF cluster
  <2>2. CASE Busy(f) /\ Effect(f)
    <3>1. PICK o \in Sagas, n \in 1 .. 12, u \in Update : Serves(f, o, n, u)
      BY <2>2, StepsLeft, ServesOne
    <3> QED  BY <2>2, <3>1, EffectOnFamily
  <2> QED  BY <2>1, <2>2, ActorCases
<1>4. NoneSettlesAt(g)
  <2>1. ASSUME NEW a \in Answers, queue[f] # <<>>, Finish(f, a)
        PROVE  NoneSettlesAt(g)
    <3>1. PICK o \in Sagas, n \in 1 .. 12, u \in Update : Serves(f, o, n, u)
      BY <2>1, ServesOne
    <3> QED  BY <1>1, <2>1, <3>1, FinishSettles
  <2>2. CASE EndRun(f)
    BY <1>1, <2>2, EndRunSettles
  <2>3. CASE UNCHANGED <<queue, finished, reply>>
    BY <1>1, <2>3, NothingSettles
  <2> QED  BY <2>1, <2>2, <2>3, ActorAnswers
<1>5. Shorter(g)
  BY <1>2, SameLine
<1>6. Quiet(g)
  BY <1>2, <1>3 DEF Quiet
<1>7. CacheNoWorse(g)
  <2>1. Serving(g)' = Serving(g)
    BY <1>2 DEF Serving
  <2>2. CacheOK(g)
    BY DEF IsolatedInv, FamilyInv
  <2> QED  BY <1>2, <2>1, <2>2 DEF CacheOK, CacheNoWorse
<1> QED  BY <1>1, <1>4, <1>5, <1>6, <1>7, QuietFamily

LEMMA IsoActor ==
    ASSUME Control, SentKept, IsolatedInv, NEW f \in Families, ActorStep(f), NoneLate'
    PROVE  IsolatedInv'
<1>1. UNCHANGED <<request, saga>>
  BY DEF ActorStep
<1>2. MovesAreApart' /\ \A s \in Sagas : OutcomesOK(s)'
  <2>1. MovesAreApart /\ \A s \in Sagas : OutcomesOK(s)
    BY DEF IsolatedInv
  <2>2. \A s \in Sagas : Open(s)' <=> Open(s)
    BY <1>1 DEF Open, Active
  <2>3. ASSUME NEW s \in Sagas PROVE OutcomesOK(s)'
    BY <1>1, <2>1 DEF OutcomesOK, Unwinds, RolledBack, Height, Moving
  <2> QED  BY <2>1, <2>2, <2>3 DEF MovesAreApart
<1>3. FamilyInv(f)'
  BY <1>1, IsoAdopt, IsoEnter, IsoStepReturns, IsoStepRetried, IsoStepFails, IsoEndRun
     DEF ActorStep, HandlerStep
<1>4. ASSUME NEW g \in Families PROVE FamilyInv(g)'
  BY <1>3, <1>4, IsoElsewhere
<1> QED  BY <1>2, <1>4 DEF IsolatedInv

-----------------------------------------------------------------------------
(* The network.                                                            *)

\* A request that is delivered is of the call that its workflow is making.
LEMMA DeliveredIsPresent ==
    ASSUME Control, NoneLate, NEW v \in wire
    PROVE  \E s \in Sagas, m \in 1 .. 12 :
             /\ call[s] # {} /\ m = PresentStep(s) /\ v = Present(s) /\ v = Numbered(s, m)
             /\ v.id = <<s, m>> /\ v.id[1] = s /\ v.id[2] = m
             /\ Sent(s, m) /\ Open(s)
             /\ \A t \in Sagas : (\E u \in call[t] : u.id = v.id) => t = s
<1>1. PICK s \in Sagas : v \in call[s]
  BY DEF NoneLate
<1>2. PICK m \in 1 .. 12, w \in Update :
        /\ m = PresentStep(s) /\ w = Present(s) /\ w = Numbered(s, m)
        /\ call[s] = {w} /\ w.id = <<s, m>> /\ Sent(s, m)
  BY <1>1, PresentCall
<1>3. v = w
  BY <1>1, <1>2
<1>4. Open(s)
  <2>1. Moving(s)
    BY <1>1, WorkflowFacts
  <2> QED  BY <2>1 DEF Moving, Open, Active
<1>5. ASSUME NEW t \in Sagas, NEW u \in call[t], u.id = v.id
      PROVE  t = s
  <2>1. u.id = <<t, PresentStep(t)>>
    BY <1>5, CallIsGenuine
  <2> QED  BY <1>2, <1>3, <1>5, <2>1
<1>6. v = Present(s) /\ v = Numbered(s, m) /\ v.id = <<s, m>>
  BY <1>2, <1>3
<1>7. v.id[1] = s /\ v.id[2] = m
  BY <1>6
<1>8. \A t \in Sagas : (\E u \in call[t] : u.id = v.id) => t = s
  BY <1>5
<1> QED  BY <1>1, <1>2, <1>4, <1>6, <1>7, <1>8

LEMMA DeliverSettles ==
    ASSUME Control, NoneLate, NEW v \in wire, Deliver(v), UNCHANGED <<request, saga>>, NEW g
    PROVE  NoneSettlesAt(g)
<1>1. PICK s \in Sagas, m \in 1 .. 12 :
        /\ call[s] # {} /\ m = PresentStep(s) /\ v = Present(s) /\ v.id = <<s, m>>
        /\ \A t \in Sagas : (\E u \in call[t] : u.id = v.id) => t = s
  BY DeliveredIsPresent
<1> DEFINE known == {done \in finished[v.family] : done.id = v.id}
           first == CHOOSE done \in known : TRUE
<1>2. /\ UNCHANGED <<finished, call>>
      /\ IF known = {} THEN UNCHANGED reply ELSE Tell({v.id}, first.answer)
  BY DEF Deliver
<1>3. ASSUME NEW t \in Sagas, call[t] # {}, Answered(t)'
      PROVE  Answered(t)
  <2>1. CASE reply'[t] = reply[t]
    BY <1>2, <1>3, <2>1, AnswerCases
  <2>2. CASE reply'[t] # reply[t]
    <3>1. known # {}
      BY <1>2, <2>2
    <3>2. t = s
      BY <1>1, <1>2, <2>2, <3>1 DEF Tell
    <3>3. first \in known
      BY <3>1
    <3>4. reply'[t] = first.answer
      BY <1>2, <2>2, <3>1 DEF Tell
    <3> HIDE DEF first
    <3>5. first \in finished[Present(s).family] /\ first.id = <<s, PresentStep(s)>>
      BY <1>1, <3>3
    <3>6. CASE first.answer # "failed"
      BY <3>2, <3>5, <3>6 DEF Answered
    <3>7. CASE first.answer = "failed"
      <4>1. reply'[t] \notin {"changed", "unchanged"}
        BY <3>4, <3>7
      <4> QED  BY <1>2, <1>3, <4>1, AnswerCases
    <3> QED  BY <3>6, <3>7
  <2> QED  BY <2>1, <2>2
<1> QED  BY <1>2, <1>3, NoNewAnswer

\* What becomes of the lines.
LEMMA DeliverLines ==
    ASSUME Control, NEW v \in wire, Deliver(v), NEW g \in Families
    PROVE  \/ queue'[g] = queue[g]
           \/ /\ g = v.family /\ ~InLine(g, v.id)
              /\ \A k \in DOMAIN queue'[g] :
                    \/ k \in DOMAIN queue[g] /\ queue'[g][k] = queue[g][k]
                    \/ /\ k = Len(queue[g]) + 1 /\ k \notin DOMAIN queue[g]
                       /\ queue'[g][k] = v
<1>1. v \in Update /\ queue \in [Families -> Seq(Update)] /\ queue[g] \in Seq(Update)
  BY Typed
<1>2. PICK f \in Families : f = v.family
  BY <1>1 DEF Update
<1>3. queue' = [queue EXCEPT ![f] =
            IF {done \in finished[f] : done.id = v.id} # {} \/ \E u \in ToSet(queue[f]) : u.id = v.id
            THEN queue[f] ELSE Append(queue[f], v)]
  BY <1>2 DEF Deliver
<1>4. (\E u \in ToSet(queue[f]) : u.id = v.id) <=> InLine(f, v.id)
  BY DEF ToSet, InLine
<1>5. CASE g # f
  BY <1>1, <1>3, <1>5
<1>6. CASE g = f
  <2>1. \/ queue'[f] = queue[f]
        \/ ~InLine(f, v.id) /\ queue'[f] = Append(queue[f], v)
    BY <1>1, <1>3, <1>4
  <2> QED  BY <1>1, <1>2, <1>6, <2>1, Enqueue
<1> QED  BY <1>5, <1>6

\* An update goes to the end of a line in which it is the last of its move.
LEMMA DeliverInOrder ==
    ASSUME Control, SentKept, IsolatedInv, NEW v \in wire, Deliver(v), UNCHANGED <<request, saga>>,
           NEW f \in Families, f = v.family, ~InLine(f, v.id),
           \A k \in DOMAIN queue'[f] :
                \/ k \in DOMAIN queue[f] /\ queue'[f][k] = queue[f][k]
                \/ /\ k = Len(queue[f]) + 1 /\ k \notin DOMAIN queue[f]
                   /\ queue'[f][k] = v
    PROVE  InOrder(f)' /\ NoneOvertaken(f)' /\ EchoesHold(f)'
<1>1. PICK s \in Sagas, m \in 1 .. 12 :
        /\ call[s] # {} /\ m = PresentStep(s) /\ v = Present(s) /\ v = Numbered(s, m)
        /\ v.id = <<s, m>> /\ v.id[1] = s /\ v.id[2] = m
        /\ Sent(s, m) /\ Open(s)
  BY DeliveredIsPresent DEF IsolatedInv
<1>2. /\ InOrder(f) /\ NoneOvertaken(f) /\ EchoesHold(f) /\ PresentHolds(s, f)
      /\ MovesAreApart /\ \A t \in Sagas : OutcomesOK(t)
  BY DEF IsolatedInv, FamilyInv
<1>3. NoneSettlesAt(f)
  BY DeliverSettles DEF IsolatedInv
<1>4. UNCHANGED <<cluster, call>>
  BY DEF Deliver
<1>5. DOMAIN queue[f] = 1 .. Len(queue[f]) /\ Len(queue[f]) \in Nat
  BY Typed, QueueDomain
<1>6. \A t \in Sagas : Open(t)' <=> Open(t)
  BY DEF Open, Active
\* Those before it are of other moves, or have lower numbers.
<1>7. ASSUME NEW j \in DOMAIN queue[f]
      PROVE  \E t \in Sagas, l \in 1 .. 12 :
               /\ queue[f][j].id[1] = t /\ queue[f][j].id[2] = l
               /\ Sent(t, l) /\ queue[f][j] = Numbered(t, l) /\ Numbered(t, l).family = f
               /\ t = s => l < m
               /\ Open(t) => t = s
  <2>1. PICK t \in Sagas, l \in 1 .. 12 :
            /\ queue[f][j].id = <<t, l>> /\ queue[f][j].id[1] = t /\ queue[f][j].id[2] = l
            /\ Sent(t, l) /\ queue[f][j] = Numbered(t, l) /\ Numbered(t, l).family = f
    BY <1>7, QueuedNumber
  <2>2. ASSUME t = s PROVE l < m
    <3>1. l <= m
      BY <1>1, <2>1, <2>2, PresentIsLast
    <3>2. l # m
      BY <1>1, <1>7, <2>1, <2>2 DEF InLine
    <3> QED  BY <3>1, <3>2
  <2>3. Open(t) => t = s
    BY <1>1, <1>2 DEF MovesAreApart
  <2> QED  BY <2>1, <2>2, <2>3
<1>8. InOrder(f)'
  <2>1. ASSUME NEW j \in DOMAIN queue'[f], NEW k \in DOMAIN queue'[f], j < k
        PROVE  /\ queue'[f][j].id[1] = queue'[f][k].id[1] =>
                    queue'[f][j].id[2] < queue'[f][k].id[2]
               /\ Open(queue[f][j].id[1])' => queue'[f][k].id[1] = queue'[f][j].id[1]
    <3>1. j \in DOMAIN queue[f] /\ queue'[f][j] = queue[f][j]
      BY <1>5, <2>1
    <3>2. PICK t \in Sagas, l \in 1 .. 12 :
            /\ queue[f][j].id[1] = t /\ queue[f][j].id[2] = l
            /\ t = s => l < m
            /\ Open(t) => t = s
      BY <1>7, <3>1
    <3>3. Open(queue[f][j].id[1])' <=> Open(t)
      BY <1>6, <3>1, <3>2
    <3>4. CASE k \in DOMAIN queue[f] /\ queue'[f][k] = queue[f][k]
      BY <1>2, <2>1, <3>1, <3>2, <3>3, <3>4 DEF InOrder
    <3>5. CASE queue'[f][k] = v
      BY <1>1, <3>1, <3>2, <3>3, <3>5
    <3> QED  BY <2>1, <3>4, <3>5
  <2> QED  BY <2>1 DEF InOrder
<1>9. NoneOvertaken(f)'
  <2>1. ASSUME NEW k \in DOMAIN queue'[f], NEW n \in 1 .. 12,
               Settled(queue[f][k].id[1], n)', (Numbered(queue[f][k].id[1], n).family)' = f
        PROVE  n <= queue'[f][k].id[2]
    <3>1. PICK t \in Sagas : queue'[f][k].id[1] = t
      <4>1. CASE k \in DOMAIN queue[f] /\ queue'[f][k] = queue[f][k]
        <5>1. PICK t \in Sagas : queue[f][k].id[1] = t
          BY <1>7, <4>1
        <5> QED  BY <4>1, <5>1
      <4>2. CASE queue'[f][k] = v
        BY <1>1, <4>2
      <4> QED  BY <2>1, <4>1, <4>2
    <3>2. Settled(t, n) /\ Numbered(t, n).family = f
      <4>1. Settled(t, n)' /\ (Numbered(t, n).family)' = f
        BY <2>1, <3>1
      <4>2. Settled(t, n)
        BY <1>3, <4>1 DEF NoneSettlesAt
      <4>3. Numbered(t, n)' = Numbered(t, n)
        BY <1>4, SameWorkflow
      <4> QED  BY <4>1, <4>2, <4>3
    <3>3. CASE k \in DOMAIN queue[f] /\ queue'[f][k] = queue[f][k]
      BY <1>2, <3>1, <3>2, <3>3 DEF NoneOvertaken, PlanLength
    <3>4. CASE queue'[f][k] = v
      <4>1. t = s
        BY <1>1, <3>1, <3>4
      <4>2. Sent(s, n)
        BY <1>2, <3>2, <4>1, SettledIsSent
      <4> QED  BY <1>1, <3>4, <4>2, PresentIsLast
    <3> QED  BY <2>1, <3>3, <3>4
  <2> QED  BY ONLY <2>1 DEF NoneOvertaken, PlanLength
<1>10. EchoesHold(f)'
  <2>1. ASSUME NEW k \in DOMAIN queue'[f], Settled(queue[f][k].id[1], queue[f][k].id[2])'
        PROVE  InEffect(f, queue[f][k])'
    <3>1. CASE k \in DOMAIN queue[f] /\ queue'[f][k] = queue[f][k]
      <4>1. PICK t \in Sagas, l \in 1 .. 12, u \in Update :
                /\ u = queue[f][k] /\ queue[f][k].id[1] = t /\ queue[f][k].id[2] = l
                /\ u = Numbered(t, l) /\ Numbered(t, l).family = f
        BY <1>7, <3>1, QueuedUpdate
      <4>2. Settled(t, l)'
        BY <2>1, <3>1, <4>1
      <4>3. (Numbered(t, l).family)' = f
        BY <1>4, <4>1, SameWorkflow
      <4>4. Settled(t, l)
        BY <1>3, <4>2, <4>3 DEF NoneSettlesAt
      <4>5. InEffect(f, u)
        BY <1>2, <3>1, <4>1, <4>4 DEF EchoesHold
      <4>6. InEffect(f, u)'
        BY <1>4, <4>5 DEF InEffect, cluster
      <4> QED  BY <3>1, <4>1, <4>6
    <3>2. CASE queue'[f][k] = v
      <4>1. Settled(s, m)'
        BY <1>1, <2>1, <3>2
      <4>2. (Numbered(s, m).family)' = f
        BY <1>1, <1>4, SameWorkflow
      <4>3. Settled(s, m)
        BY <1>3, <4>1, <4>2 DEF NoneSettlesAt
      <4>4. Answered(s)
        BY <1>1, <4>3, PresentSettled
      <4>5. InEffect(f, v)
        BY <1>1, <1>2, <4>4 DEF PresentHolds
      <4>6. InEffect(f, v)'
        BY <1>4, <4>5 DEF InEffect, cluster
      <4> QED  BY <3>2, <4>6
    <3> QED  BY <2>1, <3>1, <3>2
  <2> QED  BY <2>1 DEF EchoesHold
<1> QED  BY <1>8, <1>9, <1>10

LEMMA IsoDeliver ==
    ASSUME Control, SentKept, IsolatedInv, NEW v \in wire, Deliver(v),
           UNCHANGED <<request, saga>>, NoneLate'
    PROVE  IsolatedInv'
<1>1. UNCHANGED <<cluster, cache, steps, finished, call>>
  BY DEF Deliver
<1>2. MovesAreApart' /\ \A s \in Sagas : OutcomesOK(s)'
  <2>1. MovesAreApart /\ \A s \in Sagas : OutcomesOK(s)
    BY DEF IsolatedInv
  <2>2. \A s \in Sagas : Open(s)' <=> Open(s)
    BY DEF Open, Active
  <2>3. ASSUME NEW s \in Sagas PROVE OutcomesOK(s)'
    BY <2>1 DEF OutcomesOK, Unwinds, RolledBack, Height, Moving
  <2> QED  BY <2>1, <2>2, <2>3 DEF MovesAreApart
<1>3. ASSUME NEW g \in Families PROVE FamilyInv(g)'
  <2>1. NoneSettlesAt(g)
    BY DeliverSettles DEF IsolatedInv
  <2>2. Quiet(g)
    BY <1>1 DEF Quiet, cluster
  <2>3. CacheNoWorse(g)
    <3>1. actor'[g] = "ready" => actor[g] = "ready"
      <4>1. actor' = [actor EXCEPT ![v.family] = IF @ = "absent" THEN "starting" ELSE @]
        BY DEF Deliver
      <4> QED  BY <4>1, <1>3, Typed
    <3>2. ASSUME steps'[g] = <<"patch_configmap">> PROVE Serving(g)' = Serving(g)
      <4>1. Busy(g)
        BY <1>1, <3>2, StepsAsSequences DEF Busy
      <4>2. queue[g] # <<>>
        BY <1>3, <4>1, StepsLeft
      <4> QED  BY <1>3, <4>2, DeliverFrame DEF Serving
    <3>3. CacheOK(g)
      BY <1>3 DEF IsolatedInv, FamilyInv
    <3> QED  BY <1>1, <3>1, <3>2, <3>3 DEF CacheNoWorse, CacheOK, cluster
  <2>4. CASE queue'[g] = queue[g]
    BY <1>1, <1>3, <2>1, <2>2, <2>3, <2>4, SameLine, QuietFamily
  <2>5. CASE /\ g = v.family /\ ~InLine(g, v.id)
             /\ \A k \in DOMAIN queue'[g] :
                    \/ k \in DOMAIN queue[g] /\ queue'[g][k] = queue[g][k]
                    \/ /\ k = Len(queue[g]) + 1 /\ k \notin DOMAIN queue[g]
                       /\ queue'[g][k] = v
    <3>1. InOrder(g)' /\ NoneOvertaken(g)' /\ EchoesHold(g)'
      BY <1>3, <2>5, DeliverInOrder
    <3> QED  BY <1>1, <1>3, <2>1, <2>2, <2>3, <3>1, QuietRest DEF FamilyInv
  <2> QED  BY <1>3, <2>4, <2>5, DeliverLines
<1> QED  BY <1>2, <1>3 DEF IsolatedInv

-----------------------------------------------------------------------------
(* The steps of a workflow and its proxy.                                  *)

\* The proxy only forgets what its call has been answered.
LEMMA IsoProxy ==
    ASSUME Control, SentKept, IsolatedInv, NEW s \in Sagas, ProxyStep(s),
           UNCHANGED <<request, saga>>, NoneLate'
    PROVE  IsolatedInv'
<1>1. UNCHANGED <<cluster, entity, call>>
  BY DEF ProxyStep, TryAgain, GiveUp, Refused
<1>2. UNCHANGED <<state, datatypes, actor, cache, queue, steps, finished>>
  BY <1>1 DEF cluster, entity
<1>3. \A t \in Sagas : reply'[t] = reply[t] \/ reply'[t] \notin {"changed", "unchanged"}
  <2>1. reply \in [Sagas -> Reply]
    BY Typed
  <2>2. reply' \in {[reply EXCEPT ![s] = "waiting"], [reply EXCEPT ![s] = "failed"]}
    BY DEF ProxyStep, TryAgain, GiveUp, Refused
  <2> QED  BY <2>1, <2>2
<1>4. MovesAreApart' /\ \A t \in Sagas : OutcomesOK(t)'
  <2>1. MovesAreApart /\ \A t \in Sagas : OutcomesOK(t)
    BY DEF IsolatedInv
  <2>2. \A t \in Sagas : Open(t)' <=> Open(t)
    BY DEF Open, Active
  <2>3. ASSUME NEW t \in Sagas PROVE OutcomesOK(t)'
    BY <2>1 DEF OutcomesOK, Unwinds, RolledBack, Height, Moving
  <2> QED  BY <2>1, <2>2, <2>3 DEF MovesAreApart
<1>5. ASSUME NEW f \in Families PROVE FamilyInv(f)'
  <2>1. NoneSettlesAt(f)
    BY <1>1, <1>2, <1>3, NothingSettles
  <2>2. CacheNoWorse(f)
    BY <1>2 DEF CacheNoWorse, IsolatedInv, FamilyInv, CacheOK, Serving
  <2> QED  BY <1>1, <1>2, <1>5, <2>1, <2>2, SameLine, QuietFamily DEF Quiet
<1> QED  BY <1>4, <1>5 DEF IsolatedInv

\* Nothing of a workflow is settled by its step, and what it owes it goes on owing.
SettlesNothing(s) == \A k \in 1 .. 12 : Settled(s, k)' => Settled(s, k)

KeepsDebts(s) == \A f \in Families : Open(s) /\ Owed(s, f) => Open(s)' /\ Owed(s, f)'

\* The others, while a workflow takes a step.
OthersStand(s) ==
    \A t \in Sagas \ {s} : saga'[t] = saga[t] /\ call'[t] = call[t] /\ reply'[t] = reply[t]

LEMMA OwnSettles ==
    ASSUME Control, NEW s \in Sagas, UNCHANGED <<entity, request>>, OthersStand(s),
           SettlesNothing(s), NEW f
    PROVE  NoneSettlesAt(f)
<1>1. ASSUME NEW t \in Sagas \ {s}, NEW k \in 1 .. 12, Settled(t, k)'
      PROVE  Settled(t, k)
  <2>1. saga'[t] = saga[t] /\ call'[t] = call[t] /\ reply'[t] = reply[t]
    BY <1>1 DEF OthersStand
  <2>2. /\ Height(t)' = Height(t) /\ PresentStep(t)' = PresentStep(t)
        /\ Unwinds(t)' <=> Unwinds(t)
        /\ Place(t, k)' = Place(t, k)
    BY <2>1, SameWorkflow
  <2>3. Answered(t)' => Answered(t)
    BY <2>1, AnswerCases DEF entity
  <2> QED  BY <1>1, <2>1, <2>2, <2>3 DEF Settled
<1> QED  BY <1>1 DEF NoneSettlesAt, SettlesNothing

LEMMA OwnKept ==
    ASSUME Control, SentKept, IsolatedInv, NoneLate', NEW s \in Sagas,
           UNCHANGED <<cluster, entity, request>>, OthersStand(s),
           SettlesNothing(s), KeepsDebts(s), OutcomesOK(s)',
           \/ Open(s)' => Open(s)
           \/ NotBegun(s) /\ \A t \in Sagas \ {s} : ~Open(t),
           saga'[s].pc = "idle" => saga[s].pc = "idle",
           \A f \in Families : /\ PresentHolds(s, f)' /\ SnapshotCurrent(s, f)'
                               /\ Advanced(s, f)' /\ DeviationsOwned(s, f)'
    PROVE  IsolatedInv'
<1>1. UNCHANGED <<state, datatypes, actor, cache, queue, steps, finished>>
  BY DEF cluster, entity
<1>2. /\ MovesAreApart /\ \A t \in Sagas : OutcomesOK(t)
      /\ \A f \in Families : FamilyInv(f)
  BY DEF IsolatedInv
<1>3. \A t \in Sagas \ {s} : Open(t)' <=> Open(t)
  BY DEF OthersStand, Open, Active
<1>4. NoneResets
  BY DEF NoneResets, OthersStand
<1>5. MovesAreApart'
  BY <1>2, <1>3 DEF MovesAreApart
<1>6. ASSUME NEW t \in Sagas PROVE OutcomesOK(t)'
  BY <1>2 DEF OthersStand, OutcomesOK, Unwinds, RolledBack, Height, Moving
<1>7. ASSUME NEW f \in Families PROVE FamilyInv(f)'
  <2>1. NoneSettlesAt(f)
    BY OwnSettles
  <2>2. Quiet(f) /\ Shorter(f)
    BY <1>1, <1>7, SameLine DEF Quiet
  <2>3. ASSUME NEW t \in Sagas, Open(t)'
        PROVE  Open(t) \/ \A k \in 1 .. 12 : ~Sent(t, k)
    BY <1>2, <1>3, <2>3, NothingSent
  <2>4. InOrder(f)' /\ NoneOvertaken(f)' /\ EchoesHold(f)'
    BY <1>2, <1>7, <2>1, <2>2, <2>3, InOrderKept, NoneOvertakenKept, EchoesHoldKept
       DEF FamilyInv
  <2>5. CacheOK(f)'
    <3>1. ASSUME NEW t \in Sagas, Open(t), Owed(t, f)
          PROVE  Open(t)' /\ Owed(t, f)'
      <4>1. CASE t = s
        BY <1>7, <3>1, <4>1 DEF KeepsDebts
      <4>2. CASE t # s
        <5>1. saga'[t] = saga[t] /\ call'[t] = call[t]
          BY <4>2, <3>1 DEF OthersStand
        <5>2. Owed(t, f)'
          BY <1>1, <1>2, <2>1, <3>1, <5>1, OwedKept
        <5> QED  BY <1>3, <3>1, <4>2, <5>2
      <4> QED  BY <4>1, <4>2
    <3>2. CacheOK(f)
      BY <1>2, <1>7 DEF FamilyInv
    <3> QED  BY <1>1, <3>1, <3>2 DEF CacheOK, Serving
  <2>6. ASSUME NEW t \in Sagas
        PROVE  /\ PresentHolds(t, f)' /\ SnapshotCurrent(t, f)'
               /\ Advanced(t, f)' /\ DeviationsOwned(t, f)'
    <3>1. CASE t = s
      BY <1>7, <3>1
    <3>2. CASE t # s
      <4>1. saga'[t] = saga[t] /\ call'[t] = call[t]
        BY <2>6, <3>2 DEF OthersStand
      <4>2. /\ PresentHolds(t, f) /\ SnapshotCurrent(t, f)
            /\ Advanced(t, f) /\ DeviationsOwned(t, f) /\ OutcomesOK(t)
        BY <1>2, <1>7, <2>6 DEF FamilyInv
      <4>3. PresentHolds(t, f)'
        BY <2>1, <2>2, <2>6, <4>1, <4>2, PresentHoldsKept
      <4>4. SnapshotCurrent(t, f)'
        BY <1>1, <4>1, <4>2 DEF SnapshotCurrent, Read
      <4>5. Advanced(t, f)'
        BY <1>1, <4>1, <4>2
           DEF Advanced, Height, PausePosition, PatchPosition, ResumePosition
      <4>6. DeviationsOwned(t, f)'
        BY <1>4, <2>1, <2>2, <2>6, <4>1, <4>2, DeviationsKept
      <4> QED  BY <4>3, <4>4, <4>5, <4>6
    <3> QED  BY <3>1, <3>2
  <2> QED  BY <2>4, <2>5, <2>6 DEF FamilyInv
<1> QED  BY <1>5, <1>6, <1>7 DEF IsolatedInv

\* Before the plan is begun a workflow owes nothing, and nothing of it is settled.
LEMMA IsoPrepares ==
    ASSUME Control, SentKept, IsolatedInv, NoneLate', NEW s \in Sagas,
           UNCHANGED <<cluster, entity, request, call>>, OthersStand(s),
           saga[s].pc \in {"idle", "read source", "read target", "validating"},
           saga'[s].done = saga[s].done, saga'[s].stack = saga[s].stack,
           saga'[s].errors = saga[s].errors,
           saga'[s].pc \in {"read source", "read target", "validating", "forward", "ended"},
           saga'[s].verdict \in {"none", "REJECTED"},
           saga'[s].pc = "ended" => saga'[s].verdict # "none",
           saga'[s].pc = "forward" => ~Rejected(request[s], saga'[s].statuses),
           saga[s].pc = "idle" => \A t \in Sagas \ {s} : ~Open(t),
           \A f \in Families : SnapshotCurrent(s, f)' /\ Advanced(s, f)'
    PROVE  IsolatedInv'
<1>1. OutcomesOK(s) /\ NotBegun(s)
  BY DEF IsolatedInv, NotBegun
<1>2. call[s] = {} /\ saga[s].done = 0 /\ ~Unwinds(s)
  BY <1>1, NothingSent
<1>3. saga[s].stack = <<>>
  BY WorkflowFacts DEF SagaOK
<1>4. saga[s].errors = {}
  BY <1>1, <1>2 DEF OutcomesOK
<1>5. ~Unwinds(s)' /\ ~RolledBack(s)'
  BY DEF Unwinds, RolledBack
<1>6. SettlesNothing(s)
  BY <1>2, <1>5 DEF SettlesNothing, Settled
<1>7. KeepsDebts(s)
  BY <1>2 DEF KeepsDebts, Owed
<1>8. OutcomesOK(s)'
  BY <1>2, <1>3, <1>4, <1>5 DEF OutcomesOK, Moving
<1>9. \/ Open(s)' => Open(s)
      \/ NotBegun(s) /\ \A t \in Sagas \ {s} : ~Open(t)
  BY <1>1 DEF Open, Active
<1>10. ASSUME NEW f \in Families
       PROVE  PresentHolds(s, f)' /\ DeviationsOwned(s, f)'
  BY <1>2, <1>5 DEF PresentHolds, DeviationsOwned
<1> QED  BY <1>6, <1>7, <1>8, <1>9, <1>10, OwnKept

LEMMA IsoStart ==
    ASSUME Control, SentKept, IsolatedInv, NoneLate', NEW s \in Sagas, Start(s), Isolated
    PROVE  IsolatedInv'
<1>1. saga[s].pc = "idle" /\ Goto(s, "read source")
  BY DEF Start
<1>2. UNCHANGED <<cluster, entity, request, call, reply>>
  BY DEF Start, Alone, proxyVars
<1>3. /\ \A t \in Sagas \ {s} : saga'[t] = saga[t]
      /\ saga'[s].pc = "read source" /\ saga'[s].verdict = saga[s].verdict
      /\ saga'[s].done = saga[s].done /\ saga'[s].stack = saga[s].stack
      /\ saga'[s].errors = saga[s].errors
  BY <1>1, GotoFacts
<1>4. saga[s].verdict = "none"
  BY <1>1, WorkflowFacts DEF SagaOK
<1>5. \A t \in Sagas \ {s} : ~Open(t)
  BY <1>1, <1>3 DEF Isolated, Open
<1>6. ASSUME NEW f \in Families PROVE SnapshotCurrent(s, f)' /\ Advanced(s, f)'
  BY <1>3 DEF SnapshotCurrent, Advanced
<1> QED  BY <1>1, <1>2, <1>3, <1>4, <1>5, <1>6, IsoPrepares DEF OthersStand

LEMMA NothingRead ==
    ASSUME NEW snapshot, snapshot = <<>>, NEW f
    PROVE  f \notin DOMAIN snapshot
OBVIOUS

\* The snapshot of a family is what the cluster says when it is read.
LEMMA IsoReads ==
    ASSUME Control, SentKept, IsolatedInv, NoneLate', NEW s \in Sagas,
           ReadSource(s) \/ ReadTarget(s)
    PROVE  IsolatedInv'
<1>1. UNCHANGED <<cluster, entity, request, call, reply>>
  BY DEF ReadSource, ReadTarget, ReadFamily, Alone, proxyVars
<1>2. PICK g \in Families, next \in {"read target", "validating"} :
        /\ ReadFamily(s, g, next)
        /\ \/ saga[s].pc = "read source" /\ next = "read target"
           \/ saga[s].pc = "read target" /\ next = "validating"
  <2>1. ASSUME NEW h, NEW next, ReadFamily(s, h, next) PROVE h \in Families
    BY <2>1 DEF ReadFamily
  <2>2. CASE ReadSource(s)
    <3>1. ReadFamily(s, request[s].source, "read target") /\ saga[s].pc = "read source"
      BY <2>2 DEF ReadSource
    <3> QED  BY <2>1, <3>1
  <2>3. CASE ReadTarget(s)
    <3>1. ReadFamily(s, request[s].target, "validating") /\ saga[s].pc = "read target"
      BY <2>3 DEF ReadTarget
    <3> QED  BY <2>1, <3>1
  <2> QED  BY <2>2, <2>3
<1>3. /\ g \in Families
      /\ \A t \in Sagas \ {s} : saga'[t] = saga[t]
      /\ saga'[s].pc = next /\ saga'[s].verdict = saga[s].verdict
      /\ saga'[s].statuses \in [DOMAIN saga[s].statuses \union {g} -> FamilyStatus]
      /\ saga'[s].statuses[g] = Read(g)
      /\ \A h \in DOMAIN saga[s].statuses \ {g} : saga'[s].statuses[h] = saga[s].statuses[h]
      /\ saga'[s].done = saga[s].done /\ saga'[s].stack = saga[s].stack
      /\ saga'[s].errors = saga[s].errors
  <2>1. CASE next = "read target"
    <3>1. ReadFamily(s, g, "read target")
      BY <1>2, <2>1
    <3> QED  BY <2>1, <3>1, ReadingFacts
  <2>2. CASE next = "validating"
    <3>1. ReadFamily(s, g, "validating")
      BY <1>2, <2>2
    <3> QED  BY <2>2, <3>1, ReadingFacts
  <2> QED  BY <2>1, <2>2
<1>4. saga[s].verdict = "none"
  BY <1>2, WorkflowFacts DEF SagaOK
<1>5. ASSUME NEW f \in Families PROVE SnapshotCurrent(s, f)' /\ Advanced(s, f)'
  <2>1. Read(f)' = Read(f)
    BY <1>1 DEF Read, cluster
  <2>2. ASSUME f \in DOMAIN saga'[s].statuses
        PROVE  saga'[s].statuses[f] = Read(f)
    <3>1. CASE f = g
      BY <1>3, <3>1
    <3>2. CASE f # g
      <4>1. f \in DOMAIN saga[s].statuses \ {g}
        BY <1>3, <2>2, <3>2
      <4>2. saga[s].pc = "read target"
        <5>1. ASSUME saga[s].pc = "read source" PROVE FALSE
          <6>1. saga[s].statuses = <<>>
            BY <5>1, WorkflowFacts DEF SagaOK
          <6> QED  BY <4>1, <6>1, NothingRead
        <5> QED  BY <1>2, <5>1
      <4>3. SnapshotCurrent(s, f)
        BY <1>5 DEF IsolatedInv, FamilyInv
      <4> QED  BY <1>3, <4>1, <4>2, <4>3 DEF SnapshotCurrent
    <3> QED  BY <3>1, <3>2
  <2> QED  BY <1>3, <2>1, <2>2 DEF SnapshotCurrent, Advanced
<1> QED  BY <1>1, <1>2, <1>3, <1>4, <1>5, IsoPrepares DEF OthersStand

LEMMA IsoReject ==
    ASSUME Control, SentKept, IsolatedInv, NoneLate', NEW s \in Sagas, Reject(s)
    PROVE  IsolatedInv'
<1>1. UNCHANGED <<cluster, entity, request, call, reply>>
  BY DEF Reject, Alone, proxyVars
<1>2. saga[s].pc = "validating" /\ End(s, "REJECTED")
  BY DEF Reject
<1>3. /\ \A t \in Sagas \ {s} : saga'[t] = saga[t]
      /\ saga'[s].pc = "ended" /\ saga'[s].verdict = "REJECTED"
      /\ saga'[s].done = saga[s].done /\ saga'[s].stack = saga[s].stack
      /\ saga'[s].errors = saga[s].errors
  BY <1>2, EndFacts DEF Verdict
<1>4. ASSUME NEW f \in Families PROVE SnapshotCurrent(s, f)' /\ Advanced(s, f)'
  BY <1>3 DEF SnapshotCurrent, Advanced
<1> QED  BY <1>1, <1>2, <1>3, <1>4, IsoPrepares DEF OthersStand

\* When the plan is begun its snapshot is still what the cluster says.
LEMMA IsoAccept ==
    ASSUME Control, SentKept, IsolatedInv, NoneLate', NEW s \in Sagas, Accept(s)
    PROVE  IsolatedInv'
<1>1. UNCHANGED <<cluster, entity, request, call, reply>>
  BY DEF Accept, Alone, proxyVars
<1>2. /\ saga[s].pc = "validating" /\ Goto(s, "forward")
      /\ ~Rejected(request[s], saga[s].statuses)
  BY DEF Accept
<1>3. /\ \A t \in Sagas \ {s} : saga'[t] = saga[t]
      /\ saga'[s].pc = "forward" /\ saga'[s].verdict = saga[s].verdict
      /\ saga'[s].statuses = saga[s].statuses
      /\ saga'[s].done = saga[s].done /\ saga'[s].stack = saga[s].stack
      /\ saga'[s].errors = saga[s].errors
  BY <1>2, GotoFacts
<1>4. /\ saga[s].verdict = "none" /\ saga[s].done = 0 /\ saga[s].stack = <<>>
      /\ SnapshotTaken(s)
  BY <1>2, WorkflowFacts DEF SagaOK
<1>5. ASSUME NEW f \in Families PROVE SnapshotCurrent(s, f)' /\ Advanced(s, f)'
  <2>1. SnapshotCurrent(s, f)'
    BY <1>3 DEF SnapshotCurrent
  <2>2. ASSUME f \in FamiliesOf(request[s])
        PROVE  /\ state[f] = saga[s].statuses[f].state
               /\ datatypes[f] = saga[s].statuses[f].datatypes
    <3>1. saga[s].statuses[f] = Read(f)
      BY <1>2, <1>4, <1>5, <2>2 DEF SnapshotTaken, SnapshotCurrent, IsolatedInv, FamilyInv
    <3> QED  BY <3>1 DEF Read
  <2>3. /\ PausePosition(s, f)' \in {1, 2} /\ PatchPosition(s, f)' \in {3, 4}
        /\ ResumePosition(s, f)' \in {5, 6}
    BY DEF PausePosition, PatchPosition, ResumePosition
  <2>4. /\ ~(saga'[s].done >= PausePosition(s, f)') /\ ~(saga'[s].done >= PatchPosition(s, f)')
        /\ ~(saga'[s].done >= ResumePosition(s, f)')
    BY <1>3, <1>4, <2>3
  <2>5. f \in FamiliesOf(request[s]) =>
            /\ state'[f] = saga'[s].statuses[f].state
            /\ datatypes'[f] = saga'[s].statuses[f].datatypes
    BY <1>1, <1>3, <2>2 DEF cluster
  <2>6. Advanced(s, f)'
    BY <1>1, <2>4, <2>5 DEF Advanced
  <2> QED  BY <2>1, <2>6
<1> QED  BY <1>1, <1>2, <1>3, <1>4, <1>5, IsoPrepares DEF OthersStand

\* A move that is complete has nothing left to undo, and owes nothing.
LEMMA IsoComplete ==
    ASSUME Control, SentKept, IsolatedInv, NoneLate', NEW s \in Sagas, Complete(s)
    PROVE  IsolatedInv'
<1>1. UNCHANGED <<cluster, entity, request, call, reply>>
  BY DEF Complete, Alone, proxyVars
<1>2. /\ saga[s].pc = "forward" /\ call[s] = {} /\ saga[s].done = 6
      /\ End(s, "COMPLETED")
  BY DEF Complete, PlanLength
<1>3. /\ \A t \in Sagas \ {s} : saga'[t] = saga[t]
      /\ saga'[s].pc = "ended" /\ saga'[s].verdict = "COMPLETED"
      /\ saga'[s].done = saga[s].done /\ saga'[s].stack = saga[s].stack
      /\ saga'[s].errors = saga[s].errors
  BY <1>2, EndFacts DEF Verdict
<1>4. OutcomesOK(s)
  BY DEF IsolatedInv
<1>5. ~Unwinds(s) /\ Height(s) = 6
  BY <1>2, ForwardFacts
<1>6. ~Unwinds(s)' /\ ~RolledBack(s)'
  BY <1>3 DEF Unwinds, RolledBack
<1>7. saga[s].errors = {}
  BY <1>4, <1>5 DEF OutcomesOK
<1>8. SettlesNothing(s)
  BY <1>1, <1>2, <1>3, <1>6 DEF SettlesNothing, Settled
<1>9. KeepsDebts(s)
  BY <1>2, <1>5 DEF KeepsDebts, Owed
<1>10. OutcomesOK(s)'
  BY <1>2, <1>3, <1>5, <1>6, <1>7 DEF OutcomesOK, Moving, Height, PlanLength
<1>11. Open(s)
  BY <1>2 DEF Open, Active
<1>12. ASSUME NEW f \in Families
       PROVE  /\ PresentHolds(s, f)' /\ SnapshotCurrent(s, f)'
              /\ Advanced(s, f)' /\ DeviationsOwned(s, f)'
  BY <1>1, <1>2, <1>3, <1>6 DEF PresentHolds, SnapshotCurrent, Advanced, DeviationsOwned
<1> QED  BY <1>1, <1>3, <1>8, <1>9, <1>10, <1>11, <1>12, OwnKept DEF OthersStand

-----------------------------------------------------------------------------
(* The unwind.                                                             *)

\* While it unwinds a workflow that settles nothing owes what it owed, and
\* has left of its move what it had.
LEMMA UnwindKept ==
    ASSUME Control, IsolatedInv, NEW s \in Sagas, saga[s].pc = "unwinding",
           UNCHANGED <<cluster, request>>, SettlesNothing(s), Unwinds(s)',
           saga'[s].pc \in {"unwinding", "ended"},
           saga'[s].done = saga[s].done, saga'[s].statuses = saga[s].statuses,
           NEW f \in Families
    PROVE  /\ Owed(s, f) => Owed(s, f)'
           /\ DeviationsOwned(s, f)'
<1>1. Unwinds(s) /\ Open(s) /\ OutcomesOK(s)
  BY DEF Unwinds, Open, Active, IsolatedInv
<1>2. PICK d \in 0 .. 5 :
        d = saga[s].done /\ \A p \in 1 .. 6 : Restored(s, p) = d + 8 - p
  BY <1>1, UnwindFacts
<1>3. ASSUME NEW p \in 1 .. 6
      PROVE  /\ Settled(s, Restored(s, p))' => Settled(s, Restored(s, p))
             /\ Undone(s, p)' => Undone(s, p)
  <2>1. PICK k \in 1 .. 12 : k = Restored(s, p)
    BY <1>2, <1>3
  <2>2. Restored(s, p)' = k
    BY <2>1 DEF Restored
  <2>3. Settled(s, Restored(s, p))' => Settled(s, Restored(s, p))
    BY <2>1, <2>2 DEF SettlesNothing
  <2> QED  BY <2>3 DEF Undone
<1>4. ASSUME Owed(s, f) PROVE Owed(s, f)'
  <2>1. PICK p \in 1 .. saga[s].done + 1 :
            Intents(request[s])[p].family = f /\ ~Settled(s, Restored(s, p))
    BY <1>4 DEF Owed
  <2>2. p \in 1 .. 6
    BY <1>2, <2>1
  <2>3. ~Settled(s, Restored(s, p))'
    BY <1>3, <2>1, <2>2
  <2> QED  BY <2>1, <2>3 DEF Owed
<1>5. ASSUME f \in FamiliesOf(request[s])
      PROVE  /\ Undone(s, PatchPosition(s, f))' =>
                    datatypes[f] = saga[s].statuses[f].datatypes
             /\ Undone(s, PausePosition(s, f))' => state[f] = saga[s].statuses[f].state
  <2>1. request[s].source # request[s].target
    BY <1>1 DEF OutcomesOK, Moving, Rejected
  <2>2. PICK pause \in 1 .. 6, patch \in 1 .. 6 :
            pause = PausePosition(s, f) /\ patch = PatchPosition(s, f)
    BY <1>5, <2>1, Positions
  <2>3. PausePosition(s, f)' = pause /\ PatchPosition(s, f)' = patch
    BY <2>2 DEF PausePosition, PatchPosition
  <2>4. (Undone(s, pause)' => Undone(s, pause)) /\ (Undone(s, patch)' => Undone(s, patch))
    BY <1>3
  <2>5. /\ Undone(s, patch) => datatypes[f] = saga[s].statuses[f].datatypes
        /\ Undone(s, pause) => state[f] = saga[s].statuses[f].state
    BY <1>1, <1>5, <2>2 DEF DeviationsOwned, IsolatedInv, FamilyInv
  <2> QED  BY <2>3, <2>4, <2>5
<1>6. DeviationsOwned(s, f)'
  BY <1>5 DEF DeviationsOwned, cluster
<1> QED  BY <1>4, <1>6

\* The verdict: a move that reports no error owes nothing.
LEMMA IsoUnwound ==
    ASSUME Control, SentKept, IsolatedInv, NoneLate', NEW s \in Sagas, Unwound(s)
    PROVE  IsolatedInv'
<1>1. UNCHANGED <<cluster, entity, request, call, reply>>
  BY DEF Unwound, Alone, proxyVars
<1>2. PICK v \in {"COMPENSATED", "COMPENSATION_INCOMPLETE"} :
        /\ saga[s].pc = "unwinding" /\ call[s] = {} /\ saga[s].stack = <<>>
        /\ v = "COMPENSATED" <=> saga[s].errors = {}
        /\ End(s, v)
  BY DEF Unwound
<1>3. /\ \A t \in Sagas \ {s} : saga'[t] = saga[t]
      /\ saga'[s].pc = "ended" /\ saga'[s].verdict = v
      /\ saga'[s].statuses = saga[s].statuses
      /\ saga'[s].done = saga[s].done /\ saga'[s].stack = saga[s].stack
      /\ saga'[s].errors = saga[s].errors
  BY <1>2, EndFacts DEF Verdict
<1>4. OutcomesOK(s) /\ Unwinds(s) /\ Open(s) /\ Moving(s)
  BY <1>2 DEF IsolatedInv, Unwinds, Open, Active, Moving
<1>5. Unwinds(s)' /\ RolledBack(s)'
  BY <1>3 DEF Unwinds, RolledBack
<1>6. Height(s)' = Height(s)
  BY <1>3 DEF Height
<1>7. SettlesNothing(s)
  BY <1>1, <1>2, <1>3, <1>4, <1>6 DEF SettlesNothing, Settled, Place
<1>8. OutcomesOK(s)'
  BY <1>1, <1>2, <1>3, <1>4, <1>5, <1>6 DEF OutcomesOK
<1>9. KeepsDebts(s)
  <2>1. ASSUME NEW f \in Families, Owed(s, f)
        PROVE  Open(s)' /\ Owed(s, f)'
    <3>1. Owed(s, f)'
      BY <1>1, <1>2, <1>3, <1>5, <1>7, <2>1, UnwindKept
    <3>2. saga[s].errors # {}
      <4>1. PICK d \in 0 .. 5, h \in 0 .. 6 :
                /\ d = saga[s].done /\ h = Height(s)
                /\ \A p \in 1 .. 6 : Restored(s, p) = d + 8 - p
        BY <1>4, UnwindFacts
      <4>2. h = 0
        BY <1>2, <4>1 DEF Height
      <4>3. PICK p \in 1 .. saga[s].done + 1 : ~Settled(s, Restored(s, p))
        BY <1>2, <2>1 DEF Owed
      <4>4. Restored(s, p) \in PlanLength + 1 .. PlanLength + saga[s].done + 1 - Height(s)
        BY <4>1, <4>2, <4>3 DEF PlanLength
      <4> QED  BY <1>4, <4>3, <4>4 DEF Settled
    <3> QED  BY <1>2, <1>3, <3>1, <3>2 DEF Open
  <2> QED  BY <2>1 DEF KeepsDebts
<1>10. ASSUME NEW f \in Families
       PROVE  /\ PresentHolds(s, f)' /\ SnapshotCurrent(s, f)'
              /\ Advanced(s, f)' /\ DeviationsOwned(s, f)'
  <2>1. DeviationsOwned(s, f)'
    BY <1>1, <1>2, <1>3, <1>5, <1>7, <1>10, UnwindKept
  <2> QED  BY <1>1, <1>2, <1>3, <2>1 DEF PresentHolds, SnapshotCurrent, Advanced
<1> QED  BY <1>1, <1>3, <1>4, <1>7, <1>8, <1>9, <1>10, OwnKept DEF OthersStand

\* A number that a workflow has not given out is not remembered by any actor.
LEMMA NotRemembered ==
    ASSUME Control, NEW s \in Sagas, NEW k, ~Sent(s, k), NEW f, NEW done \in finished[f],
           f \in Families
    PROVE  done.id # <<s, k>>
<1>1. Sent(done.id[1], done.id[2])
  BY DEF Control, QueueOK
<1> QED  BY <1>1

\* A call that has just been made has not been answered.
LEMMA NotYetHeard ==
    ASSUME Control, Control', NEW s \in Sagas, NEW n, ~Sent(s, n), UNCHANGED entity,
           reply'[s] = "waiting", PresentStep(s)' = n, call'[s] # {}
    PROVE  ~Answered(s)'
<1>1. SUFFICES ASSUME Answered(s)' PROVE FALSE
  OBVIOUS
<1>2. PICK u \in Update : u = Present(s)' /\ u.family \in Families
  <2>1. PICK v \in call'[s] : TRUE
    OBVIOUS
  <2>2. v = Present(s)' /\ v \in Update
    <3>1. CallOK(s)' /\ call' \in [Sagas -> SUBSET Update]
      BY DEF Control, TypeOK, ProxyTypeOK, ActorTypeOK
    <3> QED  BY <2>1, <3>1 DEF CallOK, Present
  <2> QED  BY <2>2 DEF Update
<1>3. PICK done \in finished[u.family] : done.id = <<s, n>>
  BY <1>1, <1>2 DEF Answered, entity
<1> QED  BY <1>2, <1>3, NotRemembered

\* The call of a restore settles nothing: nobody has answered it yet.
LEMMA IsoCallRestore ==
    ASSUME Control, Control', SentKept, IsolatedInv, NoneLate', NEW s \in Sagas, CallRestore(s)
    PROVE  IsolatedInv'
<1>1. PICK n \in 7 .. 12 :
        /\ saga[s].pc = "unwinding" /\ call[s] = {} /\ n = RestoreStep(s)
        /\ n = 6 + saga[s].done + 2 - Height(s)
        /\ saga[s].done \in 0 .. 5 /\ Height(s) \in 1 .. saga[s].done + 1
        /\ Send(s, RestoreUpdate(s, n)) /\ UNCHANGED <<request, saga>>
  BY CallRestoreFacts
<1>2. /\ UNCHANGED <<cluster, entity>> /\ OthersStand(s)
      /\ reply'[s] = "waiting"
  <2>1. /\ call \in [Sagas -> SUBSET Update] /\ reply \in [Sagas -> Reply]
    BY Typed
  <2> QED  BY <1>1, <2>1 DEF Send, OthersStand
<1>3. OutcomesOK(s) /\ Unwinds(s) /\ Open(s) /\ Moving(s)
  BY <1>1 DEF IsolatedInv, Unwinds, Open, Active, Moving
<1>4. (Unwinds(s)' <=> Unwinds(s)) /\ Height(s)' = Height(s) /\ (Open(s)' <=> Open(s))
  BY <1>1 DEF Unwinds, RolledBack, Height, Open, Active
<1>5. ~Sent(s, n)
  <2>1. Restores(s) = saga[s].done + 1 - Height(s) + 0
    BY <1>1, <1>3 DEF Restores
  <2> QED  BY <1>1, <2>1, SentRange
<1>6. PresentStep(s)' = n
  BY <1>1 DEF PresentStep, RestoreStep
<1>7. call'[s] # {} => ~Answered(s)'
  BY <1>2, <1>5, <1>6, NotYetHeard
<1>8. SettlesNothing(s)
  BY <1>1, <1>4, <1>7 DEF SettlesNothing, Settled, Place
<1>9. OutcomesOK(s)'
  BY <1>1, <1>3 DEF OutcomesOK, Unwinds, RolledBack, Height, Moving
<1>10. ASSUME NEW f \in Families
       PROVE  /\ Owed(s, f) => Owed(s, f)'
              /\ PresentHolds(s, f)' /\ SnapshotCurrent(s, f)'
              /\ Advanced(s, f)' /\ DeviationsOwned(s, f)'
  <2>1. (Owed(s, f) => Owed(s, f)') /\ DeviationsOwned(s, f)'
    BY <1>1, <1>2, <1>3, <1>4, <1>8, <1>10, UnwindKept
  <2> QED  BY <1>1, <1>7, <2>1 DEF PresentHolds, SnapshotCurrent, Advanced
<1>11. KeepsDebts(s)
  BY <1>4, <1>10 DEF KeepsDebts
<1> QED  BY <1>1, <1>2, <1>4, <1>8, <1>9, <1>10, <1>11, OwnKept

LEMMA ReceivingFrame ==
    ASSUME Control, NEW s \in Sagas, NEW answers, Receive(s, answers),
           \A t \in Sagas \ {s} : saga'[t] = saga[t]
    PROVE  UNCHANGED <<cluster, entity>> /\ OthersStand(s)
<1>1. call \in [Sagas -> SUBSET Update] /\ reply \in [Sagas -> Reply]
  BY Typed
<1> QED  BY <1>1 DEF Receive, OthersStand

\* The answer to a restore settles it when it is good, and is filed when not.
LEMMA IsoRestoreAnswered ==
    ASSUME Control, SentKept, IsolatedInv, NoneLate', NEW s \in Sagas, RestoreAnswered(s)
    PROVE  IsolatedInv'
<1>1. /\ saga[s].pc = "unwinding" /\ saga[s].stack # <<>>
      /\ reply[s] \in Answers /\ call[s] # {}
      /\ Receive(s, Answers) /\ UNCHANGED request
      /\ call'[s] = {}
      /\ \A t \in Sagas \ {s} : saga'[t] = saga[t]
      /\ saga'[s].pc = "unwinding"
      /\ saga'[s].verdict = saga[s].verdict
      /\ saga'[s].statuses = saga[s].statuses
      /\ saga'[s].done = saga[s].done
      /\ saga'[s].errors = IF reply[s] = "failed"
                           THEN saga[s].errors \union {Last(saga[s].stack)}
                           ELSE saga[s].errors
      /\ Height(s)' = Height(s) - 1
  BY RestoreAnsweredFacts
<1>2. UNCHANGED <<cluster, entity>> /\ OthersStand(s)
  BY <1>1, ReceivingFrame
<1>3. OutcomesOK(s) /\ Unwinds(s) /\ Open(s) /\ Moving(s)
  BY <1>1 DEF IsolatedInv, Unwinds, Open, Active, Moving
<1>4. Unwinds(s)' /\ Open(s)' /\ Moving(s)'
  BY <1>1 DEF Unwinds, Open, Active, Moving
<1>5. PICK d \in 0 .. 5, h \in 0 .. 6 :
        /\ d = saga[s].done /\ h = Height(s) /\ h <= d + 1 /\ h # 0
        /\ PresentStep(s) = d + 8 - h
        /\ \A k \in 1 .. 12 : Place(s, k) = d + 8 - k
  BY <1>1, <1>3, UnwindFacts
<1>6. Last(saga[s].stack) = Intents(request[s])[h]
  <2>1. h \in 1 .. Height(s)
    BY <1>5
  <2>2. saga[s].stack[h] = Intents(request[s])[h]
    BY <2>1, WorkflowFacts DEF StackOK
  <2> QED  BY <1>5, <2>2 DEF Last, Height
<1>7. SettlesNothing(s)
  <2>1. ASSUME NEW k \in 1 .. 12, Settled(s, k)'
        PROVE  Settled(s, k)
    <3>1. CASE k \in 1 .. saga'[s].done
      BY <1>1, <3>1 DEF Settled
    <3>2. CASE /\ k \in PlanLength + 1 .. PlanLength + saga'[s].done + 1 - Height(s)'
               /\ Intents(request'[s])[Place(s, k)'] \notin saga'[s].errors
      <4>1. Place(s, k)' = Place(s, k)
        BY <1>1 DEF Place
      <4>2. k \in 7 .. 6 + d + 1 - (h - 1) /\ Intents(request[s])[Place(s, k)] \notin saga'[s].errors
        BY <1>1, <1>5, <3>2, <4>1 DEF PlanLength
      <4>3. CASE k <= 6 + d + 1 - h
        <5>1. k \in PlanLength + 1 .. PlanLength + saga[s].done + 1 - Height(s)
          BY <1>5, <4>2, <4>3 DEF PlanLength
        <5>2. Intents(request[s])[Place(s, k)] \notin saga[s].errors
          BY <1>1, <4>2
        <5> QED  BY <1>3, <5>1, <5>2 DEF Settled
      <4>4. CASE k = PresentStep(s)
        <5>1. Place(s, k) = h
          BY <1>5, <4>4
        <5>2. reply[s] # "failed"
          BY <1>1, <1>6, <4>2, <5>1
        <5>3. Answered(s)
          BY <1>1, <5>2 DEF Answers, Answered
        <5> QED  BY <1>1, <4>4, <5>3 DEF Settled
      <4> QED  BY <1>5, <4>2, <4>3, <4>4
    <3> QED  BY <1>1, <2>1, <3>1, <3>2 DEF Settled
  <2> QED  BY <2>1 DEF SettlesNothing
<1>8. OutcomesOK(s)'
  <2>1. ~RolledBack(s) /\ saga[s].verdict = "none"
    BY <1>1, WorkflowFacts DEF SagaOK, RolledBack
  <2>2. ASSUME NEW i \in saga'[s].errors
        PROVE  \E p \in Height(s)' + 1 .. saga'[s].done + 1 : i = Intents(request[s])[p]
    <3>1. CASE i \in saga[s].errors
      <4>1. PICK p \in Height(s) + 1 .. saga[s].done + 1 : i = Intents(request[s])[p]
        BY <1>3, <3>1 DEF OutcomesOK
      <4> QED  BY <1>1, <1>5, <4>1
    <3>2. CASE i = Last(saga[s].stack)
      <4>1. Height(s)' = h - 1 /\ saga'[s].done = d
        BY <1>1, <1>5
      <4>2. h \in Height(s)' + 1 .. saga'[s].done + 1
        BY <1>5, <4>1
      <4> QED  BY <1>6, <3>2, <4>2
    <3> QED  BY <1>1, <2>2, <3>1, <3>2
  <2> QED  BY <1>1, <1>3, <1>4, <2>1, <2>2 DEF OutcomesOK
<1>9. ASSUME NEW f \in Families
      PROVE  /\ Owed(s, f) => Owed(s, f)'
             /\ PresentHolds(s, f)' /\ SnapshotCurrent(s, f)'
             /\ Advanced(s, f)' /\ DeviationsOwned(s, f)'
  <2>1. (Owed(s, f) => Owed(s, f)') /\ DeviationsOwned(s, f)'
    BY <1>1, <1>2, <1>4, <1>7, <1>9, UnwindKept
  <2> QED  BY <1>1, <2>1 DEF PresentHolds, SnapshotCurrent, Advanced
<1>10. KeepsDebts(s)
  BY <1>4, <1>9 DEF KeepsDebts
<1> QED  BY <1>1, <1>2, <1>3, <1>7, <1>8, <1>9, <1>10, OwnKept

-----------------------------------------------------------------------------
(* The plan.                                                               *)

\* The call of a step settles nothing, and asks nothing of the cluster yet.
LEMMA IsoCallStep ==
    ASSUME Control, Control', SentKept, IsolatedInv, NoneLate', NEW s \in Sagas, CallStep(s)
    PROVE  IsolatedInv'
<1>1. PICK n \in 1 .. 6 :
        /\ saga[s].pc = "forward" /\ call[s] = {}
        /\ saga[s].done = n - 1 /\ Height(s) = n - 1
        /\ \A t \in Sagas \ {s} : saga'[t] = saga[t]
        /\ saga'[s].pc = "forward"
        /\ saga'[s].verdict = saga[s].verdict
        /\ saga'[s].statuses = saga[s].statuses
        /\ saga'[s].done = saga[s].done
        /\ saga'[s].errors = saga[s].errors
        /\ Height(s)' = n
        /\ Send(s, ForwardUpdate(s, n)) /\ UNCHANGED request
  BY CallStepFacts
<1>2. UNCHANGED <<cluster, entity>> /\ OthersStand(s) /\ reply'[s] = "waiting"
  <2>1. call \in [Sagas -> SUBSET Update] /\ reply \in [Sagas -> Reply]
    BY Typed
  <2> QED  BY <1>1, <2>1 DEF Send, OthersStand
<1>3. /\ OutcomesOK(s) /\ ~Unwinds(s) /\ Open(s) /\ Moving(s) /\ Forwards(s) = n - 1
      /\ Restores(s) = 0 /\ saga[s].verdict = "none"
  <2>1. saga[s].verdict = "none"
    BY <1>1, WorkflowFacts DEF SagaOK
  <2> QED  BY <1>1, <2>1, ForwardFacts DEF IsolatedInv, Open, Active, Moving
<1>4. ~Unwinds(s)' /\ ~RolledBack(s)' /\ Open(s)'
  BY <1>1, <1>3 DEF Unwinds, RolledBack, Open, Active
<1>5. ~Sent(s, n)
  BY <1>1, <1>3, SentRange
<1>6. PresentStep(s)' = n
  BY <1>1 DEF PresentStep
<1>7. call'[s] # {} => ~Answered(s)'
  BY <1>2, <1>5, <1>6, NotYetHeard
<1>8. SettlesNothing(s)
  BY <1>1, <1>4, <1>7 DEF SettlesNothing, Settled
<1>9. KeepsDebts(s)
  BY <1>1, <1>3 DEF KeepsDebts, Owed
<1>10. OutcomesOK(s)'
  BY <1>1, <1>3, <1>4 DEF OutcomesOK, Moving
<1>11. ASSUME NEW f \in Families
       PROVE  /\ PresentHolds(s, f)' /\ SnapshotCurrent(s, f)'
              /\ Advanced(s, f)' /\ DeviationsOwned(s, f)'
  <2>1. Advanced(s, f)'
    <3>1. Advanced(s, f)
      BY <1>11 DEF IsolatedInv, FamilyInv
    <3>2. PICK pause \in {1, 2}, patch \in {3, 4}, resume \in {5, 6} :
            /\ pause = PausePosition(s, f) /\ patch = PatchPosition(s, f)
            /\ resume = ResumePosition(s, f)
      BY DEF PausePosition, PatchPosition, ResumePosition
    <3>3. /\ PausePosition(s, f)' = pause /\ PatchPosition(s, f)' = patch
          /\ ResumePosition(s, f)' = resume
      BY <1>1, <3>2 DEF PausePosition, PatchPosition, ResumePosition
    <3> QED  BY <1>1, <1>2, <3>1, <3>2, <3>3 DEF Advanced, cluster
  <2> QED  BY <1>1, <1>4, <1>7, <2>1 DEF PresentHolds, SnapshotCurrent, DeviationsOwned
<1> QED  BY <1>1, <1>2, <1>3, <1>8, <1>9, <1>10, <1>11, OwnKept

\* What an answered step was to bring about is the case from then on.
LEMMA StepBrings ==
    ASSUME Control, IsolatedInv, NEW s \in Sagas, saga[s].pc = "forward", call[s] # {},
           Answered(s), NEW f \in Families, f \in FamiliesOf(request[s]),
           NEW n \in 1 .. 6, n = saga[s].done + 1
    PROVE  /\ n = PausePosition(s, f) => state[f] = "SUSPENDED"
           /\ n = PatchPosition(s, f) =>
                datatypes[f] = NewConfig(request[s], saga[s].statuses, f)
           /\ n = ResumePosition(s, f) => state[f] = "RUNNING"
<1>1. request[s].source # request[s].target /\ PresentHolds(s, f)
  BY DEF IsolatedInv, FamilyInv, OutcomesOK, Moving, Rejected
<1>2. Present(s) = Numbered(s, n)
  BY ForwardFacts DEF Present
<1>3. PICK pause \in {1, 2} :
        /\ PausePosition(s, f) = pause /\ PatchPosition(s, f) = pause + 2
        /\ ResumePosition(s, f) = pause + 4
        /\ \A k \in 1 .. 6 : Intents(request[s])[k].family = f <=>
                k \in {pause, pause + 2, pause + 4}
  BY <1>1, Positions
<1>4. ASSUME n \in {pause, pause + 2, pause + 4}
      PROVE  Numbered(s, n).family = f /\ InEffect(f, Numbered(s, n))
  <2>1. Numbered(s, n).family = f
    BY <1>3, <1>4, ForwardNumbered
  <2> QED  BY <1>1, <1>2, <2>1 DEF PresentHolds
<1>5. CASE n = pause
  <2>1. Numbered(s, n).command = "pause"
    BY <1>5, ForwardNumbered
  <2> QED  BY <1>3, <1>4, <1>5, <2>1 DEF InEffect
<1>6. CASE n = pause + 2
  <2>1. Numbered(s, n).config = {NewConfig(request[s], saga[s].statuses, f)}
    BY <1>4, <1>6, ForwardNumbered
  <2> QED  BY <1>3, <1>4, <1>6, <2>1 DEF InEffect
<1>7. CASE n = pause + 4
  <2>1. Numbered(s, n).command = "resume"
    BY <1>7, ForwardNumbered
  <2> QED  BY <1>3, <1>4, <1>7, <2>1 DEF InEffect
<1> QED  BY <1>3, <1>5, <1>6, <1>7

\* A step that has been answered well leaves nothing owed and takes its effect along.
LEMMA IsoStepAnswered ==
    ASSUME Control, SentKept, IsolatedInv, NoneLate', NEW s \in Sagas, StepAnswered(s)
    PROVE  IsolatedInv'
<1>1. /\ saga[s].pc = "forward" /\ UNCHANGED request
      /\ Receive(s, {"changed", "unchanged"})
      /\ saga' = [saga EXCEPT ![s].done = @ + 1]
  BY DEF StepAnswered
<1>2. /\ reply[s] \in {"changed", "unchanged"} /\ call[s] # {} /\ call'[s] = {}
  BY <1>1, ReceiveFacts
<1>3. PICK n \in 1 .. 6 :
        /\ n = saga[s].done + 1 /\ saga[s].done = n - 1
        /\ Height(s) = n /\ PresentStep(s) = n /\ ~Unwinds(s)
  BY <1>1, <1>2, ForwardFacts
<1>4. /\ \A t \in Sagas \ {s} : saga'[t] = saga[t]
      /\ saga'[s].pc = "forward" /\ saga'[s].verdict = saga[s].verdict
      /\ saga'[s].statuses = saga[s].statuses /\ saga'[s].done = n
      /\ saga'[s].stack = saga[s].stack /\ saga'[s].errors = saga[s].errors
  <2> DEFINE q == [saga[s] EXCEPT !.done = @ + 1]
  <2>1. saga \in [Sagas -> Progress] /\ saga[s] \in Progress
    BY Typed
  <2>2. /\ q.pc = saga[s].pc /\ q.verdict = saga[s].verdict
        /\ q.statuses = saga[s].statuses /\ q.done = n
        /\ q.stack = saga[s].stack /\ q.errors = saga[s].errors
    BY <1>3, <2>1 DEF Progress
  <2>3. saga' = [saga EXCEPT ![s] = q]
    BY <1>1
  <2> HIDE DEF q
  <2> QED  BY <1>1, <2>1, <2>2, <2>3
<1>5. UNCHANGED <<cluster, entity>> /\ OthersStand(s)
  BY <1>1, <1>4, ReceivingFrame
<1>6. /\ OutcomesOK(s) /\ Open(s) /\ Moving(s) /\ Answered(s) /\ saga[s].verdict = "none"
      /\ saga[s].errors = {} /\ ~Rejected(request[s], saga[s].statuses)
  <2>1. OutcomesOK(s) /\ Open(s) /\ Moving(s) /\ Answered(s)
    BY <1>1, <1>2 DEF IsolatedInv, Open, Active, Moving, Answered
  <2>2. saga[s].verdict = "none"
    BY <1>1, WorkflowFacts DEF SagaOK
  <2> QED  BY <1>3, <2>1, <2>2 DEF OutcomesOK
<1>7. ~Unwinds(s)' /\ ~RolledBack(s)' /\ Height(s)' = n
  BY <1>3, <1>4, <1>6 DEF Unwinds, RolledBack, Height
<1>8. SettlesNothing(s)
  <2>1. ASSUME NEW k \in 1 .. 12, k \in 1 .. n PROVE Settled(s, k)
    <3>1. CASE k = n
      BY <1>2, <1>3, <1>6, <3>1 DEF Settled
    <3>2. CASE k # n
      <4>1. k \in 1 .. saga[s].done
        BY <1>3, <2>1, <3>2
      <4> QED  BY <4>1 DEF Settled
    <3> QED  BY <3>1, <3>2
  <2> QED  BY <1>2, <1>4, <1>7, <2>1 DEF SettlesNothing, Settled
<1>9. KeepsDebts(s)
  BY <1>3, <1>6 DEF KeepsDebts, Owed
<1>10. OutcomesOK(s)'
  BY <1>1, <1>4, <1>6, <1>7 DEF OutcomesOK, Moving
<1>11. ASSUME NEW f \in Families PROVE Advanced(s, f)'
  <2>1. SUFFICES ASSUME f \in FamiliesOf(request[s]) PROVE Advanced(s, f)'
    BY <1>1 DEF Advanced
  <2>2. Advanced(s, f)
    BY <1>11 DEF IsolatedInv, FamilyInv
  <2>3. request[s].source # request[s].target
    BY <1>6 DEF Rejected
  <2>4. PICK pause \in {1, 2} :
            /\ PausePosition(s, f) = pause /\ PatchPosition(s, f) = pause + 2
            /\ ResumePosition(s, f) = pause + 4
    BY <2>1, <2>3, Positions
  <2>5. /\ PausePosition(s, f)' = pause /\ PatchPosition(s, f)' = pause + 2
        /\ ResumePosition(s, f)' = pause + 4
    BY <1>1, <2>4 DEF PausePosition, PatchPosition, ResumePosition
  <2>6. /\ n = pause => state[f] = "SUSPENDED"
        /\ n = pause + 2 => datatypes[f] = NewConfig(request[s], saga[s].statuses, f)
        /\ n = pause + 4 => state[f] = "RUNNING"
    BY <1>1, <1>2, <1>3, <1>6, <1>11, <2>1, <2>4, StepBrings
  <2>7. /\ n < pause => state[f] = saga[s].statuses[f].state
        /\ n < pause + 2 => datatypes[f] = saga[s].statuses[f].datatypes
        /\ n - 1 >= pause /\ n < pause + 4 => state[f] = "SUSPENDED"
        /\ n - 1 >= pause + 2 => datatypes[f] = NewConfig(request[s], saga[s].statuses, f)
        /\ n - 1 >= pause + 4 => state[f] = "RUNNING"
    <3>1. saga[s].done = n - 1
      BY <1>3, WorkflowFacts
    <3> QED  BY <1>1, <1>3, <2>1, <2>2, <2>4, <3>1 DEF Advanced
  <2>8. /\ n < pause => state[f] = saga[s].statuses[f].state
        /\ n < pause + 2 => datatypes[f] = saga[s].statuses[f].datatypes
        /\ n >= pause /\ n < pause + 4 => state[f] = "SUSPENDED"
        /\ n >= pause + 2 => datatypes[f] = NewConfig(request[s], saga[s].statuses, f)
        /\ n >= pause + 4 => state[f] = "RUNNING"
    BY <2>6, <2>7
  <2> QED  BY <1>1, <1>4, <1>5, <1>7, <2>5, <2>8 DEF Advanced, cluster
<1>12. ASSUME NEW f \in Families
       PROVE  PresentHolds(s, f)' /\ SnapshotCurrent(s, f)' /\ DeviationsOwned(s, f)'
  BY <1>2, <1>4, <1>7 DEF PresentHolds, SnapshotCurrent, DeviationsOwned
<1> QED  BY <1>1, <1>4, <1>5, <1>6, <1>8, <1>9, <1>10, <1>11, <1>12, OwnKept

\* When a step has failed, what it may have left behind is now owed by its restore,
\* and the families the plan has not come to are as they were.
LEMMA IsoStepFailed ==
    ASSUME Control, SentKept, IsolatedInv, NoneLate', NEW s \in Sagas, StepFailed(s)
    PROVE  IsolatedInv'
<1>1. /\ saga[s].pc = "forward" /\ UNCHANGED request
      /\ Receive(s, {"failed"}) /\ Goto(s, "unwinding")
  BY DEF StepFailed
<1>2. call[s] # {} /\ call'[s] = {}
  BY <1>1, ReceiveFacts
<1>3. PICK n \in 1 .. 6 :
        /\ n = saga[s].done + 1 /\ saga[s].done = n - 1
        /\ Height(s) = n /\ PresentStep(s) = n /\ ~Unwinds(s)
  BY <1>1, <1>2, ForwardFacts
<1>4. /\ \A t \in Sagas \ {s} : saga'[t] = saga[t]
      /\ saga'[s].pc = "unwinding" /\ saga'[s].verdict = saga[s].verdict
      /\ saga'[s].statuses = saga[s].statuses /\ saga'[s].done = saga[s].done
      /\ saga'[s].stack = saga[s].stack /\ saga'[s].errors = saga[s].errors
  BY <1>1, GotoFacts
<1>5. UNCHANGED <<cluster, entity>> /\ OthersStand(s)
  BY <1>1, <1>4, ReceivingFrame
<1>6. /\ OutcomesOK(s) /\ Open(s) /\ saga[s].verdict = "none"
      /\ saga[s].errors = {} /\ ~Rejected(request[s], saga[s].statuses)
  <2>1. OutcomesOK(s) /\ Open(s) /\ Moving(s)
    BY <1>1, <1>2 DEF IsolatedInv, Open, Active, Moving
  <2>2. saga[s].verdict = "none"
    BY <1>1, WorkflowFacts DEF SagaOK
  <2> QED  BY <1>3, <2>1, <2>2 DEF OutcomesOK
<1>7. Unwinds(s)' /\ ~RolledBack(s)' /\ Height(s)' = n /\ Open(s)'
  BY <1>3, <1>4, <1>6 DEF Unwinds, RolledBack, Height, Open, Active
<1>8. ASSUME NEW k \in 1 .. 12, Settled(s, k)' PROVE k \in 1 .. saga[s].done
  <2>0. saga'[s].done = n - 1 /\ Height(s)' = n
    BY <1>3, <1>4, <1>7
  <2>1. PlanLength + 1 = 7 /\ PlanLength + saga'[s].done + 1 - Height(s)' = 6
    BY <2>0 DEF PlanLength
  <2>2. k \notin PlanLength + 1 .. PlanLength + saga'[s].done + 1 - Height(s)'
    BY <2>1
  <2> QED  BY <1>2, <1>4, <1>8, <2>2 DEF Settled
<1>9. SettlesNothing(s)
  BY <1>8 DEF SettlesNothing, Settled
<1>10. ASSUME NEW p \in 1 .. 6, p <= n PROVE ~Settled(s, Restored(s, p))'
  <2>1. PICK k \in 7 .. 12 : k = Restored(s, p)'
    BY <1>3, <1>4, <1>10 DEF Restored, PlanLength
  <2>2. ~Settled(s, k)'
    BY <1>3, <1>8, <2>1
  <2> QED  BY <2>1, <2>2
<1>11. ASSUME NEW f \in Families, Owed(s, f) PROVE Owed(s, f)'
  <2>1. Present(s).family = f
    BY <1>3, <1>11 DEF Owed
  <2>2. Intents(request[s])[n].family = f
    <3>1. Numbered(s, n).family = f
      BY <1>3, <2>1 DEF Present
    <3> QED  BY <3>1, ForwardNumbered
  <2>3. n \in 1 .. saga'[s].done + 1
    BY <1>3, <1>4
  <2> QED  BY <1>1, <1>7, <1>10, <2>2, <2>3 DEF Owed
<1>12. KeepsDebts(s)
  BY <1>7, <1>11 DEF KeepsDebts
<1>13. OutcomesOK(s)'
  BY <1>1, <1>4, <1>6, <1>7 DEF OutcomesOK
<1>14. ASSUME NEW f \in Families PROVE DeviationsOwned(s, f)'
  <2>1. SUFFICES ASSUME f \in FamiliesOf(request[s])
                 PROVE  /\ Undone(s, PatchPosition(s, f))' =>
                            datatypes[f] = saga[s].statuses[f].datatypes
                        /\ Undone(s, PausePosition(s, f))' =>
                            state[f] = saga[s].statuses[f].state
    BY <1>1, <1>4, <1>5 DEF DeviationsOwned, cluster
  <2>2. PICK pause \in 1 .. 6, patch \in 1 .. 6 :
            pause = PausePosition(s, f) /\ patch = PatchPosition(s, f)
    BY DEF PausePosition, PatchPosition
  <2>3. PausePosition(s, f)' = pause /\ PatchPosition(s, f)' = patch
    BY <1>1, <2>2 DEF PausePosition, PatchPosition
  <2>4. ASSUME NEW p \in 1 .. 6, Undone(s, p)' PROVE p > n
    BY <1>3, <1>4, <1>10, <2>4 DEF Undone
  <2>5. /\ n < pause => state[f] = saga[s].statuses[f].state
        /\ n < patch => datatypes[f] = saga[s].statuses[f].datatypes
    <3>1. Advanced(s, f)
      BY <1>14 DEF IsolatedInv, FamilyInv
    <3> QED  BY <1>1, <1>3, <2>1, <2>2, <3>1 DEF Advanced
  <2> QED  BY <2>3, <2>4, <2>5
<1>15. ASSUME NEW f \in Families
       PROVE  PresentHolds(s, f)' /\ SnapshotCurrent(s, f)' /\ Advanced(s, f)'
  BY <1>2, <1>4 DEF PresentHolds, SnapshotCurrent, Advanced
<1> QED  BY <1>1, <1>4, <1>5, <1>6, <1>9, <1>12, <1>13, <1>14, <1>15, OwnKept

-----------------------------------------------------------------------------
(* The theorems.                                                           *)

LEMMA IsoInit == Init => IsolatedInv
<1> SUFFICES ASSUME Init PROVE IsolatedInv
  OBVIOUS
<1>1. ASSUME NEW s \in Sagas
      PROVE  /\ saga[s].pc = "idle" /\ saga[s].done = 0 /\ saga[s].stack = <<>>
             /\ saga[s].errors = {} /\ saga[s].verdict = "none" /\ call[s] = {}
  BY DEF Init, Fresh, ProxyInit, ActorInit
<1>2. NoneLate
  BY DEF Init, ProxyInit, ActorInit, NoneLate
<1>3. ASSUME NEW s \in Sagas
      PROVE  /\ ~Open(s) /\ ~Unwinds(s) /\ ~RolledBack(s) /\ ~Moving(s)
  BY <1>1 DEF Open, Active, Unwinds, RolledBack, Moving
<1>4. ASSUME NEW s \in Sagas PROVE OutcomesOK(s)
  BY <1>1, <1>3 DEF OutcomesOK
<1>5. ASSUME NEW f \in Families PROVE FamilyInv(f)
  <2>1. queue[f] = <<>> /\ steps[f] = <<>> /\ actor[f] = "absent"
    BY DEF Init, ProxyInit, ActorInit
  <2>2. CacheOK(f)
    BY <2>1 DEF CacheOK
  <2>3. InOrder(f) /\ NoneOvertaken(f) /\ EchoesHold(f)
    BY <2>1 DEF InOrder, NoneOvertaken, EchoesHold
  <2>4. ASSUME NEW s \in Sagas
        PROVE  /\ PresentHolds(s, f) /\ SnapshotCurrent(s, f)
               /\ Advanced(s, f) /\ DeviationsOwned(s, f)
    BY <1>1, <1>3 DEF PresentHolds, SnapshotCurrent, Advanced, DeviationsOwned
  <2> QED  BY <2>2, <2>3, <2>4 DEF FamilyInv
<1> QED  BY <1>2, <1>3, <1>4, <1>5 DEF IsolatedInv, MovesAreApart

LEMMA IsoStutter ==
    ASSUME Control, IsolatedInv, UNCHANGED vars
    PROVE  IsolatedInv'
<1>1. UNCHANGED <<cluster, entity, request, saga, call, reply, wire>>
  BY DEF vars, proxyVars
<1>2. SentKept
  BY <1>1, NumbersStand
<1>3. /\ NoneLate /\ MovesAreApart
      /\ \A s \in Sagas : OutcomesOK(s)
  BY DEF IsolatedInv
<1>4. NoneLate'
  BY <1>1, <1>3 DEF NoneLate
<1>5. \A s \in Sagas : Open(s)' <=> Open(s)
  BY <1>1 DEF Open, Active
<1>6. ASSUME NEW s \in Sagas PROVE OutcomesOK(s)'
  BY <1>1, <1>3 DEF OutcomesOK, Unwinds, RolledBack, Height, Moving
<1>7. ASSUME NEW f \in Families PROVE FamilyInv(f)'
  <2>1. NoneSettlesAt(f)
    BY <1>1, NothingSettles DEF entity
  <2>2. CacheNoWorse(f)
    BY <1>1, <1>7 DEF CacheNoWorse, IsolatedInv, FamilyInv, CacheOK, Serving, entity, cluster
  <2> QED  BY <1>1, <1>2, <1>7, <2>1, <2>2, SameLine, QuietFamily DEF Quiet, entity, cluster
<1> QED  BY <1>3, <1>4, <1>5, <1>6, <1>7 DEF IsolatedInv, MovesAreApart

LEMMA IsoOwn ==
    ASSUME Control, Control', SentKept, IsolatedInv, NoneLate', NEW s \in Sagas, SagaStep(s)
    PROVE  IsolatedInv'
BY IsoReads, IsoReject, IsoAccept, IsoCallStep, IsoStepAnswered, IsoStepFailed, IsoComplete,
   IsoCallRestore, IsoRestoreAnswered, IsoUnwound DEF SagaStep

LEMMA IsoNext ==
    Control /\ IsolatedInv /\ [Next /\ NoneLate' /\ Isolated]_vars => IsolatedInv'
<1> SUFFICES ASSUME Control, IsolatedInv, [Next /\ NoneLate' /\ Isolated]_vars
             PROVE  IsolatedInv'
  OBVIOUS
<1>1. CASE UNCHANGED vars
  BY <1>1, IsoStutter
<1>2. CASE Next /\ NoneLate' /\ Isolated
  <2>1. Control' /\ SentKept
    BY <1>2, StepKeepsNumbers
  <2>2. ASSUME NEW s \in Sagas, Start(s) PROVE IsolatedInv'
    BY <1>2, <2>1, <2>2, IsoStart
  <2>3. ASSUME NEW s \in Sagas, SagaStep(s) PROVE IsolatedInv'
    BY <1>2, <2>1, <2>3, IsoOwn
  <2>4. ASSUME NEW s \in Sagas, ProxyStep(s), UNCHANGED <<request, saga>> PROVE IsolatedInv'
    BY <1>2, <2>1, <2>4, IsoProxy
  <2>5. ASSUME NEW u \in wire, Deliver(u), UNCHANGED <<request, saga>> PROVE IsolatedInv'
    BY <1>2, <2>1, <2>5, IsoDeliver
  <2>6. ASSUME NEW f \in Families, ActorStep(f) PROVE IsolatedInv'
    BY <1>2, <2>1, <2>6, IsoActor
  <2> QED  BY <1>2, <2>2, <2>3, <2>4, <2>5, <2>6 DEF Next
<1> QED  BY <1>1, <1>2

LEMMA IsolatedKeepsControl == IsolatedSpec => []Control
<1>1. Init => Control
  BY ControlInit
<1>2. Control /\ [Next /\ NoneLate' /\ Isolated]_vars => Control'
  BY ControlNext
<1> QED  BY <1>1, <1>2, PTL DEF IsolatedSpec

\* Moves that follow one another, with no request that outlives its call: the
\* updates in line at an actor are in order, a settled update that is in line
\* again finds its own effect, a cache that is wrong about its job is owed a
\* restore, and each family is as far along as the move that has it.
THEOREM IsolatedMovesStayApart == IsolatedSpec => []IsolatedInv
<1>1. Init => IsolatedInv
  BY IsoInit
<1>2. Control /\ IsolatedInv /\ [Next /\ NoneLate' /\ Isolated]_vars => IsolatedInv'
  BY IsoNext
<1> QED  BY <1>1, <1>2, IsolatedKeepsControl, PTL DEF IsolatedSpec

\* The intents of a move that has been rolled back and left something undone.
LEMMA UndoneIsReported ==
    ASSUME Control, NEW s \in Sagas, Unwinds(s), NEW p \in 1 .. 6, ~Undone(s, p), p > Height(s)
    PROVE  Intents(request[s])[p] \in saga[s].errors
<1>1. PICK d \in 0 .. 5, h \in 0 .. 6 :
        /\ d = saga[s].done /\ h = Height(s)
        /\ \A k \in 1 .. 12 : Place(s, k) = d + 8 - k
        /\ \A i \in 1 .. 6 : Restored(s, i) = d + 8 - i
  BY UnwindFacts
<1>2. p <= d + 1 /\ ~Settled(s, Restored(s, p))
  BY <1>1 DEF Undone
<1>3. PICK k \in 7 .. 12 : k = d + 8 - p /\ k = Restored(s, p)
  BY <1>1, <1>2
<1>4. Place(s, k) = p /\ k \in 7 .. 6 + d + 1 - h
  BY <1>1, <1>2, <1>3
<1>5. k \in PlanLength + 1 .. PlanLength + saga[s].done + 1 - Height(s)
  BY <1>1, <1>4 DEF PlanLength
<1> QED  BY <1>2, <1>3, <1>4, <1>5 DEF Settled

LEMMA StaleIsOwedOrReported == Control /\ IsolatedInv => StaleCacheIsOwedOrReported
<1> SUFFICES ASSUME Control, IsolatedInv, NEW f \in Families,
                    actor[f] = "ready", cache[f] # state[f]
             PROVE  \E s \in Sagas : RestoreOwed(s, f) \/ \E i \in saga[s].errors : i.family = f
  BY DEF StaleCacheIsOwedOrReported
<1>1. PICK s \in Sagas : Open(s) /\ Owed(s, f)
  BY DEF IsolatedInv, FamilyInv, CacheOK
<1>2. \A k \in 1 .. Height(s) : saga[s].stack[k] = Intents(request[s])[k]
  BY WorkflowFacts DEF StackOK
<1>3. DOMAIN saga[s].stack = 1 .. Height(s) /\ Height(s) \in 0 .. 6
  BY WorkflowFacts DEF Height
<1>4. CASE /\ saga[s].pc = "forward" /\ call[s] # {} /\ ~Answered(s) /\ Present(s).family = f
  <2>1. PICK n \in 1 .. 6 : n = saga[s].done + 1 /\ Height(s) = n /\ PresentStep(s) = n
    BY <1>4, ForwardFacts
  <2>2. Numbered(s, n).family = f
    BY <1>4, <2>1 DEF Present
  <2>3. saga[s].stack[n].family = f
    BY <1>2, <2>1, <2>2, ForwardNumbered
  <2>4. reply[s] \in {"failed", "aborted", "waiting"}
    BY <1>4, WorkflowFacts DEF Answered, Reply, Answers
  <2> QED  BY <1>3, <2>1, <2>3, <2>4 DEF RestoreOwed
<1>5. CASE /\ Unwinds(s)
           /\ \E p \in 1 .. saga[s].done + 1 :
                Intents(request[s])[p].family = f /\ ~Settled(s, Restored(s, p))
  <2>1. PICK p \in 1 .. saga[s].done + 1 :
            Intents(request[s])[p].family = f /\ ~Settled(s, Restored(s, p))
    BY <1>5
  <2>2. saga[s].done \in 0 .. 5
    BY <1>5, Counts
  <2>3. p \in 1 .. 6 /\ ~Undone(s, p)
    BY <2>1, <2>2 DEF Undone
  <2>4. CASE p > Height(s)
    BY <1>5, <2>1, <2>3, <2>4, UndoneIsReported
  <2>5. CASE p <= Height(s)
    <3>1. p \in 1 .. Height(s) /\ Height(s) # 0
      BY <1>3, <2>3, <2>5
    <3>2. saga[s].stack[p].family = f
      BY <1>2, <2>1, <3>1
    <3>3. saga[s].pc = "unwinding"
      <4>1. RolledBack(s) => saga[s].stack = <<>>
        BY WorkflowFacts DEF StackOK
      <4> QED  BY <1>5, <3>1, <4>1 DEF Unwinds, Height
    <3> QED  BY <1>3, <3>1, <3>2, <3>3 DEF RestoreOwed
  <2> QED  BY <1>3, <2>3, <2>4, <2>5
<1> QED  BY <1>1, <1>4, <1>5 DEF Owed

\* Moves that follow one another, any faults, timeouts and second attempts,
\* any rollovers and terminations: between two handlers a cache that is wrong
\* about its job is about to be refreshed by a restore, or the restore that
\* would have refreshed it is reported as failed.
THEOREM StaleCachesAreOwed == IsolatedSpec => []StaleCacheIsOwedOrReported
BY IsolatedKeepsControl, IsolatedMovesStayApart, StaleIsOwedOrReported, PTL

LEMMA DeviationsNamed == Control /\ IsolatedInv => DeviationsStayNamed
<1> SUFFICES ASSUME Control, IsolatedInv, NEW s \in Sagas, RolledBack(s),
                    \A t \in Sagas \ {s} : saga[t].pc = "idle",
                    NEW f \in FamiliesOf(request[s])
             PROVE  /\ datatypes[f] # saga[s].statuses[f].datatypes =>
                            Intent("revert", f) \in saga[s].errors
                    /\ state[f] # saga[s].statuses[f].state =>
                            Intent("resume", f) \in saga[s].errors
  BY DEF DeviationsStayNamed
<1>1. /\ Unwinds(s) /\ f \in Families /\ Height(s) = 0
      /\ request[s].source # request[s].target
  <2>1. SnapshotTaken(s) /\ saga[s].stack = <<>>
    BY WorkflowFacts DEF SagaOK, StackOK, RolledBack, Verdict
  <2>2. OutcomesOK(s)
    BY DEF IsolatedInv
  <2> QED  BY <2>1, <2>2 DEF Unwinds, SnapshotTaken, Height, OutcomesOK, Rejected
<1>2. DeviationsOwned(s, f)
  BY <1>1 DEF IsolatedInv, FamilyInv
<1>3. /\ Undone(s, PatchPosition(s, f)) => datatypes[f] = saga[s].statuses[f].datatypes
      /\ Undone(s, PausePosition(s, f)) => state[f] = saga[s].statuses[f].state
  BY <1>1, <1>2 DEF DeviationsOwned
<1>4. PICK pause \in 1 .. 6, patch \in 1 .. 6 :
        /\ pause = PausePosition(s, f) /\ patch = PatchPosition(s, f)
        /\ Intents(request[s])[pause] = Intent("resume", f)
        /\ Intents(request[s])[patch] = Intent("revert", f)
  BY DEF PausePosition, PatchPosition, Intents, FamiliesOf
<1>5. /\ ~Undone(s, pause) => Intent("resume", f) \in saga[s].errors
      /\ ~Undone(s, patch) => Intent("revert", f) \in saga[s].errors
  BY <1>1, <1>4, UndoneIsReported
<1> QED  BY <1>3, <1>4, <1>5

\* Under the same conditions the report of a rolled-back move stays true as
\* long as no other move has begun: what is not as its snapshot says is named
\* among its errors, from the verdict on.
THEOREM ReportsStayTrue == IsolatedSpec => []DeviationsStayNamed
BY IsolatedKeepsControl, IsolatedMovesStayApart, DeviationsNamed, PTL

\* Nothing but the last step of the plan ends a move as completed.
LEMMA CompletingStep ==
    ASSUME Control, [Next]_vars, NEW s \in Sagas, Ends(s), saga'[s].verdict = "COMPLETED"
    PROVE  Complete(s)
<1>1. saga \in [Sagas -> Progress] /\ saga[s].pc # "ended" /\ saga'[s].pc = "ended"
  BY Typed DEF Ends
<1>2. PICK t \in Sagas : Start(t) \/ SagaStep(t)
  <2>1. saga' # saga
    BY <1>1
  <2> QED  BY <2>1 DEF Next, vars, ActorStep
<1>3. ASSUME saga'[s].pc = saga[s].pc \/ saga'[s].pc # "ended" PROVE FALSE
  BY <1>1, <1>3
<1>4. CASE Start(t) \/ Accept(t) \/ StepFailed(t)
  <2>1. PICK pc \in {"read source", "forward", "unwinding"} : Goto(t, pc)
    BY <1>4 DEF Start, Accept, StepFailed
  <2>2. saga'[t].pc = pc /\ \A u \in Sagas \ {t} : saga'[u] = saga[u]
    BY <2>1, GotoFacts
  <2> QED  BY <1>3, <2>2
<1>5. CASE ReadSource(t) \/ ReadTarget(t)
  <2>1. CASE ReadSource(t)
    <3>1. ReadFamily(t, request[t].source, "read target")
      BY <2>1 DEF ReadSource
    <3>2. saga'[t].pc = "read target" /\ \A u \in Sagas \ {t} : saga'[u] = saga[u]
      BY <3>1, ReadingFacts
    <3> QED  BY <1>3, <3>2
  <2>2. CASE ReadTarget(t)
    <3>1. ReadFamily(t, request[t].target, "validating")
      BY <2>2 DEF ReadTarget
    <3>2. saga'[t].pc = "validating" /\ \A u \in Sagas \ {t} : saga'[u] = saga[u]
      BY <3>1, ReadingFacts
    <3> QED  BY <1>3, <3>2
  <2> QED  BY <1>5, <2>1, <2>2
<1>6. CASE CallStep(t)
  BY <1>1, <1>3, <1>6 DEF CallStep
<1>7. CASE StepAnswered(t)
  BY <1>1, <1>3, <1>7 DEF StepAnswered
<1>8. CASE CallRestore(t)
  BY <1>1, <1>3, <1>8 DEF CallRestore
<1>9. CASE RestoreAnswered(t)
  BY <1>1, <1>3, <1>9 DEF RestoreAnswered
<1>10. CASE Reject(t) \/ Unwound(t) \/ Complete(t)
  <2>1. PICK v \in Verdict :
            /\ End(t, v)
            /\ v = "COMPLETED" => Complete(t)
    BY <1>10 DEF Reject, Unwound, Complete, Verdict
  <2>2. t = s /\ saga'[s].verdict = v
    BY <1>1, <2>1, EndFacts
  <2> QED  BY <2>1, <2>2
<1> QED  BY <1>2, <1>4, <1>5, <1>6, <1>7, <1>8, <1>9, <1>10 DEF SagaStep

LEMMA CompletesWhole ==
    ASSUME Control, IsolatedInv, [Next]_vars, NEW s \in Sagas, Ends(s),
           saga'[s].verdict = "COMPLETED"
    PROVE  /\ request[s].datatype \in datatypes[request[s].target]
           /\ request[s].datatype \notin datatypes[request[s].source]
           /\ \A f \in FamiliesOf(request[s]) :
                /\ state[f] = "RUNNING"
                /\ datatypes[f] \ {request[s].datatype}
                     = saga[s].statuses[f].datatypes \ {request[s].datatype}
<1>1. saga[s].pc = "forward" /\ saga[s].done = 6
  BY CompletingStep DEF Complete, PlanLength
<1>2. SnapshotTaken(s) /\ request[s].source # request[s].target
  <2>1. OutcomesOK(s)
    BY DEF IsolatedInv
  <2> QED  BY <1>1, <2>1, WorkflowFacts DEF SagaOK, OutcomesOK, Moving, Rejected
<1>3. ASSUME NEW f \in FamiliesOf(request[s])
      PROVE  state[f] = "RUNNING" /\ datatypes[f] = NewConfig(request[s], saga[s].statuses, f)
  <2>1. Advanced(s, f)
    BY <1>2, <1>3 DEF IsolatedInv, FamilyInv, SnapshotTaken
  <2>2. PatchPosition(s, f) \in {3, 4} /\ ResumePosition(s, f) \in {5, 6}
    BY DEF PatchPosition, ResumePosition
  <2> QED  BY <1>1, <1>3, <2>1, <2>2 DEF Advanced
<1>4. request[s].source \in FamiliesOf(request[s]) /\ request[s].target \in FamiliesOf(request[s])
  BY DEF FamiliesOf
<1> QED  BY <1>2, <1>3, <1>4 DEF NewConfig

\* Under the same conditions a move that completes is whole: its datatype has
\* left the source for the target, the rest of both routings is untouched and
\* both jobs run, whichever actors have been replaced on the way.
THEOREM CompletedMovesAreWhole == IsolatedSpec => CompletedMoveIsWhole
<1>1. Control /\ IsolatedInv /\ [Next /\ NoneLate' /\ Isolated]_vars =>
        [\A s \in Sagas : Ends(s) /\ saga'[s].verdict = "COMPLETED" =>
            /\ request[s].datatype \in datatypes[request[s].target]
            /\ request[s].datatype \notin datatypes[request[s].source]
            /\ \A f \in FamiliesOf(request[s]) :
                /\ state[f] = "RUNNING"
                /\ datatypes[f] \ {request[s].datatype}
                     = saga[s].statuses[f].datatypes \ {request[s].datatype}]_vars
  BY CompletesWhole
<1> QED  BY <1>1, IsolatedKeepsControl, IsolatedMovesStayApart, PTL
         DEF IsolatedSpec, CompletedMoveIsWhole

\* A single move is isolated by itself, so what the above says of its report and
\* of the caches holds without any care on the part of the callers.
THEOREM OneMoveIsIsolated ==
    ASSUME \A s, t \in Sagas : s = t
    PROVE  PromptSpec => [](DeviationsStayNamed /\ StaleCacheIsOwedOrReported)
<1>1. [Next /\ NoneLate']_vars => [Next /\ NoneLate' /\ Isolated]_vars
  BY DEF Isolated
<1>2. PromptSpec => IsolatedSpec
  BY <1>1, PTL DEF PromptSpec, IsolatedSpec
<1> QED  BY <1>2, ReportsStayTrue, StaleCachesAreOwed, PTL
=============================================================================
