----------------------- MODULE RestateContractProofs ------------------------
(***************************************************************************)
(* Moves on Restate that have their families to themselves: the verdict of *)
(* each is true, no job is left suspended, and moves made one after the    *)
(* other implement MoveContract.                                           *)
(***************************************************************************)
EXTENDS RestateContract, RestateProofs, FiniteSetTheorems

-----------------------------------------------------------------------------
(* What an object does for the move it serves.                             *)

\* The position of the served step in the plan of its caller.
LEMMA CallPosition ==
    ASSUME Control, NEW f \in Families, inbox[f] # <<>>,
           NEW s \in Sagas, s = Serving(f).caller
    PROVE  /\ Moving(s) /\ reply[s] = "waiting"
           /\ f \in FamiliesOf(request[s])
           /\ request[s].source # request[s].target
           /\ Height(s) \in 1 .. 6
           /\ Top(s).label \in {"resume", "revert", "pause"}
           /\ Top(s).label = "resume" => Height(s) = PausePosition(s, f)
           /\ Top(s).label = "revert" => Height(s) = PatchPosition(s, f)
           /\ Top(s).label = "pause" => Height(s) = ResumePosition(s, f)
           /\ \A g \in FamiliesOf(request[s]) : g # f =>
                Height(s) \notin {PausePosition(s, g), PatchPosition(s, g),
                                  ResumePosition(s, g)}
           /\ saga[s].pc = "forward" => saga[s].done = Height(s) - 1
<1>1. /\ Moving(s) /\ reply[s] = "waiting" /\ saga[s].stack # <<>> /\ Top(s).family = f
  BY BeingServed
<1>2. PICK n \in 1 .. 6 :
         /\ Height(s) = n /\ Top(s) = Intents(request[s])[n]
         /\ Top(s).label \in {"resume", "revert", "pause"}
         /\ f \in FamiliesOf(request[s])
  BY <1>1, TopOfStack
<1>3. request[s] \in MoveDatatypeRequest /\ saga[s].done \in 0 .. 6
  BY MoverFacts
<1>4. request[s].source # request[s].target
  BY <1>1 DEF Control, SagaOK, Rejected
<1>5. /\ f = IF n \in {1, 3, 5} THEN request[s].source ELSE request[s].target
      /\ n \in {1, 2} => Top(s).label = "resume"
      /\ n \in {3, 4} => Top(s).label = "revert"
      /\ n \in {5, 6} => Top(s).label = "pause"
  BY <1>1, <1>2, <1>3, IntentFamily
<1> DEFINE odd == n \in {1, 3, 5}
<1>6. (f = request[s].source <=> odd) /\ n \in {1, 2, 3, 4, 5, 6}
  BY <1>4, <1>5
<1>7. /\ Top(s).label = "resume" => n \in {1, 2}
      /\ Top(s).label = "revert" => n \in {3, 4}
      /\ Top(s).label = "pause" => n \in {5, 6}
  BY <1>5, <1>6
<1>8. /\ Top(s).label = "resume" => n = PausePosition(s, f)
      /\ Top(s).label = "revert" => n = PatchPosition(s, f)
      /\ Top(s).label = "pause" => n = ResumePosition(s, f)
  BY <1>6, <1>7 DEF PausePosition, PatchPosition, ResumePosition
<1>9. ASSUME NEW g \in FamiliesOf(request[s]), g # f
      PROVE  n \notin {PausePosition(s, g), PatchPosition(s, g), ResumePosition(s, g)}
  <2>1. g = request[s].source <=> ~odd
    BY <1>2, <1>4, <1>6, <1>9 DEF FamiliesOf
  <2> QED  BY <1>6, <2>1 DEF PausePosition, PatchPosition, ResumePosition
<1>10. saga[s].pc = "forward" => saga[s].done = n - 1
  BY <1>1, <1>2, <1>3 DEF Control, StackOK
<1> QED  BY <1>1, <1>2, <1>4, <1>8, <1>9, <1>10

\* What a busy object has left to do, by the label of the intent it serves.
LEMMA StepsByLabel ==
    ASSUME Control, NEW f \in Families, Busy(f), NEW s, s = Serving(f).caller
    PROVE  /\ Top(s).label = "revert" => steps[f] = <<"patch_configmap">>
           /\ Top(s).label = "resume" =>
                \/ /\ saga[s].pc = "forward" \/ saga[s].statuses[f].state = "SUSPENDED"
                   /\ PauseLeft(f)
                \/ /\ saga[s].pc = "unwinding" /\ saga[s].statuses[f].state = "RUNNING"
                   /\ steps[f] = <<"resume_job">>
           /\ Top(s).label = "pause" =>
                \/ saga[s].pc = "forward" /\ steps[f] = <<"resume_job">>
                \/ saga[s].pc = "unwinding" /\ PauseLeft(f)
<1>1. inbox[f] # <<>> /\ HandlerOK(f)
  BY DEF Control, HandlerOK
<1>2. saga[s].statuses[f].state \in FamilyState =>
        saga[s].statuses[f].state \in {"RUNNING", "SUSPENDED"}
  BY DEF FamilyState
<1> QED  BY <1>1, <1>2, ServedCommand DEF HandlerOK

\* The first operation left, by the label.
LEMMA HeadByLabel ==
    ASSUME Control, NEW f \in Families, Busy(f), NEW s, s = Serving(f).caller,
           Top(s).label \in {"resume", "revert", "pause"}
    PROVE  (Head(steps[f]) = "patch_configmap") <=> (Top(s).label = "revert")
<1>1. CASE Top(s).label = "revert"
  BY <1>1, StepsByLabel, StepsAsSequences
<1>2. CASE Top(s).label # "revert"
  <2>1. steps[f] \in {PauseSteps, <<"suspend_job">>, <<"resume_job">>}
    BY <1>2, StepsByLabel DEF PauseLeft
  <2>2. Head(steps[f]) \in {"trigger_savepoint", "suspend_job", "resume_job"}
    BY <2>1, StepsAsSequences
  <2> QED  BY <1>2, <2>2
<1> QED  BY <1>1, <1>2

\* Only the restore, or the patch, of a routing touches the routing, and only
\* the others touch the job.
LEMMA StepScope ==
    ASSUME Control, NEW f \in Families, ObjectStep(f), inbox[f] # <<>>,
           NEW s \in Sagas, s = Serving(f).caller
    PROVE  /\ datatypes'[f] # datatypes[f] => Top(s).label = "revert"
           /\ state'[f] # state[f] => Top(s).label # "revert"
<1>1. CASE Enter(f) \/ Reset(f)
  BY <1>1 DEF Enter, Reset, cluster
<1>2. ASSUME NEW outcome, Attempt(f, outcome)
      PROVE  /\ datatypes'[f] # datatypes[f] => Top(s).label = "revert"
             /\ state'[f] # state[f] => Top(s).label # "revert"
  <2>1. Busy(f) /\ Head(steps[f]) \in Operation
    BY <1>2, AttemptEffect, StepsLeft
  <2>2. Top(s).label \in {"resume", "revert", "pause"}
    BY CallPosition
  <2> QED  BY <1>2, <2>1, <2>2, AttemptEffect, HeadByLabel DEF Operation, cluster
<1> QED
  BY <1>1, <1>2 DEF ObjectStep, HandlerStep, StepReturns, StepRetried, StepFails, Crash

\* How an object comes to answer that it has done what it was asked for.
LEMMA AnsweringSteps ==
    ASSUME Control, NEW f \in Families, ObjectStep(f), inbox[f] # <<>>,
           NEW s \in Sagas, s = Serving(f).caller, reply'[s] \in {"changed", "unchanged"}
    PROVE  \/ Enter(f) /\ HandlerSteps(f, Serving(f)) = <<>>
           \/ StepReturns(f) /\ Len(steps[f]) = 1
<1>1. reply[s] = "waiting"
  BY CallPosition
<1>2. ASSUME NEW outcome, StepFails(f, outcome) PROVE FALSE
  <2>1. Answer(f, "failed")
    BY <1>2 DEF StepFails
  <2> QED  BY <2>1, AnswerFacts
<1> QED
  BY <1>1, <1>2 DEF ObjectStep, HandlerStep, Enter, StepReturns, StepRetried, Crash, Reset

\* The answer is true of what its caller wanted of the family.
LEMMA AnswerTruth ==
    ASSUME Control, NEW f \in Families, ObjectStep(f), inbox[f] # <<>>,
           NEW s \in Sagas, s = Serving(f).caller, reply'[s] \in {"changed", "unchanged"}
    PROVE  /\ saga[s].pc = "forward" /\ Top(s).label = "resume" =>
                cache'[f] = "SUSPENDED"
           /\ saga[s].pc = "forward" /\ Top(s).label = "revert" =>
                datatypes'[f] = NewConfig(request[s], saga[s].statuses, f)
           /\ saga[s].pc = "forward" /\ Top(s).label = "pause" =>
                (cache[f] \in {"SUSPENDED", "unset"} => state'[f] = "RUNNING")
           /\ saga[s].pc = "unwinding" /\ Top(s).label = "resume" =>
                state'[f] = saga[s].statuses[f].state
           /\ saga[s].pc = "unwinding" /\ Top(s).label = "revert" =>
                datatypes'[f] = saga[s].statuses[f].datatypes
<1> DEFINE call == Serving(f)  base == saga[s].statuses[f]
<1>0. cache \in [Families -> FamilyState \union {"unset"}]
  BY DEF Control, TypeOK, ActorTypeOK
<1>1. CASE Enter(f) /\ HandlerSteps(f, Serving(f)) = <<>>
  <2>1. /\ UNCHANGED cluster /\ cache'[f] = SyncedCache(f, call)
    BY <1>0, <1>1 DEF Enter
  <2>2. /\ call.command = "pause" => CachedState(f) = "SUSPENDED"
        /\ call.command = "resume" => CachedState(f) = "RUNNING"
        /\ call.command # "patch"
        /\ call.command = "restore" /\ call.desired = {} => datatypes[f] \in call.config
        /\ call.command = "restore" /\ call.desired = {"SUSPENDED"} => state[f] = "SUSPENDED"
        /\ call.command = "restore" /\ call.desired = {"RUNNING"} => state[f] = "RUNNING"
    BY <1>1, HandlerDecides, StepsAsSequences
  <2>3. CASE saga[s].pc = "forward" /\ Top(s).label = "resume"
    <3>1. call.command = "pause"
      BY <2>3, ServedCommand
    <3> QED  BY <2>1, <2>2, <2>3, <3>1 DEF SyncedCache
  <2>4. CASE saga[s].pc = "forward" /\ Top(s).label = "revert"
    BY <2>2, <2>4, ServedCommand
  <2>5. CASE saga[s].pc = "forward" /\ Top(s).label = "pause"
    <3>1. call.command = "resume"
      BY <2>5, ServedCommand
    <3> QED  BY <2>1, <2>2, <2>5, <3>1 DEF CachedState, cluster
  <2>6. CASE saga[s].pc = "unwinding" /\ Top(s).label = "resume"
    <3>1. call.command = "restore" /\ call.desired = {base.state}
          /\ base.state \in {"RUNNING", "SUSPENDED"}
      BY <2>6, ServedCommand DEF FamilyState
    <3> QED  BY <2>1, <2>2, <2>6, <3>1 DEF cluster
  <2>7. CASE saga[s].pc = "unwinding" /\ Top(s).label = "revert"
    <3>1. call.command = "restore" /\ call.desired = {} /\ call.config = {base.datatypes}
      BY <2>7, ServedCommand
    <3> QED  BY <2>1, <2>2, <2>7, <3>1 DEF cluster
  <2> QED  BY <2>3, <2>4, <2>5, <2>6, <2>7
<1>2. CASE StepReturns(f) /\ Len(steps[f]) = 1
  <2>1. /\ Attempt(f, "ok") /\ Busy(f) /\ Committed("ok")
        /\ cache'[f] = CacheAfter(f, Head(steps[f]))
    BY <1>0, <1>2, AttemptEffect DEF StepReturns, Committed
  <2>2. PauseLeft(f) => Head(steps[f]) = "suspend_job"
    <3>1. steps[f] # PauseSteps
      <4>1. Len(PauseSteps) = 2 /\ Len(steps[f]) = 1
        BY <1>2, StepsAsSequences
      <4> QED  BY <4>1
    <3> QED  BY <3>1, StepsAsSequences DEF PauseLeft
  <2>3. steps[f] = <<"resume_job">> => Head(steps[f]) = "resume_job"
    BY StepsAsSequences
  <2>4. CASE Top(s).label = "resume"
    <3>1. CASE PauseLeft(f)
      <4>1. cache'[f] = "SUSPENDED" /\ state'[f] = "SUSPENDED"
        BY <2>1, <2>2, <3>1, AttemptEffect DEF CacheAfter
      <4>2. saga[s].pc = "forward" \/ base.state = "SUSPENDED"
        <5>1. ~(steps[f] = <<"resume_job">>)
          BY <2>2, <2>3, <3>1
        <5>2. \/ saga[s].pc = "forward" \/ base.state = "SUSPENDED"
              \/ steps[f] = <<"resume_job">>
          BY <2>1, <2>4, StepsByLabel
        <5> QED  BY <5>1, <5>2
      <4> QED  BY <2>4, <4>1, <4>2
    <3>2. CASE ~PauseLeft(f)
      <4>1. /\ saga[s].pc = "unwinding" /\ base.state = "RUNNING"
            /\ steps[f] = <<"resume_job">>
        BY <2>1, <2>4, <3>2, StepsByLabel
      <4>2. state'[f] = "RUNNING"
        BY <2>1, <2>3, <4>1, AttemptEffect
      <4> QED  BY <2>4, <4>1, <4>2
    <3> QED  BY <3>1, <3>2
  <2>5. CASE Top(s).label = "revert"
    <3>1. Head(steps[f]) = "patch_configmap"
      BY <2>1, <2>5, StepsByLabel, StepsAsSequences
    <3>2. datatypes'[f] \in call.config
      BY <2>1, <3>1, AttemptEffect
    <3> QED  BY <2>5, <3>2, ServedCommand
  <2>6. CASE Top(s).label = "pause"
    <3>1. saga[s].pc = "forward" => state'[f] = "RUNNING"
      BY <2>1, <2>3, <2>6, StepsByLabel, AttemptEffect
    <3> QED  BY <2>6, <3>1
  <2> QED  BY <2>4, <2>5, <2>6, CallPosition
<1> QED  BY <1>1, <1>2, AnsweringSteps

\* What a step of the object may put into its cache.
LEMMA CacheScope ==
    ASSUME Control, NEW f \in Families, ObjectStep(f), inbox[f] # <<>>,
           NEW s \in Sagas, s = Serving(f).caller, saga[s].pc = "forward"
    PROVE  \/ cache'[f] \in {cache[f], "unset", "SUSPENDED"}
           \/ Top(s).label = "resume"
           \/ Top(s).label = "pause" /\ reply'[s] \in {"changed", "unchanged"}
<1>0. cache \in [Families -> FamilyState \union {"unset"}] /\ state[f] \in FamilyState
  BY DEF Control, TypeOK, ActorTypeOK, ClusterTypeOK
<1>1. CASE Enter(f)
  <2>1. cache'[f] = SyncedCache(f, Serving(f))
    BY <1>0, <1>1 DEF Enter
  <2>2. CASE Serving(f).command = "resume"
    <3>1. Top(s).label = "pause"
      BY <2>2, ServedCommand
    <3>2. CASE CachedState(f) = "RUNNING"
      <4>1. HandlerSteps(f, Serving(f)) = <<>>
        BY <2>2, <3>2, HandlerDecides
      <4>2. Answer(f, "unchanged")
        BY <1>1, <4>1 DEF Enter
      <4> QED  BY <3>1, <4>2, AnswerFacts
    <3>3. CASE CachedState(f) # "RUNNING"
      BY <1>0, <2>1, <2>2, <3>3 DEF SyncedCache, CachedState, FamilyState
    <3> QED  BY <3>2, <3>3
  <2>3. CASE Serving(f).command = "patch"
    BY <2>1, <2>3 DEF SyncedCache
  <2> QED  BY <2>2, <2>3, ServedCommand
<1>2. CASE StepReturns(f)
  <2>1. Attempt(f, "ok") /\ Busy(f) /\ cache'[f] = CacheAfter(f, Head(steps[f]))
    BY <1>0, <1>2, AttemptEffect DEF StepReturns
  <2>2. Head(steps[f]) \in Operation
    BY <2>1, StepsLeft
  <2>3. CASE Head(steps[f]) # "resume_job"
    BY <2>1, <2>2, <2>3 DEF CacheAfter, Operation
  <2>4. CASE Head(steps[f]) = "resume_job"
    <3>1. steps[f] = <<"resume_job">>
      BY <2>1, <2>4, StepsLeft, StepsAsSequences
    <3>2. Answer(f, "changed")
      BY <1>2, <3>1, StepsAsSequences DEF StepReturns
    <3>3. reply'[s] = "changed"
      BY <3>2, AnswerFacts
    <3>4. Top(s).label # "revert"
      BY <2>1, <2>4, HeadByLabel, CallPosition
    <3> QED  BY <3>3, <3>4, CallPosition
  <2> QED  BY <2>3, <2>4
<1> QED
  BY <1>0, <1>1, <1>2 DEF ObjectStep, HandlerStep, StepRetried, StepFails, Crash, Reset

\* An object nobody calls can only have its cache cleared.
LEMMA UncalledObject ==
    ASSUME Control, NEW f \in Families, ObjectStep(f), inbox[f] = <<>>
    PROVE  UNCHANGED <<cluster, reply>> /\ cache'[f] \in {cache[f], "unset"}
<1>1. ~Busy(f)
  BY DEF Control, HandlerOK
<1>2. ASSUME NEW outcome PROVE ~Attempt(f, outcome)
  BY <1>1 DEF Attempt
<1>3. Reset(f)
  BY <1>2 DEF ObjectStep, HandlerStep, Enter, StepReturns, StepRetried, StepFails, Crash
<1> QED  BY <1>3 DEF Reset, Control, TypeOK, ActorTypeOK

-----------------------------------------------------------------------------
(* Moves that are apart.                                                   *)

\* At most one move makes progress in a step, and none comes back from its end.
LEMMA OneMoves ==
    ASSUME Control, Next
    PROVE  /\ request' = request
           /\ \/ saga' = saga
              \/ \E s \in Sagas : /\ Start(s) \/ SagaStep(s)
                                  /\ \A t \in Sagas \ {s} : saga'[t] = saga[t]
           /\ \A s \in Sagas : saga[s].pc = "ended" => saga'[s] = saga[s]
<1>1. CASE \E f \in Families : ObjectStep(f)
  BY <1>1 DEF ObjectStep
<1>2. ASSUME NEW s \in Sagas, Start(s) \/ SagaStep(s)
      PROVE  /\ request' = request /\ saga[s].pc # "ended"
             /\ \A t \in Sagas \ {s} : saga'[t] = saga[t]
  <2>1. saga[s].pc # "ended"
    BY <1>2 DEF Start, SagaStep, ReadSource, ReadTarget, ReadRaises, Reject, Accept, CallStep,
       StepAnswered, StepFailed, Complete, CallRestore, RestoreAnswered, Unwound
  <2> QED  BY <1>2, <2>1, WorkflowFrame
<1> QED  BY <1>1, <1>2 DEF Next

LEMMA ApartNext ==
    ASSUME Control, MovesAreApart, Next, Isolated
    PROVE  MovesAreApart'
<1> SUFFICES ASSUME NEW s \in Sagas, NEW t \in Sagas, s # t, Active(s)', Active(t)'
             PROVE  ~Overlap(s, t)
  <2>1. request' = request
    BY OneMoves
  <2> QED  BY <2>1 DEF MovesAreApart, Overlap
<1>1. Overlap(s, t) = Overlap(t, s)
  BY DEF Overlap
<1>2. /\ Active(s) \/ (saga[s].pc = "idle" /\ saga'[s].pc # "idle")
      /\ Active(t) \/ (saga[t].pc = "idle" /\ saga'[t].pc # "idle")
  BY OneMoves DEF Active
<1>3. Active(s) \/ Active(t)
  BY OneMoves DEF Active
<1>4. CASE Active(s) /\ Active(t)
  BY <1>4 DEF MovesAreApart
<1>5. CASE Active(s) /\ ~Active(t)
  BY <1>1, <1>2, <1>5 DEF Isolated
<1>6. CASE Active(t) /\ ~Active(s)
  BY <1>1, <1>2, <1>6 DEF Isolated
<1> QED  BY <1>3, <1>4, <1>5, <1>6

\* The object of a move's family serves that move.
LEMMA ServedByOwner ==
    ASSUME Control, MovesAreApart, NEW s \in Sagas, Active(s),
           NEW f \in Families, f \in FamiliesOf(request[s]), inbox[f] # <<>>
    PROVE  s = Serving(f).caller
<1>1. PICK c \in Sagas : c = Serving(f).caller
  BY BeingServed
<1>2. Moving(c) /\ f \in FamiliesOf(request[c])
  BY <1>1, CallPosition
<1>3. Active(c) /\ Overlap(s, c)
  BY <1>2 DEF Active, Moving, Overlap
<1> QED  BY <1>1, <1>3 DEF MovesAreApart

\* What another family's object, or an uncalled one, does to a move.
LEMMA ForeignStep ==
    ASSUME Control, NEW g \in Families, ObjectStep(g), NEW s \in Sagas,
           NEW f \in Families, g # f \/ inbox[g] = <<>>, f \in FamiliesOf(request[s])
    PROVE  /\ state'[f] = state[f] /\ datatypes'[f] = datatypes[f]
           /\ cache'[f] \in {cache[f], "unset"}
           /\ \/ reply'[s] = reply[s]
              \/ /\ reply[s] = "waiting" /\ reply'[s] \in {"changed", "unchanged", "failed"}
                 /\ Height(s) \in 1 .. 6
                 /\ saga[s].pc = "forward" => saga[s].done = Height(s) - 1
                 /\ Height(s) \notin {PausePosition(s, f), PatchPosition(s, f),
                                      ResumePosition(s, f)}
<1>1. CASE inbox[g] = <<>>
  <2>1. UNCHANGED <<cluster, reply>> /\ cache'[g] \in {cache[g], "unset"}
    BY <1>1, UncalledObject
  <2>2. g # f => cache'[f] = cache[f]
    BY ObjectFrame
  <2> QED  BY <2>1, <2>2 DEF cluster
<1>2. CASE g # f /\ inbox[g] # <<>>
  <2>1. state'[f] = state[f] /\ datatypes'[f] = datatypes[f] /\ cache'[f] = cache[f]
    BY <1>2, ObjectFrame
  <2>2. PICK c \in Sagas : c = Serving(g).caller
    BY <1>2, BeingServed
  <2>3. c # s => reply'[s] = reply[s]
    <3>1. CASE UNCHANGED reply
      BY <3>1
    <3>2. CASE \E a \in {"changed", "unchanged", "failed"} : Answer(g, a)
      BY <1>2, <2>2, <3>2, AnswerFacts
    <3> QED  BY <3>1, <3>2, ObjectFrame
  <2>4. reply'[s] = reply[s] \/ reply'[s] \in {"changed", "unchanged", "failed"}
    <3>1. CASE \E a \in {"changed", "unchanged", "failed"} : Answer(g, a)
      BY <1>2, <2>2, <3>1, AnswerFacts
    <3> QED  BY <3>1, ObjectFrame
  <2> QED  BY <1>2, <2>1, <2>2, <2>3, <2>4, CallPosition
<1> QED  BY <1>1, <1>2

LEMMA PositionsInOrder ==
    ASSUME NEW s, NEW f
    PROVE  /\ PausePosition(s, f) \in 1 .. 2
           /\ PatchPosition(s, f) = PausePosition(s, f) + 2
           /\ ResumePosition(s, f) = PausePosition(s, f) + 4
  BY DEF PausePosition, PatchPosition, ResumePosition

-----------------------------------------------------------------------------
(* Steps of the objects.                                                   *)

LEMMA SnapshotObject ==
    ASSUME Control, MovesAreApart, SnapshotCurrent, NEW g \in Families, ObjectStep(g)
    PROVE  SnapshotCurrent'
<1>1. UNCHANGED <<request, saga>>
  BY ObjectFrame
<1>2. ASSUME NEW s \in Sagas, saga[s].pc \in {"read target", "validating"},
             NEW f \in DOMAIN saga[s].statuses
      PROVE  state'[f] = state[f] /\ datatypes'[f] = datatypes[f]
  <2>1. f \in Families /\ f \in FamiliesOf(request[s]) /\ Active(s) /\ ~Moving(s)
    BY <1>2 DEF Control, SagaOK, SnapshotTaken, FamiliesOf, Active, Moving
  <2>2. g # f \/ inbox[g] = <<>>
    <3>1. inbox[f] # <<>> => s = Serving(f).caller
      BY <2>1, ServedByOwner
    <3> QED  BY <2>1, <3>1, BeingServed
  <2> QED  BY <2>1, <2>2, ForeignStep
<1> QED  BY <1>1, <1>2 DEF SnapshotCurrent, Read

LEMMA DeviationObject ==
    ASSUME Control, MovesAreApart, NEW s \in Sagas, Moving(s),
           NEW f \in FamiliesOf(request[s]), DeviationOwned(s, f),
           NEW g \in Families, ObjectStep(g)
    PROVE  DeviationOwned(s, f)'
<1>0. /\ UNCHANGED <<request, saga>> /\ f \in Families /\ Active(s)
      /\ Height(s) \in 0 .. 6 /\ Height(s)' = Height(s)
      /\ PausePosition(s, f)' = PausePosition(s, f)
      /\ PatchPosition(s, f)' = PatchPosition(s, f)
  BY ObjectFrame, MoverFacts DEF Control, SagaOK, SnapshotTaken, Active, Moving, Height,
     PausePosition, PatchPosition
<1> DEFINE settled == saga[s].pc = "unwinding" /\ Answered(s)'
<1>1. PICK low \in 1 .. 2, high \in 3 .. 4, h \in 0 .. 6 :
          /\ low = PausePosition(s, f) /\ high = PatchPosition(s, f) /\ h = Height(s)
          /\ high = low + 2 /\ ResumePosition(s, f) = low + 4
  BY <1>0, PositionsInOrder
<1>2. \A n \in {low, high} : Pending(s, n)' <=> IF settled THEN h > n ELSE h >= n
  BY <1>0, <1>1 DEF Pending
<1>3. CASE g # f \/ inbox[g] = <<>>
  <2>1. /\ state'[f] = state[f] /\ datatypes'[f] = datatypes[f]
        /\ \/ reply'[s] = reply[s]
           \/ reply[s] = "waiting" /\ h \notin {low, high}
    <3>1. /\ state'[f] = state[f] /\ datatypes'[f] = datatypes[f]
          /\ \/ reply'[s] = reply[s]
             \/ /\ reply[s] = "waiting"
                /\ Height(s) \notin {PausePosition(s, f), PatchPosition(s, f)}
      BY <1>0, <1>3, ForeignStep
    <3> QED  BY <1>1, <3>1
  <2>2. \A n \in {low, high} : Pending(s, n) => Pending(s, n)'
    <3>1. CASE reply'[s] = reply[s]
      BY <1>0, <3>1 DEF Pending, Answered
    <3>2. CASE reply[s] = "waiting" /\ h \notin {low, high}
      <4>1. \A n \in {low, high} : Pending(s, n) => h >= n
        BY <1>1, <3>2 DEF Pending, Answered
      <4> QED  BY <1>0, <1>1, <1>2, <3>2, <4>1
    <3> QED  BY <2>1, <3>1, <3>2
  <2> QED  BY <1>0, <1>1, <2>1, <2>2 DEF DeviationOwned
<1>4. CASE g = f /\ inbox[f] # <<>>
  <2>1. s = Serving(f).caller
    BY <1>0, <1>4, ServedByOwner
  <2>2. /\ reply[s] = "waiting" /\ h \in 1 .. 6
        /\ \/ Top(s).label = "resume" /\ h = low
           \/ Top(s).label = "revert" /\ h = high
           \/ Top(s).label = "pause" /\ h = low + 4
    BY <1>0, <1>1, <1>4, <2>1, CallPosition
  <2>3. \A n \in {low, high} : Pending(s, n) <=> h >= n
    BY <1>1, <2>2 DEF Pending, Answered
  <2>4. /\ datatypes'[f] # datatypes[f] => Top(s).label = "revert"
        /\ state'[f] # state[f] => Top(s).label # "revert"
    BY <1>0, <1>4, <2>1, StepScope
  <2>5. settled /\ Top(s).label = "resume" => state'[f] = saga[s].statuses[f].state
    BY <1>0, <1>4, <2>1, AnswerTruth DEF Answered
  <2>6. settled /\ Top(s).label = "revert" =>
            datatypes'[f] = saga[s].statuses[f].datatypes
    BY <1>0, <1>4, <2>1, AnswerTruth DEF Answered
  <2> HIDE DEF settled
  <2>7. ASSUME datatypes'[f] # saga[s].statuses[f].datatypes
        PROVE  Pending(s, high)' \/ Intent("revert", f) \in saga[s].errors
    <3>1. CASE Top(s).label = "resume"
      <4>1. datatypes[f] # saga[s].statuses[f].datatypes /\ ~Pending(s, high)
        BY <1>1, <2>2, <2>3, <2>4, <2>7, <3>1
      <4> QED  BY <1>1, <4>1 DEF DeviationOwned
    <3>2. CASE Top(s).label # "resume"
      <4>1. h >= high /\ (h = high => ~settled)
        BY <1>1, <2>2, <2>6, <2>7, <3>2
      <4> QED  BY <1>1, <1>2, <4>1
    <3> QED  BY <3>1, <3>2
  <2>8. ASSUME state'[f] # saga[s].statuses[f].state
        PROVE  Pending(s, low)'
    <3>1. h >= low /\ (h = low => ~settled)
      BY <1>1, <2>2, <2>5, <2>8
    <3> QED  BY <1>1, <1>2, <3>1
  <2> QED  BY <1>0, <1>1, <2>7, <2>8 DEF DeviationOwned
<1> QED  BY <1>3, <1>4

LEMMA AdvanceObject ==
    ASSUME Control, MovesAreApart, NEW s \in Sagas, saga[s].pc = "forward",
           NEW f \in FamiliesOf(request[s]), Advanced(s, f),
           NEW g \in Families, ObjectStep(g)
    PROVE  Advanced(s, f)'
<1>0. /\ UNCHANGED <<request, saga>> /\ f \in Families /\ Active(s) /\ Moving(s)
      /\ saga[s].done \in 0 .. 6 /\ request'[s] = request[s]
      /\ PausePosition(s, f)' = PausePosition(s, f)
      /\ PatchPosition(s, f)' = PatchPosition(s, f)
      /\ ResumePosition(s, f)' = ResumePosition(s, f)
  BY ObjectFrame, MoverFacts DEF Control, SagaOK, SnapshotTaken, Active, Moving,
     PausePosition, PatchPosition, ResumePosition
<1>1. PICK low \in 1 .. 2, done \in 0 .. 6 :
          /\ low = PausePosition(s, f) /\ done = saga[s].done
          /\ PatchPosition(s, f) = low + 2 /\ ResumePosition(s, f) = low + 4
  BY <1>0, PositionsInOrder
<1> DEFINE e == Effective(s)'
<1>2. e = IF Answered(s)' THEN done + 1 ELSE done
  BY <1>0, <1>1 DEF Effective
<1>5. ASSUME /\ e >= low + 2 =>
                    datatypes'[f] = NewConfig(request[s], saga[s].statuses, f)
             /\ e \in low .. low + 3 => cache'[f] \in {"SUSPENDED", "unset"}
             /\ e >= low + 4 => state'[f] = "RUNNING"
      PROVE  Advanced(s, f)'
  <2>1. low + 4 - 1 = low + 3
    BY <1>1
  <2> QED  BY <1>0, <1>1, <1>5, <2>1 DEF Advanced
<1>6. /\ Effective(s) >= low + 2 =>
            datatypes[f] = NewConfig(request[s], saga[s].statuses, f)
      /\ Effective(s) \in low .. low + 3 => cache[f] \in {"SUSPENDED", "unset"}
      /\ Effective(s) >= low + 4 => state[f] = "RUNNING"
  <2>1. low + 4 - 1 = low + 3
    BY <1>1
  <2> QED  BY <1>1, <2>1 DEF Advanced
<1> HIDE DEF e
<1>3. CASE g # f \/ inbox[g] = <<>>
  <2>1. /\ state'[f] = state[f] /\ datatypes'[f] = datatypes[f]
        /\ cache'[f] \in {cache[f], "unset"}
        /\ \/ reply'[s] = reply[s]
           \/ /\ reply[s] = "waiting" /\ done + 1 \notin {low, low + 2, low + 4}
    <3>1. /\ state'[f] = state[f] /\ datatypes'[f] = datatypes[f]
          /\ cache'[f] \in {cache[f], "unset"}
          /\ \/ reply'[s] = reply[s]
             \/ /\ reply[s] = "waiting"
                /\ Height(s) \in 1 .. 6 /\ saga[s].done = Height(s) - 1
                /\ Height(s) \notin {low, low + 2, low + 4}
      BY <1>0, <1>1, <1>3, ForeignStep
    <3>2. Height(s) \in 1 .. 6 /\ saga[s].done = Height(s) - 1 => done + 1 = Height(s)
      BY <1>1
    <3> QED  BY <3>1, <3>2
  <2>2. /\ e >= low + 2 => Effective(s) >= low + 2
        /\ e >= low + 4 => Effective(s) >= low + 4
        /\ e \in low .. low + 3 => Effective(s) \in low .. low + 3
    <3>1. CASE reply'[s] = reply[s]
      BY <1>0, <3>1 DEF e, Effective, Answered
    <3>2. CASE reply[s] = "waiting" /\ done + 1 \notin {low, low + 2, low + 4}
      <4>1. Effective(s) = done
        BY <1>1, <3>2 DEF Effective, Answered
      <4> QED  BY <1>0, <1>1, <1>2, <3>2, <4>1
    <3> QED  BY <2>1, <3>1, <3>2
  <2> QED  BY <1>5, <1>6, <2>1, <2>2
<1>4. CASE g = f /\ inbox[f] # <<>>
  <2>1. s = Serving(f).caller
    BY <1>0, <1>4, ServedByOwner
  <2>2. /\ reply[s] = "waiting"
        /\ \/ Top(s).label = "resume" /\ done = low - 1
           \/ Top(s).label = "revert" /\ done = low + 1
           \/ Top(s).label = "pause" /\ done = low + 3
    BY <1>0, <1>1, <1>4, <2>1, CallPosition
  <2>3. Effective(s) = done
    BY <1>1, <2>2 DEF Effective, Answered
  <2>4. /\ datatypes'[f] # datatypes[f] => Top(s).label = "revert"
        /\ state'[f] # state[f] => Top(s).label # "revert"
    BY <1>0, <1>4, <2>1, StepScope
  <2>5. Answered(s)' =>
          /\ Top(s).label = "resume" => cache'[f] = "SUSPENDED"
          /\ Top(s).label = "revert" =>
                datatypes'[f] = NewConfig(request[s], saga[s].statuses, f)
          /\ Top(s).label = "pause" =>
                (cache[f] \in {"SUSPENDED", "unset"} => state'[f] = "RUNNING")
    BY <1>0, <1>4, <2>1, AnswerTruth DEF Answered
  <2>6. \/ cache'[f] \in {cache[f], "unset", "SUSPENDED"}
        \/ Top(s).label = "resume"
        \/ Top(s).label = "pause" /\ Answered(s)'
    BY <1>0, <1>4, <2>1, CacheScope DEF Answered
  <2>7. /\ done >= low + 2 => datatypes[f] = NewConfig(request[s], saga[s].statuses, f)
        /\ done \in low .. low + 3 => cache[f] \in {"SUSPENDED", "unset"}
    BY <1>6, <2>3
  <2>9. CASE Top(s).label = "resume" /\ done = low - 1
    <3>1. ~(e >= low + 2) /\ ~(e >= low + 4) /\ (e \in low .. low + 3 => Answered(s)')
      BY <1>1, <1>2, <2>9
    <3> QED  BY <1>1, <1>5, <2>5, <2>9, <3>1
  <2>10. CASE Top(s).label = "revert" /\ done = low + 1
    <3>1. ~(e >= low + 4) /\ (e >= low + 2 => Answered(s)')
      BY <1>1, <1>2, <2>10
    <3>2. cache'[f] \in {"SUSPENDED", "unset"}
      BY <1>1, <2>6, <2>7, <2>10
    <3> QED  BY <1>5, <2>5, <2>10, <3>1, <3>2
  <2>11. CASE Top(s).label = "pause" /\ done = low + 3
    <3>1. /\ e >= low + 4 => Answered(s)'
          /\ e \in low .. low + 3 => ~Answered(s)'
      BY <1>1, <1>2, <2>11
    <3>2. /\ datatypes'[f] = NewConfig(request[s], saga[s].statuses, f)
          /\ cache[f] \in {"SUSPENDED", "unset"}
      BY <1>1, <2>4, <2>7, <2>11
    <3> QED  BY <1>5, <2>5, <2>6, <2>11, <3>1, <3>2
  <2> QED  BY <2>2, <2>9, <2>10, <2>11
<1> QED  BY <1>3, <1>4

-----------------------------------------------------------------------------
(* Steps of the workflows.                                                 *)

LEMMA StepAnsweredFacts ==
    ASSUME Control, NEW s \in Sagas, StepAnswered(s) \/ StepFailed(s)
    PROVE  /\ saga[s].pc = "forward" /\ reply[s] \in {"changed", "unchanged", "failed"}
           /\ reply'[s] = "none"
           /\ saga'[s].statuses = saga[s].statuses
           /\ saga'[s].stack = saga[s].stack
           /\ saga'[s].errors = saga[s].errors
           /\ saga'[s].verdict = saga[s].verdict
           /\ StepAnswered(s) => /\ Answered(s) /\ saga'[s].pc = "forward"
                                 /\ saga'[s].done = saga[s].done + 1
           /\ StepFailed(s) => saga'[s].pc = "unwinding"
<1>1. saga[s] \in Progress /\ saga \in [Sagas -> Progress] /\ reply \in [Sagas -> Reply]
  BY DEF Control, TypeOK, ActorTypeOK
<1>2. /\ saga[s].pc = "forward" /\ reply[s] \in {"changed", "unchanged", "failed"}
      /\ reply'[s] = "none"
  BY <1>1 DEF StepAnswered, StepFailed, Receive
<1>3. CASE StepAnswered(s)
  <2>1. saga' = [saga EXCEPT ![s].done = @ + 1] /\ Answered(s)
    BY <1>3 DEF StepAnswered, Receive, Answered
  <2>2. saga'[s] = [saga[s] EXCEPT !.done = @ + 1]
    BY <1>1, <2>1
  <2>3. ~StepFailed(s)
    BY <2>1 DEF StepFailed, Receive, Answered
  <2> QED  BY <1>1, <1>2, <2>1, <2>2, <2>3 DEF Progress
<1>4. CASE StepFailed(s)
  <2>1. Goto(s, "unwinding") /\ ~StepAnswered(s)
    BY <1>4 DEF StepFailed, StepAnswered, Receive
  <2> QED  BY <1>2, <2>1, GotoFacts
<1> QED  BY <1>3, <1>4

LEMMA CallRestoreFacts ==
    ASSUME Control, NEW s \in Sagas, CallRestore(s)
    PROVE  /\ saga[s].pc = "unwinding" /\ saga' = saga
           /\ reply[s] = "none" /\ reply'[s] = "waiting"
<1>1. saga[s].pc = "unwinding" /\ saga' = saga /\ reply[s] = "none" /\ saga[s].stack # <<>>
  BY DEF CallRestore
<1>2. Top(s).label \in {"resume", "revert", "pause"}
  BY <1>1, TopOfStack DEF Moving
<1>3. \E g, c, d, e : Send(s, g, c, d, e)
  BY <1>2 DEF CallRestore, Top
<1> QED  BY <1>1, <1>3 DEF Send, Control, TypeOK, ActorTypeOK

\* The kinds of steps of a workflow: it starts, reads a family, goes on, or ends.
LEMMA WorkflowKinds ==
    ASSUME Control, NEW s \in Sagas, Start(s) \/ SagaStep(s)
    PROVE  \/ Start(s) /\ saga'[s].pc = "read source" /\ saga'[s].statuses = <<>>
           \/ /\ saga[s].pc \in {"read source", "read target"}
              /\ saga'[s].pc \in {"read target", "validating"}
              /\ saga[s].pc = "read source" => saga[s].statuses = <<>>
              /\ \E g \in Families \intersect FamiliesOf(request[s]) :
                    /\ DOMAIN saga'[s].statuses = DOMAIN saga[s].statuses \union {g}
                    /\ saga'[s].statuses[g] = Read(g)
                    /\ \A k \in DOMAIN saga[s].statuses \ {g} :
                            saga'[s].statuses[k] = saga[s].statuses[k]
           \/ /\ Accept(s) \/ CallStep(s) \/ StepAnswered(s) \/ StepFailed(s)
                 \/ CallRestore(s) \/ RestoreAnswered(s)
              /\ Active(s) /\ Moving(s)' /\ saga'[s].statuses = saga[s].statuses
           \/ /\ ReadRaises(s) \/ Reject(s) \/ Complete(s) \/ Unwound(s)
              /\ Active(s) /\ saga'[s].pc = "ended"
              /\ saga'[s].statuses = saga[s].statuses
              /\ saga'[s].errors = saga[s].errors
<1>1. CASE Start(s)
  BY <1>1, GotoFacts DEF Start, Control, SagaOK
<1>2. ASSUME NEW g, NEW next \in {"read target", "validating"}, ReadFamily(s, g, next)
      PROVE  /\ g \in Families /\ saga'[s].pc = next
             /\ DOMAIN saga'[s].statuses = DOMAIN saga[s].statuses \union {g}
             /\ saga'[s].statuses[g] = Read(g)
             /\ \A k \in DOMAIN saga[s].statuses \ {g} :
                    saga'[s].statuses[k] = saga[s].statuses[k]
  <2>0. ReadFamily(s, g, next)
    BY <1>2
  <2>1. g \in Families /\ saga'[s].pc = next /\ saga'[s].statuses[g] = Read(g)
    BY <2>0, ReadingFacts
  <2>2. \A k \in DOMAIN saga[s].statuses \ {g} : saga'[s].statuses[k] = saga[s].statuses[k]
    BY <2>0, ReadingFacts
  <2>3. saga'[s].statuses \in [DOMAIN saga[s].statuses \union {g} -> FamilyStatus]
    BY <2>0, ReadingFacts
  <2> QED  BY <2>1, <2>2, <2>3
<1>3. CASE ReadSource(s)
  <2>1. /\ saga[s].pc = "read source" /\ saga[s].statuses = <<>>
        /\ ReadFamily(s, request[s].source, "read target")
    BY <1>3 DEF ReadSource, Control, SagaOK
  <2> QED  BY <1>2, <2>1 DEF FamiliesOf
<1>4. CASE ReadTarget(s)
  <2>1. saga[s].pc = "read target" /\ ReadFamily(s, request[s].target, "validating")
    BY <1>4 DEF ReadTarget
  <2> QED  BY <1>2, <2>1 DEF FamiliesOf
<1>5. CASE ReadRaises(s) \/ Reject(s) \/ Complete(s) \/ Unwound(s)
  <2>1. Active(s) /\ \E v \in Verdict : End(s, v)
    BY <1>5 DEF ReadRaises, Reject, Complete, Unwound, Verdict, Active
  <2> QED  BY <1>5, <2>1, EndFacts
<1>6. CASE Accept(s)
  BY <1>6, GotoFacts DEF Accept, Active, Moving
<1>7. CASE CallStep(s)
  BY <1>7, CallStepFacts DEF Active, Moving
<1>8. CASE StepAnswered(s) \/ StepFailed(s)
  BY <1>8, StepAnsweredFacts DEF Active, Moving
<1>9. CASE CallRestore(s) \/ RestoreAnswered(s)
  BY <1>9, CallRestoreFacts, RestoreAnsweredFacts DEF Active, Moving
<1> QED  BY <1>1, <1>3, <1>4, <1>5, <1>6, <1>7, <1>8, <1>9 DEF SagaStep

\* A read enters what the family is at that moment.
LEMMA SnapshotWorkflow ==
    ASSUME Control, SnapshotCurrent, NEW s \in Sagas, Start(s) \/ SagaStep(s)
    PROVE  SnapshotCurrent'
<1> DEFINE seen == saga[s].statuses  now == saga'[s].statuses
<1>0. /\ \A t \in Sagas \ {s} : saga'[t] = saga[t]
      /\ \A f : Read(f)' = Read(f)
  BY WorkflowFrame DEF cluster, Read
<1>1. ASSUME saga'[s].pc \in {"read target", "validating"}, NEW f \in DOMAIN now
      PROVE  now[f] = Read(f)
  <2>1. PICK g \in Families \intersect FamiliesOf(request[s]) :
          /\ saga[s].pc \in {"read source", "read target"}
          /\ saga[s].pc = "read source" => seen = <<>>
          /\ DOMAIN now = DOMAIN seen \union {g} /\ now[g] = Read(g)
          /\ \A k \in DOMAIN seen \ {g} : now[k] = seen[k]
    BY <1>1, WorkflowKinds DEF Moving
  <2>2. \A k \in DOMAIN seen : seen[k] = Read(k)
    <3>1. CASE seen = <<>>
      BY <3>1
    <3>2. CASE saga[s].pc = "read target"
      BY <3>2 DEF SnapshotCurrent
    <3> QED  BY <2>1, <3>1, <3>2
  <2>3. f \in DOMAIN now
    OBVIOUS
  <2> HIDE DEF seen, now
  <2> QED  BY <2>1, <2>2, <2>3
<1>2. ASSUME NEW t \in Sagas, saga'[t].pc \in {"read target", "validating"},
             NEW f \in DOMAIN saga'[t].statuses
      PROVE  saga'[t].statuses[f] = Read(f)'
  BY <1>0, <1>1, <1>2 DEF SnapshotCurrent
<1> QED  BY <1>2 DEF SnapshotCurrent

\* An intent leaves the stack when its restore has been answered: it has put
\* the family right, or it is among the errors.
LEMMA DeviationWorkflow ==
    ASSUME Control, SnapshotCurrent, NEW s \in Sagas, SagaStep(s), Moving(s)',
           NEW f \in FamiliesOf(request[s]), Moving(s) => DeviationOwned(s, f)
    PROVE  DeviationOwned(s, f)'
<1>0. /\ state' = state /\ datatypes' = datatypes /\ request' = request
      /\ saga[s].errors \subseteq saga'[s].errors
      /\ request[s] \in MoveDatatypeRequest /\ Height(s) \in 0 .. 6
  BY WorkflowFrame, MoverFacts DEF cluster
<1>1. PICK low \in 1 .. 2, high \in 3 .. 4 :
         /\ low = PausePosition(s, f) /\ high = PatchPosition(s, f)
         /\ low = PausePosition(s, f)' /\ high = PatchPosition(s, f)'
  BY <1>0, PositionsInOrder DEF PausePosition, PatchPosition
<1> DEFINE Accounted(n, label) ==
        Pending(s, n) => Pending(s, n)' \/ Intent(label, f) \in saga'[s].errors
<1>2. ASSUME Moving(s), saga'[s].statuses = saga[s].statuses,
             Accounted(low, "resume"), Accounted(high, "revert")
      PROVE  DeviationOwned(s, f)'
  BY <1>0, <1>1, <1>2 DEF DeviationOwned
<1>3. CASE Accept(s)
  <2>1. /\ saga[s].pc = "validating" /\ saga'[s].statuses = saga[s].statuses
        /\ DOMAIN saga[s].statuses = FamiliesOf(request[s])
    BY <1>3, GotoFacts DEF Accept, Control, SagaOK, SnapshotTaken
  <2>2. saga[s].statuses[f] = Read(f)
    BY <2>1 DEF SnapshotCurrent
  <2> QED  BY <1>0, <2>1, <2>2 DEF DeviationOwned, Read
<1>4. CASE CallStep(s)
  <2>1. PICK n \in 1 .. 6 :
          /\ saga[s].pc = "forward" /\ saga'[s].pc = "forward"
          /\ Height(s) = n - 1 /\ Height(s)' = n
          /\ saga'[s].statuses = saga[s].statuses
    BY <1>4, CallStepFacts
  <2>2. \A k \in Nat : n - 1 >= k => n >= k
    OBVIOUS
  <2>3. Accounted(low, "resume") /\ Accounted(high, "revert")
    BY <2>1, <2>2 DEF Pending
  <2> QED  BY <1>2, <2>1, <2>3 DEF Moving
<1>5. CASE StepAnswered(s) \/ StepFailed(s)
  <2>1. /\ saga[s].pc = "forward" /\ reply'[s] = "none" /\ Height(s)' = Height(s)
        /\ saga'[s].statuses = saga[s].statuses
    BY <1>5, StepAnsweredFacts DEF Height
  <2>2. Accounted(low, "resume") /\ Accounted(high, "revert")
    BY <2>1 DEF Pending, Answered
  <2> QED  BY <1>2, <2>1, <2>2 DEF Moving
<1>6. CASE CallRestore(s)
  <2>1. saga[s].pc = "unwinding" /\ saga' = saga /\ reply[s] = "none" /\ reply'[s] = "waiting"
    BY <1>6, CallRestoreFacts
  <2>2. Accounted(low, "resume") /\ Accounted(high, "revert")
    BY <2>1 DEF Pending, Answered, Height
  <2> QED  BY <1>2, <2>1, <2>2 DEF Moving
<1>7. CASE RestoreAnswered(s)
  <2>1. /\ Moving(s) /\ saga[s].pc = "unwinding" /\ saga[s].stack # <<>>
        /\ saga'[s].pc = "unwinding" /\ reply'[s] = "none"
        /\ reply[s] \in {"changed", "unchanged", "failed"}
        /\ Height(s)' = Height(s) - 1 /\ saga'[s].statuses = saga[s].statuses
        /\ saga'[s].errors = IF reply[s] = "failed"
                             THEN saga[s].errors \union {Top(s)} ELSE saga[s].errors
    BY <1>7, RestoreAnsweredFacts
  <2>2. PICK h \in 1 .. 6 : Height(s) = h /\ Top(s) = Intents(request[s])[h]
    BY <2>1, TopOfStack
  <2>3. /\ Intents(request[s])[low] = Intent("resume", f)
        /\ Intents(request[s])[high] = Intent("revert", f)
    BY <1>0, <1>1, IntentsByPosition DEF PausePosition, PatchPosition, FamiliesOf
  <2>4. ASSUME NEW n \in 1 .. 4, NEW label, Intents(request[s])[n] = Intent(label, f)
        PROVE  Accounted(n, label)
    <3>1. h > n => h - 1 >= n
      BY <2>4
    <3>2. CASE Answered(s)
      BY <2>1, <2>2, <3>1, <3>2 DEF Pending, Answered
    <3>3. CASE reply[s] = "failed"
      <4>1. Pending(s, n) => h = n \/ h > n
        BY <2>2, <2>4, <3>3 DEF Pending, Answered
      <4>2. h = n => Intent(label, f) \in saga'[s].errors
        BY <2>1, <2>2, <2>4, <3>3
      <4>3. h > n => Pending(s, n)'
        BY <2>1, <2>2, <3>1 DEF Pending, Answered
      <4> QED  BY <4>1, <4>2, <4>3
    <3> QED  BY <2>1, <3>2, <3>3 DEF Answered
  <2>5. Accounted(low, "resume") /\ Accounted(high, "revert")
    BY <2>3, <2>4
  <2> QED  BY <1>2, <2>1, <2>5
<1> QED  BY <1>3, <1>4, <1>5, <1>6, <1>7, WorkflowKinds DEF Moving, Start

LEMMA AdvanceWorkflow ==
    ASSUME Control, NEW s \in Sagas, SagaStep(s), saga'[s].pc = "forward",
           NEW f \in FamiliesOf(request[s]), saga[s].pc = "forward" => Advanced(s, f)
    PROVE  Advanced(s, f)'
<1>0. /\ state' = state /\ datatypes' = datatypes /\ cache' = cache /\ request' = request
      /\ reply[s] # "waiting" /\ saga[s].done \in 0 .. 6
  BY WorkflowFrame, MoverFacts DEF cluster
<1>1. PICK low \in 1 .. 2, high \in 3 .. 4, top \in 5 .. 6 :
         /\ low = PausePosition(s, f) /\ high = PatchPosition(s, f)
         /\ top = ResumePosition(s, f)
         /\ low = PausePosition(s, f)' /\ high = PatchPosition(s, f)'
         /\ top = ResumePosition(s, f)'
  BY <1>0, PositionsInOrder DEF PausePosition, PatchPosition, ResumePosition
<1>2. ASSUME saga[s].pc = "forward", saga'[s].statuses = saga[s].statuses,
             Effective(s)' = Effective(s)
      PROVE  Advanced(s, f)'
  BY <1>0, <1>1, <1>2 DEF Advanced
<1>3. CASE Accept(s)
  <2>1. saga'[s].done = 0 /\ reply'[s] = "none"
    BY <1>3, GotoFacts DEF Accept, Alone, handlers, Control, SagaOK, Moving
  <2>2. Effective(s)' = 0
    BY <2>1 DEF Effective, Answered
  <2>3. ~(0 >= high) /\ ~(0 >= top) /\ 0 \notin low .. top - 1
    OBVIOUS
  <2> QED  BY <1>1, <2>2, <2>3 DEF Advanced
<1>4. CASE CallStep(s)
  <2>1. /\ saga[s].pc = "forward" /\ reply[s] = "none" /\ saga'[s].done = saga[s].done
        /\ saga'[s].statuses = saga[s].statuses
    BY <1>4, CallStepFacts
  <2>2. reply'[s] = "waiting"
    BY <1>4 DEF CallStep, SendStep, Send, Control, TypeOK, ActorTypeOK
  <2> QED  BY <1>2, <2>1, <2>2 DEF Effective, Answered
<1>5. CASE StepAnswered(s)
  BY <1>2, <1>5, StepAnsweredFacts DEF Effective, Answered
<1>6. ~StepFailed(s) /\ ~CallRestore(s) /\ ~RestoreAnswered(s)
  BY StepAnsweredFacts, CallRestoreFacts, RestoreAnsweredFacts
<1> QED  BY <1>3, <1>4, <1>5, <1>6, WorkflowKinds DEF Start

\* Who asks for an operator has ended.
LEMMA OperatorStays == Control /\ Next /\ OperatorAsked => OperatorAsked'
<1> SUFFICES ASSUME Control, Next, NEW s \in Sagas,
                    saga[s].verdict = "COMPENSATION_INCOMPLETE"
             PROVE  OperatorAsked'
  BY DEF OperatorAsked
<1>1. saga[s].pc = "ended"
  BY DEF Control, SagaOK
<1>2. saga'[s] = saga[s]
  BY <1>1, OneMoves
<1> QED  BY <1>2 DEF OperatorAsked

LEMMA SuspensionsObject ==
    ASSUME Control, SuspensionsOwned, ~OperatorAsked, NEW g \in Families, ObjectStep(g)
    PROVE  SuspensionsOwned'
<1>1. UNCHANGED <<request, saga>> /\ \A f \in Families \ {g} : state'[f] = state[f]
  BY ObjectFrame
<1>2. state'[g] = state[g] \/ \E s \in Sagas : Moving(s) /\ g \in FamiliesOf(request[s])
  <2>1. CASE inbox[g] = <<>>
    BY <2>1, UncalledObject DEF cluster
  <2>2. CASE inbox[g] # <<>>
    <3>1. PICK s \in Sagas : s = Serving(g).caller
      BY <2>2, BeingServed
    <3> QED  BY <2>2, <3>1, CallPosition
  <2> QED  BY <2>1, <2>2
<1> QED  BY <1>1, <1>2 DEF SuspensionsOwned, OperatorAsked, Moving, Active

\* A job is suspended only under a move that is under way: the move runs it
\* again before it completes, puts it back, or asks for an operator.
LEMMA SuspensionsWorkflow ==
    ASSUME Control, MovesAreApart, DeviationsPending, ForwardProgress, SuspensionsOwned,
           ~OperatorAsked, NEW s \in Sagas, Start(s) \/ SagaStep(s)
    PROVE  SuspensionsOwned'
<1>0. /\ state' = state /\ request' = request
      /\ \A t \in Sagas \ {s} : saga'[t] = saga[t]
  BY WorkflowFrame DEF cluster
<1>1. /\ \A f \in Families :
            \/ state[f] = "RUNNING"
            \/ \E t \in Sagas : Moving(t) /\ f \in FamiliesOf(request[t])
      /\ \A t \in Sagas : Active(t) =>
            \A f \in DOMAIN saga[t].statuses : saga[t].statuses[f].state = "RUNNING"
  BY DEF SuspensionsOwned
<1>2. ASSUME Moving(s), ~Moving(s)', NEW f \in FamiliesOf(request[s])
      PROVE  state[f] = "RUNNING" \/ OperatorAsked'
  <2>0. Complete(s) \/ Unwound(s)
    BY <1>2, WorkflowKinds DEF Moving, Start, ReadRaises, Reject
  <2>1. CASE Complete(s)
    <3>1. saga[s].pc = "forward" /\ saga[s].done = 6 /\ reply[s] = "none"
      BY <2>1 DEF Complete, PlanLength
    <3>2. Effective(s) >= ResumePosition(s, f)
      BY <3>1 DEF Effective, Answered, ResumePosition
    <3> QED  BY <1>2, <3>1, <3>2 DEF ForwardProgress, Advanced
  <2>2. CASE Unwound(s) /\ saga[s].errors # {}
    <3>1. End(s, "COMPENSATION_INCOMPLETE")
      BY <2>2 DEF Unwound
    <3>2. saga'[s].verdict = "COMPENSATION_INCOMPLETE"
      BY <3>1, EndFacts DEF Verdict
    <3> QED  BY <3>2 DEF OperatorAsked
  <2>3. CASE Unwound(s) /\ saga[s].errors = {}
    <3>1. Height(s) = 0 /\ reply[s] = "none" /\ Active(s)
      BY <2>3 DEF Unwound, Height, Active
    <3>2. ~Pending(s, PausePosition(s, f))
      BY <3>1 DEF Pending, Answered, PausePosition
    <3>3. state[f] = saga[s].statuses[f].state
      BY <1>2, <2>3, <3>2 DEF DeviationsPending, DeviationOwned
    <3>4. f \in DOMAIN saga[s].statuses
      BY <1>2 DEF Control, SagaOK, SnapshotTaken, Moving
    <3> QED  BY <1>1, <3>1, <3>3, <3>4
  <2> QED  BY <2>0, <2>1, <2>2, <2>3
<1>3. ASSUME ~OperatorAsked', NEW f \in Families, state[f] # "RUNNING"
      PROVE  \E t \in Sagas : Moving(t)' /\ f \in FamiliesOf(request'[t])
  <2>1. PICK t \in Sagas : Moving(t) /\ f \in FamiliesOf(request[t])
    BY <1>1, <1>3
  <2>2. Moving(t)'
    BY <1>0, <1>2, <1>3, <2>1 DEF Moving
  <2> QED  BY <1>0, <2>1, <2>2
<1>4. ASSUME Active(s)', NEW f \in DOMAIN saga'[s].statuses
      PROVE  saga'[s].statuses[f].state = "RUNNING"
  <2> DEFINE seen == saga[s].statuses  now == saga'[s].statuses
  <2>1. CASE saga'[s].statuses = <<>>
    BY <1>4, <2>1
  <2>2. CASE Active(s) /\ saga'[s].statuses = saga[s].statuses
    BY <1>1, <1>4, <2>2
  <2>3. CASE saga[s].pc \in {"read source", "read target"}
    <3>1. Active(s) /\ ~Moving(s)
      BY <2>3 DEF Active, Moving
    <3>2. CASE saga'[s].pc \in {"read target", "validating"}
      <4>1. PICK g \in Families \intersect FamiliesOf(request[s]) :
              /\ DOMAIN now = DOMAIN seen \union {g} /\ now[g] = Read(g)
              /\ \A k \in DOMAIN seen \ {g} : now[k] = seen[k]
        BY <2>3, <3>2, WorkflowKinds DEF Moving, Start
      <4>2. state[g] = "RUNNING"
        <5>1. ASSUME NEW t \in Sagas, Moving(t), g \in FamiliesOf(request[t]) PROVE FALSE
          <6>1. Active(t) /\ t # s /\ Overlap(s, t)
            BY <3>1, <4>1, <5>1 DEF Active, Moving, Overlap
          <6> QED  BY <3>1, <6>1 DEF MovesAreApart
        <5> QED  BY <1>1, <4>1, <5>1
      <4>3. f \in DOMAIN now
        OBVIOUS
      <4>4. \A k \in DOMAIN seen : seen[k].state = "RUNNING"
        BY <1>1, <3>1
      <4>5. Read(g).state = "RUNNING"
        BY <4>2 DEF Read
      <4> HIDE DEF seen, now
      <4>6. now[f].state = "RUNNING"
        BY <4>1, <4>3, <4>4, <4>5
      <4> QED  BY <4>6 DEF now
    <3> QED  BY <1>4, <2>2, <2>3, <3>1, <3>2, WorkflowKinds DEF Start, Active
  <2> QED  BY <1>4, <2>1, <2>2, <2>3, WorkflowKinds DEF Active
<1>5. \A t \in Sagas : Active(t)' =>
          \A f \in DOMAIN saga'[t].statuses : saga'[t].statuses[f].state = "RUNNING"
  BY <1>0, <1>1, <1>4 DEF Active
<1>6. CASE OperatorAsked'
  BY <1>6 DEF SuspensionsOwned
<1>7. CASE ~OperatorAsked'
  BY <1>0, <1>3, <1>5, <1>7 DEF SuspensionsOwned
<1> QED  BY <1>6, <1>7

-----------------------------------------------------------------------------
(* The invariant of moves that are apart, and what follows from it.        *)

LEMMA IsolatedInvInit == Init => IsolatedInv
<1> SUFFICES ASSUME Init PROVE IsolatedInv
  OBVIOUS
<1>1. \A s \in Sagas : saga[s].pc = "idle"
  BY DEF Init, Fresh
<1>2. \A f \in Families : state[f] = "RUNNING"
  BY DEF Init, Seed
<1> QED
  BY <1>1, <1>2 DEF IsolatedInv, MovesAreApart, SnapshotCurrent, DeviationsPending,
     ForwardProgress, SuspensionsOwned, Active, Moving

LEMMA IsolatedInvNext == Control /\ IsolatedInv /\ [Next /\ Isolated]_vars => IsolatedInv'
<1> SUFFICES ASSUME Control, IsolatedInv, [Next /\ Isolated]_vars PROVE IsolatedInv'
  OBVIOUS
<1> USE DEF IsolatedInv
<1>1. CASE UNCHANGED vars
  <2>1. /\ state' = state /\ datatypes' = datatypes /\ cache' = cache
        /\ request' = request /\ saga' = saga /\ reply' = reply
    BY <1>1 DEF vars, cluster, handlers
  <2>2. MovesAreApart'
    BY <2>1 DEF MovesAreApart, Active, Overlap
  <2>3. SnapshotCurrent'
    BY <2>1 DEF SnapshotCurrent, Read
  <2>4. DeviationsPending'
    BY <2>1 DEF DeviationsPending, DeviationOwned, Moving, Pending, Answered, Height,
       PausePosition, PatchPosition
  <2>5. ForwardProgress'
    BY <2>1 DEF ForwardProgress, Advanced, Effective, Answered, PausePosition,
       PatchPosition, ResumePosition
  <2>6. SuspensionsOwned'
    BY <2>1 DEF SuspensionsOwned, OperatorAsked, Moving, Active
  <2> QED  BY <2>2, <2>3, <2>4, <2>5, <2>6
<1>2. CASE Next /\ Isolated
  <2>1. MovesAreApart'
    BY <1>2, ApartNext
  <2>2. ASSUME NEW g \in Families, ObjectStep(g)
        PROVE  SnapshotCurrent' /\ DeviationsPending' /\ ForwardProgress' /\ SuspensionsOwned'
    <3>1. UNCHANGED <<request, saga>>
      BY <2>2, ObjectFrame
    <3>2. SnapshotCurrent'
      BY <2>2, SnapshotObject
    <3>3. DeviationsPending'
      <4>1. ASSUME NEW s \in Sagas, Moving(s), NEW f \in FamiliesOf(request[s])
            PROVE  DeviationOwned(s, f)'
        BY <2>2, <4>1, DeviationObject DEF DeviationsPending
      <4> QED  BY <3>1, <4>1 DEF DeviationsPending, Moving
    <3>4. ForwardProgress'
      <4>1. ASSUME NEW s \in Sagas, saga[s].pc = "forward", NEW f \in FamiliesOf(request[s])
            PROVE  Advanced(s, f)'
        BY <2>2, <4>1, AdvanceObject DEF ForwardProgress
      <4> QED  BY <3>1, <4>1 DEF ForwardProgress
    <3>5. SuspensionsOwned'
      <4>1. CASE OperatorAsked
        BY <1>2, <4>1, OperatorStays DEF SuspensionsOwned
      <4> QED  BY <2>2, <4>1, SuspensionsObject
    <3> QED  BY <3>2, <3>3, <3>4, <3>5
  <2>3. ASSUME NEW s \in Sagas, Start(s) \/ SagaStep(s)
        PROVE  SnapshotCurrent' /\ DeviationsPending' /\ ForwardProgress' /\ SuspensionsOwned'
    <3>1. /\ state' = state /\ datatypes' = datatypes /\ cache' = cache /\ request' = request
          /\ \A t \in Sagas \ {s} : saga'[t] = saga[t] /\ reply'[t] = reply[t]
      BY <2>3, WorkflowFrame DEF cluster
    <3>2. SnapshotCurrent'
      BY <2>3, SnapshotWorkflow
    <3>3. Start(s) => ~Moving(s)' /\ saga'[s].pc # "forward"
      BY GotoFacts DEF Start, Moving
    <3>4. ASSUME NEW t \in Sagas, t # s, Moving(t), NEW f \in FamiliesOf(request[t])
          PROVE  DeviationOwned(t, f)' /\ (saga[t].pc = "forward" => Advanced(t, f)')
      <4>1. DeviationOwned(t, f) /\ (saga[t].pc = "forward" => Advanced(t, f))
        BY <3>4 DEF DeviationsPending, ForwardProgress
      <4>2. DeviationOwned(t, f)'
        BY <3>1, <3>4, <4>1 DEF DeviationOwned, Pending, Answered, Height,
           PausePosition, PatchPosition
      <4>3. ASSUME saga[t].pc = "forward" PROVE Advanced(t, f)'
        BY <3>1, <3>4, <4>1, <4>3 DEF Advanced, Effective, Answered,
           PausePosition, PatchPosition, ResumePosition
      <4> QED  BY <4>2, <4>3
    <3>5. ASSUME Moving(s)', NEW f \in FamiliesOf(request[s])
          PROVE  DeviationOwned(s, f)'
      BY <2>3, <3>3, <3>5, DeviationWorkflow DEF DeviationsPending
    <3>6. ASSUME saga'[s].pc = "forward", NEW f \in FamiliesOf(request[s])
          PROVE  Advanced(s, f)'
      BY <2>3, <3>3, <3>6, AdvanceWorkflow DEF ForwardProgress
    <3>7. DeviationsPending'
      <4> SUFFICES ASSUME NEW t \in Sagas, Moving(t)', NEW f \in FamiliesOf(request[t])
                   PROVE  DeviationOwned(t, f)'
        BY <3>1 DEF DeviationsPending
      <4> QED  BY <3>1, <3>4, <3>5 DEF Moving
    <3>8. ForwardProgress'
      <4> SUFFICES ASSUME NEW t \in Sagas, saga'[t].pc = "forward",
                          NEW f \in FamiliesOf(request[t])
                   PROVE  Advanced(t, f)'
        BY <3>1 DEF ForwardProgress
      <4> QED  BY <3>1, <3>4, <3>6 DEF Moving
    <3>9. SuspensionsOwned'
      <4>1. CASE OperatorAsked
        BY <1>2, <4>1, OperatorStays DEF SuspensionsOwned
      <4> QED  BY <2>3, <4>1, SuspensionsWorkflow
    <3> QED  BY <3>2, <3>7, <3>8, <3>9
  <2> QED  BY <1>2, <2>1, <2>2, <2>3 DEF Next
<1> QED  BY <1>1, <1>2

LEMMA IsolatedIsSpec == IsolatedSpec => Spec
<1>1. [Next /\ Isolated]_vars => [Next]_vars
  OBVIOUS
<1> QED  BY <1>1, PTL DEF IsolatedSpec, Spec

\* Moves whose callers keep them apart stay apart, read what nobody changes
\* under them, and own every deviation of the cluster from what they read.
THEOREM ApartMovesKeepInvariant == IsolatedSpec => [](Control /\ IsolatedInv)
<1>1. Init => IsolatedInv
  BY IsolatedInvInit
<1>2. Control /\ IsolatedInv /\ [Next /\ Isolated]_vars => IsolatedInv'
  BY IsolatedInvNext
<1> QED  BY <1>1, <1>2, IsolatedIsSpec, RestateKeepsControl, PTL DEF IsolatedSpec

\* When moves that are apart are over, and none asks for an operator, every job
\* runs: whatever was retried, replayed after a crash or skipped on the word of
\* a stale cache.
THEOREM NoJobStaysSuspended == IsolatedSpec => []NoJobIsLeftSuspended
<1>1. Control /\ IsolatedInv => NoJobIsLeftSuspended
  BY DEF NoJobIsLeftSuspended, IsolatedInv, SuspensionsOwned, OperatorAsked, Moving
<1> QED  BY <1>1, ApartMovesKeepInvariant, PTL

\* Which step ends a move, by its verdict.
LEMMA EndingStep ==
    ASSUME Control, [Next]_vars, NEW s \in Sagas, Ends(s)
    PROVE  /\ saga'[s].verdict = "COMPLETED" => Complete(s)
           /\ saga'[s].verdict \in {"COMPENSATED", "COMPENSATION_INCOMPLETE"} => Unwound(s)
<1>1. saga'[s] # saga[s] /\ saga'[s].pc = "ended"
  BY DEF Ends
<1>2. Next
  BY <1>1 DEF vars
<1>3. PICK t \in Sagas : Start(t) \/ SagaStep(t)
  BY <1>1, <1>2 DEF Next, ObjectStep
<1>4. t = s
  BY <1>1, <1>3, WorkflowFrame
<1>5. ReadRaises(s) \/ Reject(s) \/ Complete(s) \/ Unwound(s)
  BY <1>1, <1>3, <1>4, WorkflowKinds DEF Moving
<1>6. /\ ReadRaises(s) => saga'[s].verdict = "RAISED"
      /\ Reject(s) => saga'[s].verdict = "REJECTED"
      /\ Complete(s) => saga'[s].verdict = "COMPLETED"
      /\ Unwound(s) => saga'[s].verdict \in {"COMPENSATED", "COMPENSATION_INCOMPLETE"}
  BY EndFacts DEF ReadRaises, Reject, Complete, Unwound, Verdict
<1> QED  BY <1>5, <1>6

\* A COMPLETED move has taken its datatype from the source to the target and
\* changed nothing else of the two families.
THEOREM CompletedMovesAreWhole == IsolatedSpec => CompletedMoveIsWhole
<1>1. ASSUME Control, IsolatedInv, [Next]_vars, NEW s \in Sagas, Ends(s),
             saga'[s].verdict = "COMPLETED"
      PROVE  /\ request[s].datatype \in datatypes[request[s].target]
             /\ request[s].datatype \notin datatypes[request[s].source]
             /\ \A f \in FamiliesOf(request[s]) :
                 /\ state[f] = "RUNNING"
                 /\ datatypes[f] \ {request[s].datatype}
                      = saga[s].statuses[f].datatypes \ {request[s].datatype}
  <2>1. saga[s].pc = "forward" /\ saga[s].done = 6 /\ reply[s] = "none"
    BY <1>1, EndingStep DEF Complete, PlanLength
  <2>2. Effective(s) = 6
    BY <2>1 DEF Effective, Answered
  <2>3. \A f \in FamiliesOf(request[s]) :
          /\ datatypes[f] = NewConfig(request[s], saga[s].statuses, f)
          /\ state[f] = "RUNNING"
    BY <1>1, <2>1, <2>2 DEF IsolatedInv, ForwardProgress, Advanced, PatchPosition,
       ResumePosition
  <2>4. request[s].source # request[s].target
    BY <1>1, <2>1 DEF Control, SagaOK, Moving, Rejected
  <2> QED  BY <2>3, <2>4 DEF NewConfig, FamiliesOf
<1>2. Control /\ IsolatedInv /\ [Next]_vars =>
        [\A s \in Sagas : Ends(s) /\ saga'[s].verdict = "COMPLETED" =>
            /\ request[s].datatype \in datatypes[request[s].target]
            /\ request[s].datatype \notin datatypes[request[s].source]
            /\ \A f \in FamiliesOf(request[s]) :
                /\ state[f] = "RUNNING"
                /\ datatypes[f] \ {request[s].datatype}
                     = saga[s].statuses[f].datatypes \ {request[s].datatype}]_vars
  BY <1>1
<1> QED
  BY <1>2, ApartMovesKeepInvariant, IsolatedIsSpec, PTL DEF Spec, CompletedMoveIsWhole

\* A move that was rolled back names every difference to its snapshot that it
\* leaves behind; COMPENSATED is said only of a cluster that is as it was.
THEOREM RollbacksNameDeviations == IsolatedSpec => RollbackNamesDeviations
<1>1. ASSUME Control, IsolatedInv, [Next]_vars, NEW s \in Sagas, Ends(s),
             saga'[s].verdict \in {"COMPENSATED", "COMPENSATION_INCOMPLETE"},
             NEW f \in FamiliesOf(request[s])
      PROVE  /\ datatypes[f] # saga[s].statuses[f].datatypes =>
                    Intent("revert", f) \in saga[s].errors
             /\ state[f] # saga[s].statuses[f].state =>
                    Intent("resume", f) \in saga[s].errors
  <2>1. saga[s].pc = "unwinding" /\ reply[s] = "none" /\ Height(s) = 0
    BY <1>1, EndingStep DEF Unwound, Height
  <2>2. ~Pending(s, PatchPosition(s, f)) /\ ~Pending(s, PausePosition(s, f))
    BY <2>1 DEF Pending, Answered, PatchPosition, PausePosition
  <2> QED  BY <1>1, <2>1, <2>2 DEF IsolatedInv, DeviationsPending, DeviationOwned, Moving
<1>2. Control /\ IsolatedInv /\ [Next]_vars =>
        [\A s \in Sagas :
            Ends(s) /\ saga'[s].verdict \in {"COMPENSATED", "COMPENSATION_INCOMPLETE"} =>
                \A f \in FamiliesOf(request[s]) :
                    /\ datatypes[f] # saga[s].statuses[f].datatypes =>
                            Intent("revert", f) \in saga[s].errors
                    /\ state[f] # saga[s].statuses[f].state =>
                            Intent("resume", f) \in saga[s].errors]_vars
  BY <1>1
<1> QED
  BY <1>2, ApartMovesKeepInvariant, IsolatedIsSpec, PTL DEF Spec, RollbackNamesDeviations

-----------------------------------------------------------------------------
(* Moves made one after the other.                                         *)

\* All the moves that have been started are over, but the last one.
OneAtATime ==
    Started # {} => /\ Mover \in Started
                    /\ \A t \in Started \ {Mover} : saga[t].pc = "ended"

LEMMA StartedFinite == IsFiniteSet(Started) /\ Cardinality(Started) \in Nat
<1>1. IsFiniteSet(Sagas)
  <2>1. Order \in [1 .. Len(Order) -> Sagas] /\ Len(Order) \in Nat
    BY OrderAssumption
  <2>2. \A s \in Sagas : \E i \in 1 .. Len(Order) : Order[i] = s
    BY <2>1, OrderAssumption
  <2>3. ExistsSurjection(1 .. Len(Order), Sagas)
    BY <2>1, <2>2 DEF ExistsSurjection, Surjection
  <2> QED  BY <2>1, <2>3, FS_NatSurjection
<1>2. Started \in SUBSET Sagas
  BY DEF Started
<1>3. IsFiniteSet(Started)
  BY <1>1, <1>2, FS_Subset
<1> QED  BY <1>3, FS_CardinalityType

LEMMA MoverTyped == OneAtATime => Mover \in Sagas
<1>1. Started # {} /\ OneAtATime => Mover \in Sagas
  BY DEF OneAtATime, Started
<1>2. Order[1] \in Sagas
  <2>1. Len(Order) \in Nat /\ DOMAIN Order = 1 .. Len(Order)
        /\ \A i \in 1 .. Len(Order) : Order[i] \in Sagas
    BY OrderAssumption
  <2>2. PICK i \in DOMAIN Order : Order[i] \in Sagas
    BY OrderAssumption
  <2> QED  BY <2>1, <2>2
<1> QED  BY <1>1, <1>2 DEF Mover

LEMMA StepOfMover ==
    ASSUME Control, OneAtATime, NEW s \in Sagas, SagaStep(s)
    PROVE  s = Mover /\ Mover' = Mover /\ Started' = Started
<1>1. saga[s].pc \notin {"idle", "ended"} /\ saga'[s].pc # "idle"
  BY WorkflowKinds DEF Active, Moving, Start, SagaStep, ReadSource, ReadTarget, ReadRaises,
     Reject, Accept, CallStep, StepAnswered, StepFailed, Complete, CallRestore,
     RestoreAnswered, Unwound
<1>2. Started' = Started
  BY <1>1, WorkflowFrame DEF Started
<1> QED  BY <1>1, <1>2 DEF OneAtATime, Started, Mover

LEMMA StartOfNext ==
    ASSUME Control, OneAtATime, NEW s \in Sagas, StartInOrder(s)
    PROVE  /\ Started' = Started \union {s}
           /\ Mover' = s
           /\ Started = {} => Mover = s
<1>1. /\ s \notin Started /\ s = Order[Cardinality(Started) + 1] /\ Start(s)
  BY DEF StartInOrder
<1>2. saga'[s].pc = "read source" /\ \A t \in Sagas \ {s} : saga'[t] = saga[t]
  BY <1>1, GotoFacts DEF Start
<1>3. Started' = Started \union {s}
  BY <1>2 DEF Started
<1>4. Cardinality(Started') = Cardinality(Started) + 1
  BY <1>1, <1>3, StartedFinite, FS_AddElement
<1>5. Mover' = s
  BY <1>1, <1>3, <1>4 DEF Mover
<1>6. Started = {} => Mover = s
  BY <1>1, FS_EmptySet DEF Mover
<1> QED  BY <1>3, <1>5, <1>6

LEMMA OneAtATimeNext ==
    Control /\ OneAtATime /\ [SequentialNext]_vars => OneAtATime'
<1> SUFFICES ASSUME Control, OneAtATime, [SequentialNext]_vars PROVE OneAtATime'
  OBVIOUS
<1>1. CASE UNCHANGED vars \/ \E f \in Families : ObjectStep(f)
  <2>1. saga' = saga
    BY <1>1 DEF vars, ObjectStep
  <2> QED  BY <2>1 DEF OneAtATime, Started, Mover
<1>2. ASSUME NEW s \in Sagas, SagaStep(s) PROVE OneAtATime'
  <2>1. \A t \in Sagas \ {s} : saga'[t] = saga[t]
    BY <1>2, WorkflowFrame
  <2> QED  BY <1>2, <2>1, StepOfMover DEF OneAtATime, Started
<1>3. ASSUME NEW s \in Sagas, StartInOrder(s) PROVE OneAtATime'
  <2>1. \A t \in Sagas \ {s} : saga'[t] = saga[t]
    BY <1>3, WorkflowFrame DEF StartInOrder
  <2>2. \A t \in Started : saga[t].pc = "ended"
    BY <1>3 DEF StartInOrder
  <2> QED  BY <1>3, <2>1, <2>2, StartOfNext DEF OneAtATime, Started
<1> QED  BY <1>1, <1>2, <1>3 DEF SequentialNext

\* Who starts his moves one after the other keeps them apart.
LEMMA SequentialIsApart == Control /\ [SequentialNext]_vars => [Next /\ Isolated]_vars
<1> SUFFICES ASSUME Control, SequentialNext PROVE Next /\ Isolated
  OBVIOUS
<1>1. Next
  BY DEF SequentialNext, StartInOrder, Next
<1>2. ASSUME NEW s \in Sagas, saga[s].pc = "idle", saga'[s].pc # "idle"
      PROVE  \A t \in Sagas \ {s} : ~Active(t)
  <2>1. ~ \E f \in Families : ObjectStep(f)
    BY <1>2 DEF ObjectStep
  <2>2. ASSUME NEW t \in Sagas, SagaStep(t) PROVE FALSE
    <3>1. t = s
      BY <1>2, <2>2, WorkflowFrame
    <3> QED
      BY <1>2, <2>2, <3>1 DEF SagaStep, ReadSource, ReadTarget, ReadRaises, Reject, Accept,
         CallStep, StepAnswered, StepFailed, Complete, CallRestore, RestoreAnswered, Unwound
  <2>3. PICK t \in Sagas : StartInOrder(t)
    BY <2>1, <2>2 DEF SequentialNext
  <2> QED  BY <2>3 DEF StartInOrder, Started, Active
<1> QED  BY <1>1, <1>2 DEF Isolated

LEMMA SequentialIsSpec == SequentialSpec => IsolatedSpec /\ Spec
<1>1. [SequentialNext]_vars => [Next]_vars
  BY DEF SequentialNext, StartInOrder, Next
<1>2. SequentialSpec => Spec
  BY <1>1, PTL DEF SequentialSpec, Spec
<1> QED
  BY <1>2, SequentialIsApart, RestateKeepsControl, PTL DEF SequentialSpec, IsolatedSpec

LEMMA SequentialInvariant == SequentialSpec => [](Control /\ IsolatedInv /\ OneAtATime)
<1>1. Init => OneAtATime
  BY DEF Init, Fresh, OneAtATime, Started
<1>2. Control /\ OneAtATime /\ [SequentialNext]_vars => OneAtATime'
  BY OneAtATimeNext
<1>3. SequentialSpec => [](Control /\ IsolatedInv)
  BY SequentialIsSpec, ApartMovesKeepInvariant, PTL
<1> QED  BY <1>1, <1>2, <1>3, PTL DEF SequentialSpec

-----------------------------------------------------------------------------
(* Refinement.                                                             *)

\* The contract's vocabulary, reached through the instance, is the moves' own.
LEMMA SameVocabulary ==
    /\ Contract!FamilyState = FamilyState
    /\ Contract!MoveDatatypeRequest = MoveDatatypeRequest
    /\ Contract!IntentType = IntentType
    /\ \A label, f : Contract!Intent(label, f) = Intent(label, f)
    /\ \A r : Contract!FamiliesOf(r) = FamiliesOf(r)
    /\ \A r, snap : Contract!Rejected(r, snap) = Rejected(r, snap)
    /\ \A r, snap, f : Contract!NewConfig(r, snap, f) = NewConfig(r, snap, f)
  BY DEF Contract!FamilyState, FamilyState, Contract!MoveDatatypeRequest, MoveDatatypeRequest,
         Contract!IntentType, IntentType, Contract!Intent, Intent,
         Contract!FamiliesOf, FamiliesOf, Contract!Rejected, Rejected,
         Contract!NewConfig, NewConfig

\* What a mover shows of itself while it moves.
LEMMA MovingView ==
    ASSUME Control, NEW m \in Sagas, m = Mover, Moving(m)
    PROVE  /\ Phase = "moving" /\ Blame = {} /\ Snapshot = saga[m].statuses
           /\ saga[m].verdict = "none"
<1>1. DOMAIN saga[m].statuses = FamiliesOf(request[m]) /\ saga[m].verdict = "none"
  BY DEF Control, SagaOK, SnapshotTaken, Moving
<1> QED  BY <1>1 DEF Moving, Phase, Blame, Snapshot

\* A step of an object switches one job of the move, or rewrites its routing
\* to the old or the new one, or nothing an observer sees.
LEMMA ObjectIsMove ==
    ASSUME Control, OneAtATime, NEW g \in Families, ObjectStep(g)
    PROVE  Contract!Next \/ UNCHANGED Contract!cvars
<1>0. /\ UNCHANGED <<request, saga>>
      /\ Mover' = Mover /\ Phase' = Phase /\ Snapshot' = Snapshot /\ Blame' = Blame
  BY DEF ObjectStep, Mover, Started, Phase, Snapshot, Blame
<1>1. CASE UNCHANGED <<state, datatypes>>
  BY <1>0, <1>1 DEF Contract!cvars
<1>2. CASE ~UNCHANGED <<state, datatypes>>
  <2>1. PICK outcome : Attempt(g, outcome)
    BY <1>2 DEF ObjectStep, HandlerStep, Enter, StepReturns, StepRetried, StepFails,
       Crash, Reset, cluster
  <2>2. inbox[g] # <<>> /\ Busy(g) /\ Head(steps[g]) \in Operation
    BY <2>1, AttemptEffect, StepsLeft
  <2>3. PICK m \in Sagas : m = Serving(g).caller
    BY <2>2, BeingServed
  <2>4. /\ Moving(m) /\ g \in FamiliesOf(request[m])
        /\ Top(m).label \in {"resume", "revert", "pause"}
    BY <2>2, <2>3, CallPosition
  <2>5. m = Mover
    BY <2>4 DEF OneAtATime, Started, Moving
  <2>6. Phase = "moving" /\ Snapshot = saga[m].statuses
    BY <2>4, <2>5, MovingView
  <2>7. PICK config : /\ Head(steps[g]) = "patch_configmap" => config \in Serving(g).config
                      /\ Mutate(Head(steps[g]), g, config)
    BY <1>2, <2>1 DEF Attempt, cluster
  <2>8. CASE Head(steps[g]) = "patch_configmap"
    <3>1. config \in {saga[m].statuses[g].datatypes,
                      NewConfig(request[m], saga[m].statuses, g)}
      BY <2>2, <2>3, <2>4, <2>7, <2>8, HeadByLabel, ServedCommand
    <3>2. datatypes' = [datatypes EXCEPT ![g] = config] /\ UNCHANGED state
      BY <2>7, <2>8 DEF Mutate, PatchConfigmap
    <3>3. Contract!Reroute(g)
      BY <2>5, <2>6, <3>1, <3>2, SameVocabulary DEF Contract!Reroute
    <3> QED
      BY <1>0, <2>4, <2>5, <2>6, <3>3, SameVocabulary DEF Contract!Move, Contract!Next
  <2>9. CASE Head(steps[g]) # "patch_configmap"
    <3>1. (\E s \in FamilyState : state' = [state EXCEPT ![g] = s]) /\ UNCHANGED datatypes
      BY <1>2, <2>2, <2>7, <2>9 DEF Mutate, TriggerSavepoint, SuspendJob, ResumeJob,
         FamilyState, Operation
    <3>2. Contract!SwitchState(g)
      BY <3>1, SameVocabulary DEF Contract!SwitchState
    <3> QED
      BY <1>0, <2>4, <2>5, <2>6, <3>2, SameVocabulary DEF Contract!Move, Contract!Next
  <2> QED  BY <2>8, <2>9
<1> QED  BY <1>1, <1>2

LEMMA ReadIsLook ==
    ASSUME Control, SnapshotCurrent', NEW m \in Sagas, m = Mover, m = Mover', SagaStep(m),
           saga'[m].pc \in {"read target", "validating"}, Control'
    PROVE  Contract!Next \/ UNCHANGED Contract!cvars
<1> DEFINE seen == saga[m].statuses  now == saga'[m].statuses  r == request[m]
<1>1. /\ UNCHANGED <<state, datatypes, request>>
      /\ saga[m].pc \in {"read source", "read target"}
      /\ \E g \in Families \intersect FamiliesOf(r) : DOMAIN now = DOMAIN seen \union {g}
  BY WorkflowFrame, WorkflowKinds DEF cluster, Moving, Start
<1>2. /\ Phase = "open" /\ Phase' = "open" /\ Blame = {} /\ Blame' = {}
      /\ saga[m].verdict = "none" /\ saga'[m].verdict = "none"
  <2>1. Phase = "open" /\ Phase' = "open" /\ Blame = {} /\ Blame' = {}
    BY <1>1 DEF Phase, Blame
  <2>2. saga[m].verdict = "none"
    BY <1>1 DEF Control, SagaOK
  <2>3. saga'[m].verdict = "none"
    BY <1>1 DEF Control, SagaOK
  <2> QED  BY <2>1, <2>2, <2>3
<1>3. CASE DOMAIN now = FamiliesOf(r)
  <2>1. \A f \in FamiliesOf(r) : now[f] = Contract!Observe(f)
    BY <1>1, <1>3 DEF SnapshotCurrent, Read, Contract!Observe
  <2>2. now = [f \in FamiliesOf(r) |-> Contract!Observe(f)]
    <3>1. saga'[m] \in Progress
      BY DEF Control, TypeOK
    <3>2. now = [f \in FamiliesOf(r) |-> now[f]]
      <4>1. PICK S \in SUBSET Families : now \in [S -> FamilyStatus]
        BY <3>1 DEF Progress
      <4> QED  BY <1>3, <4>1
    <3> QED  BY <2>1, <3>2
  <2>3. FamiliesOf(r) \subseteq Families
    <3>1. saga'[m] \in Progress
      BY DEF Control, TypeOK
    <3> QED  BY <1>3, <3>1 DEF Progress
  <2>4. Snapshot' = now
    BY <1>1, <1>3 DEF Snapshot
  <2>5. Contract!Look
    BY <1>1, <1>2, <2>2, <2>3, <2>4, SameVocabulary DEF Contract!Look
  <2> QED  BY <2>5 DEF Contract!Next
<1>4. CASE DOMAIN now # FamiliesOf(r)
  <2>1. DOMAIN seen # FamiliesOf(r)
    BY <1>1, <1>4
  <2>2. Snapshot = <<>> /\ Snapshot' = <<>>
    BY <1>1, <1>4, <2>1 DEF Snapshot
  <2> QED  BY <1>1, <1>2, <2>2 DEF Contract!cvars
<1> QED  BY <1>3, <1>4

\* The steps of a workflow between its acceptance and its verdict show nothing;
\* every other one is a step of the contract, or shows nothing either.
LEMMA WorkflowIsMove ==
    ASSUME Control, Control', IsolatedInv, SnapshotCurrent', OneAtATime,
           NEW s \in Sagas, SagaStep(s)
    PROVE  Contract!Next \/ UNCHANGED Contract!cvars
<1>1. PICK m \in Sagas : m = s /\ m = Mover /\ m = Mover'
  BY StepOfMover
<1>2. /\ UNCHANGED <<state, datatypes, request>> /\ SagaStep(m)
      /\ \A t \in Sagas \ {m} : saga'[t] = saga[t]
  BY <1>1, WorkflowFrame DEF cluster
<1>3. CASE saga'[m].pc \in {"read target", "validating"}
  BY <1>1, <1>2, <1>3, ReadIsLook
<1>4. CASE Accept(m)
  <2>1. /\ saga[m].pc = "validating" /\ Moving(m)' /\ saga'[m].statuses = saga[m].statuses
        /\ ~Rejected(request[m], saga[m].statuses) /\ saga[m].verdict = "none"
        /\ DOMAIN saga[m].statuses = FamiliesOf(request[m])
    BY <1>4, GotoFacts DEF Accept, Moving, Control, SagaOK, SnapshotTaken
  <2>2. Phase = "open" /\ Blame = {} /\ Snapshot = saga[m].statuses
    BY <1>1, <2>1 DEF Phase, Blame, Snapshot
  <2>3. /\ Phase' = "moving" /\ Blame' = {} /\ Snapshot' = saga[m].statuses
        /\ saga'[m].verdict = "none"
    <3>1. saga'[m].verdict = "none"
      BY <2>1 DEF Control, SagaOK, Moving
    <3> QED  BY <1>1, <1>2, <2>1, <3>1 DEF Phase, Blame, Snapshot, Moving
  <2>4. Contract!Start
    BY <1>1, <1>2, <2>1, <2>2, <2>3, SameVocabulary DEF Contract!Start
  <2> QED  BY <2>4 DEF Contract!Next
<1>5. CASE CallStep(m) \/ StepAnswered(m) \/ StepFailed(m) \/ CallRestore(m) \/ RestoreAnswered(m)
  <2>1. Moving(m) /\ Moving(m)' /\ saga'[m].statuses = saga[m].statuses
    <3>1. Moving(m)
      BY <1>5 DEF CallStep, StepAnswered, StepFailed, CallRestore, RestoreAnswered, Moving
    <3> QED
      BY <1>2, <3>1, <1>5, CallStepFacts, StepAnsweredFacts, CallRestoreFacts,
         RestoreAnsweredFacts DEF Moving
  <2>2. /\ Phase = "moving" /\ Blame = {} /\ Snapshot = saga[m].statuses
        /\ saga[m].verdict = "none"
    BY <1>1, <2>1, MovingView
  <2>3. /\ Phase' = "moving" /\ Blame' = {} /\ Snapshot' = saga'[m].statuses
        /\ saga'[m].verdict = "none"
    <3>1. DOMAIN saga'[m].statuses = FamiliesOf(request'[m]) /\ saga'[m].verdict = "none"
      BY <2>1 DEF Control, SagaOK, SnapshotTaken, Moving
    <3> QED  BY <1>1, <2>1, <3>1 DEF Moving, Phase, Blame, Snapshot
  <2> QED  BY <1>1, <1>2, <2>1, <2>2, <2>3 DEF Contract!cvars
<1>6. ASSUME saga[m].pc # "ended", saga'[m].pc = "ended",
             saga'[m].statuses = saga[m].statuses
      PROVE  Phase' = "ended" /\ Blame' = saga'[m].errors /\ Snapshot' = Snapshot
  BY <1>1, <1>2, <1>6 DEF Phase, Blame, Snapshot
<1>7. CASE ReadRaises(m) \/ Reject(m)
  <2>1. /\ saga[m].pc \in {"read source", "read target", "validating"}
        /\ saga'[m].pc = "ended" /\ saga'[m].statuses = saga[m].statuses
        /\ saga'[m].errors = saga[m].errors
        /\ saga'[m].verdict \in {"RAISED", "REJECTED"}
    BY <1>7, EndFacts DEF ReadRaises, Reject, Verdict
  <2>2. saga[m].errors = {}
    BY <2>1 DEF Control, SagaOK
  <2>3. Phase = "open" /\ Blame = {}
    BY <1>1, <2>1 DEF Phase, Blame
  <2>4. Contract!Refuse
    BY <1>1, <1>2, <1>6, <2>1, <2>2, <2>3 DEF Contract!Refuse, Contract!Settle
  <2> QED  BY <2>4 DEF Contract!Next
<1>8. CASE Complete(m)
  <2>1. /\ saga[m].pc = "forward" /\ reply[m] = "none" /\ saga[m].done = 6
        /\ saga'[m].pc = "ended" /\ saga'[m].statuses = saga[m].statuses
        /\ saga'[m].errors = saga[m].errors /\ saga'[m].verdict = "COMPLETED"
    BY <1>8, EndFacts DEF Complete, Verdict, PlanLength
  <2>2. saga[m].errors = {} /\ Moving(m)
    BY <2>1 DEF Control, SagaOK, Moving
  <2>3. Phase = "moving" /\ Blame = {} /\ Snapshot = saga[m].statuses
    BY <1>1, <2>2, MovingView
  <2>4. Effective(m) = 6
    BY <2>1 DEF Effective, Answered
  <2>5. \A f \in FamiliesOf(request[m]) :
          Contract!Observe(f) =
            [state |-> "RUNNING", datatypes |-> NewConfig(request[m], saga[m].statuses, f)]
    BY <2>1, <2>4 DEF IsolatedInv, ForwardProgress, Advanced, PatchPosition,
       ResumePosition, Contract!Observe
  <2>6. Contract!Complete
    BY <1>1, <1>2, <1>6, <2>1, <2>2, <2>3, <2>5, SameVocabulary
       DEF Contract!Complete, Contract!Settle
  <2> QED  BY <2>6 DEF Contract!Next
<1>9. CASE Unwound(m)
  <2>1. /\ saga[m].pc = "unwinding" /\ reply[m] = "none" /\ Height(m) = 0
        /\ Moving(m) /\ saga[m].statuses \in [FamiliesOf(request[m]) -> FamilyStatus]
        /\ saga[m].errors \in SUBSET IntentType
    BY <1>9 DEF Unwound, Height, Moving, Control, SagaOK, SnapshotTaken, TypeOK, Progress
  <2>2. /\ saga'[m].pc = "ended" /\ saga'[m].statuses = saga[m].statuses
        /\ saga'[m].errors = saga[m].errors
        /\ saga[m].errors = {} => saga'[m].verdict = "COMPENSATED"
        /\ saga[m].errors # {} => saga'[m].verdict = "COMPENSATION_INCOMPLETE"
    BY <1>9, EndFacts DEF Unwound, Verdict
  <2>3. Phase = "moving" /\ Blame = {} /\ Snapshot = saga[m].statuses
    BY <1>1, <2>1, MovingView
  <2>4. \A f \in FamiliesOf(request[m]) :
          /\ datatypes[f] # saga[m].statuses[f].datatypes =>
                Intent("revert", f) \in saga[m].errors
          /\ state[f] # saga[m].statuses[f].state => Intent("resume", f) \in saga[m].errors
    <3> SUFFICES ASSUME NEW f \in FamiliesOf(request[m])
                 PROVE  /\ datatypes[f] # saga[m].statuses[f].datatypes =>
                              Intent("revert", f) \in saga[m].errors
                        /\ state[f] # saga[m].statuses[f].state =>
                              Intent("resume", f) \in saga[m].errors
      OBVIOUS
    <3>1. ~Pending(m, PatchPosition(m, f)) /\ ~Pending(m, PausePosition(m, f))
      BY <2>1 DEF Pending, Answered, PatchPosition, PausePosition
    <3> QED  BY <2>1, <3>1 DEF IsolatedInv, DeviationsPending, DeviationOwned
  <2>5. CASE saga[m].errors = {}
    <3>1. \A f \in FamiliesOf(request[m]) : Contract!Observe(f) = saga[m].statuses[f]
      BY <2>1, <2>4, <2>5 DEF Contract!Observe, FamilyStatus
    <3>2. Contract!Compensated
      BY <1>1, <1>2, <1>6, <2>1, <2>2, <2>3, <2>5, <3>1, SameVocabulary
         DEF Contract!Compensated, Contract!Settle
    <3> QED  BY <3>2 DEF Contract!Next
  <2>6. CASE saga[m].errors # {}
    <3>1. Contract!Incomplete
      BY <1>1, <1>2, <1>6, <2>1, <2>2, <2>3, <2>4, <2>6, SameVocabulary
         DEF Contract!Incomplete, Contract!Settle
    <3> QED  BY <3>1 DEF Contract!Next
  <2> QED  BY <2>5, <2>6
<1>10. saga'[m].pc # "read source"
  BY <1>2, WorkflowKinds DEF Moving, Start, SagaStep, ReadSource, ReadTarget, ReadRaises,
     Reject, Accept, CallStep, StepAnswered, StepFailed, Complete, CallRestore,
     RestoreAnswered, Unwound
<1> QED
  BY <1>2, <1>3, <1>4, <1>5, <1>7, <1>8, <1>9, <1>10, WorkflowKinds

\* A start is the next move, or shows nothing where it is the first one.
LEMMA StartIsAnother ==
    ASSUME Control, Control', OneAtATime, NEW s \in Sagas, StartInOrder(s)
    PROVE  Contract!Next \/ UNCHANGED Contract!cvars
<1>1. PICK last \in Sagas : last = Mover
  BY MoverTyped
<1>2. /\ saga[s].pc = "idle" /\ s = Mover' /\ (Started = {} => last = s)
      /\ UNCHANGED <<state, datatypes, request>> /\ Start(s)
      /\ saga'[s].pc = "read source" /\ saga'[s].statuses = <<>>
  <2>1. Start(s) /\ s \notin Started
    BY DEF StartInOrder
  <2>2. saga[s].pc = "idle" /\ Goto(s, "read source")
    BY <2>1 DEF Start
  <2>3. saga[s].statuses = <<>>
    BY <2>2 DEF Control, SagaOK
  <2>4. saga'[s].pc = "read source" /\ saga'[s].statuses = <<>>
    BY <2>2, <2>3, GotoFacts
  <2>5. UNCHANGED <<cluster, request>>
    BY <2>1, WorkflowFrame
  <2>6. UNCHANGED <<state, datatypes, request>>
    BY <2>5 DEF cluster
  <2>7. Mover' = s
    BY StartOfNext
  <2>8. Started = {} => Mover = s
    BY StartOfNext
  <2> QED  BY <1>1, <2>1, <2>2, <2>4, <2>6, <2>7, <2>8
<1>3. /\ Phase' = "open" /\ Blame' = {} /\ Snapshot' = <<>>
  BY <1>2 DEF Phase, Blame, Snapshot, FamiliesOf
<1>4. saga'[s].verdict = "none" /\ request[s] \in MoveDatatypeRequest
  BY <1>2, MoverFacts DEF Control, SagaOK
<1>5. CASE Started = {}
  <2>1. saga[s].statuses = <<>> /\ saga[s].verdict = "none"
    BY <1>2 DEF Control, SagaOK
  <2>2. Phase = "open" /\ Blame = {} /\ Snapshot = <<>>
    BY <1>1, <1>2, <1>5, <2>1 DEF Phase, Blame, Snapshot, FamiliesOf
  <2> QED  BY <1>1, <1>2, <1>3, <1>4, <1>5, <2>1, <2>2 DEF Contract!cvars
<1>6. CASE Started # {}
  <2>1. saga[last].pc = "ended"
    BY <1>1, <1>6 DEF OneAtATime, StartInOrder
  <2>2. Phase = "ended"
    BY <1>1, <2>1 DEF Phase
  <2>3. Contract!Another
    BY <1>2, <1>3, <1>4, <2>2, SameVocabulary DEF Contract!Another
  <2> QED  BY <2>3 DEF Contract!Next
<1> QED  BY <1>5, <1>6

LEMMA StepImplementsContract ==
    ASSUME Control, Control', IsolatedInv, IsolatedInv', OneAtATime, [SequentialNext]_vars
    PROVE  Contract!Next \/ UNCHANGED Contract!cvars
<1>1. CASE UNCHANGED vars
  BY <1>1 DEF vars, cluster, Contract!cvars, Phase, Snapshot, Blame, Mover, Started
<1>2. SnapshotCurrent'
  BY DEF IsolatedInv
<1> QED
  BY <1>1, <1>2, ObjectIsMove, WorkflowIsMove, StartIsAnother DEF SequentialNext

LEMMA ContractInit == Init => Contract!Init
<1> SUFFICES ASSUME Init PROVE Contract!Init
  OBVIOUS
<1>1. PICK m \in Sagas : m = Mover
  BY MoverTyped DEF Init, Fresh, OneAtATime, Started
<1>2. saga[m] = Fresh /\ request[m] \in MoveDatatypeRequest
  BY DEF Init
<1>3. Phase = "open" /\ Blame = {} /\ Snapshot = <<>>
  BY <1>1, <1>2 DEF Phase, Blame, Snapshot, Fresh, FamiliesOf
<1> QED  BY <1>1, <1>2, <1>3, SameVocabulary DEF Init, Seed, Contract!Init, Fresh

\* To an observer of families and verdicts, moves made one after the other on
\* Restate are the contract: for any number of moves, any families, datatypes
\* and names, and any retries, crashes and cleared caches.
THEOREM MovesImplementContract == SequentialSpec => ImplementsContract
<1>1. Init => Contract!Init
  BY ContractInit
<1>2. Control /\ Control' /\ IsolatedInv /\ IsolatedInv' /\ OneAtATime
        /\ [SequentialNext]_vars => [Contract!Next]_(Contract!cvars)
  BY StepImplementsContract
<1> QED
  BY <1>1, <1>2, SequentialInvariant, PTL DEF SequentialSpec, ImplementsContract, Contract!Spec
=============================================================================
