--------------------------- MODULE TemporalProofs ---------------------------
(***************************************************************************)
(* Moves on Temporal, however they overlap, whatever is retried, aborted   *)
(* or delivered late.  Every reachable state is well typed, every workflow *)
(* knows where it is in its plan, and every update a proxy, the network or *)
(* an actor holds is the one its number stands for.  From that: a running  *)
(* job is suspended only right after a savepoint, and while no run of an   *)
(* actor has ended no update is carried out twice.                         *)
(***************************************************************************)
EXTENDS TemporalInvariants, PlanProofs

Reply == {"none", "waiting", "aborted"} \union Answers

LEMMA StepsAsSequences ==
    /\ <<>> \in Seq(Operation)
    /\ PauseSteps \in Seq(Operation) /\ PauseSteps # <<>> /\ Len(PauseSteps) = 2
    /\ Head(PauseSteps) = "trigger_savepoint" /\ Tail(PauseSteps) = <<"suspend_job">>
    /\ \A op \in Operation :
        /\ <<op>> \in Seq(Operation) /\ <<op>> # <<>> /\ Len(<<op>>) = 1
        /\ Head(<<op>>) = op /\ Tail(<<op>>) = <<>>
        /\ <<op>> # PauseSteps
    /\ "trigger_savepoint" \in Operation /\ "suspend_job" \in Operation
    /\ "resume_job" \in Operation /\ "patch_configmap" \in Operation
  BY DEF PauseSteps, Operation

-----------------------------------------------------------------------------
(* What Control says of a workflow.                                        *)

LEMMA Typed ==
    ASSUME Control
    PROVE  /\ ClusterTypeOK
           /\ actor \in [Families -> {"absent", "starting", "ready"}]
           /\ cache \in [Families -> FamilyState \union {"unset"}]
           /\ queue \in [Families -> Seq(Update)]
           /\ steps \in [Families -> Seq(Operation)]
           /\ attempt \in [Families -> 1..MaxAttempts]
           /\ finished \in [Families -> SUBSET [id : UpdateKey, answer : Answers]]
           /\ wire \subseteq Update
           /\ call \in [Sagas -> SUBSET Update]
           /\ reply \in [Sagas -> Reply]
           /\ ran \subseteq UpdateKey /\ twice \subseteq ran
           /\ mishaps \in 0..MaxMishaps /\ endedRuns \in 0..MaxEndedRuns
           /\ tries \in [Sagas -> 1..MaxTries] /\ timeouts \in 0..MaxTimeouts
           /\ request \in [Sagas -> MoveDatatypeRequest]
           /\ saga \in [Sagas -> Progress]
  BY DEF Control, TypeOK, ProxyTypeOK, ActorTypeOK, Reply

LEMMA WorkflowFacts ==
    ASSUME Control, NEW s \in Sagas
    PROVE  /\ request[s] \in MoveDatatypeRequest
           /\ saga[s] \in Progress
           /\ saga[s].verdict \in Verdict
           /\ saga[s].stack \in Seq(IntentType)
           /\ Height(s) \in 0 .. 6
           /\ saga[s].done \in 0 .. 6
           /\ reply[s] \in Reply
           /\ call[s] \subseteq Update
           /\ Moving(s) \/ (reply[s] = "none" /\ call[s] = {})
           /\ reply[s] = "none" <=> call[s] = {}
           /\ SagaOK(s) /\ StackOK(s) /\ CallOK(s)
           /\ DOMAIN saga[s].statuses \subseteq FamiliesOf(request[s])
<1>1. /\ saga[s] \in Progress /\ request[s] \in MoveDatatypeRequest /\ reply[s] \in Reply
      /\ call[s] \subseteq Update
  BY Typed
<1>2. /\ saga[s].stack \in Seq(IntentType) /\ saga[s].done \in 0 .. 6
      /\ saga[s].verdict \in Verdict
  BY <1>1 DEF Progress, PlanLength
<1>3. Len(saga[s].stack) \in Nat
  BY <1>2
<1>4. /\ SagaOK(s) /\ StackOK(s) /\ CallOK(s)
      /\ DOMAIN saga[s].statuses \subseteq FamiliesOf(request[s])
  BY DEF Control, TypeOK
<1>5. Height(s) \in 0 .. 6
  <2>1. Height(s) <= 6
    BY <1>4 DEF StackOK, PlanLength
  <2>2. Height(s) \in Nat
    BY <1>3 DEF Height
  <2> QED  BY <2>1, <2>2
<1>6. (Moving(s) \/ reply[s] = "none") /\ (reply[s] = "none" <=> call[s] = {})
  BY <1>4 DEF SagaOK
<1> QED  BY <1>1, <1>2, <1>4, <1>5, <1>6

\* How many updates of either kind a workflow has numbered, by where it is.
LEMMA Counts ==
    ASSUME Control, NEW s \in Sagas
    PROVE  /\ Forwards(s) \in 0 .. 6
           /\ Restores(s) \in 0 .. 6
           /\ saga[s].pc = "forward" => Forwards(s) = Height(s) /\ ~Unwinds(s)
           /\ Unwinds(s) => /\ Forwards(s) = saga[s].done + 1
                            /\ saga[s].done \in 0 .. 5
                            /\ Height(s) \in 0 .. saga[s].done + 1
                            /\ saga[s].pc \in {"unwinding", "ended"}
           /\ ~Unwinds(s) => Restores(s) = 0
           /\ saga[s].pc \notin {"forward", "unwinding", "ended"} =>
                Forwards(s) = 0 /\ ~Unwinds(s)
<1>1. /\ Height(s) \in 0 .. 6 /\ saga[s].done \in 0 .. 6 /\ SagaOK(s) /\ StackOK(s)
      /\ saga[s].verdict \in Verdict
  BY WorkflowFacts
<1>2. /\ saga[s].pc = "ended" <=> saga[s].verdict # "none"
      /\ Unwinds(s) => saga[s].done < 6 /\ Height(s) <= saga[s].done + 1
      /\ saga[s].pc = "unwinding" /\ call[s] # {} => saga[s].stack # <<>>
      /\ RolledBack(s) => saga[s].stack = <<>>
      /\ Moving(s) \/ call[s] = {}
  BY <1>1, WorkflowFacts DEF SagaOK, StackOK, PlanLength
<1>3. saga[s].stack # <<>> => Height(s) # 0
  BY WorkflowFacts, EmptySeq DEF Height
<1>4. Unwinds(s) => saga[s].pc \in {"unwinding", "ended"}
  BY <1>2 DEF Unwinds, RolledBack
<1>5. saga[s].pc \notin {"forward", "unwinding", "ended"} =>
            saga[s].verdict = "none" /\ ~Unwinds(s)
  BY <1>2 DEF Unwinds, RolledBack
<1>6. CASE Unwinds(s)
  <2>1. call[s] # {} => Height(s) # 0
    BY <1>2, <1>3, <1>4, <1>6 DEF Moving
  <2>2. saga[s].done \in 0 .. 5 /\ Height(s) \in 0 .. saga[s].done + 1
    BY <1>1, <1>2, <1>6
  <2>3. Restores(s) = saga[s].done + 1 - Height(s) + IF call[s] = {} THEN 0 ELSE 1
    BY <1>6 DEF Restores
  <2>4. Restores(s) \in 0 .. 6
    BY <2>1, <2>2, <2>3
  <2> QED  BY <1>4, <1>6, <2>2, <2>4 DEF Forwards
<1>7. CASE ~Unwinds(s)
  <2>1. saga[s].pc \notin {"forward", "unwinding", "ended"} => Height(s) = 0
    BY <1>1 DEF SagaOK, Height
  <2> QED  BY <1>1, <1>5, <1>7, <2>1 DEF Forwards, Restores
<1>8. saga[s].pc = "forward" => ~Unwinds(s)
  BY <1>4
<1> QED  BY <1>6, <1>7, <1>8

LEMMA NumberedId ==
    ASSUME NEW s, NEW k
    PROVE  Numbered(s, k).id = <<s, k>>
  BY DEF Numbered, ForwardUpdate, RestoreUpdate

\* A call is genuine, and the last its workflow has numbered.
LEMMA CallIsGenuine ==
    ASSUME Control, NEW s \in Sagas, NEW update \in call[s]
    PROVE  /\ update = Numbered(s, PresentStep(s))
           /\ update.id = <<s, PresentStep(s)>>
           /\ Genuine(update)
           /\ PresentStep(s) \in 1 .. 12
           /\ saga[s].stack # <<>>
           /\ Moving(s)
<1>1. update = Numbered(s, PresentStep(s)) /\ Moving(s) /\ call[s] # {}
  BY WorkflowFacts DEF CallOK
<1>2. update.id = <<s, PresentStep(s)>>
  BY <1>1, NumberedId
<1>3. Sent(s, PresentStep(s)) /\ PresentStep(s) \in 1 .. 12 /\ saga[s].stack # <<>>
  <2>1. /\ Height(s) \in 0 .. 6 /\ saga[s].done \in 0 .. 6 /\ StackOK(s)
        /\ saga[s].stack \in Seq(IntentType)
    BY WorkflowFacts
  <2>2. saga[s].stack = <<>> => Height(s) = 0
    BY DEF Height
  <2>3. CASE saga[s].pc = "forward"
    <3>1. Height(s) = saga[s].done + 1 /\ PresentStep(s) = saga[s].done + 1
      BY <1>1, <2>1, <2>3 DEF StackOK, PresentStep
    <3>2. Forwards(s) = Height(s)
      BY <2>3, Counts
    <3> QED  BY <2>1, <2>2, <3>1, <3>2 DEF Sent, PlanLength
  <2>4. CASE saga[s].pc = "unwinding"
    <3>1. /\ Unwinds(s) /\ saga[s].stack # <<>>
          /\ PresentStep(s) = 6 + saga[s].done + 2 - Height(s)
      BY <1>1, <2>1, <2>4 DEF StackOK, PresentStep, RestoreStep, Unwinds, PlanLength, Height
    <3>2. Restores(s) = saga[s].done + 1 - Height(s) + 1
      BY <1>1, <3>1 DEF Restores
    <3>3. Height(s) # 0
      BY <2>1, <3>1, EmptySeq DEF Height
    <3>4. saga[s].done \in 0 .. 5 /\ Height(s) \in 1 .. saga[s].done + 1
      BY <3>1, <3>3, Counts
    <3>5. PresentStep(s) \in 7 .. 12 /\ PresentStep(s) = 6 + Restores(s)
      <4>1. PICK d \in 0 .. 5, h \in 1 .. 6 : d = saga[s].done /\ h = Height(s) /\ h <= d + 1
        BY <3>4
      <4>2. PresentStep(s) = 6 + d + 2 - h /\ Restores(s) = d + 1 - h + 1
        BY <3>1, <3>2, <4>1
      <4>3. 6 + d + 2 - h \in 7 .. 12 /\ 6 + d + 2 - h = 6 + (d + 1 - h + 1)
        BY <4>1
      <4> QED  BY <4>2, <4>3
    <3>6. Restores(s) \in Nat
      BY Counts
    <3> DEFINE k == PresentStep(s)
    <3>7. k \in 7 .. 6 + Restores(s)
      BY <3>5, <3>6
    <3> HIDE DEF k
    <3>8. Sent(s, k)
      BY <3>7 DEF Sent, PlanLength
    <3>9. Sent(s, PresentStep(s))
      BY <3>8 DEF k
    <3> QED  BY <3>1, <3>5, <3>9
  <2> QED  BY <1>1, <2>3, <2>4 DEF Moving
<1>4. Genuine(update)
  BY <1>1, <1>2, <1>3 DEF Genuine
<1> QED  BY <1>1, <1>2, <1>3, <1>4

-----------------------------------------------------------------------------
(* What a step leaves alone keeps its part of Control.                     *)

\* A number that has been given out stays given out, and means the same.
SentKept ==
    \A t \in Sagas, k \in 1 .. 12 :
        Sent(t, k) => Sent(t, k)' /\ Numbered(t, k)' = Numbered(t, k)

LEMMA GenuineKept ==
    ASSUME SentKept, NEW update \in Update, Genuine(update)
    PROVE  Genuine(update)'
<1>1. update.id[1] \in Sagas /\ update.id[2] \in 1 .. 12
  BY DEF Update, UpdateKey, PlanLength
<1> QED  BY <1>1 DEF Genuine, SentKept

LEMMA NumbersKept ==
    ASSUME Control, NEW t \in Sagas, request' = request,
           saga'[t].done = saga[t].done \/ ~Unwinds(t),
           \/ saga'[t].statuses = saga[t].statuses
           \/ saga[t].pc \notin {"forward", "unwinding", "ended"},
           Forwards(t)' \in Int, Forwards(t) <= Forwards(t)',
           Restores(t)' \in Int, Restores(t) <= Restores(t)'
    PROVE  \A k \in 1 .. 12 : Sent(t, k) => Sent(t, k)' /\ Numbered(t, k)' = Numbered(t, k)
<1> SUFFICES ASSUME NEW k \in 1 .. 12, Sent(t, k)
             PROVE  Sent(t, k)' /\ Numbered(t, k)' = Numbered(t, k)
  OBVIOUS
<1>1. Forwards(t) \in 0 .. 6 /\ Restores(t) \in 0 .. 6
  BY Counts
<1>2. CASE k <= 6
  <2>1. k <= Forwards(t)
    BY <1>1, <1>2 DEF Sent, PlanLength
  <2>2. Sent(t, k)'
    BY <1>1, <1>2, <2>1 DEF Sent, PlanLength
  <2>3. saga'[t].statuses = saga[t].statuses
    BY <1>1, <2>1, Counts
  <2>4. ForwardUpdate(t, k)' = ForwardUpdate(t, k)
    BY <2>3 DEF ForwardUpdate
  <2> QED  BY <1>2, <2>2, <2>4 DEF Numbered, PlanLength
<1>3. CASE k > 6
  <2>1. k \in 7 .. 6 + Restores(t)
    BY <1>1, <1>3 DEF Sent, PlanLength
  <2>2. k \in 7 .. 6 + Restores(t)'
    BY <1>1, <2>1
  <2>3. Sent(t, k)'
    BY <2>2 DEF Sent, PlanLength
  <2>4. Unwinds(t)
    BY <1>1, <2>1, Counts
  <2>5. saga'[t].done = saga[t].done /\ saga'[t].statuses = saga[t].statuses
    BY <2>4, Counts
  <2>6. RestoreUpdate(t, k)' = RestoreUpdate(t, k)
    BY <2>5 DEF RestoreUpdate, Place
  <2> QED  BY <1>3, <2>3, <2>6 DEF Numbered, PlanLength
<1> QED  BY <1>2, <1>3

LEMMA OthersNumbersKept ==
    ASSUME Control, NEW t \in Sagas, request' = request, saga'[t] = saga[t],
           call'[t] = {} <=> call[t] = {}
    PROVE  \A k \in 1 .. 12 : Sent(t, k) => Sent(t, k)' /\ Numbered(t, k)' = Numbered(t, k)
<1>1. Forwards(t)' = Forwards(t) /\ Restores(t)' = Restores(t)
  BY DEF Forwards, Restores, Unwinds, RolledBack, Height
<1>2. Forwards(t) \in 0 .. 6 /\ Restores(t) \in 0 .. 6
  BY Counts
<1> QED  BY <1>1, <1>2, NumbersKept

LEMMA WorkflowKept ==
    ASSUME Control, NEW t \in Sagas, saga'[t] = saga[t], request' = request,
           call'[t] = call[t], (reply'[t] = "none") <=> (reply[t] = "none")
    PROVE  SagaOK(t)' /\ StackOK(t)' /\ CallOK(t)'
<1>0. SagaOK(t) /\ StackOK(t) /\ CallOK(t)
  BY DEF Control
<1>1. SagaOK(t)'
  BY <1>0 DEF SagaOK, Moving, SnapshotTaken
<1>2. StackOK(t)'
  BY <1>0 DEF StackOK, Height, Unwinds, RolledBack
<1>3. CallOK(t)'
  <2>1. PICK n : n = PresentStep(t)
    OBVIOUS
  <2>2. PresentStep(t)' = n
    BY <2>1 DEF PresentStep, RestoreStep
  <2>3. ForwardUpdate(t, n)' = ForwardUpdate(t, n) /\ RestoreUpdate(t, n)' = RestoreUpdate(t, n)
    BY DEF ForwardUpdate, RestoreUpdate, Place
  <2>4. Numbered(t, n)' = Numbered(t, n)
    BY <2>3 DEF Numbered
  <2>5. Numbered(t, PresentStep(t))' = Numbered(t, n)'
    BY <2>2
  <2>6. call[t] # {} => call[t] = {Numbered(t, n)}
    BY <1>0, <2>1 DEF CallOK
  <2> QED  BY <2>4, <2>5, <2>6 DEF CallOK
<1> QED  BY <1>1, <1>2, <1>3

\* The update at a place of a line is typed and belongs there.
LEMMA QueuedUpdate ==
    ASSUME Control, NEW f \in Families, NEW k \in DOMAIN queue[f]
    PROVE  /\ queue[f][k] \in Update
           /\ queue[f][k].id \in UpdateKey
           /\ Genuine(queue[f][k])
           /\ queue[f][k].family = f
<1>1. queue[f] \in Seq(Update)
  BY Typed
<1>2. queue[f][k] \in Update
  BY <1>1, QueueDomain
<1>3. Genuine(queue[f][k]) /\ queue[f][k].family = f
  BY DEF Control, QueueOK
<1> QED  BY <1>2, <1>3 DEF Update

LEMMA BeingServed ==
    ASSUME Control, NEW f \in Families, queue[f] # <<>>
    PROVE  /\ 1 \in DOMAIN queue[f]
           /\ Serving(f) = queue[f][1]
           /\ Serving(f) \in Update
           /\ Serving(f).id \in UpdateKey
           /\ Genuine(Serving(f))
           /\ Serving(f).family = f
<1>1. queue[f] \in Seq(Update)
  BY Typed
<1>2. 1 \in DOMAIN queue[f] /\ Serving(f) = queue[f][1]
  BY <1>1, Dequeue DEF Serving
<1> QED  BY <1>2, QueuedUpdate

\* What an actor remembers stays true of the numbers.
LEMMA MemoryKept ==
    ASSUME Control, SentKept, NEW f \in Families, NEW done \in finished[f]
    PROVE  Sent(done.id[1], done.id[2])' /\ (Numbered(done.id[1], done.id[2]).family)' = f
<1>1. done.id \in UpdateKey
  BY Typed
<1>2. done.id[1] \in Sagas /\ done.id[2] \in 1 .. 12
  BY <1>1 DEF UpdateKey, PlanLength
<1>3. Sent(done.id[1], done.id[2]) /\ Numbered(done.id[1], done.id[2]).family = f
  BY DEF Control, QueueOK
<1> DEFINE s == done.id[1]  k == done.id[2]
<1>4. s \in Sagas /\ k \in 1 .. 12 /\ Sent(s, k) /\ Numbered(s, k).family = f
  BY <1>2, <1>3
<1> HIDE DEF s, k
<1>5. Sent(s, k)' /\ Numbered(s, k)' = Numbered(s, k)
  BY <1>4 DEF SentKept
<1>6. Sent(s, k)' /\ Numbered(s, k)'.family = f
  BY <1>4, <1>5
<1> QED  BY <1>6 DEF s, k

LEMMA QueueKept ==
    ASSUME Control, SentKept, NEW f \in Families,
           queue'[f] = queue[f], finished'[f] = finished[f]
    PROVE  QueueOK(f)'
<1>1. ASSUME NEW k \in DOMAIN queue[f] PROVE (Genuine(queue[f][k]) /\ queue[f][k].family = f)'
  <2>1. PICK update \in Update : update = queue[f][k] /\ Genuine(update) /\ update.family = f
    BY <1>1, QueuedUpdate
  <2>2. Genuine(update)'
    BY <2>1, GenuineKept
  <2>3. queue'[f][k] = update
    BY <2>1
  <2> QED  BY <2>1, <2>2, <2>3
<1>2. \A k \in DOMAIN queue'[f] : (Genuine(queue[f][k]) /\ queue[f][k].family = f)'
  BY <1>1
<1>3. \A j, k \in DOMAIN queue'[f] : queue'[f][j].id = queue'[f][k].id => j = k
  BY DEF Control, QueueOK
<1>4. \A done \in finished'[f] : ~InLine(f, done.id)'
  BY DEF Control, QueueOK, InLine
<1>5. \A done \in finished'[f] :
        Sent(done.id[1], done.id[2])' /\ (Numbered(done.id[1], done.id[2]).family)' = f
  BY MemoryKept
<1> QED  BY <1>2, <1>3, <1>4, <1>5 DEF QueueOK

LEMMA HandlerKept ==
    ASSUME Control, NEW f \in Families, steps'[f] = steps[f],
           actor[f] = "ready" => actor'[f] = "ready",
           queue[f] # <<>> => queue'[f] # <<>> /\ Head(queue'[f]) = Head(queue[f])
    PROVE  HandlerOK(f)'
  BY DEF Control, HandlerOK, Busy, Serving, PauseLeft

\* A step of a workflow or of its proxy.
LEMMA OwnStep ==
    ASSUME Control, NEW s \in Sagas,
           UNCHANGED <<cluster, entity, bounds, request>>,
           reply' \in [Sagas -> Reply], call' \in [Sagas -> SUBSET Update],
           saga' \in [Sagas -> Progress], wire' \subseteq Update,
           tries' \in [Sagas -> 1..MaxTries], timeouts' \in 0..MaxTimeouts,
           DOMAIN saga'[s].statuses \subseteq FamiliesOf(request[s]),
           \A t \in Sagas \ {s} :
                reply'[t] = reply[t] /\ call'[t] = call[t] /\ saga'[t] = saga[t],
           SagaOK(s)', StackOK(s)', CallOK(s)',
           saga'[s].done = saga[s].done \/ ~Unwinds(s),
           \/ saga'[s].statuses = saga[s].statuses
           \/ saga[s].pc \notin {"forward", "unwinding", "ended"},
           Forwards(s)' \in Int, Forwards(s) <= Forwards(s)',
           Restores(s)' \in Int, Restores(s) <= Restores(s)',
           \A update \in Update : update \in wire' => update \in wire \/ Genuine(update)'
    PROVE  Control' /\ SentKept
<1>0. UNCHANGED <<actor, cache, queue, steps, attempt, finished, ran, twice, mishaps, endedRuns>>
  BY DEF entity, bounds
<1>1. SentKept
  <2>1. ASSUME NEW t \in Sagas, t # s
        PROVE  \A k \in 1 .. 12 : Sent(t, k) => Sent(t, k)' /\ Numbered(t, k)' = Numbered(t, k)
    BY <2>1, OthersNumbersKept
  <2>2. \A k \in 1 .. 12 : Sent(s, k) => Sent(s, k)' /\ Numbered(s, k)' = Numbered(s, k)
    BY NumbersKept
  <2> QED  BY <2>1, <2>2 DEF SentKept
<1>2. TypeOK'
  <2>1. ClusterTypeOK' /\ ActorTypeOK' /\ ProxyTypeOK'
    BY <1>0, Typed DEF ClusterTypeOK, ActorTypeOK, ProxyTypeOK, cluster, Reply
  <2>2. \A t \in Sagas : DOMAIN saga'[t].statuses \subseteq FamiliesOf(request'[t])
    BY WorkflowFacts
  <2>3. request' \in [Sagas -> MoveDatatypeRequest]
    BY Typed
  <2> QED  BY <2>1, <2>2, <2>3 DEF TypeOK
<1>3. \A t \in Sagas : SagaOK(t)' /\ StackOK(t)' /\ CallOK(t)'
  BY WorkflowKept
<1>4. \A update \in Update : update \in wire' => Genuine(update)'
  BY <1>1, Typed, GenuineKept DEF Control
<1>5. \A f \in Families : QueueOK(f)' /\ HandlerOK(f)'
  BY <1>0, <1>1, QueueKept, HandlerKept
<1> QED  BY <1>1, <1>2, <1>3, <1>4, <1>5 DEF Control

-----------------------------------------------------------------------------
(* The steps of a workflow.                                                *)

\* A step of a workflow replaces its own progress.
LEMMA OneProgress ==
    ASSUME Control, NEW s \in Sagas, NEW p \in Progress, saga' = [saga EXCEPT ![s] = p]
    PROVE  /\ saga' \in [Sagas -> Progress]
           /\ saga'[s] = p
           /\ \A t \in Sagas \ {s} : saga'[t] = saga[t]
<1>1. saga \in [Sagas -> Progress]
  BY Typed
<1> QED  BY <1>1

LEMMA GotoFacts ==
    ASSUME Control, NEW s \in Sagas,
           NEW pc \in {"read source", "forward", "unwinding"}, Goto(s, pc)
    PROVE  /\ saga' \in [Sagas -> Progress]
           /\ \A t \in Sagas \ {s} : saga'[t] = saga[t]
           /\ saga'[s].pc = pc
           /\ saga'[s].verdict = saga[s].verdict
           /\ saga'[s].statuses = saga[s].statuses
           /\ saga'[s].done = saga[s].done
           /\ saga'[s].stack = saga[s].stack
           /\ saga'[s].errors = saga[s].errors
<1> DEFINE q == [saga[s] EXCEPT !.pc = pc]
<1>1. saga[s] \in Progress
  BY WorkflowFacts
<1>2. /\ q \in Progress /\ q.pc = pc /\ q.verdict = saga[s].verdict
      /\ q.statuses = saga[s].statuses /\ q.done = saga[s].done
      /\ q.stack = saga[s].stack /\ q.errors = saga[s].errors
  BY <1>1 DEF Progress
<1>3. saga' = [saga EXCEPT ![s] = q]
  BY DEF Goto
<1> HIDE DEF q
<1> QED  BY <1>2, <1>3, OneProgress

LEMMA EndFacts ==
    ASSUME Control, NEW s \in Sagas, NEW v \in Verdict, End(s, v)
    PROVE  /\ saga' \in [Sagas -> Progress]
           /\ \A t \in Sagas \ {s} : saga'[t] = saga[t]
           /\ saga'[s].pc = "ended"
           /\ saga'[s].verdict = v
           /\ saga'[s].statuses = saga[s].statuses
           /\ saga'[s].done = saga[s].done
           /\ saga'[s].stack = saga[s].stack
           /\ saga'[s].errors = saga[s].errors
<1> DEFINE q == [saga[s] EXCEPT !.pc = "ended", !.verdict = v]
<1>1. saga[s] \in Progress
  BY WorkflowFacts
<1>2. /\ q \in Progress /\ q.pc = "ended" /\ q.verdict = v
      /\ q.statuses = saga[s].statuses /\ q.done = saga[s].done
      /\ q.stack = saga[s].stack /\ q.errors = saga[s].errors
  BY <1>1 DEF Progress
<1>3. saga' = [saga EXCEPT ![s] = q]
  BY DEF End
<1> HIDE DEF q
<1> QED  BY <1>2, <1>3, OneProgress

\* A step with which a workflow neither calls nor hears.
LEMMA SilentStep ==
    ASSUME Control, NEW s \in Sagas, Alone, call[s] = {},
           saga' \in [Sagas -> Progress], \A t \in Sagas \ {s} : saga'[t] = saga[t],
           DOMAIN saga'[s].statuses \subseteq FamiliesOf(request[s]),
           \/ saga'[s].statuses = saga[s].statuses
           \/ saga[s].pc \notin {"forward", "unwinding", "ended"},
           saga'[s].done = saga[s].done, saga'[s].stack = saga[s].stack,
           Unwinds(s)' <=> Unwinds(s),
           SagaOK(s)', StackOK(s)'
    PROVE  Control' /\ SentKept
<1>1. UNCHANGED <<cluster, entity, bounds, wire, call, reply, tries, timeouts, request>>
  BY DEF Alone, proxyVars
<1>2. CallOK(s)'
  BY <1>1 DEF CallOK
<1>3. Forwards(s)' = Forwards(s) /\ Restores(s)' = Restores(s)
  BY <1>1 DEF Forwards, Restores, Height
<1>4. Forwards(s) \in 0 .. 6 /\ Restores(s) \in 0 .. 6
  BY Counts
<1>5. /\ Forwards(s)' \in Int /\ Forwards(s) <= Forwards(s)'
      /\ Restores(s)' \in Int /\ Restores(s) <= Restores(s)'
  BY <1>3, <1>4
<1>6. /\ reply' \in [Sagas -> Reply] /\ call' \in [Sagas -> SUBSET Update]
      /\ wire' \subseteq Update /\ wire' = wire
      /\ tries' \in [Sagas -> 1..MaxTries] /\ timeouts' \in 0..MaxTimeouts
      /\ \A t \in Sagas \ {s} : reply'[t] = reply[t] /\ call'[t] = call[t]
      /\ UNCHANGED <<cluster, entity, bounds, request>>
  BY <1>1, Typed
<1> QED  BY <1>2, <1>5, <1>6, OwnStep

LEMMA ControlStart ==
    ASSUME Control, NEW s \in Sagas, Start(s)
    PROVE  Control' /\ SentKept
<1>1. saga[s].pc = "idle" /\ Goto(s, "read source") /\ Alone
  BY DEF Start
<1>2. UNCHANGED <<call, reply, request>>
  BY <1>1 DEF Alone, proxyVars
<1>3. SagaOK(s) /\ StackOK(s) /\ call[s] = {} /\ saga[s].verdict = "none"
  BY <1>1, WorkflowFacts DEF SagaOK, Moving
<1>4. ~Unwinds(s) /\ ~Unwinds(s)'
  BY <1>1, <1>3, GotoFacts DEF Unwinds, RolledBack
<1>5. SagaOK(s)'
  BY <1>1, <1>2, <1>3, GotoFacts DEF SagaOK, Moving
<1>6. StackOK(s)'
  BY <1>1, <1>2, <1>3, <1>4, GotoFacts DEF StackOK, Height, Unwinds
<1> QED  BY <1>1, <1>3, <1>4, <1>5, <1>6, GotoFacts, WorkflowFacts, SilentStep

LEMMA ReadingFacts ==
    ASSUME Control, NEW s \in Sagas, NEW f, NEW next \in {"read target", "validating"},
           ReadFamily(s, f, next)
    PROVE  /\ f \in Families
           /\ Read(f) \in FamilyStatus
           /\ saga' \in [Sagas -> Progress]
           /\ \A t \in Sagas \ {s} : saga'[t] = saga[t]
           /\ saga'[s].pc = next
           /\ saga'[s].verdict = saga[s].verdict
           /\ saga'[s].statuses \in [DOMAIN saga[s].statuses \union {f} -> FamilyStatus]
           /\ saga'[s].statuses[f] = Read(f)
           /\ \A g \in DOMAIN saga[s].statuses \ {f} :
                saga'[s].statuses[g] = saga[s].statuses[g]
           /\ saga'[s].done = saga[s].done
           /\ saga'[s].stack = saga[s].stack
           /\ saga'[s].errors = saga[s].errors
<1> DEFINE seen == [g \in DOMAIN saga[s].statuses \union {f} |->
                        IF g = f THEN Read(f) ELSE saga[s].statuses[g]]
           q == [saga[s] EXCEPT !.statuses = seen, !.pc = next]
<1>1. saga[s] \in Progress
  BY WorkflowFacts
<1>2. f \in Families /\ Read(f) \in FamilyStatus
  BY Typed DEF ReadFamily, Read, FamilyStatus, ClusterTypeOK
<1>3. /\ seen \in UNION {[S -> FamilyStatus] : S \in SUBSET Families}
      /\ seen \in [DOMAIN saga[s].statuses \union {f} -> FamilyStatus]
      /\ seen[f] = Read(f)
      /\ \A g \in DOMAIN saga[s].statuses \ {f} : seen[g] = saga[s].statuses[g]
  <2>1. PICK S \in SUBSET Families : saga[s].statuses \in [S -> FamilyStatus]
    BY <1>1 DEF Progress
  <2>2. seen \in [S \union {f} -> FamilyStatus] /\ S = DOMAIN saga[s].statuses
    BY <1>2, <2>1
  <2> QED  BY <1>2, <2>2
<1>4. saga' = [saga EXCEPT ![s] = q]
  BY DEF ReadFamily
<1> HIDE DEF seen
<1>5. /\ q \in Progress /\ q.pc = next /\ q.verdict = saga[s].verdict
      /\ q.statuses = seen /\ q.done = saga[s].done
      /\ q.stack = saga[s].stack /\ q.errors = saga[s].errors
  BY <1>1, <1>3 DEF Progress
<1> HIDE DEF q
<1> QED  BY <1>2, <1>3, <1>4, <1>5, OneProgress

LEMMA ControlReads ==
    ASSUME Control, NEW s \in Sagas, ReadSource(s) \/ ReadTarget(s)
    PROVE  Control' /\ SentKept
<1>1. /\ Alone /\ UNCHANGED <<call, reply, request>>
      /\ saga[s].pc \in {"read source", "read target"}
  BY DEF ReadSource, ReadTarget, ReadFamily, Alone, proxyVars
<1>2. SagaOK(s) /\ StackOK(s) /\ call[s] = {} /\ reply[s] = "none" /\ saga[s].verdict = "none"
  BY <1>1, WorkflowFacts DEF SagaOK, Moving
<1>3. ASSUME NEW f, NEW next \in {"read target", "validating"}, ReadFamily(s, f, next),
             DOMAIN saga[s].statuses \union {f} \subseteq FamiliesOf(request[s]),
             next = "read target" =>
                /\ request[s].source \in Families
                /\ DOMAIN saga[s].statuses \union {f} = {request[s].source},
             next = "validating" =>
                /\ FamiliesOf(request[s]) \subseteq Families
                /\ DOMAIN saga[s].statuses \union {f} = FamiliesOf(request[s])
      PROVE  Control' /\ SentKept
  <2>1. /\ saga' \in [Sagas -> Progress] /\ \A t \in Sagas \ {s} : saga'[t] = saga[t]
        /\ saga'[s].pc = next /\ saga'[s].verdict = saga[s].verdict
        /\ saga'[s].statuses \in [DOMAIN saga[s].statuses \union {f} -> FamilyStatus]
        /\ saga'[s].done = saga[s].done /\ saga'[s].stack = saga[s].stack
    <3>1. CASE next = "read target"
      <4>1. ReadFamily(s, f, "read target")
        BY <1>3, <3>1
      <4> QED  BY <3>1, <4>1, ReadingFacts
    <3>2. CASE next = "validating"
      <4>1. ReadFamily(s, f, "validating")
        BY <1>3, <3>2
      <4> QED  BY <3>2, <4>1, ReadingFacts
    <3> QED  BY <3>1, <3>2
  <2>2. ~Unwinds(s) /\ ~Unwinds(s)'
    BY <1>1, <1>2, <1>3, <2>1 DEF Unwinds, RolledBack
  <2>3. /\ next = "read target" => saga'[s].statuses \in [{request'[s].source} -> FamilyStatus]
        /\ next = "validating" => SnapshotTaken(s)'
    BY <1>1, <1>3, <2>1 DEF SnapshotTaken
  <2>4. SagaOK(s)'
    BY <1>1, <1>2, <1>3, <2>1, <2>3 DEF SagaOK, Moving
  <2>5. StackOK(s)'
    BY <1>1, <1>2, <1>3, <2>1, <2>2 DEF StackOK, Height, Unwinds
  <2>6. DOMAIN saga'[s].statuses \subseteq FamiliesOf(request[s])
    BY <1>3, <2>1
  <2> QED  BY <1>1, <1>2, <2>1, <2>2, <2>4, <2>5, <2>6, SilentStep
<1>4. CASE ReadSource(s)
  <2>1. PICK f : /\ saga[s].pc = "read source" /\ ReadFamily(s, f, "read target")
                 /\ f = request[s].source
    BY <1>4 DEF ReadSource
  <2>2. saga[s].statuses = <<>> /\ f \in Families
    BY <1>2, <2>1 DEF SagaOK, ReadFamily
  <2>3. DOMAIN saga[s].statuses \union {f} = {f}
    BY <2>2
  <2> QED  BY <1>3, <2>1, <2>2, <2>3 DEF FamiliesOf
<1>5. CASE ReadTarget(s)
  <2>1. PICK f : /\ saga[s].pc = "read target" /\ ReadFamily(s, f, "validating")
                 /\ f = request[s].target
    BY <1>5 DEF ReadTarget
  <2>2. /\ request[s].source \in Families /\ f \in Families
        /\ saga[s].statuses \in [{request[s].source} -> FamilyStatus]
    BY <1>2, <2>1 DEF SagaOK, ReadFamily
  <2>3. DOMAIN saga[s].statuses \union {f} = FamiliesOf(request[s])
        /\ FamiliesOf(request[s]) \subseteq Families
    BY <2>1, <2>2 DEF FamiliesOf
  <2> QED  BY <1>3, <2>1, <2>3
<1> QED  BY <1>4, <1>5

\* Accepting a move, and the three ways in which it ends.
LEMMA ControlTurns ==
    ASSUME Control, NEW s \in Sagas, Reject(s) \/ Accept(s) \/ Complete(s) \/ Unwound(s)
    PROVE  Control' /\ SentKept
<1>1. SagaOK(s) /\ StackOK(s) /\ saga[s].verdict \in Verdict
      /\ DOMAIN saga[s].statuses \subseteq FamiliesOf(request[s])
  BY WorkflowFacts
<1>2. /\ Alone /\ UNCHANGED <<call, reply, request>>
      /\ call[s] = {} /\ reply[s] = "none"
      /\ saga[s].pc \in {"validating", "forward", "unwinding"}
      /\ SnapshotTaken(s) /\ saga[s].verdict = "none"
  BY <1>1, WorkflowFacts
     DEF Reject, Accept, Complete, Unwound, Alone, proxyVars, SagaOK, Moving
<1>3. ASSUME NEW v \in Verdict \ {"none"}, End(s, v),
             v \in {"COMPENSATED", "COMPENSATION_INCOMPLETE"} <=> saga[s].pc = "unwinding",
             saga[s].pc = "unwinding" => saga[s].stack = <<>>
      PROVE  Control' /\ SentKept
  <2>1. Unwinds(s)' <=> Unwinds(s)
    BY <1>2, <1>3, EndFacts DEF Unwinds, RolledBack
  <2>2. SnapshotTaken(s)'
    BY <1>2, <1>3, EndFacts DEF SnapshotTaken
  <2>3. SagaOK(s)'
    <3>1. /\ saga'[s].pc = "ended" /\ saga'[s].verdict # "none"
          /\ reply'[s] = "none" /\ call'[s] = {}
      BY <1>2, <1>3, EndFacts
    <3> QED  BY <2>2, <3>1 DEF SagaOK, Moving
  <2>4. StackOK(s)'
    BY <1>1, <1>2, <1>3, <2>1, EndFacts DEF StackOK, Height, RolledBack
  <2> QED  BY <1>1, <1>2, <1>3, <2>1, <2>3, <2>4, EndFacts, SilentStep
<1>4. CASE Reject(s)
  <2>1. End(s, "REJECTED") /\ saga[s].pc = "validating"
    BY <1>4 DEF Reject
  <2> QED  BY <1>3, <2>1 DEF Verdict
<1>5. CASE Complete(s)
  <2>1. End(s, "COMPLETED") /\ saga[s].pc = "forward"
    BY <1>5 DEF Complete
  <2> QED  BY <1>3, <2>1 DEF Verdict
<1>6. CASE Unwound(s)
  <2>1. PICK v \in {"COMPENSATED", "COMPENSATION_INCOMPLETE"} :
            End(s, v) /\ saga[s].pc = "unwinding" /\ saga[s].stack = <<>>
    BY <1>6 DEF Unwound
  <2> QED  BY <1>3, <2>1 DEF Verdict
<1>7. CASE Accept(s)
  <2>1. saga[s].pc = "validating" /\ Goto(s, "forward")
    BY <1>7 DEF Accept
  <2>2. ~Unwinds(s) /\ ~Unwinds(s)'
    BY <1>2, <2>1, GotoFacts DEF Unwinds, RolledBack
  <2>3. SnapshotTaken(s)'
    BY <1>2, <2>1, GotoFacts DEF SnapshotTaken
  <2>4. SagaOK(s)'
    BY <1>1, <1>2, <2>1, <2>3, GotoFacts DEF SagaOK, Moving
  <2>5. StackOK(s)'
    <3>1. saga[s].stack = <<>> /\ saga[s].done = 0
      BY <1>1, <2>1 DEF SagaOK
    <3>2. saga'[s].stack = <<>> /\ saga'[s].done = 0 /\ saga'[s].pc = "forward"
          /\ call'[s] = {}
      BY <1>2, <2>1, <3>1, GotoFacts
    <3> QED  BY <2>2, <3>2 DEF StackOK, Height, PlanLength, Unwinds
  <2> QED  BY <1>1, <1>2, <2>1, <2>2, <2>4, <2>5, GotoFacts, SilentStep
<1> QED  BY <1>4, <1>5, <1>6, <1>7

\* A step with which a workflow calls an actor.
LEMMA SendingStep ==
    ASSUME Control, NEW s \in Sagas, NEW n \in 1 .. 12, NEW update \in Update,
           Send(s, update), UNCHANGED request,
           saga' \in [Sagas -> Progress], \A t \in Sagas \ {s} : saga'[t] = saga[t],
           saga'[s].statuses = saga[s].statuses, saga'[s].done = saga[s].done,
           SagaOK(s)', StackOK(s)',
           Forwards(s)' \in Int, Forwards(s) <= Forwards(s)',
           Restores(s)' \in Int, Restores(s) <= Restores(s)',
           PresentStep(s)' = n, update = Numbered(s, n)', Sent(s, n)'
    PROVE  Control' /\ SentKept
<1>1. /\ UNCHANGED <<cluster, entity, bounds, tries, timeouts>>
      /\ call' = [call EXCEPT ![s] = {update}]
      /\ wire' = wire \union {update}
      /\ reply' = [reply EXCEPT ![s] = "waiting"]
  BY DEF Send
<1>2. /\ reply' \in [Sagas -> Reply] /\ call' \in [Sagas -> SUBSET Update]
      /\ wire' \subseteq Update
      /\ call'[s] = {update}
      /\ tries' \in [Sagas -> 1..MaxTries] /\ timeouts' \in 0..MaxTimeouts
      /\ \A t \in Sagas \ {s} : reply'[t] = reply[t] /\ call'[t] = call[t]
  <2>1. /\ reply \in [Sagas -> Reply] /\ call \in [Sagas -> SUBSET Update]
        /\ tries \in [Sagas -> 1..MaxTries] /\ timeouts \in 0..MaxTimeouts
        /\ wire \subseteq Update /\ "waiting" \in Reply
    BY Typed DEF Reply
  <2> QED  BY <1>1, <2>1
<1>3. update.id = <<s, n>>
  <2>1. Numbered(s, n)'.id = <<s, n>>
    BY DEF Numbered, ForwardUpdate, RestoreUpdate
  <2> QED  BY <2>1
<1>4. Genuine(update)'
  BY <1>3 DEF Genuine
<1>5. CallOK(s)'
  BY <1>2 DEF CallOK
<1>6. DOMAIN saga'[s].statuses \subseteq FamiliesOf(request[s])
  BY WorkflowFacts
<1>7. \A u \in Update : u \in wire' => u \in wire \/ Genuine(u)'
  BY <1>1, <1>4
<1> QED  BY <1>1, <1>2, <1>5, <1>6, <1>7, OwnStep

LEMMA ForwardUpdateTyped ==
    ASSUME Control, NEW s \in Sagas, SnapshotTaken(s), NEW n \in 1 .. 6
    PROVE  ForwardUpdate(s, n) \in Update
<1> DEFINE step == Plan(request[s])[n]
           config == IF step.command = "patch"
                     THEN {NewConfig(request[s], saga[s].statuses, step.family)} ELSE {}
<1>1. /\ step.family \in FamiliesOf(request[s])
      /\ step.command \in {"pause", "patch", "resume", "restore"}
  <2>1. request[s] \in MoveDatatypeRequest
    BY WorkflowFacts
  <2>2. /\ Intents(request[s])[n].family = step.family
        /\ Intents(request[s])[n].family \in FamiliesOf(request[s])
        /\ n \in {1, 2} => step.command = "pause"
        /\ n \in {3, 4} => step.command = "patch"
        /\ n \in {5, 6} => step.command = "resume"
    BY <2>1, IntentFamily
  <2> HIDE DEF step
  <2>3. step.family \in FamiliesOf(request[s])
    BY <2>2
  <2> QED  BY <2>2, <2>3
<1>2. config \in SUBSET SUBSET Datatypes
  <2>1. saga[s].statuses[step.family] \in FamilyStatus /\ request[s].datatype \in Datatypes
    BY <1>1, WorkflowFacts DEF SnapshotTaken, MoveDatatypeRequest
  <2>2. saga[s].statuses[step.family].datatypes \in SUBSET Datatypes
    BY <2>1 DEF FamilyStatus
  <2> QED  BY <2>1, <2>2 DEF NewConfig
<1>3. step.family \in Families
  BY <1>1 DEF SnapshotTaken
<1>4. <<s, n>> \in UpdateKey
  BY DEF UpdateKey, PlanLength
<1>5. ForwardUpdate(s, n) = [id |-> <<s, n>>, family |-> step.family,
                             command |-> step.command, desired |-> {}, config |-> config]
  BY DEF ForwardUpdate
<1> HIDE DEF step, config
<1> QED  BY <1>1, <1>2, <1>3, <1>4, <1>5 DEF Update

LEMMA CallStepFacts ==
    ASSUME Control, NEW s \in Sagas, CallStep(s)
    PROVE  \E n \in 1 .. 6 :
             /\ saga[s].pc = "forward" /\ call[s] = {} /\ reply[s] = "none"
             /\ saga[s].done = n - 1 /\ Height(s) = n - 1
             /\ saga' \in [Sagas -> Progress]
             /\ \A t \in Sagas \ {s} : saga'[t] = saga[t]
             /\ saga'[s].pc = "forward"
             /\ saga'[s].verdict = saga[s].verdict
             /\ saga'[s].statuses = saga[s].statuses
             /\ saga'[s].done = saga[s].done
             /\ saga'[s].errors = saga[s].errors
             /\ saga'[s].stack # <<>>
             /\ Height(s)' = n
             /\ \A k \in 1 .. n : saga'[s].stack[k] = Intents(request[s])[k]
             /\ Send(s, ForwardUpdate(s, n)) /\ UNCHANGED request
<1>1. /\ saga[s].pc = "forward" /\ call[s] = {} /\ reply[s] = "none" /\ saga[s].done < 6
      /\ SagaOK(s) /\ StackOK(s) /\ saga[s] \in Progress
      /\ request[s] \in MoveDatatypeRequest /\ saga[s].done \in 0 .. 6
      /\ saga[s].stack \in Seq(IntentType)
  BY WorkflowFacts DEF CallStep, CanCall, PlanLength
<1> DEFINE n == saga[s].done + 1
<1>2. n \in 1 .. 6 /\ Len(saga[s].stack) = n - 1 /\ Height(s) = n - 1
  BY <1>1 DEF StackOK, Height
<1>3. \A k \in 1 .. Len(saga[s].stack) : saga[s].stack[k] = Intents(request[s])[k]
  BY <1>1 DEF StackOK, Height
<1> DEFINE pushed == Append(saga[s].stack, Intents(request[s])[n])
           q == [saga[s] EXCEPT !.stack = pushed]
<1>4. saga' = [saga EXCEPT ![s] = q]
  BY DEF CallStep
<1>5. Send(s, ForwardUpdate(s, n)) /\ UNCHANGED request
  BY DEF CallStep, CallCurrentStep, CurrentStep, Command, UpdateId, ForwardUpdate
<1>6. saga[s].done = n - 1
  BY <1>1
<1> HIDE DEF n
<1>7. /\ pushed \in Seq(IntentType) /\ pushed # <<>> /\ Len(pushed) = n
      /\ \A k \in 1 .. n : pushed[k] = Intents(request[s])[k]
  BY <1>1, <1>2, <1>3, PushIntent
<1> HIDE DEF pushed
<1>8. /\ q \in Progress /\ q.pc = "forward" /\ q.verdict = saga[s].verdict
      /\ q.statuses = saga[s].statuses /\ q.done = saga[s].done
      /\ q.stack = pushed /\ q.errors = saga[s].errors
  BY <1>1, <1>7 DEF Progress
<1> HIDE DEF q
<1>9. /\ saga' \in [Sagas -> Progress] /\ saga'[s] = q
      /\ \A t \in Sagas \ {s} : saga'[t] = saga[t]
  BY <1>4, <1>8, OneProgress
<1>10. Height(s)' = n
  BY <1>7, <1>8, <1>9 DEF Height
<1> QED  BY <1>1, <1>2, <1>5, <1>6, <1>7, <1>8, <1>9, <1>10

LEMMA ControlCallStep ==
    ASSUME Control, NEW s \in Sagas, CallStep(s)
    PROVE  Control' /\ SentKept
<1>1. PICK n \in 1 .. 6 :
             /\ saga[s].pc = "forward" /\ call[s] = {}
             /\ saga[s].done = n - 1 /\ Height(s) = n - 1
             /\ saga' \in [Sagas -> Progress]
             /\ \A t \in Sagas \ {s} : saga'[t] = saga[t]
             /\ saga'[s].pc = "forward"
             /\ saga'[s].verdict = saga[s].verdict
             /\ saga'[s].statuses = saga[s].statuses
             /\ saga'[s].done = saga[s].done
             /\ saga'[s].stack # <<>>
             /\ Height(s)' = n
             /\ \A k \in 1 .. n : saga'[s].stack[k] = Intents(request[s])[k]
             /\ Send(s, ForwardUpdate(s, n)) /\ UNCHANGED request
  BY CallStepFacts
<1>2. /\ SagaOK(s) /\ StackOK(s) /\ SnapshotTaken(s) /\ saga[s].verdict = "none"
      /\ reply \in [Sagas -> Reply] /\ call \in [Sagas -> SUBSET Update]
  BY <1>1, WorkflowFacts, Typed DEF SagaOK
<1>3. PICK update \in Update : update = ForwardUpdate(s, n)
  BY <1>2, ForwardUpdateTyped
<1>4. call'[s] = {update} /\ reply'[s] = "waiting" /\ Send(s, update)
  BY <1>1, <1>2, <1>3 DEF Send
<1>5. ~Unwinds(s) /\ ~Unwinds(s)'
  BY <1>1, <1>2 DEF Unwinds, RolledBack
<1>6. /\ Forwards(s) = n - 1 /\ Forwards(s)' = n
      /\ Restores(s) = 0 /\ Restores(s)' = 0
  BY <1>1, <1>5 DEF Forwards, Restores
<1>7. SnapshotTaken(s)'
  BY <1>1, <1>2 DEF SnapshotTaken
<1>8. SagaOK(s)'
  BY <1>1, <1>2, <1>4, <1>7 DEF SagaOK, Moving
<1>9. StackOK(s)'
  BY <1>1, <1>2, <1>4, <1>5 DEF StackOK, Unwinds, PlanLength
<1>10. ForwardUpdate(s, n)' = ForwardUpdate(s, n)
  BY <1>1 DEF ForwardUpdate
<1>11. Numbered(s, n)' = update
  BY <1>3, <1>10 DEF Numbered, PlanLength
<1>12. Sent(s, n)'
  BY <1>6 DEF Sent, PlanLength
<1>13. PresentStep(s)' = n /\ n \in 1 .. 12
  BY <1>1 DEF PresentStep
<1>14. /\ Forwards(s)' \in Int /\ Forwards(s) <= Forwards(s)'
       /\ Restores(s)' \in Int /\ Restores(s) <= Restores(s)'
  BY <1>6
<1> QED
  BY <1>1, <1>4, <1>8, <1>9, <1>11, <1>12, <1>13, <1>14, SendingStep

LEMMA RestoreUpdateTyped ==
    ASSUME Control, NEW s \in Sagas, SnapshotTaken(s), NEW k \in 7 .. 12, Place(s, k) \in 1 .. 6
    PROVE  /\ RestoreUpdate(s, k) \in Update
           /\ RestoreUpdate(s, k).family \in FamiliesOf(request[s])
<1> DEFINE intent == Intents(request[s])[Place(s, k)]
           base == saga[s].statuses[intent.family]
           desired == CASE intent.label = "revert" -> {}
                        [] intent.label = "resume" -> {base.state}
                        [] intent.label = "pause"  -> {"SUSPENDED"}
           config == IF intent.label = "revert" THEN {base.datatypes} ELSE {}
<1>1. intent.family \in FamiliesOf(request[s]) /\ intent.label \in {"revert", "resume", "pause"}
  <2>1. intent.family \in FamiliesOf(request[s]) /\ intent \in IntentType
    BY WorkflowFacts, IntentFamily, IntentsByPosition
  <2> HIDE DEF intent
  <2> QED  BY <2>1 DEF IntentType
<1>2. base \in FamilyStatus /\ intent.family \in Families
  BY <1>1 DEF SnapshotTaken
<1>3. base.state \in FamilyState /\ base.datatypes \in SUBSET Datatypes
  BY <1>2 DEF FamilyStatus
<1>4. RestoreUpdate(s, k) = [id |-> <<s, k>>, family |-> intent.family, command |-> "restore",
                             desired |-> desired, config |-> config]
  BY DEF RestoreUpdate
<1> HIDE DEF intent, base
<1>5. desired \in SUBSET FamilyState /\ config \in SUBSET SUBSET Datatypes
  <2>1. CASE intent.label = "revert"
    BY <1>3, <2>1
  <2>2. CASE intent.label = "resume"
    BY <1>3, <2>2
  <2>3. CASE intent.label = "pause"
    BY <1>3, <2>3 DEF FamilyState
  <2> QED  BY <1>1, <2>1, <2>2, <2>3
<1>6. <<s, k>> \in UpdateKey
  BY DEF UpdateKey, PlanLength
<1> HIDE DEF desired, config
<1> QED  BY <1>1, <1>2, <1>4, <1>5, <1>6 DEF Update

LEMMA CallRestoreFacts ==
    ASSUME Control, NEW s \in Sagas, CallRestore(s)
    PROVE  \E k \in 7 .. 12 :
             /\ saga[s].pc = "unwinding" /\ call[s] = {} /\ saga[s].stack # <<>>
             /\ k = RestoreStep(s) /\ k = 6 + saga[s].done + 2 - Height(s)
             /\ Place(s, k) = Height(s)
             /\ saga[s].done \in 0 .. 5 /\ Height(s) \in 1 .. saga[s].done + 1
             /\ RestoreUpdate(s, k) \in Update
             /\ Send(s, RestoreUpdate(s, k)) /\ UNCHANGED <<request, saga>>
<1>1. /\ saga[s].pc = "unwinding" /\ call[s] = {} /\ saga[s].stack # <<>>
      /\ UNCHANGED <<request, saga>>
  BY DEF CallRestore
<1>2. /\ StackOK(s) /\ Unwinds(s) /\ saga[s].stack \in Seq(IntentType) /\ SnapshotTaken(s)
  BY <1>1, WorkflowFacts DEF Unwinds, SagaOK
<1>3. Height(s) # 0
  BY <1>1, <1>2, EmptySeq DEF Height
<1>4. PICK d \in 0 .. 5, h \in 1 .. 6 : d = saga[s].done /\ h = Height(s) /\ h <= d + 1
  BY <1>2, <1>3, Counts
<1> DEFINE k == RestoreStep(s)
<1>5. k = 6 + d + 2 - h /\ k \in 7 .. 12
  <2>1. k = 6 + d + 2 - h
    BY <1>4 DEF RestoreStep, Height, PlanLength
  <2> HIDE DEF k
  <2> QED  BY <1>4, <2>1
<1>6. Place(s, k) = h
  <2>1. Place(s, k) = d + 2 - (k - 6)
    BY <1>4 DEF Place, PlanLength
  <2> HIDE DEF k
  <2> QED  BY <1>4, <1>5, <2>1
<1>7. Last(saga[s].stack) = Intents(request[s])[h]
  <2>1. Last(saga[s].stack) = saga[s].stack[Len(saga[s].stack)]
    BY <1>1, <1>2, PopStack
  <2>2. \A j \in 1 .. Height(s) : saga[s].stack[j] = Intents(request[s])[j]
    BY <1>2 DEF StackOK
  <2>3. h \in 1 .. Height(s)
    BY <1>4
  <2>4. h = Len(saga[s].stack)
    BY <1>4 DEF Height
  <2> QED  BY <2>1, <2>2, <2>3, <2>4
<1>8. RestoreUpdate(s, k) \in Update
  BY <1>2, <1>4, <1>5, <1>6, RestoreUpdateTyped
<1>9. Send(s, RestoreUpdate(s, k))
  <2> DEFINE intent == Last(saga[s].stack)
  <2>1. Intents(request[s])[Place(s, k)] = intent
    BY <1>6, <1>7
  <2>2. RestoreUpdate(s, k) =
            [id |-> <<s, k>>, family |-> intent.family, command |-> "restore",
             desired |-> CASE intent.label = "revert" -> {}
                           [] intent.label = "resume" -> {saga[s].statuses[intent.family].state}
                           [] intent.label = "pause"  -> {"SUSPENDED"},
             config |-> IF intent.label = "revert"
                        THEN {saga[s].statuses[intent.family].datatypes} ELSE {}]
    BY <2>1 DEF RestoreUpdate
  <2>3. Send(s, [id |-> <<s, k>>, family |-> intent.family, command |-> "restore",
             desired |-> CASE intent.label = "revert" -> {}
                           [] intent.label = "resume" -> {saga[s].statuses[intent.family].state}
                           [] intent.label = "pause"  -> {"SUSPENDED"},
             config |-> IF intent.label = "revert"
                        THEN {saga[s].statuses[intent.family].datatypes} ELSE {}])
    BY DEF CallRestore, Command, UpdateId
  <2> HIDE DEF intent, k
  <2> QED  BY <2>2, <2>3
<1> HIDE DEF k
<1>10. k = 6 + saga[s].done + 2 - Height(s) /\ Place(s, k) = Height(s)
       /\ saga[s].done \in 0 .. 5 /\ Height(s) \in 1 .. saga[s].done + 1
  BY <1>4, <1>5, <1>6
<1> QED  BY <1>1, <1>5, <1>8, <1>9, <1>10 DEF k

LEMMA ControlCallRestore ==
    ASSUME Control, NEW s \in Sagas, CallRestore(s)
    PROVE  Control' /\ SentKept
<1>1. PICK k \in 7 .. 12 :
             /\ saga[s].pc = "unwinding" /\ call[s] = {} /\ saga[s].stack # <<>>
             /\ k = RestoreStep(s) /\ k = 6 + saga[s].done + 2 - Height(s)
             /\ saga[s].done \in 0 .. 5 /\ Height(s) \in 1 .. saga[s].done + 1
             /\ RestoreUpdate(s, k) \in Update
             /\ Send(s, RestoreUpdate(s, k)) /\ UNCHANGED <<request, saga>>
  BY CallRestoreFacts
<1>2. /\ SagaOK(s) /\ StackOK(s) /\ SnapshotTaken(s) /\ saga[s].verdict = "none"
      /\ reply \in [Sagas -> Reply] /\ call \in [Sagas -> SUBSET Update]
      /\ saga \in [Sagas -> Progress]
  BY <1>1, WorkflowFacts, Typed DEF SagaOK
<1>3. PICK update \in Update : update = RestoreUpdate(s, k)
  BY <1>1
<1>4. call'[s] = {update} /\ reply'[s] = "waiting" /\ Send(s, update)
  BY <1>1, <1>2, <1>3 DEF Send
<1>5. Unwinds(s) /\ Unwinds(s)' /\ ~RolledBack(s)'
  BY <1>1, <1>2 DEF Unwinds, RolledBack
<1>6. Height(s)' = Height(s)
  BY <1>1 DEF Height
<1>7. /\ Forwards(s) = saga[s].done + 1 /\ Forwards(s)' = saga[s].done + 1
      /\ Restores(s) = saga[s].done + 1 - Height(s)
      /\ Restores(s)' = saga[s].done + 1 - Height(s) + 1
  BY <1>1, <1>4, <1>5, <1>6 DEF Forwards, Restores
<1>8. /\ Forwards(s)' \in Int /\ Forwards(s) <= Forwards(s)'
      /\ Restores(s)' \in Int /\ Restores(s) <= Restores(s)'
      /\ k = 6 + Restores(s)'
  <2>1. PICK d \in 0 .. 5, h \in 1 .. 6 : d = saga[s].done /\ h = Height(s) /\ h <= d + 1
    BY <1>1
  <2>2. /\ Forwards(s) = d + 1 /\ Forwards(s)' = d + 1 /\ k = 6 + d + 2 - h
        /\ Restores(s) = d + 1 - h /\ Restores(s)' = d + 1 - h + 1
    BY <1>1, <1>7, <2>1
  <2> QED  BY <2>1, <2>2
<1>9. SagaOK(s)'
  <2>1. SnapshotTaken(s)'
    BY <1>1, <1>2 DEF SnapshotTaken
  <2> QED  BY <1>1, <1>2, <1>4, <2>1 DEF SagaOK, Moving
<1>10. StackOK(s)'
  BY <1>1, <1>2, <1>5, <1>6 DEF StackOK
<1>11. Numbered(s, k)' = update
  <2>1. RestoreUpdate(s, k)' = RestoreUpdate(s, k)
    BY <1>1 DEF RestoreUpdate, Place
  <2> QED  BY <1>3, <2>1 DEF Numbered, PlanLength
<1>12. Sent(s, k)'
  <2>1. k \in 7 .. 6 + Restores(s)'
    BY <1>8
  <2> QED  BY <2>1 DEF Sent, PlanLength
<1>13. PresentStep(s)' = k /\ k \in 1 .. 12
  BY <1>1 DEF PresentStep, RestoreStep
<1> QED
  BY <1>1, <1>2, <1>4, <1>8, <1>9, <1>10, <1>11, <1>12, <1>13, SendingStep

\* A step with which a workflow hears the answer to its call.
LEMMA ReceivingStep ==
    ASSUME Control, NEW s \in Sagas, NEW answers, Receive(s, answers), UNCHANGED request,
           saga' \in [Sagas -> Progress], \A t \in Sagas \ {s} : saga'[t] = saga[t],
           saga'[s].statuses = saga[s].statuses,
           saga'[s].done = saga[s].done \/ ~Unwinds(s),
           SagaOK(s)', StackOK(s)',
           Forwards(s)' \in Int, Forwards(s) <= Forwards(s)',
           Restores(s)' \in Int, Restores(s) <= Restores(s)'
    PROVE  Control' /\ SentKept
<1>1. /\ UNCHANGED <<cluster, entity, bounds, timeouts>>
      /\ reply' = [reply EXCEPT ![s] = "none"]
      /\ call' = [call EXCEPT ![s] = {}]
      /\ tries' = [tries EXCEPT ![s] = 1]
      /\ wire' \subseteq wire
  BY DEF Receive
<1>2. /\ reply' \in [Sagas -> Reply] /\ call' \in [Sagas -> SUBSET Update]
      /\ wire' \subseteq Update
      /\ call'[s] = {}
      /\ tries' \in [Sagas -> 1..MaxTries] /\ timeouts' \in 0..MaxTimeouts
      /\ \A t \in Sagas \ {s} : reply'[t] = reply[t] /\ call'[t] = call[t]
  <2>1. /\ reply \in [Sagas -> Reply] /\ call \in [Sagas -> SUBSET Update]
        /\ tries \in [Sagas -> 1..MaxTries] /\ timeouts \in 0..MaxTimeouts
        /\ wire \subseteq Update /\ "none" \in Reply /\ 1 \in 1..MaxTries
    BY Typed, ProxyAssumption DEF Reply
  <2> QED  BY <1>1, <2>1
<1>3. CallOK(s)'
  BY <1>2 DEF CallOK
<1>4. DOMAIN saga'[s].statuses \subseteq FamiliesOf(request[s])
  BY WorkflowFacts
<1> QED  BY <1>1, <1>2, <1>3, <1>4, OwnStep

LEMMA ReceiveFacts ==
    ASSUME Control, NEW s \in Sagas, NEW answers, Receive(s, answers), "none" \notin answers
    PROVE  /\ reply[s] \in answers /\ call[s] # {} /\ Moving(s)
           /\ reply'[s] = "none" /\ call'[s] = {}
<1>1. reply \in [Sagas -> Reply] /\ call \in [Sagas -> SUBSET Update]
  BY Typed
<1>2. reply[s] \in answers /\ reply[s] # "none"
  BY DEF Receive
<1>3. reply'[s] = "none" /\ call'[s] = {}
  BY <1>1 DEF Receive
<1> QED  BY <1>2, <1>3, WorkflowFacts

LEMMA ControlStepAnswered ==
    ASSUME Control, NEW s \in Sagas, StepAnswered(s) \/ StepFailed(s)
    PROVE  Control' /\ SentKept
<1>1. PICK answers : /\ answers \in {{"changed", "unchanged"}, {"failed"}}
                     /\ Receive(s, answers) /\ saga[s].pc = "forward" /\ UNCHANGED request
  BY DEF StepAnswered, StepFailed
<1>2. call[s] # {} /\ reply'[s] = "none" /\ call'[s] = {}
  BY <1>1, ReceiveFacts
<1>3. /\ SagaOK(s) /\ StackOK(s) /\ SnapshotTaken(s) /\ saga[s].verdict = "none"
      /\ saga[s] \in Progress /\ saga[s].done \in 0 .. 6 /\ Height(s) \in 0 .. 6
  BY <1>1, WorkflowFacts DEF SagaOK
<1>4. Height(s) = saga[s].done + 1 /\ saga[s].done \in 0 .. 5
  BY <1>1, <1>2, <1>3 DEF StackOK
<1>5. ~Unwinds(s) /\ Forwards(s) = saga[s].done + 1 /\ Restores(s) = 0
  BY <1>1, <1>4, Counts
<1>6. CASE StepAnswered(s)
  <2> DEFINE q == [saga[s] EXCEPT !.done = @ + 1]
  <2>1. saga' = [saga EXCEPT ![s] = q]
    BY <1>6 DEF StepAnswered
  <2>2. /\ q \in Progress /\ q.pc = "forward" /\ q.verdict = saga[s].verdict
        /\ q.statuses = saga[s].statuses /\ q.done = saga[s].done + 1
        /\ q.stack = saga[s].stack /\ q.errors = saga[s].errors
    BY <1>1, <1>3, <1>4 DEF Progress, PlanLength
  <2> HIDE DEF q
  <2>3. /\ saga' \in [Sagas -> Progress] /\ saga'[s] = q
        /\ \A t \in Sagas \ {s} : saga'[t] = saga[t]
    BY <2>1, <2>2, OneProgress
  <2>4. SagaOK(s)'
    <3>1. SnapshotTaken(s)'
      BY <1>1, <1>3, <2>2, <2>3 DEF SnapshotTaken
    <3> QED  BY <1>2, <1>3, <2>2, <2>3, <3>1 DEF SagaOK, Moving
  <2>5. ~Unwinds(s)' /\ ~RolledBack(s)'
    BY <1>3, <2>2, <2>3 DEF Unwinds, RolledBack
  <2>6. Height(s)' = Height(s)
    BY <2>2, <2>3 DEF Height
  <2>7. StackOK(s)'
    BY <1>1, <1>2, <1>3, <1>4, <2>2, <2>3, <2>5, <2>6 DEF StackOK
  <2>8. Forwards(s)' = saga[s].done + 1 /\ Restores(s)' = 0
    BY <1>4, <2>5, <2>6 DEF Forwards, Restores
  <2> QED  BY <1>1, <1>3, <1>5, <2>2, <2>3, <2>4, <2>7, <2>8, ReceivingStep
<1>7. CASE StepFailed(s)
  <2>1. Goto(s, "unwinding")
    BY <1>7 DEF StepFailed
  <2>2. /\ saga' \in [Sagas -> Progress] /\ \A t \in Sagas \ {s} : saga'[t] = saga[t]
        /\ saga'[s].pc = "unwinding" /\ saga'[s].verdict = "none"
        /\ saga'[s].statuses = saga[s].statuses /\ saga'[s].done = saga[s].done
        /\ saga'[s].stack = saga[s].stack
    BY <1>3, <2>1, GotoFacts
  <2>3. SagaOK(s)'
    <3>1. SnapshotTaken(s)'
      BY <1>1, <1>3, <2>2 DEF SnapshotTaken
    <3> QED  BY <1>2, <1>3, <2>2, <3>1 DEF SagaOK, Moving
  <2>4. Unwinds(s)' /\ ~RolledBack(s)' /\ Height(s)' = Height(s)
    BY <2>2 DEF Unwinds, RolledBack, Height
  <2>5. StackOK(s)'
    BY <1>1, <1>2, <1>3, <1>4, <2>2, <2>4 DEF StackOK, PlanLength
  <2>6. Forwards(s)' = saga[s].done + 1
    BY <2>2, <2>4 DEF Forwards
  <2>7. Restores(s)' = saga[s].done + 1 - (saga[s].done + 1) + 0
    BY <1>2, <1>4, <2>2, <2>4 DEF Restores
  <2>8. Restores(s)' = 0
    BY <1>4, <2>7
  <2> QED  BY <1>1, <1>4, <1>5, <2>2, <2>3, <2>5, <2>6, <2>8, ReceivingStep
<1> QED  BY <1>6, <1>7

LEMMA RestoreAnsweredFacts ==
    ASSUME Control, NEW s \in Sagas, RestoreAnswered(s)
    PROVE  /\ saga[s].pc = "unwinding" /\ saga[s].stack # <<>>
           /\ reply[s] \in Answers /\ call[s] # {}
           /\ Receive(s, Answers) /\ UNCHANGED request
           /\ reply'[s] = "none" /\ call'[s] = {}
           /\ saga' \in [Sagas -> Progress]
           /\ \A t \in Sagas \ {s} : saga'[t] = saga[t]
           /\ saga'[s].pc = "unwinding"
           /\ saga'[s].verdict = saga[s].verdict
           /\ saga'[s].statuses = saga[s].statuses
           /\ saga'[s].done = saga[s].done
           /\ saga'[s].errors = IF reply[s] = "failed"
                                THEN saga[s].errors \union {Last(saga[s].stack)}
                                ELSE saga[s].errors
           /\ Height(s) \in 1 .. 6
           /\ Height(s)' = Height(s) - 1
           /\ \A k \in 1 .. Height(s) - 1 : saga'[s].stack[k] = saga[s].stack[k]
<1>1. /\ saga[s].pc = "unwinding" /\ Receive(s, Answers) /\ UNCHANGED request
      /\ "none" \notin Answers
  BY DEF RestoreAnswered, Answers
<1>2. reply[s] \in Answers /\ call[s] # {} /\ reply'[s] = "none" /\ call'[s] = {}
  BY <1>1, ReceiveFacts
<1>3. /\ saga[s] \in Progress /\ saga[s].stack \in Seq(IntentType) /\ saga[s].stack # <<>>
      /\ Height(s) \in 0 .. 6
  BY <1>1, <1>2, WorkflowFacts DEF StackOK
<1> DEFINE front == Front(saga[s].stack)  top == Last(saga[s].stack)
<1>4. /\ front \in Seq(IntentType) /\ Len(front) = Height(s) - 1 /\ top \in IntentType
      /\ \A k \in 1 .. Height(s) - 1 : front[k] = saga[s].stack[k]
      /\ Height(s) # 0
  <2>1. /\ front \in Seq(IntentType) /\ Len(front) = Len(saga[s].stack) - 1
        /\ \A k \in 1 .. Len(saga[s].stack) - 1 : front[k] = saga[s].stack[k]
        /\ top \in IntentType /\ Len(saga[s].stack) \in Nat \ {0}
    BY <1>3, PopStack, Zenon
  <2> HIDE DEF front, top
  <2> QED  BY <2>1 DEF Height
<1> DEFINE good == IF reply[s] = "changed"
                   THEN saga[s].compensated \union {top} ELSE saga[s].compensated
           noop == IF reply[s] = "unchanged"
                   THEN saga[s].noops \union {top} ELSE saga[s].noops
           bad == IF reply[s] = "failed"
                  THEN saga[s].errors \union {top} ELSE saga[s].errors
           q == [saga[s] EXCEPT !.stack = front, !.compensated = good,
                                !.noops = noop, !.errors = bad]
<1>5. saga' = [saga EXCEPT ![s] = q]
  BY DEF RestoreAnswered
<1> HIDE DEF top
<1>6. good \in SUBSET IntentType /\ noop \in SUBSET IntentType /\ bad \in SUBSET IntentType
  BY <1>3, <1>4 DEF Progress
<1> HIDE DEF front, good, noop, bad
<1>7. /\ q \in Progress /\ q.pc = saga[s].pc /\ q.verdict = saga[s].verdict
      /\ q.statuses = saga[s].statuses /\ q.done = saga[s].done
      /\ q.stack = front /\ q.errors = bad
  BY <1>3, <1>4, <1>6 DEF Progress
<1> HIDE DEF q
<1>8. /\ saga' \in [Sagas -> Progress] /\ saga'[s] = q
      /\ \A t \in Sagas \ {s} : saga'[t] = saga[t]
  BY <1>5, <1>7, OneProgress
<1>9. Height(s)' = Height(s) - 1
  BY <1>4, <1>7, <1>8 DEF Height
<1>10. Height(s) \in 1 .. 6
  BY <1>3, <1>4
<1> QED  BY <1>1, <1>2, <1>3, <1>4, <1>7, <1>8, <1>9, <1>10 DEF bad, top

LEMMA ControlRestoreAnswered ==
    ASSUME Control, NEW s \in Sagas, RestoreAnswered(s)
    PROVE  Control' /\ SentKept
<1>1. /\ saga[s].pc = "unwinding" /\ saga[s].stack # <<>>
      /\ call[s] # {} /\ Receive(s, Answers) /\ UNCHANGED request
      /\ reply'[s] = "none" /\ call'[s] = {}
      /\ saga' \in [Sagas -> Progress]
      /\ \A t \in Sagas \ {s} : saga'[t] = saga[t]
      /\ saga'[s].pc = "unwinding"
      /\ saga'[s].verdict = saga[s].verdict
      /\ saga'[s].statuses = saga[s].statuses
      /\ saga'[s].done = saga[s].done
      /\ Height(s) \in 1 .. 6
      /\ Height(s)' = Height(s) - 1
      /\ \A k \in 1 .. Height(s) - 1 : saga'[s].stack[k] = saga[s].stack[k]
  BY RestoreAnsweredFacts
<1>2. /\ SagaOK(s) /\ StackOK(s) /\ SnapshotTaken(s) /\ saga[s].verdict = "none"
  BY <1>1, WorkflowFacts DEF SagaOK
<1>3. Unwinds(s) /\ Unwinds(s)' /\ ~RolledBack(s)'
  BY <1>1, <1>2 DEF Unwinds, RolledBack
<1>4. PICK d \in 0 .. 5, h \in 1 .. 6 : d = saga[s].done /\ h = Height(s) /\ h <= d + 1
  BY <1>1, <1>3, Counts
<1>5. SagaOK(s)'
  <2>1. SnapshotTaken(s)'
    BY <1>1, <1>2 DEF SnapshotTaken
  <2> QED  BY <1>1, <1>2, <2>1 DEF SagaOK, Moving
<1>6. StackOK(s)'
  <2>1. \A k \in 1 .. Height(s) : saga[s].stack[k] = Intents(request[s])[k]
    BY <1>2 DEF StackOK
  <2>2. \A k \in 1 .. h - 1 : saga'[s].stack[k] = Intents(request'[s])[k]
    BY <1>1, <1>4, <2>1
  <2>3. Height(s)' = h - 1 /\ h - 1 <= 6 /\ d < 6 /\ h - 1 <= d + 1
    BY <1>1, <1>4
  <2> QED  BY <1>1, <1>3, <1>4, <2>2, <2>3 DEF StackOK, PlanLength
<1>7. /\ Forwards(s) = d + 1 /\ Forwards(s)' = d + 1
      /\ Restores(s) = d + 1 - h + 1 /\ Restores(s)' = d + 1 - (h - 1) + 0
  BY <1>1, <1>3, <1>4 DEF Forwards, Restores
<1>8. /\ Forwards(s)' \in Int /\ Forwards(s) <= Forwards(s)'
      /\ Restores(s)' \in Int /\ Restores(s) <= Restores(s)'
  BY <1>4, <1>7
<1> QED  BY <1>1, <1>5, <1>6, <1>8, ReceivingStep

\* A step of the proxy between the call and the answer.
LEMMA ControlProxyStep ==
    ASSUME Control, NEW s \in Sagas, ProxyStep(s), UNCHANGED <<request, saga>>
    PROVE  Control' /\ SentKept
<1>1. /\ UNCHANGED <<cluster, entity, bounds, call>>
      /\ timeouts' = timeouts \/ (timeouts' = timeouts + 1 /\ timeouts < MaxTimeouts)
      /\ wire' \subseteq wire \union call[s]
      /\ \E r \in {"waiting", "failed"} : reply' = [reply EXCEPT ![s] = r]
      /\ tries' = tries \/ (tries[s] < MaxTries /\ tries' = [tries EXCEPT ![s] = @ + 1])
  BY DEF ProxyStep, TryAgain, GiveUp, Refused, NotHeard
<1>2. call[s] # {} /\ reply[s] # "none"
  BY WorkflowFacts DEF ProxyStep, TryAgain, GiveUp, Refused, NotHeard
<1>3. /\ reply \in [Sagas -> Reply] /\ call \in [Sagas -> SUBSET Update]
      /\ tries \in [Sagas -> 1..MaxTries] /\ timeouts \in 0..MaxTimeouts
      /\ wire \subseteq Update /\ "waiting" \in Reply /\ "failed" \in Reply
      /\ saga \in [Sagas -> Progress]
  BY Typed DEF Reply, Answers
<1>4. /\ reply' \in [Sagas -> Reply] /\ wire' \subseteq Update
      /\ timeouts' \in 0..MaxTimeouts
      /\ \A t \in Sagas \ {s} : reply'[t] = reply[t]
      /\ reply'[s] # "none"
  <2>1. PICK r \in {"waiting", "failed"} : reply' = [reply EXCEPT ![s] = r]
    BY <1>1
  <2>2. /\ reply' \in [Sagas -> Reply] /\ reply'[s] = r
        /\ \A t \in Sagas \ {s} : reply'[t] = reply[t]
    BY <1>3, <2>1
  <2>3. timeouts' \in 0..MaxTimeouts
    <3>1. CASE timeouts' = timeouts
      BY <1>3, <3>1
    <3>2. CASE timeouts' # timeouts
      <4>1. timeouts' = timeouts + 1 /\ timeouts < MaxTimeouts
        BY <1>1, <3>2
      <4> QED  BY <1>3, <4>1, ProxyAssumption
    <3> QED  BY <3>1, <3>2
  <2>4. call[s] \subseteq Update
    BY <1>3
  <2> QED  BY <1>1, <1>3, <2>2, <2>3, <2>4
<1>5. tries' \in [Sagas -> 1..MaxTries]
  <2>1. CASE tries' = tries
    BY <1>3, <2>1
  <2>2. CASE tries[s] < MaxTries /\ tries' = [tries EXCEPT ![s] = @ + 1]
    <3>1. tries[s] + 1 \in 1..MaxTries
      BY <1>3, <2>2, ProxyAssumption
    <3> QED  BY <1>3, <2>2, <3>1
  <2> QED  BY <1>1, <2>1, <2>2
<1>6. SagaOK(s)' /\ StackOK(s)' /\ CallOK(s)'
  BY <1>1, <1>2, <1>4, WorkflowKept
<1>7. \A k \in 1 .. 12 : Sent(s, k) => Sent(s, k)' /\ Numbered(s, k)' = Numbered(s, k)
  BY <1>1, OthersNumbersKept
<1>8. \A update \in Update : update \in wire' => update \in wire \/ Genuine(update)'
  <2>1. ASSUME NEW update \in Update, update \in call[s] PROVE Genuine(update)'
    <3>1. update.id = <<s, PresentStep(s)>> /\ Genuine(update) /\ PresentStep(s) \in 1 .. 12
      BY <2>1, CallIsGenuine
    <3>2. update.id[1] = s /\ update.id[2] \in 1 .. 12
      BY <3>1
    <3> QED  BY <1>7, <3>1, <3>2 DEF Genuine
  <2> QED  BY <1>1, <2>1
<1>9. Forwards(s)' = Forwards(s) /\ Restores(s)' = Restores(s)
      /\ Forwards(s) \in 0 .. 6 /\ Restores(s) \in 0 .. 6
  BY <1>1, Counts DEF Forwards, Restores, Unwinds, RolledBack, Height
<1>10. /\ Forwards(s)' \in Int /\ Forwards(s) <= Forwards(s)'
       /\ Restores(s)' \in Int /\ Restores(s) <= Restores(s)'
  BY <1>9
<1>11. /\ DOMAIN saga'[s].statuses \subseteq FamiliesOf(request[s])
       /\ call' \in [Sagas -> SUBSET Update] /\ saga' \in [Sagas -> Progress]
       /\ \A t \in Sagas \ {s} : call'[t] = call[t] /\ saga'[t] = saga[t]
       /\ saga'[s] = saga[s]
  BY <1>1, <1>3, WorkflowFacts
<1> QED
  BY <1>1, <1>4, <1>5, <1>6, <1>8, <1>10, <1>11, OwnStep

-----------------------------------------------------------------------------
(* The steps of an actor, and of the network.                              *)

LEMMA TellFacts ==
    ASSUME Control, NEW ids, NEW a \in Answers \union {"aborted"}, Tell(ids, a)
    PROVE  /\ reply' \in [Sagas -> Reply]
           /\ \A t \in Sagas : (reply'[t] = "none") <=> (reply[t] = "none")
<1>1. reply \in [Sagas -> Reply] /\ a \in Reply /\ a # "none"
  BY Typed DEF Reply, Answers
<1>2. /\ DOMAIN reply' = Sagas
      /\ \A t \in Sagas : (reply'[t] = a /\ reply[t] = "waiting") \/ reply'[t] = reply[t]
  BY DEF Tell
<1>3. reply' \in [Sagas -> Reply]
  BY <1>1 DEF Tell
<1> QED  BY <1>1, <1>2, <1>3

\* No number is given out or changed by an actor or the network.
LEMMA NumbersStand ==
    ASSUME Control, UNCHANGED <<request, saga, call>>
    PROVE  SentKept
<1>1. ASSUME NEW t \in Sagas
      PROVE  \A k \in 1 .. 12 : Sent(t, k) => Sent(t, k)' /\ Numbered(t, k)' = Numbered(t, k)
  BY OthersNumbersKept
<1> QED  BY <1>1 DEF SentKept

\* A step at one family, whether of its actor or of the network.
LEMMA FamilyStep ==
    ASSUME Control, NEW f \in Families,
           UNCHANGED <<request, saga, call, tries, timeouts>>,
           ClusterTypeOK', wire' \subseteq wire,
           reply' \in [Sagas -> Reply],
           \A t \in Sagas : (reply'[t] = "none") <=> (reply[t] = "none"),
           actor' \in [Families -> {"absent", "starting", "ready"}],
           cache' \in [Families -> FamilyState \union {"unset"}],
           queue' \in [Families -> Seq(Update)],
           steps' \in [Families -> Seq(Operation)],
           attempt' \in [Families -> 1..MaxAttempts],
           finished' \in [Families -> SUBSET [id : UpdateKey, answer : Answers]],
           ran' \subseteq UpdateKey, twice' \subseteq ran',
           mishaps' \in 0..MaxMishaps, endedRuns' \in 0..MaxEndedRuns,
           \A g \in Families \ {f} :
                /\ actor'[g] = actor[g] /\ queue'[g] = queue[g]
                /\ steps'[g] = steps[g] /\ finished'[g] = finished[g],
           QueueOK(f)', HandlerOK(f)'
    PROVE  Control' /\ SentKept
<1>1. SentKept
  BY NumbersStand
<1>2. TypeOK'
  <2>1. ProxyTypeOK'
    BY Typed DEF ActorTypeOK, ProxyTypeOK, Reply
  <2>2. \A t \in Sagas : DOMAIN saga'[t].statuses \subseteq FamiliesOf(request'[t])
    BY WorkflowFacts
  <2> QED  BY <2>1, <2>2, Typed DEF TypeOK
<1>3. \A t \in Sagas : SagaOK(t)' /\ StackOK(t)' /\ CallOK(t)'
  BY WorkflowKept
<1>4. \A update \in Update : update \in wire' => Genuine(update)'
  BY <1>1, Typed, GenuineKept DEF Control
<1>5. \A g \in Families : QueueOK(g)' /\ HandlerOK(g)'
  <2>1. ASSUME NEW g \in Families \ {f} PROVE QueueOK(g)' /\ HandlerOK(g)'
    BY <1>1, QueueKept, HandlerKept
  <2> QED  BY <2>1
<1>6. wire' \subseteq Update
  BY Typed
<1> QED  BY <1>1, <1>2, <1>3, <1>4, <1>5, <1>6 DEF Control

\* What an update with a number that has been given out asks for.
LEMMA NumberedFacts ==
    ASSUME Control, NEW s \in Sagas, NEW k \in 1 .. 12, Sent(s, k)
    PROVE  LET update == Numbered(s, k)
           IN  \/ update.command \in {"pause", "resume"}
               \/ update.command = "patch" /\ update.config # {}
               \/ /\ update.command = "restore"
                  /\ update.desired = {} /\ \E c : update.config = {c}
               \/ /\ update.command = "restore"
                  /\ update.desired \in {{"SUSPENDED"}, {"RUNNING"}} /\ update.config = {}
<1>1. request[s] \in MoveDatatypeRequest
  BY WorkflowFacts
<1>2. CASE k \in 1 .. 6
  <2>1. Plan(request[s])[k].command \in {"pause", "patch", "resume"}
    <3>1. k \in {1, 2} \/ k \in {3, 4} \/ k \in {5, 6}
      BY <1>2
    <3> QED  BY <1>1, <1>2, <3>1, IntentFamily
  <2>2. Numbered(s, k) = ForwardUpdate(s, k)
    BY <1>2 DEF Numbered, PlanLength
  <2> QED  BY <2>1, <2>2 DEF ForwardUpdate
<1>3. CASE k \notin 1 .. 6
  <2>1. k \in 7 .. 6 + Restores(s) /\ Restores(s) \in 0 .. 6
    BY <1>3, Counts DEF Sent, PlanLength
  <2>2. Unwinds(s)
    BY <2>1, Counts
  <2>3. /\ Height(s) \in 0 .. saga[s].done + 1 /\ saga[s].done \in 0 .. 5
        /\ Moving(s) \/ call[s] = {}
        /\ SagaOK(s) /\ StackOK(s) /\ saga[s].stack \in Seq(IntentType)
        /\ saga[s].pc \in {"unwinding", "ended"}
    BY <2>2, Counts, WorkflowFacts
  <2>4. call[s] # {} => Height(s) # 0
    <3>1. call[s] # {} => saga[s].stack # <<>>
      BY <2>3 DEF StackOK, Moving
    <3> QED  BY <2>3, <3>1, EmptySeq DEF Height
  <2>5. Place(s, k) \in 1 .. 6
    <3>1. PICK d \in 0 .. 5, h \in 0 .. 6 : d = saga[s].done /\ h = Height(s) /\ h <= d + 1
      BY <2>3
    <3>2. Restores(s) = d + 1 - h + IF call[s] = {} THEN 0 ELSE 1
      BY <2>2, <3>1 DEF Restores
    <3>3. Restores(s) <= d + 1
      BY <2>4, <3>1, <3>2
    <3>4. Place(s, k) = d + 2 - (k - 6)
      BY <3>1 DEF Place, PlanLength
    <3> QED  BY <2>1, <3>1, <3>3, <3>4
  <2> DEFINE intent == Intents(request[s])[Place(s, k)]
             base == saga[s].statuses[intent.family]
             update == Numbered(s, k)
  <2>6. update = RestoreUpdate(s, k)
    BY <2>1 DEF Numbered, PlanLength
  <2>7. intent.label \in {"resume", "revert", "pause"} /\ intent.family \in FamiliesOf(request[s])
    BY <1>1, <2>5, IntentFamily, IntentsByPosition DEF IntentType
  <2>8. SnapshotTaken(s)
    BY <2>3 DEF SagaOK
  <2>9. base.state \in {"RUNNING", "SUSPENDED"}
    BY <2>7, <2>8 DEF SnapshotTaken, FamilyStatus, FamilyState
  <2>10. /\ update.command = "restore"
         /\ intent.label = "revert" => update.desired = {} /\ update.config = {base.datatypes}
         /\ intent.label = "resume" => update.desired = {base.state} /\ update.config = {}
         /\ intent.label = "pause" => update.desired = {"SUSPENDED"} /\ update.config = {}
    <3>1. update = [id |-> <<s, k>>, family |-> intent.family, command |-> "restore",
                    desired |-> CASE intent.label = "revert" -> {}
                                  [] intent.label = "resume" -> {base.state}
                                  [] intent.label = "pause"  -> {"SUSPENDED"},
                    config |-> IF intent.label = "revert" THEN {base.datatypes} ELSE {}]
      BY <2>6 DEF RestoreUpdate
    <3> HIDE DEF intent, base, update
    <3> QED  BY <3>1
  <2> HIDE DEF intent, base
  <2> QED  BY <2>7, <2>9, <2>10
<1> QED  BY <1>2, <1>3

\* What the update that has the lock asks for, and by which number it is known.
LEMMA ServedCommand ==
    ASSUME Control, NEW f \in Families, queue[f] # <<>>
    PROVE  LET update == Serving(f)
           IN  /\ \/ update.command \in {"pause", "resume"}
                  \/ update.command = "patch" /\ update.config # {}
                  \/ /\ update.command = "restore"
                     /\ update.desired = {} /\ \E c : update.config = {c}
                  \/ /\ update.command = "restore"
                     /\ update.desired \in {{"SUSPENDED"}, {"RUNNING"}} /\ update.config = {}
               /\ Sent(update.id[1], update.id[2])
               /\ Numbered(update.id[1], update.id[2]).family = f
<1>1. Serving(f).id \in UpdateKey /\ Genuine(Serving(f)) /\ Serving(f).family = f
  BY BeingServed
<1>2. PICK s \in Sagas, k \in 1 .. 12 : s = Serving(f).id[1] /\ k = Serving(f).id[2]
  BY <1>1 DEF UpdateKey, PlanLength
<1>3. Sent(s, k) /\ Serving(f) = Numbered(s, k)
  BY <1>1, <1>2 DEF Genuine
<1> DEFINE update == Numbered(s, k)
<1>4. \/ update.command \in {"pause", "resume"}
      \/ update.command = "patch" /\ update.config # {}
      \/ /\ update.command = "restore"
         /\ update.desired = {} /\ \E c : update.config = {c}
      \/ /\ update.command = "restore"
         /\ update.desired \in {{"SUSPENDED"}, {"RUNNING"}} /\ update.config = {}
  BY <1>3, NumberedFacts
<1>5. update = Serving(f) /\ update.family = f
  BY <1>1, <1>3
<1> HIDE DEF update
<1>6. Sent(update.id[1], update.id[2]) /\ Numbered(update.id[1], update.id[2]).family = f
  BY <1>2, <1>3, <1>5 DEF update
<1> QED  BY <1>4, <1>5, <1>6

\* What the end of a handler changes.
LEMMA FinishFacts ==
    ASSUME Control, NEW f \in Families, queue[f] # <<>>, NEW a \in Answers, Finish(f, a)
    PROVE  /\ reply' \in [Sagas -> Reply]
           /\ \A t \in Sagas : (reply'[t] = "none") <=> (reply[t] = "none")
           /\ queue' \in [Families -> Seq(Update)]
           /\ queue'[f] = Tail(queue[f])
           /\ \A g \in Families \ {f} : queue'[g] = queue[g]
           /\ finished' \in [Families -> SUBSET [id : UpdateKey, answer : Answers]]
           /\ finished'[f] = finished[f] \union {[id |-> Serving(f).id, answer |-> a]}
           /\ \A g \in Families \ {f} : finished'[g] = finished[g]
           /\ steps' \in [Families -> Seq(Operation)]
           /\ steps'[f] = <<>>
           /\ \A g \in Families \ {f} : steps'[g] = steps[g]
           /\ attempt' \in [Families -> 1..MaxAttempts]
<1>0. /\ queue \in [Families -> Seq(Update)]
      /\ finished \in [Families -> SUBSET [id : UpdateKey, answer : Answers]]
      /\ steps \in [Families -> Seq(Operation)] /\ attempt \in [Families -> 1..MaxAttempts]
      /\ Serving(f).id \in UpdateKey
  BY Typed, BeingServed
<1>1. /\ Tell({Serving(f).id}, a)
      /\ finished' = [finished EXCEPT ![f] = @ \union {[id |-> Serving(f).id, answer |-> a]}]
      /\ queue' = [queue EXCEPT ![f] = Tail(@)]
      /\ steps' = [steps EXCEPT ![f] = <<>>]
      /\ attempt' = [attempt EXCEPT ![f] = 1]
  BY DEF Finish
<1>2. /\ reply' \in [Sagas -> Reply]
      /\ \A t \in Sagas : (reply'[t] = "none") <=> (reply[t] = "none")
  BY <1>1, TellFacts
<1>3. Tail(queue[f]) \in Seq(Update)
  BY <1>0, Dequeue
<1>4. /\ queue' \in [Families -> Seq(Update)] /\ queue'[f] = Tail(queue[f])
      /\ \A g \in Families \ {f} : queue'[g] = queue[g]
  BY <1>0, <1>1, <1>3
<1>5. PICK d \in [id : UpdateKey, answer : Answers] : d = [id |-> Serving(f).id, answer |-> a]
  BY <1>0
<1>6. /\ finished' \in [Families -> SUBSET [id : UpdateKey, answer : Answers]]
      /\ finished'[f] = finished[f] \union {d}
      /\ \A g \in Families \ {f} : finished'[g] = finished[g]
  <2>1. finished' = [finished EXCEPT ![f] = finished[f] \union {d}]
    BY <1>1, <1>5
  <2>2. finished[f] \union {d} \in SUBSET [id : UpdateKey, answer : Answers]
    BY <1>0
  <2> QED  BY <1>0, <2>1, <2>2
<1>7. /\ steps' \in [Families -> Seq(Operation)] /\ steps'[f] = <<>>
      /\ \A g \in Families \ {f} : steps'[g] = steps[g]
  BY <1>0, <1>1, StepsAsSequences
<1>8. attempt' \in [Families -> 1..MaxAttempts]
  BY <1>0, <1>1, TemporalAssumption
<1> QED  BY <1>2, <1>4, <1>5, <1>6, <1>7, <1>8

\* The actor remembers the update that it has finished, and the next is served.
LEMMA FinishingStep ==
    ASSUME Control, NEW f \in Families, queue[f] # <<>>, NEW a \in Answers, Finish(f, a),
           UNCHANGED <<actor, wire, request, saga, call, tries, timeouts>>,
           ClusterTypeOK',
           cache' \in [Families -> FamilyState \union {"unset"}],
           ran' \subseteq UpdateKey, twice' \subseteq ran',
           mishaps' \in 0..MaxMishaps, endedRuns' \in 0..MaxEndedRuns
    PROVE  Control' /\ SentKept
<1>1. SentKept
  BY NumbersStand
<1>2. queue[f] \in Seq(Update) /\ queue'[f] = Tail(queue[f])
  BY Typed, FinishFacts
<1>3. \A k \in DOMAIN queue'[f] :
        k + 1 \in DOMAIN queue[f] /\ k + 1 # 1 /\ queue'[f][k] = queue[f][k + 1]
  BY <1>2, Dequeue
<1>4. \A j, k \in DOMAIN queue[f] : queue[f][j].id = queue[f][k].id => j = k
  BY DEF Control, QueueOK
<1>5. ASSUME NEW k \in DOMAIN queue'[f]
      PROVE  (Genuine(queue[f][k]) /\ queue[f][k].family = f)'
  <2>1. k + 1 \in DOMAIN queue[f] /\ queue'[f][k] = queue[f][k + 1]
    BY <1>3, <1>5
  <2>2. PICK update \in Update :
            update = queue[f][k + 1] /\ Genuine(update) /\ update.family = f
    BY <2>1, QueuedUpdate
  <2>3. Genuine(update)' /\ queue'[f][k] = update
    BY <1>1, <2>1, <2>2, GenuineKept
  <2> QED  BY <2>2, <2>3
<1>6. ASSUME NEW j \in DOMAIN queue'[f], NEW k \in DOMAIN queue'[f],
             queue'[f][j].id = queue'[f][k].id
      PROVE  j = k
  <2>1. j + 1 = k + 1
    BY <1>3, <1>4, <1>6
  <2>2. j \in Nat /\ k \in Nat
    BY <1>2, Dequeue, QueueDomain
  <2> QED  BY <2>1, <2>2
<1>7. ASSUME NEW done \in finished'[f]
      PROVE  /\ Sent(done.id[1], done.id[2])'
             /\ (Numbered(done.id[1], done.id[2]).family)' = f
             /\ ~InLine(f, done.id)'
  <2>1. CASE done \in finished[f]
    <3>1. ~InLine(f, done.id)
      BY <2>1 DEF Control, QueueOK
    <3>2. ~InLine(f, done.id)'
      BY <1>3, <3>1 DEF InLine
    <3> QED  BY <1>1, <2>1, <3>2, MemoryKept
  <2>2. CASE done.id = Serving(f).id
    <3>1. Serving(f).id \in UpdateKey /\ 1 \in DOMAIN queue[f] /\ Serving(f) = queue[f][1]
      BY BeingServed
    <3>2. PICK s \in Sagas, k \in 1 .. 12 : done.id[1] = s /\ done.id[2] = k
      BY <2>2, <3>1 DEF UpdateKey, PlanLength
    <3>3. Sent(s, k) /\ Numbered(s, k).family = f
      BY <2>2, <3>2, ServedCommand
    <3>4. Sent(s, k)' /\ Numbered(s, k)' = Numbered(s, k)
      BY <1>1, <3>3 DEF SentKept
    <3>5. ~InLine(f, done.id)'
      BY <1>3, <1>4, <2>2, <3>1 DEF InLine
    <3> QED  BY <3>2, <3>3, <3>4, <3>5
  <2> QED  BY <2>1, <2>2, FinishFacts
<1>8. QueueOK(f)'
  BY <1>5, <1>6, <1>7 DEF QueueOK
<1>9. HandlerOK(f)'
  BY FinishFacts DEF HandlerOK, Busy
<1> QED  BY <1>8, <1>9, FinishFacts, FamilyStep, Typed

\* What the actor sets out to do about the update, and when it does nothing.
LEMMA HandlerDecides ==
    ASSUME Control, NEW f \in Families, queue[f] # <<>>
    PROVE  LET update == Serving(f)  todo == HandlerSteps(f, Serving(f))
           IN  /\ update.command = "pause" => todo \in {<<>>, PauseSteps}
               /\ update.command = "resume" => todo \in {<<>>, <<"resume_job">>}
               /\ update.command = "patch" => todo = <<"patch_configmap">>
               /\ update.command = "restore" /\ update.desired = {} =>
                    todo \in {<<>>, <<"patch_configmap">>}
               /\ update.command = "restore" /\ update.desired = {"SUSPENDED"} =>
                    todo \in {<<>>, PauseSteps}
               /\ update.command = "restore" /\ update.desired = {"RUNNING"} =>
                    todo \in {<<>>, <<"resume_job">>}
<1> DEFINE update == Serving(f)  todo == HandlerSteps(f, update)
           a == RestoreStateSteps(f, update.desired)
           b == RestoreConfigSteps(f, update.config)
<1>1. /\ update.command = "pause" => todo \in {<<>>, PauseSteps}
      /\ update.command = "resume" => todo \in {<<>>, <<"resume_job">>}
      /\ update.command = "patch" => todo = <<"patch_configmap">>
      /\ update.command = "restore" => todo = a \o b
  BY DEF HandlerSteps
<1>2. ASSUME update.command = "restore", update.desired = {}
      PROVE  todo \in {<<>>, <<"patch_configmap">>}
  <2>1. a = <<>>
    BY <1>2 DEF RestoreStateSteps
  <2>2. b \in {<<>>, <<"patch_configmap">>}
    BY DEF RestoreConfigSteps
  <2> HIDE DEF a, b
  <2>3. b \in Seq(Operation)
    BY <2>2, StepsAsSequences
  <2>4. a \o b = b
    BY <2>1, <2>3, ConcatEmptySeq
  <2> QED  BY <1>1, <1>2, <2>2, <2>4
<1>3. ASSUME update.command = "restore", update.desired \in {{"SUSPENDED"}, {"RUNNING"}}
      PROVE  /\ update.desired = {"SUSPENDED"} => todo \in {<<>>, PauseSteps}
             /\ update.desired = {"RUNNING"} => todo \in {<<>>, <<"resume_job">>}
  <2>1. update.config = {}
    BY <1>3, ServedCommand
  <2>2. b = <<>>
    BY <2>1 DEF RestoreConfigSteps
  <2>3. state[f] \in {"RUNNING", "SUSPENDED"}
    BY Typed DEF ClusterTypeOK, FamilyState
  <2>4. /\ update.desired = {"SUSPENDED"} => a \in {<<>>, PauseSteps}
        /\ update.desired = {"RUNNING"} => a \in {<<>>, <<"resume_job">>}
    BY <1>3, <2>3 DEF RestoreStateSteps
  <2> HIDE DEF a, b
  <2>5. a \in Seq(Operation)
    BY <1>3, <2>4, StepsAsSequences
  <2>6. a \o b = a
    BY <2>2, <2>5, ConcatEmptySeq
  <2> QED  BY <1>1, <1>3, <2>4, <2>6
<1> QED  BY <1>1, <1>2, <1>3

\* A busy actor is about to make one of the four operations, and there is a
\* second one only in the middle of a pause.
LEMMA StepsLeft ==
    ASSUME Control, NEW f \in Families, Busy(f)
    PROVE  /\ queue[f] # <<>>
           /\ actor[f] = "ready"
           /\ \/ steps[f] = PauseSteps
              \/ steps[f] = <<"suspend_job">>
              \/ steps[f] = <<"resume_job">>
              \/ steps[f] = <<"patch_configmap">>
           /\ steps[f] # PauseSteps => Len(steps[f]) = 1
           /\ Len(steps[f]) # 1 => steps[f] = PauseSteps
           /\ Tail(steps[f]) \in Seq(Operation)
           /\ Head(steps[f]) \in Operation
<1>1. queue[f] # <<>> /\ actor[f] = "ready" /\ HandlerOK(f)
  BY DEF Control, HandlerOK
<1>2. \/ steps[f] = PauseSteps
      \/ steps[f] = <<"suspend_job">>
      \/ steps[f] = <<"resume_job">>
      \/ steps[f] = <<"patch_configmap">>
  <2>1. \/ Serving(f).command \in {"pause", "resume", "patch"}
        \/ Serving(f).command = "restore" /\ Serving(f).desired \in {{}, {"SUSPENDED"}, {"RUNNING"}}
    BY <1>1, ServedCommand
  <2> QED  BY <1>1, <2>1 DEF HandlerOK, PauseLeft
<1>3. <<>> \in Seq(Operation) /\ <<"suspend_job">> \in Seq(Operation)
  BY StepsAsSequences
<1> QED  BY <1>1, <1>2, <1>3, StepsAsSequences

\* The effect of an activity, whoever still hears of it.
LEMMA EffectTyped ==
    ASSUME Control, NEW f \in Families, Busy(f), Effect(f)
    PROVE  ClusterTypeOK'
<1>1. ClusterTypeOK /\ Serving(f) \in Update
  BY Typed, StepsLeft, BeingServed
<1>2. Serving(f).config \subseteq SUBSET Datatypes
  BY <1>1 DEF Update
<1>3. PICK config \in SUBSET Datatypes : Mutate(Head(steps[f]), f, config)
  BY <1>2 DEF Effect
<1> QED
  BY <1>1, <1>3 DEF Mutate, TriggerSavepoint, SuspendJob, ResumeJob, PatchConfigmap, Commit,
     ClusterTypeOK, FamilyState

LEMMA AttemptTyped ==
    ASSUME Control, NEW f \in Families, NEW outcome, Attempt(f, outcome)
    PROVE  ClusterTypeOK' /\ mishaps' \in 0..MaxMishaps
<1>1. mishaps' \in 0..MaxMishaps
  <2>1. mishaps \in 0..MaxMishaps
    BY Typed
  <2> QED  BY <2>1, TemporalAssumption DEF Attempt
<1>2. CASE UNCHANGED cluster
  BY <1>1, <1>2, Typed DEF ClusterTypeOK, cluster
<1>3. CASE Effect(f)
  BY <1>1, <1>3, EffectTyped DEF Attempt
<1> QED  BY <1>2, <1>3 DEF Attempt

LEMMA ControlAdopt ==
    ASSUME Control, NEW f \in Families, Adopt(f), UNCHANGED <<tries, timeouts, request, saga>>
    PROVE  Control' /\ SentKept
<1>1. /\ UNCHANGED <<cluster, queue, steps, attempt, finished, wire, call, reply,
                     ran, twice, mishaps, endedRuns>>
      /\ actor' = [actor EXCEPT ![f] = "ready"]
      /\ cache' = [cache EXCEPT ![f] = state[f]]
  BY DEF Adopt, bounds
<1>2. /\ actor' \in [Families -> {"absent", "starting", "ready"}] /\ actor'[f] = "ready"
      /\ \A g \in Families \ {f} : actor'[g] = actor[g]
      /\ cache' \in [Families -> FamilyState \union {"unset"}]
      /\ ClusterTypeOK'
  BY <1>1, Typed DEF ClusterTypeOK, cluster
<1>3. QueueOK(f)' /\ HandlerOK(f)'
  BY <1>1, <1>2, NumbersStand, QueueKept, HandlerKept
<1> QED  BY <1>1, <1>2, <1>3, Typed, FamilyStep

LEMMA ControlEnter ==
    ASSUME Control, NEW f \in Families, Enter(f), UNCHANGED <<tries, timeouts, request, saga>>
    PROVE  Control' /\ SentKept
<1> DEFINE update == Serving(f)  todo == HandlerSteps(f, update)
<1>1. /\ queue[f] # <<>> /\ ~Busy(f) /\ actor[f] = "ready"
      /\ cache' = [cache EXCEPT ![f] = CacheAtStart(f, update)]
      /\ ran' = ran \union {update.id}
      /\ twice' = twice \union (ran \intersect {update.id})
      /\ UNCHANGED <<cluster, actor, wire, call, mishaps, endedRuns>>
      /\ IF todo = <<>> THEN Finish(f, "unchanged")
         ELSE steps' = [steps EXCEPT ![f] = todo] /\ UNCHANGED <<queue, attempt, finished, reply>>
  BY DEF Enter, bounds
<1>2. /\ cache' \in [Families -> FamilyState \union {"unset"}]
      /\ ran' \subseteq UpdateKey /\ twice' \subseteq ran'
      /\ ClusterTypeOK'
      /\ mishaps' \in 0..MaxMishaps /\ endedRuns' \in 0..MaxEndedRuns
  <2>1. CacheAtStart(f, update) \in FamilyState \union {"unset"}
    BY Typed DEF CacheAtStart, ClusterTypeOK
  <2>2. cache' \in [Families -> FamilyState \union {"unset"}]
    BY <1>1, <2>1, Typed
  <2>3. update.id \in UpdateKey
    BY <1>1, BeingServed
  <2> HIDE DEF update
  <2>4. ran' \subseteq UpdateKey /\ twice' \subseteq ran'
    BY <1>1, <2>3, Typed
  <2> QED  BY <1>1, <2>2, <2>4, Typed DEF ClusterTypeOK, cluster
<1>3. CASE todo = <<>>
  <2>1. Finish(f, "unchanged") /\ "unchanged" \in Answers
    BY <1>1, <1>3 DEF Answers
  <2> QED  BY <1>1, <1>2, <2>1, FinishingStep
<1>4. CASE todo # <<>>
  <2>1. steps' = [steps EXCEPT ![f] = todo] /\ UNCHANGED <<queue, attempt, finished, reply>>
    BY <1>1, <1>4
  <2>2. /\ update.command = "pause" => todo = PauseSteps
        /\ update.command = "resume" => todo = <<"resume_job">>
        /\ update.command = "patch" => todo = <<"patch_configmap">>
        /\ update.command = "restore" /\ update.desired = {} => todo = <<"patch_configmap">>
        /\ update.command = "restore" /\ update.desired = {"SUSPENDED"} => todo = PauseSteps
        /\ update.command = "restore" /\ update.desired = {"RUNNING"} => todo = <<"resume_job">>
    BY <1>1, <1>4, HandlerDecides
  <2>3. \/ update.command \in {"pause", "resume", "patch"}
        \/ update.command = "restore" /\ update.desired \in {{}, {"SUSPENDED"}, {"RUNNING"}}
    BY <1>1, ServedCommand
  <2> HIDE DEF todo
  <2>4. todo \in Seq(Operation)
    BY <2>2, <2>3, StepsAsSequences
  <2>5. /\ steps' \in [Families -> Seq(Operation)] /\ steps'[f] = todo
        /\ \A g \in Families \ {f} : steps'[g] = steps[g]
    BY <2>1, <2>4, Typed
  <2>6. HandlerOK(f)'
    <3>1. Serving(f)' = update
      BY <2>1 DEF Serving
    <3> HIDE DEF update
    <3>2. queue'[f] # <<>> /\ actor'[f] = "ready"
      BY <1>1, <2>1
    <3> QED  BY <2>2, <2>5, <3>1, <3>2 DEF HandlerOK, PauseLeft
  <2>7. QueueOK(f)'
    BY <1>1, <2>1, NumbersStand, QueueKept
  <2> QED  BY <1>1, <1>2, <2>1, <2>5, <2>6, <2>7, Typed, FamilyStep
<1> QED  BY <1>3, <1>4

LEMMA ControlStepReturns ==
    ASSUME Control, NEW f \in Families, StepReturns(f),
           UNCHANGED <<tries, timeouts, request, saga>>
    PROVE  Control' /\ SentKept
<1>1. /\ Busy(f) /\ Attempt(f, "ok")
      /\ UNCHANGED <<actor, wire, call, ran, twice, endedRuns>>
      /\ cache' = [cache EXCEPT ![f] = CacheAfter(f, Head(steps[f]))]
  BY DEF StepReturns, Attempt
<1>2. ClusterTypeOK' /\ mishaps' \in 0..MaxMishaps
  BY <1>1, AttemptTyped
<1>3. cache' \in [Families -> FamilyState \union {"unset"}]
  <2>1. Head(steps[f]) \in Operation
    BY <1>1, StepsLeft
  <2>2. CacheAfter(f, Head(steps[f])) \in FamilyState \union {"unset"}
    BY <2>1, Typed DEF CacheAfter, Operation, FamilyState
  <2> QED  BY <1>1, <2>2, Typed
<1>4. CASE Len(steps[f]) = 1
  <2>1. Finish(f, "changed") /\ queue[f] # <<>> /\ "changed" \in Answers
    BY <1>1, <1>4, StepsLeft DEF StepReturns, Answers
  <2> QED  BY <1>1, <1>2, <1>3, <2>1, Typed, FinishingStep
<1>5. CASE Len(steps[f]) # 1
  <2>1. /\ steps' = [steps EXCEPT ![f] = Tail(@)]
        /\ attempt' = [attempt EXCEPT ![f] = 1]
        /\ UNCHANGED <<queue, finished, reply>>
    BY <1>5 DEF StepReturns
  <2>2. steps[f] = PauseSteps /\ queue[f] # <<>> /\ Tail(steps[f]) \in Seq(Operation)
    BY <1>1, <1>5, StepsLeft
  <2>3. /\ steps' \in [Families -> Seq(Operation)] /\ steps'[f] = <<"suspend_job">>
        /\ \A g \in Families \ {f} : steps'[g] = steps[g]
    BY <2>1, <2>2, Typed, StepsAsSequences
  <2>4. attempt' \in [Families -> 1..MaxAttempts]
    BY <2>1, Typed, TemporalAssumption
  <2>5. HandlerOK(f)'
    <3>1. Serving(f)' = Serving(f) /\ queue'[f] # <<>> /\ actor'[f] = actor[f]
      BY <1>1, <2>1, <2>2 DEF Serving
    <3>2. steps[f] # <<"resume_job">> /\ steps[f] # <<"patch_configmap">>
      BY <2>2, StepsAsSequences
    <3>3. HandlerOK(f)
      BY DEF Control
    <3> QED  BY <1>1, <2>3, <3>1, <3>2, <3>3 DEF HandlerOK, PauseLeft
  <2>6. QueueOK(f)'
    BY <1>1, <2>1, NumbersStand, QueueKept
  <2> QED  BY <1>1, <1>2, <1>3, <2>1, <2>3, <2>4, <2>5, <2>6, Typed, FamilyStep
<1> QED  BY <1>4, <1>5

LEMMA ControlStepRetried ==
    ASSUME Control, NEW f \in Families, NEW outcome \in Outcome, StepRetried(f, outcome),
           UNCHANGED <<tries, timeouts, request, saga>>
    PROVE  Control' /\ SentKept
<1>1. /\ Attempt(f, outcome)
      /\ UNCHANGED <<actor, wire, call, ran, twice, endedRuns, cache, queue, steps,
                     finished, reply>>
      /\ attempt[f] < MaxAttempts /\ attempt' = [attempt EXCEPT ![f] = @ + 1]
  BY DEF StepRetried, Attempt
<1>2. ClusterTypeOK' /\ mishaps' \in 0..MaxMishaps
  BY <1>1, AttemptTyped
<1>3. attempt' \in [Families -> 1..MaxAttempts]
  BY <1>1, Typed, TemporalAssumption
<1>4. QueueOK(f)' /\ HandlerOK(f)'
  BY <1>1, NumbersStand, QueueKept, HandlerKept
<1> QED  BY <1>1, <1>2, <1>3, <1>4, Typed, FamilyStep

LEMMA ControlStepFails ==
    ASSUME Control, NEW f \in Families, NEW outcome \in Outcome, StepFails(f, outcome),
           UNCHANGED <<tries, timeouts, request, saga>>
    PROVE  Control' /\ SentKept
<1>1. /\ Busy(f) /\ Attempt(f, outcome) /\ Finish(f, "failed") /\ "failed" \in Answers
      /\ UNCHANGED <<actor, wire, call, ran, twice, endedRuns, cache>>
  BY DEF StepFails, Attempt, Answers
<1>2. ClusterTypeOK' /\ mishaps' \in 0..MaxMishaps /\ queue[f] # <<>>
  BY <1>1, AttemptTyped, StepsLeft
<1> QED  BY <1>1, <1>2, Typed, FinishingStep

\* A run ends: what it had accepted is aborted, and what it knew is forgotten.
LEMMA ControlEndRun ==
    ASSUME Control, NEW f \in Families, Rollover(f) \/ Stop(f),
           UNCHANGED <<tries, timeouts, request, saga>>
    PROVE  Control' /\ SentKept
<1>1. /\ endedRuns < MaxEndedRuns /\ endedRuns' = endedRuns + 1
      /\ Tell({u.id : u \in ToSet(queue[f])}, "aborted")
      /\ queue' = [queue EXCEPT ![f] = <<>>]
      /\ steps' = [steps EXCEPT ![f] = <<>>]
      /\ attempt' = [attempt EXCEPT ![f] = 1]
      /\ finished' = [finished EXCEPT ![f] = {}]
      /\ UNCHANGED <<wire, call, ran, twice, mishaps>>
      /\ actor' = actor \/ actor' = [actor EXCEPT ![f] = "absent"]
      /\ cache' = cache \/ cache' = [cache EXCEPT ![f] = "unset"]
      /\ UNCHANGED cluster \/ (Busy(f) /\ Effect(f))
  BY DEF Rollover, Stop, EndRun
<1>2. /\ reply' \in [Sagas -> Reply]
      /\ \A t \in Sagas : (reply'[t] = "none") <=> (reply[t] = "none")
  BY <1>1, TellFacts
<1>3. /\ queue' \in [Families -> Seq(Update)] /\ queue'[f] = <<>>
      /\ \A g \in Families \ {f} : queue'[g] = queue[g]
  <2>1. <<>> \in Seq(Update)
    OBVIOUS
  <2> QED  BY <1>1, <2>1, Typed
<1>4. /\ steps' \in [Families -> Seq(Operation)] /\ steps'[f] = <<>>
      /\ \A g \in Families \ {f} : steps'[g] = steps[g]
  BY <1>1, Typed, StepsAsSequences
<1>5. /\ finished' \in [Families -> SUBSET [id : UpdateKey, answer : Answers]]
      /\ finished'[f] = {}
      /\ \A g \in Families \ {f} : finished'[g] = finished[g]
  BY <1>1, Typed
<1>6. /\ attempt' \in [Families -> 1..MaxAttempts]
      /\ endedRuns' \in 0..MaxEndedRuns
  BY <1>1, Typed, TemporalAssumption
<1>7. /\ actor' \in [Families -> {"absent", "starting", "ready"}]
      /\ \A g \in Families \ {f} : actor'[g] = actor[g]
      /\ cache' \in [Families -> FamilyState \union {"unset"}]
  BY <1>1, Typed
<1>8. ClusterTypeOK'
  <2>1. CASE UNCHANGED cluster
    BY <2>1, Typed DEF ClusterTypeOK, cluster
  <2> QED  BY <1>1, <2>1, EffectTyped
<1>9. QueueOK(f)' /\ HandlerOK(f)'
  BY <1>3, <1>4, <1>5 DEF QueueOK, HandlerOK, Busy
<1> QED  BY <1>1, <1>2, <1>3, <1>4, <1>5, <1>6, <1>7, <1>8, <1>9, Typed, FamilyStep

\* A request arrives, for the first time or again, in time or late.
LEMMA ControlDeliver ==
    ASSUME Control, NEW update \in wire, Deliver(update), UNCHANGED <<request, saga>>
    PROVE  Control' /\ SentKept
<1>0. update \in Update /\ Genuine(update)
  BY Typed DEF Control
<1>1. PICK f \in Families : update.family = f
  BY <1>0 DEF Update
<1> DEFINE known == {done \in finished[f] : done.id = update.id}
           extends == known = {} /\ ~InLine(f, update.id)
<1>2. /\ wire' = wire \ {update}
      /\ IF known = {} THEN UNCHANGED reply
         ELSE Tell({update.id}, (CHOOSE done \in known : TRUE).answer)
      /\ actor' = [actor EXCEPT ![f] = IF @ = "absent" THEN "starting" ELSE @]
      /\ UNCHANGED <<cluster, cache, steps, attempt, finished, ran, twice, mishaps, endedRuns,
                     call, tries, timeouts>>
  BY <1>1 DEF Deliver, bounds
<1>3. queue' = [queue EXCEPT ![f] = IF extends THEN Append(@, update) ELSE @]
  <2>1. queue' = [queue EXCEPT ![f] =
                    IF known # {} \/ \E u \in ToSet(queue[f]) : u.id = update.id
                    THEN queue[f] ELSE Append(queue[f], update)]
    BY <1>1 DEF Deliver
  <2>2. (\E u \in ToSet(queue[f]) : u.id = update.id) <=> InLine(f, update.id)
    BY DEF ToSet, InLine
  <2> QED  BY <2>1, <2>2
<1>4. /\ reply' \in [Sagas -> Reply]
      /\ \A t \in Sagas : (reply'[t] = "none") <=> (reply[t] = "none")
  <2>1. CASE known = {}
    BY <1>2, <2>1, Typed
  <2>2. CASE known # {}
    <3>1. (CHOOSE done \in known : TRUE) \in known
      BY <2>2
    <3>2. (CHOOSE done \in known : TRUE).answer \in Answers
      BY <3>1, Typed
    <3> HIDE DEF known
    <3> QED  BY <1>2, <2>2, <3>2, TellFacts
  <2> QED  BY <2>1, <2>2
<1>5. /\ actor' \in [Families -> {"absent", "starting", "ready"}]
      /\ \A g \in Families \ {f} : actor'[g] = actor[g]
      /\ actor[f] = "ready" => actor'[f] = "ready"
  BY <1>2, Typed
<1>6. /\ queue[f] \in Seq(Update) /\ queue \in [Families -> Seq(Update)]
      /\ Append(queue[f], update) \in Seq(Update)
      /\ \A k \in DOMAIN Append(queue[f], update) :
            \/ k \in DOMAIN queue[f] /\ Append(queue[f], update)[k] = queue[f][k]
            \/ /\ k = Len(queue[f]) + 1 /\ k \notin DOMAIN queue[f]
               /\ Append(queue[f], update)[k] = update
      /\ Append(queue[f], update) # <<>>
      /\ queue[f] # <<>> => Head(Append(queue[f], update)) = Head(queue[f])
  <2>1. queue \in [Families -> Seq(Update)] /\ queue[f] \in Seq(Update)
    BY Typed
  <2> QED  BY <1>0, <2>1, Enqueue
<1>7. /\ queue' \in [Families -> Seq(Update)]
      /\ queue'[f] = IF extends THEN Append(queue[f], update) ELSE queue[f]
      /\ \A g \in Families \ {f} : queue'[g] = queue[g]
  BY <1>3, <1>6
<1>8. SentKept
  BY <1>2, NumbersStand
<1>9. QueueOK(f)'
  <2>1. CASE ~extends
    BY <1>2, <1>7, <1>8, <2>1, QueueKept
  <2>2. CASE extends
    <3>1. \A k \in DOMAIN queue'[f] :
            \/ k \in DOMAIN queue[f] /\ queue'[f][k] = queue[f][k]
            \/ k = Len(queue[f]) + 1 /\ queue'[f][k] = update
      BY <1>6, <1>7, <2>2
    <3>2. \A k \in DOMAIN queue[f] : queue[f][k].id # update.id
      BY <2>2 DEF InLine
    <3>3. ASSUME NEW k \in DOMAIN queue'[f]
          PROVE  (Genuine(queue[f][k]) /\ queue[f][k].family = f)'
      <4>1. CASE k \in DOMAIN queue[f] /\ queue'[f][k] = queue[f][k]
        <5>1. PICK u \in Update : u = queue[f][k] /\ Genuine(u) /\ u.family = f
          BY <4>1, QueuedUpdate
        <5> QED  BY <1>8, <4>1, <5>1, GenuineKept
      <4>2. CASE queue'[f][k] = update
        BY <1>0, <1>1, <1>8, <4>2, GenuineKept
      <4> QED  BY <3>1, <3>3, <4>1, <4>2
    <3>4. \A j, k \in DOMAIN queue[f] : queue[f][j].id = queue[f][k].id => j = k
      BY DEF Control, QueueOK
    <3>5. \A j, k \in DOMAIN queue'[f] : queue'[f][j].id = queue'[f][k].id => j = k
      BY <3>1, <3>2, <3>4
    <3>6. ASSUME NEW done \in finished'[f]
          PROVE  /\ Sent(done.id[1], done.id[2])'
                 /\ (Numbered(done.id[1], done.id[2]).family)' = f
                 /\ ~InLine(f, done.id)'
      <4>1. done \in finished[f]
        BY <1>2, <3>6
      <4>2. ~InLine(f, done.id) /\ done.id # update.id
        BY <2>2, <4>1 DEF Control, QueueOK
      <4>3. ~InLine(f, done.id)'
        BY <3>1, <4>2 DEF InLine
      <4> QED  BY <1>8, <4>1, <4>3, MemoryKept
    <3> QED  BY <3>3, <3>5, <3>6 DEF QueueOK
  <2> QED  BY <2>1, <2>2
<1>10. HandlerOK(f)'
  <2>1. queue[f] # <<>> => queue'[f] # <<>> /\ Head(queue'[f]) = Head(queue[f])
    BY <1>6, <1>7
  <2> QED  BY <1>2, <1>5, <2>1, HandlerKept
<1>11. ClusterTypeOK'
  BY <1>2, Typed DEF ClusterTypeOK, cluster
<1>12. /\ UNCHANGED <<call, tries, timeouts, request, saga>> /\ wire' \subseteq wire
       /\ \A g \in Families \ {f} : steps'[g] = steps[g] /\ finished'[g] = finished[g]
  BY <1>2
<1>13. /\ cache' \in [Families -> FamilyState \union {"unset"}]
       /\ steps' \in [Families -> Seq(Operation)]
       /\ attempt' \in [Families -> 1..MaxAttempts]
       /\ finished' \in [Families -> SUBSET [id : UpdateKey, answer : Answers]]
       /\ ran' \subseteq UpdateKey /\ twice' \subseteq ran'
       /\ mishaps' \in 0..MaxMishaps /\ endedRuns' \in 0..MaxEndedRuns
  BY <1>2, Typed
<1> HIDE DEF extends, known
<1> QED  BY <1>4, <1>5, <1>7, <1>9, <1>10, <1>11, <1>12, <1>13, FamilyStep

-----------------------------------------------------------------------------
(* Control is inductive.                                                   *)

LEMMA ControlInit == Init => Control
<1> SUFFICES ASSUME Init PROVE Control
  OBVIOUS
<1>1. Fresh \in Progress
  <2>1. <<>> \in [{} -> FamilyStatus]
    OBVIOUS
  <2>2. <<>> \in UNION {[seen -> FamilyStatus] : seen \in SUBSET Families}
    BY <2>1
  <2> DEFINE maps == UNION {[seen -> FamilyStatus] : seen \in SUBSET Families}
  <2>3. /\ <<>> \in maps /\ <<>> \in Seq(IntentType) /\ 0 \in 0..PlanLength
        /\ {} \in SUBSET IntentType /\ "none" \in Verdict
    BY <2>2 DEF PlanLength, Verdict
  <2> HIDE DEF maps
  <2>4. Progress = [pc : {"idle", "read source", "read target", "validating",
                          "forward", "unwinding", "ended"},
                    statuses : maps, done : 0..PlanLength, stack : Seq(IntentType),
                    compensated : SUBSET IntentType, noops : SUBSET IntentType,
                    errors : SUBSET IntentType, verdict : Verdict]
    BY DEF Progress, maps
  <2> QED  BY <2>3, <2>4 DEF Fresh
<1>2. saga = [s \in Sagas |-> Fresh] /\ request \in [Sagas -> MoveDatatypeRequest]
  BY DEF Init
<1>3. TypeOK
  <2>1. ClusterTypeOK
    BY DEF Init, Seed, ClusterTypeOK, FamilyState
  <2>2. ProxyTypeOK
    <3>1. /\ 1 \in 1..MaxAttempts /\ 1 \in 1..MaxTries /\ 0 \in 0..MaxMishaps
          /\ 0 \in 0..MaxEndedRuns /\ 0 \in 0..MaxTimeouts
      BY TemporalAssumption, ProxyAssumption
    <3> QED  BY <3>1 DEF Init, ProxyInit, ActorInit, ProxyTypeOK, ActorTypeOK
  <2>3. \A s \in Sagas : DOMAIN saga[s].statuses \subseteq FamiliesOf(request[s])
    BY <1>2 DEF Fresh
  <2> QED  BY <1>1, <1>2, <2>1, <2>2, <2>3 DEF TypeOK
<1>4. ASSUME NEW s \in Sagas PROVE SagaOK(s) /\ StackOK(s) /\ CallOK(s)
  <2>1. /\ saga[s].pc = "idle" /\ saga[s].statuses = <<>> /\ saga[s].done = 0
        /\ saga[s].stack = <<>> /\ saga[s].errors = {} /\ saga[s].verdict = "none"
        /\ reply[s] = "none" /\ call[s] = {}
    BY <1>2 DEF Fresh, Init, ProxyInit, ActorInit
  <2> QED
    BY <2>1 DEF SagaOK, StackOK, CallOK, Moving, Height, Unwinds, RolledBack, PlanLength
<1>5. ASSUME NEW f \in Families PROVE QueueOK(f) /\ HandlerOK(f)
  <2>1. queue[f] = <<>> /\ steps[f] = <<>> /\ finished[f] = {}
    BY DEF Init, ProxyInit, ActorInit
  <2> QED  BY <2>1 DEF QueueOK, HandlerOK, Busy
<1>6. wire = {}
  BY DEF Init, ProxyInit, ActorInit
<1> QED  BY <1>3, <1>4, <1>5, <1>6 DEF Control

LEMMA ControlStutter ==
    ASSUME Control, UNCHANGED vars
    PROVE  Control'
<1>1. /\ UNCHANGED <<cluster, request, saga, call, reply, tries, timeouts, wire>>
      /\ UNCHANGED <<actor, cache, queue, steps, attempt, finished, ran, twice>>
      /\ UNCHANGED <<mishaps, endedRuns>>
  BY DEF vars, proxyVars, entity, bounds
<1>2. TypeOK'
  BY <1>1 DEF Control, TypeOK, ClusterTypeOK, ProxyTypeOK, ActorTypeOK, cluster
<1>3. SentKept
  BY <1>1, NumbersStand
<1>4. \A s \in Sagas : SagaOK(s)' /\ StackOK(s)' /\ CallOK(s)'
  BY <1>1, WorkflowKept
<1>5. \A update \in Update : update \in wire' => Genuine(update)'
  BY <1>1, <1>3, Typed, GenuineKept DEF Control
<1>6. \A f \in Families : QueueOK(f)' /\ HandlerOK(f)'
  BY <1>1, <1>3, QueueKept, HandlerKept
<1>7. wire' \subseteq Update
  BY <1>1, Typed
<1> QED  BY <1>2, <1>4, <1>5, <1>6, <1>7 DEF Control

\* A number that has been given out is given out for good.
LEMMA StepKeepsNumbers ==
    ASSUME Control, Next
    PROVE  Control' /\ SentKept
<1>1. ASSUME NEW s \in Sagas, Start(s) \/ SagaStep(s) PROVE Control' /\ SentKept
  BY <1>1, ControlStart, ControlReads, ControlTurns, ControlCallStep, ControlStepAnswered,
     ControlCallRestore, ControlRestoreAnswered DEF SagaStep
<1>2. ASSUME NEW s \in Sagas, ProxyStep(s), UNCHANGED <<request, saga>>
      PROVE  Control' /\ SentKept
  BY <1>2, ControlProxyStep
<1>3. ASSUME NEW u \in wire, Deliver(u), UNCHANGED <<request, saga>>
      PROVE  Control' /\ SentKept
  BY <1>3, ControlDeliver
<1>4. ASSUME NEW f \in Families, ActorStep(f) PROVE Control' /\ SentKept
  <2>1. UNCHANGED <<tries, timeouts, request, saga>>
    BY <1>4 DEF ActorStep
  <2>2. CASE Adopt(f)
    BY <2>1, <2>2, ControlAdopt
  <2>3. CASE Enter(f)
    BY <2>1, <2>3, ControlEnter
  <2>4. CASE StepReturns(f)
    BY <2>1, <2>4, ControlStepReturns
  <2>5. CASE \E outcome \in Outcome : StepRetried(f, outcome)
    BY <2>1, <2>5, ControlStepRetried
  <2>6. CASE \E outcome \in Outcome : StepFails(f, outcome)
    BY <2>1, <2>6, ControlStepFails
  <2>7. CASE Rollover(f) \/ Stop(f)
    BY <2>1, <2>7, ControlEndRun
  <2> QED  BY <1>4, <2>2, <2>3, <2>4, <2>5, <2>6, <2>7 DEF ActorStep, HandlerStep
<1> QED  BY <1>1, <1>2, <1>3, <1>4 DEF Next

LEMMA ControlNext == Control /\ [Next]_vars => Control'
BY StepKeepsNumbers, ControlStutter

\* Every workflow always knows where it is, and whatever a proxy, the network
\* or an actor holds under a number is the update of that number: for any
\* number of moves that overlap in any way, and any retries, late deliveries
\* and ends of runs.
THEOREM TemporalKeepsControl == Spec => []Control
<1>1. Init => Control
  BY ControlInit
<1>2. Control /\ [Next]_vars => Control'
  BY ControlNext
<1> QED  BY <1>1, <1>2, PTL DEF Spec

\* Type correctness of the workflows, their proxies, the actors and the cluster.
THEOREM TemporalIsTyped == Spec => []TypeOK
<1>1. Control => TypeOK
  BY DEF Control
<1> QED  BY <1>1, TemporalKeepsControl, PTL

-----------------------------------------------------------------------------
(* What a step leaves alone of the cluster and of the handlers.            *)

\* A workflow and its proxy touch neither the cluster nor the actors.
LEMMA OwnFrame ==
    ASSUME NEW s \in Sagas, Start(s) \/ SagaStep(s) \/ ProxyStep(s)
    PROVE  UNCHANGED <<cluster, entity, bounds>>
<1>1. Start(s) => UNCHANGED <<cluster, entity, bounds>>
  BY DEF Start, Alone, proxyVars
<1>2. ProxyStep(s) => UNCHANGED <<cluster, entity, bounds>>
  BY DEF ProxyStep, TryAgain, GiveUp, Refused
<1>3. ReadSource(s) \/ ReadTarget(s) => UNCHANGED <<cluster, entity, bounds>>
  BY DEF ReadSource, ReadTarget, ReadFamily, Alone, proxyVars
<1>4. Reject(s) \/ Accept(s) \/ Complete(s) \/ Unwound(s) =>
            UNCHANGED <<cluster, entity, bounds>>
  BY DEF Reject, Accept, Complete, Unwound, Alone, proxyVars
<1>5. CallStep(s) \/ CallRestore(s) => UNCHANGED <<cluster, entity, bounds>>
  BY DEF CallStep, CallCurrentStep, CallRestore, Command, Send
<1>6. StepAnswered(s) \/ StepFailed(s) \/ RestoreAnswered(s) =>
            UNCHANGED <<cluster, entity, bounds>>
  BY DEF StepAnswered, StepFailed, RestoreAnswered, Receive
<1> QED  BY <1>1, <1>2, <1>3, <1>4, <1>5, <1>6 DEF SagaStep

\* The network touches no cluster, and no update that is being carried out.
LEMMA DeliverFrame ==
    ASSUME Control, NEW update \in wire, Deliver(update)
    PROVE  /\ UNCHANGED <<cluster, steps, finished, ran, twice, endedRuns>>
           /\ \A f \in Families :
                queue[f] # <<>> => queue'[f] # <<>> /\ Head(queue'[f]) = Head(queue[f])
<1>1. PICK f \in Families : f = update.family
  BY Typed DEF Update
<1>2. /\ UNCHANGED <<cluster, steps, finished, ran, twice, endedRuns>>
      /\ \E line \in {queue[f], Append(queue[f], update)} : queue' = [queue EXCEPT ![f] = line]
  BY <1>1 DEF Deliver, bounds
<1>3. PICK line \in {queue[f], Append(queue[f], update)} : queue' = [queue EXCEPT ![f] = line]
  BY <1>2
<1>4. queue \in [Families -> Seq(Update)] /\ queue[f] \in Seq(Update) /\ update \in Update
  BY Typed
<1>5. queue[f] # <<>> => line # <<>> /\ Head(line) = Head(queue[f])
  BY <1>4, Enqueue
<1>6. queue'[f] = line /\ \A g \in Families \ {f} : queue'[g] = queue[g]
  BY <1>3, <1>4
<1> QED  BY <1>2, <1>5, <1>6

\* What the activity at the head of the steps does to the cluster.
LEMMA EffectFacts ==
    ASSUME Control, NEW f \in Families, Busy(f), Effect(f)
    PROVE  /\ \A g \in Families \ {f} :
                /\ state'[g] = state[g]
                /\ savepoint'[g] = savepoint[g] /\ generation'[g] = generation[g]
           /\ Head(steps[f]) = "trigger_savepoint" =>
                savepoint'[f] # 0 /\ savepoint'[f] = generation'[f]
           /\ Head(steps[f]) = "suspend_job" => state'[f] = "SUSPENDED"
           /\ Head(steps[f]) = "resume_job" => state'[f] = "RUNNING"
           /\ Head(steps[f]) \in {"trigger_savepoint", "patch_configmap"} =>
                state'[f] = state[f]
<1>1. /\ state \in [Families -> FamilyState]
      /\ generation \in [Families -> Nat] /\ savepoint \in [Families -> Nat]
  BY Typed DEF ClusterTypeOK
<1>2. PICK config : Mutate(Head(steps[f]), f, config)
  BY DEF Effect
<1>3. generation'[f] = generation[f] + 1
      /\ \A g \in Families \ {f} : generation'[g] = generation[g]
  BY <1>1, <1>2 DEF Mutate, TriggerSavepoint, SuspendJob, ResumeJob, PatchConfigmap, Commit
<1>4. CASE Head(steps[f]) = "trigger_savepoint"
  BY <1>1, <1>2, <1>3, <1>4 DEF Mutate, TriggerSavepoint
<1>5. CASE Head(steps[f]) = "suspend_job"
  BY <1>1, <1>2, <1>3, <1>5 DEF Mutate, SuspendJob
<1>6. CASE Head(steps[f]) = "resume_job"
  BY <1>1, <1>2, <1>3, <1>6 DEF Mutate, ResumeJob
<1>7. CASE Head(steps[f]) = "patch_configmap"
  BY <1>1, <1>2, <1>3, <1>7 DEF Mutate, PatchConfigmap
<1> QED  BY <1>2, <1>4, <1>5, <1>6, <1>7 DEF Mutate

LEMMA AttemptFacts ==
    ASSUME Control, NEW f \in Families, NEW outcome, Attempt(f, outcome)
    PROVE  /\ Busy(f) /\ queue[f] # <<>>
           /\ UNCHANGED <<ran, twice, endedRuns>>
           /\ UNCHANGED cluster \/ (Committed(outcome) /\ Effect(f))
  BY StepsLeft DEF Attempt

\* A step of an actor ends its handler, ends its run, or goes on.
LEMMA ActorCases ==
    ASSUME Control, NEW f \in Families, ActorStep(f)
    PROVE  /\ UNCHANGED cluster \/ (Busy(f) /\ Effect(f))
           /\ \/ /\ queue[f] # <<>>
                 /\ \E a \in Answers : Finish(f, a)
              \/ /\ EndRun(f)
              \/ /\ queue' = queue /\ finished' = finished
                 /\ \A g \in Families \ {f} : steps'[g] = steps[g]
<1>1. steps \in [Families -> Seq(Operation)]
  BY Typed
<1>2. CASE Adopt(f)
  BY <1>2 DEF Adopt
<1>3. CASE Enter(f)
  BY <1>1, <1>3 DEF Enter, Answers
<1>4. CASE StepReturns(f)
  <2>1. Attempt(f, "ok")
    BY <1>4 DEF StepReturns
  <2> QED  BY <1>1, <1>4, <2>1, AttemptFacts DEF StepReturns, Answers
<1>5. ASSUME NEW outcome \in Outcome, StepRetried(f, outcome)
      PROVE  /\ UNCHANGED <<queue, finished, steps>>
             /\ UNCHANGED cluster \/ (Busy(f) /\ Effect(f))
  BY <1>5, AttemptFacts DEF StepRetried
<1>6. ASSUME NEW outcome \in Outcome, StepFails(f, outcome)
      PROVE  /\ Finish(f, "failed") /\ queue[f] # <<>> /\ "failed" \in Answers
             /\ UNCHANGED cluster \/ (Busy(f) /\ Effect(f))
  BY <1>6, AttemptFacts DEF StepFails, Answers
<1>7. CASE Rollover(f) \/ Stop(f)
  BY <1>7 DEF Rollover, Stop
<1> QED  BY <1>2, <1>3, <1>4, <1>5, <1>6, <1>7 DEF ActorStep, HandlerStep

LEMMA EndRunFacts ==
    ASSUME Control, NEW f \in Families, EndRun(f)
    PROVE  /\ endedRuns' # 0
           /\ steps'[f] = <<>>
           /\ \A g \in Families \ {f} :
                steps'[g] = steps[g] /\ queue'[g] = queue[g] /\ finished'[g] = finished[g]
  BY Typed DEF EndRun

\* A step of an actor is about its own family.
LEMMA ActorFrame ==
    ASSUME Control, NEW f \in Families, ActorStep(f), NEW g \in Families, g # f
    PROVE  /\ state'[g] = state[g]
           /\ savepoint'[g] = savepoint[g] /\ generation'[g] = generation[g]
           /\ steps'[g] = steps[g] /\ queue'[g] = queue[g] /\ finished'[g] = finished[g]
<1>1. /\ state'[g] = state[g]
      /\ savepoint'[g] = savepoint[g] /\ generation'[g] = generation[g]
  BY ActorCases, EffectFacts DEF cluster
<1>2. steps'[g] = steps[g] /\ queue'[g] = queue[g] /\ finished'[g] = finished[g]
  BY ActorCases, FinishFacts, EndRunFacts
<1> QED  BY <1>1, <1>2

-----------------------------------------------------------------------------
(* Savepoints.                                                             *)

LEMMA SavepointFreshInit == Init => SavepointFresh
  BY DEF Init, ProxyInit, ActorInit, SavepointFresh

\* What is left to do when an actor takes up an update is never half a pause.
LEMMA StepsBegun ==
    ASSUME Control, NEW f \in Families, Enter(f)
    PROVE  steps'[f] # <<"suspend_job">>
<1>0. steps \in [Families -> Seq(Operation)] /\ queue[f] # <<>>
  BY Typed DEF Enter
<1>1. CASE HandlerSteps(f, Serving(f)) = <<>>
  <2>1. Finish(f, "unchanged") /\ "unchanged" \in Answers
    BY <1>1 DEF Enter, Answers
  <2>2. steps'[f] = <<>>
    BY <1>0, <2>1, FinishFacts
  <2> QED  BY <2>2, StepsAsSequences
<1>2. CASE HandlerSteps(f, Serving(f)) # <<>>
  <2>1. \/ Serving(f).command \in {"pause", "resume", "patch"}
        \/ Serving(f).command = "restore" /\ Serving(f).desired \in {{}, {"SUSPENDED"}, {"RUNNING"}}
    BY <1>0, ServedCommand
  <2>2. HandlerSteps(f, Serving(f)) \in
            {PauseSteps, <<"resume_job">>, <<"patch_configmap">>}
    BY <1>0, <1>2, <2>1, HandlerDecides
  <2>3. steps'[f] = HandlerSteps(f, Serving(f))
    BY <1>0, <1>2 DEF Enter
  <2> QED  BY <2>2, <2>3, StepsAsSequences
<1> QED  BY <1>1, <1>2

LEMMA SavepointFreshStep ==
    ASSUME Control, SavepointFresh, NEW f \in Families, ActorStep(f)
    PROVE  SavepointFresh'
<1>1. ASSUME NEW g \in Families, g # f, steps'[g] = <<"suspend_job">>, state'[g] = "RUNNING"
      PROVE  savepoint'[g] # 0 /\ savepoint'[g] = generation'[g]
  BY <1>1, ActorFrame DEF SavepointFresh
<1>2. ASSUME steps'[f] = <<"suspend_job">>, state'[f] = "RUNNING"
      PROVE  savepoint'[f] # 0 /\ savepoint'[f] = generation'[f]
  <2>0. steps \in [Families -> Seq(Operation)]
    BY Typed
  <2>1. ~Enter(f)
    BY <1>2, StepsBegun
  <2>2. ASSUME NEW a \in Answers, queue[f] # <<>> PROVE ~Finish(f, a)
    BY <1>2, <2>2, FinishFacts, StepsAsSequences
  <2>3. CASE StepReturns(f)
    <3>1. Attempt(f, "ok") /\ Busy(f) /\ queue[f] # <<>> /\ Effect(f) /\ "changed" \in Answers
      BY <2>3, AttemptFacts DEF StepReturns, Attempt, Committed, Answers
    <3>2. Len(steps[f]) # 1
      BY <2>2, <2>3, <3>1 DEF StepReturns
    <3>3. Head(steps[f]) = "trigger_savepoint"
      BY <3>1, <3>2, StepsLeft, StepsAsSequences
    <3> QED  BY <3>1, <3>3, EffectFacts
  <2>4. ASSUME NEW outcome \in Outcome, StepRetried(f, outcome)
        PROVE  savepoint'[f] # 0 /\ savepoint'[f] = generation'[f]
    <3>1. Attempt(f, outcome) /\ steps' = steps
      BY <2>4 DEF StepRetried
    <3>2. Head(steps[f]) = "suspend_job" /\ steps[f] = <<"suspend_job">>
      BY <1>2, <3>1, StepsAsSequences
    <3>3. ~Effect(f)
      BY <1>2, <3>1, <3>2, AttemptFacts, EffectFacts
    <3>4. UNCHANGED cluster
      BY <3>1, <3>3, AttemptFacts
    <3> QED  BY <1>2, <3>2, <3>4 DEF SavepointFresh, cluster
  <2>5. CASE Adopt(f)
    BY <1>2, <2>5 DEF Adopt, SavepointFresh, cluster
  <2>6. ASSUME NEW outcome \in Outcome PROVE ~StepFails(f, outcome)
    BY <2>2, AttemptFacts DEF StepFails, Answers
  <2>7. ~(Rollover(f) \/ Stop(f))
    BY <1>2, EndRunFacts, StepsAsSequences DEF Rollover, Stop
  <2> QED  BY <2>1, <2>3, <2>4, <2>5, <2>6, <2>7 DEF ActorStep, HandlerStep
<1> QED  BY <1>1, <1>2 DEF SavepointFresh

LEMMA SavepointFreshNext == Control /\ SavepointFresh /\ [Next]_vars => SavepointFresh'
<1> SUFFICES ASSUME Control, SavepointFresh, [Next]_vars PROVE SavepointFresh'
  OBVIOUS
<1>1. CASE UNCHANGED <<cluster, steps>>
  BY <1>1 DEF SavepointFresh, cluster
<1>2. ASSUME NEW s \in Sagas, Start(s) \/ SagaStep(s) \/ ProxyStep(s)
      PROVE  UNCHANGED <<cluster, steps>>
  BY <1>2, OwnFrame DEF entity
<1>3. ASSUME NEW u \in wire, Deliver(u) PROVE UNCHANGED <<cluster, steps>>
  BY <1>3, DeliverFrame
<1>4. UNCHANGED vars => UNCHANGED <<cluster, steps>>
  BY DEF vars, proxyVars, entity
<1>5. CASE \E f \in Families : ActorStep(f)
  BY <1>5, SavepointFreshStep
<1> QED  BY <1>1, <1>2, <1>3, <1>4, <1>5 DEF Next

\* A job is suspended by the second step of a pause and nothing else, though
\* the run that made the step may have ended meanwhile.
LEMMA SuspendingStep ==
    ASSUME Control, [Next]_vars, NEW f \in Families,
           state[f] = "RUNNING", state'[f] = "SUSPENDED"
    PROVE  steps[f] = <<"suspend_job">>
<1>1. ~UNCHANGED cluster
  BY DEF cluster
<1>2. PICK g \in Families : ActorStep(g)
  BY <1>1, OwnFrame, DeliverFrame DEF Next, vars, proxyVars
<1>3. g = f
  BY <1>2, ActorFrame
<1>4. Busy(f) /\ Effect(f)
  BY <1>1, <1>2, <1>3, ActorCases
<1>5. Head(steps[f]) = "suspend_job"
  <2>1. Head(steps[f]) \in Operation
    BY <1>4, StepsLeft
  <2> QED  BY <1>4, <2>1, EffectFacts DEF Operation
<1> QED  BY <1>4, <1>5, StepsLeft, StepsAsSequences

\* For any moves that overlap in any way, any retries and late deliveries, and
\* whatever runs of the actors end, in the middle of a pause or between two: a
\* running job is suspended only right after a savepoint of it.
THEOREM SuspendsHaveSavepoints == Spec => SuspendRightAfterSavepoint
<1>1. Init => SavepointFresh
  BY SavepointFreshInit
<1>2. Control /\ SavepointFresh /\ [Next]_vars => SavepointFresh'
  BY SavepointFreshNext
<1>3. Spec => []SavepointFresh
  BY <1>1, <1>2, TemporalKeepsControl, PTL DEF Spec
<1>4. Control /\ SavepointFresh /\ [Next]_vars =>
        [\A f \in Families :
            state[f] = "RUNNING" /\ state'[f] = "SUSPENDED" =>
                savepoint[f] # 0 /\ savepoint[f] = generation[f]]_vars
  BY SuspendingStep DEF SavepointFresh
<1> QED  BY <1>3, <1>4, TemporalKeepsControl, PTL DEF Spec, SuspendRightAfterSavepoint

-----------------------------------------------------------------------------
(* Commands that have been carried out.                                    *)

\* The actor that has carried an update out, or is about to, is the one its
\* number leads to.
LEMMA OneActorPerNumber ==
    ASSUME Control, NEW f \in Families, queue[f] # <<>>, NEW g \in Families,
           \/ Remembered(g, Serving(f).id)
           \/ Busy(g) /\ Serving(g).id = Serving(f).id
    PROVE  g = f /\ Busy(f)
<1> DEFINE id == Serving(f).id
<1>1. Numbered(id[1], id[2]).family = f
  BY ServedCommand
<1>2. CASE Busy(g) /\ Serving(g).id = id
  <2>1. Numbered(id[1], id[2]).family = g
    BY <1>2, StepsLeft, ServedCommand
  <2> QED  BY <1>1, <1>2, <2>1
<1>3. CASE Remembered(g, id)
  <2>1. PICK done \in finished[g] : done.id = id
    BY <1>3 DEF Remembered
  <2>2. Numbered(id[1], id[2]).family = g /\ ~InLine(g, id)
    BY <2>1 DEF Control, QueueOK
  <2>3. 1 \in DOMAIN queue[f] /\ queue[f][1].id = id
    BY BeingServed
  <2> QED  BY <1>1, <2>2, <2>3 DEF InLine
<1> QED  BY <1>2, <1>3

\* The end of a handler is remembered, and nothing else is forgotten.
LEMMA FinishRemembers ==
    ASSUME Control, NEW f \in Families, queue[f] # <<>>, NEW a \in Answers, Finish(f, a),
           NEW id, Accounted(id) \/ id = Serving(f).id
    PROVE  Accounted(id)'
<1>1. /\ finished'[f] = finished[f] \union {[id |-> Serving(f).id, answer |-> a]}
      /\ \A g \in Families \ {f} :
            finished'[g] = finished[g] /\ queue'[g] = queue[g] /\ steps'[g] = steps[g]
  BY FinishFacts
<1>2. CASE id = Serving(f).id
  <2>1. [id |-> id, answer |-> a] \in finished'[f]
    BY <1>1, <1>2
  <2>2. Remembered(f, id)'
    BY <2>1 DEF Remembered
  <2> QED  BY <2>2 DEF Accounted
<1>3. CASE id # Serving(f).id
  <2>1. PICK g \in Families : Remembered(g, id) \/ (Busy(g) /\ Serving(g).id = id)
    BY <1>3 DEF Accounted
  <2>2. Remembered(g, id) => Remembered(g, id)'
    BY <1>1 DEF Remembered
  <2>3. Busy(g) /\ Serving(g).id = id => Busy(g)' /\ Serving(g)' = Serving(g)
    BY <1>1, <1>3 DEF Busy, Serving
  <2>4. (Remembered(g, id) \/ (Busy(g) /\ Serving(g).id = id))'
    BY <2>1, <2>2, <2>3
  <2> QED  BY <2>4 DEF Accounted
<1> QED  BY <1>2, <1>3

\* A step that finishes nothing.
LEMMA StillAccounted ==
    ASSUME finished' = finished, NEW id, Accounted(id),
           \A f \in Families : Busy(f) => Busy(f)' /\ Serving(f)' = Serving(f)
    PROVE  Accounted(id)'
<1>1. PICK f \in Families : Remembered(f, id) \/ (Busy(f) /\ Serving(f).id = id)
  BY DEF Accounted
<1>2. (Remembered(f, id) \/ (Busy(f) /\ Serving(f).id = id))'
  BY <1>1 DEF Remembered
<1> QED  BY <1>2 DEF Accounted

LEMMA RememberedEnter ==
    ASSUME Control, RunsRemembered, NEW f \in Families, Enter(f)
    PROVE  RunsRemembered'
<1> SUFFICES ASSUME endedRuns = 0
             PROVE  twice' = {} /\ \A id \in ran' : Accounted(id)'
  BY DEF RunsRemembered, Enter, bounds
<1>1. /\ queue[f] # <<>> /\ ~Busy(f)
      /\ ran' = ran \union {Serving(f).id}
      /\ twice' = twice \union (ran \intersect {Serving(f).id})
  BY DEF Enter
<1>2. twice = {} /\ \A id \in ran : Accounted(id)
  BY DEF RunsRemembered
<1>3. ~Accounted(Serving(f).id)
  BY <1>1, OneActorPerNumber DEF Accounted
<1>4. twice' = {}
  BY <1>1, <1>2, <1>3
<1>5. ASSUME NEW id, Accounted(id) \/ id = Serving(f).id PROVE Accounted(id)'
  <2> DEFINE todo == HandlerSteps(f, Serving(f))
  <2>1. CASE todo = <<>>
    <3>1. Finish(f, "unchanged") /\ "unchanged" \in Answers
      BY <2>1 DEF Enter, Answers
    <3> QED  BY <1>1, <1>5, <3>1, FinishRemembers
  <2>2. CASE todo # <<>>
    <3>1. steps' = [steps EXCEPT ![f] = todo] /\ UNCHANGED <<queue, finished>>
      BY <2>2 DEF Enter
    <3> HIDE DEF todo
    <3>2. steps'[f] # <<>> /\ \A g \in Families \ {f} : steps'[g] = steps[g]
      BY <2>2, <3>1, Typed
    <3>3. Busy(f)' /\ \A g \in Families : Serving(g)' = Serving(g)
      BY <3>1, <3>2 DEF Busy, Serving
    <3>4. CASE Accounted(id)
      <4>1. \A g \in Families : Busy(g) => Busy(g)' /\ Serving(g)' = Serving(g)
        BY <3>2, <3>3 DEF Busy
      <4> QED  BY <3>1, <3>4, <4>1, StillAccounted
    <3>5. CASE id = Serving(f).id
      <4>1. (Busy(f) /\ Serving(f).id = id)'
        BY <3>3, <3>5
      <4> QED  BY <4>1 DEF Accounted
    <3> QED  BY <1>5, <3>4, <3>5
  <2> QED  BY <2>1, <2>2
<1> QED  BY <1>1, <1>2, <1>4, <1>5

LEMMA RememberedActor ==
    ASSUME Control, RunsRemembered, NEW f \in Families, ActorStep(f), endedRuns' = 0
    PROVE  RunsRemembered'
<1>1. CASE Enter(f)
  BY <1>1, RememberedEnter
<1>2. CASE ~Enter(f)
  <2>1. UNCHANGED <<ran, twice, endedRuns>>
    <3>1. ~(Rollover(f) \/ Stop(f))
      BY EndRunFacts DEF Rollover, Stop
    <3>2. Adopt(f) => UNCHANGED <<ran, twice, endedRuns>>
      BY DEF Adopt, bounds
    <3>3. StepReturns(f) => UNCHANGED <<ran, twice, endedRuns>>
      BY DEF StepReturns, Attempt
    <3>4. \A outcome \in Outcome :
            StepRetried(f, outcome) \/ StepFails(f, outcome) => UNCHANGED <<ran, twice, endedRuns>>
      BY DEF StepRetried, StepFails, Attempt
    <3> QED  BY <1>2, <3>1, <3>2, <3>3, <3>4 DEF ActorStep, HandlerStep
  <2>2. twice = {} /\ \A id \in ran : Accounted(id)
    BY <2>1 DEF RunsRemembered
  <2>3. ASSUME NEW id \in ran PROVE Accounted(id)'
    <3>1. Accounted(id)
      BY <2>2, <2>3
    <3>2. CASE queue[f] # <<>> /\ \E a \in Answers : Finish(f, a)
      BY <3>1, <3>2, FinishRemembers
    <3>3. CASE UNCHANGED <<queue, finished>> /\ (Busy(f) => Busy(f)')
      <4>1. \A g \in Families \ {f} : steps'[g] = steps[g]
        BY ActorFrame
      <4>2. \A g \in Families : Busy(g) => Busy(g)' /\ Serving(g)' = Serving(g)
        BY <3>3, <4>1 DEF Busy, Serving
      <4> QED  BY <3>1, <3>3, <4>2, StillAccounted
    <3>4. CASE Adopt(f) \/ \E outcome \in Outcome : StepRetried(f, outcome)
      <4>1. UNCHANGED <<queue, finished, steps>>
        BY <3>4 DEF Adopt, StepRetried
      <4> QED  BY <3>3, <4>1 DEF Busy
    <3>5. CASE StepReturns(f)
      <4>1. Attempt(f, "ok") /\ Busy(f) /\ queue[f] # <<>> /\ "changed" \in Answers
        BY <3>5, AttemptFacts DEF StepReturns, Answers
      <4>2. CASE Len(steps[f]) = 1
        BY <3>2, <3>5, <4>1, <4>2 DEF StepReturns
      <4>3. CASE Len(steps[f]) # 1
        <5>1. steps' = [steps EXCEPT ![f] = Tail(@)] /\ UNCHANGED <<queue, finished>>
          BY <3>5, <4>3 DEF StepReturns
        <5>2. Tail(steps[f]) = <<"suspend_job">>
          BY <4>1, <4>3, StepsLeft, StepsAsSequences
        <5>3. steps'[f] # <<>>
          BY <5>1, <5>2, Typed, StepsAsSequences
        <5> QED  BY <3>3, <5>1, <5>3 DEF Busy
      <4> QED  BY <4>2, <4>3
    <3>6. ASSUME NEW outcome \in Outcome, StepFails(f, outcome) PROVE Accounted(id)'
      <4>1. Attempt(f, outcome) /\ Finish(f, "failed") /\ "failed" \in Answers
        BY <3>6 DEF StepFails, Answers
      <4> QED  BY <3>2, <4>1, AttemptFacts
    <3>7. ~(Rollover(f) \/ Stop(f))
      BY EndRunFacts DEF Rollover, Stop
    <3> QED  BY <1>2, <3>4, <3>5, <3>6, <3>7 DEF ActorStep, HandlerStep
  <2> QED  BY <2>1, <2>2, <2>3 DEF RunsRemembered
<1> QED  BY <1>1, <1>2

LEMMA RunsRememberedNext == Control /\ RunsRemembered /\ [Next]_vars => RunsRemembered'
<1> SUFFICES ASSUME Control, RunsRemembered, [Next]_vars, endedRuns' = 0
             PROVE  RunsRemembered'
  BY DEF RunsRemembered
<1>1. CASE \E f \in Families : ActorStep(f)
  BY <1>1, RememberedActor
<1>2. CASE /\ UNCHANGED <<steps, finished, ran, twice, endedRuns>>
           /\ \A f \in Families :
                queue[f] # <<>> => queue'[f] # <<>> /\ Head(queue'[f]) = Head(queue[f])
  <2>1. twice = {} /\ \A id \in ran : Accounted(id)
    BY <1>2 DEF RunsRemembered
  <2>2. \A f \in Families : Busy(f) => Busy(f)' /\ Serving(f)' = Serving(f)
    BY <1>2, StepsLeft DEF Busy, Serving
  <2>3. \A id \in ran : Accounted(id)'
    BY <1>2, <2>1, <2>2, StillAccounted
  <2> QED  BY <1>2, <2>1, <2>3 DEF RunsRemembered
<1>3. ASSUME NEW s \in Sagas, Start(s) \/ SagaStep(s) \/ ProxyStep(s) PROVE RunsRemembered'
  <2>1. UNCHANGED <<queue, steps, finished, ran, twice, endedRuns>>
    BY <1>3, OwnFrame DEF entity, bounds
  <2> QED  BY <1>2, <2>1
<1>4. ASSUME NEW u \in wire, Deliver(u) PROVE RunsRemembered'
  BY <1>2, <1>4, DeliverFrame
<1>5. CASE UNCHANGED vars
  <2>1. UNCHANGED <<queue, steps, finished, ran, twice, endedRuns>>
    BY <1>5 DEF vars, proxyVars, entity, bounds
  <2> QED  BY <1>2, <2>1
<1> QED  BY <1>1, <1>3, <1>4, <1>5 DEF Next

\* For any number of moves, and any timeouts, second attempts and deliveries
\* that are late or doubled: as long as no run of an actor has ended, no
\* command is carried out twice.
THEOREM CommandsRunOnce == Spec => []NoCommandRunsTwice
<1>1. Init => RunsRemembered
  BY DEF Init, ProxyInit, ActorInit, RunsRemembered
<1>2. Control /\ RunsRemembered /\ [Next]_vars => RunsRemembered'
  BY RunsRememberedNext
<1>3. RunsRemembered => NoCommandRunsTwice
  BY DEF RunsRemembered, NoCommandRunsTwice
<1> QED  BY <1>1, <1>2, <1>3, TemporalKeepsControl, PTL DEF Spec
=============================================================================
