--------------------------- MODULE RestateProofs ----------------------------
(***************************************************************************)
(* Moves on Restate, however they overlap.  Every reachable state is well  *)
(* typed, every workflow knows where it is in its plan, and every queued   *)
(* call is the one its caller waits for.  From that: a running job is      *)
(* suspended only right after a savepoint, a cache that is wrong about its *)
(* job has somebody who will put it right or has reported failing, and a   *)
(* suspended job has a move that answers for it.                           *)
(***************************************************************************)
EXTENDS RestateInvariants, PlanProofs

-----------------------------------------------------------------------------
LEMMA StepsAsSequences ==
    /\ <<>> \in Seq(Operation)
    /\ PauseSteps \in Seq(Operation) /\ PauseSteps # <<>> /\ Len(PauseSteps) = 2
    /\ Head(PauseSteps) = "trigger_savepoint" /\ Tail(PauseSteps) = <<"suspend_job">>
    /\ \A op \in Operation :
        /\ <<op>> \in Seq(Operation) /\ <<op>> # <<>> /\ Len(<<op>>) = 1
        /\ Head(<<op>>) = op /\ Tail(<<op>>) = <<>>
        /\ <<op>> # PauseSteps
    /\ "trigger_savepoint" \in Operation /\ "suspend_job" \in Operation
    /\ "resume_job" \in Operation /\ "patch_configmap" \in Operation
  BY DEF PauseSteps, Operation

-----------------------------------------------------------------------------
(* What Control says of a workflow in the middle of its move.              *)

LEMMA MoverFacts ==
    ASSUME Control, NEW s \in Sagas
    PROVE  /\ request[s] \in MoveDatatypeRequest
           /\ saga[s] \in Progress
           /\ saga[s].stack \in Seq(IntentType)
           /\ Height(s) \in 0 .. 6
           /\ saga[s].done \in 0 .. 6
           /\ reply[s] \in Reply
           /\ Moving(s) \/ reply[s] = "none"
<1>1. saga[s] \in Progress /\ request[s] \in MoveDatatypeRequest /\ reply[s] \in Reply
  BY DEF Control, TypeOK, ActorTypeOK
<1>2. saga[s].stack \in Seq(IntentType) /\ saga[s].done \in 0 .. 6
  BY <1>1 DEF Progress, PlanLength
<1>3. Len(saga[s].stack) \in Nat
  BY <1>2
<1>4. Height(s) <= 6 /\ (Moving(s) \/ reply[s] = "none")
  BY DEF Control, StackOK, SagaOK, PlanLength
<1>5. Height(s) \in Nat
  BY <1>3 DEF Height
<1>6. Height(s) \in 0 .. 6
  BY <1>4, <1>5
<1> QED  BY <1>1, <1>2, <1>4, <1>6

LEMMA TopOfStack ==
    ASSUME Control, NEW s \in Sagas, Moving(s), saga[s].stack # <<>>
    PROVE  \E n \in 1 .. 6 :
             /\ Height(s) = n
             /\ Top(s) = Intents(request[s])[n]
             /\ Top(s) \in IntentType
             /\ Top(s).label \in {"resume", "revert", "pause"}
             /\ Top(s).family = Plan(request[s])[n].family
             /\ Top(s).family \in FamiliesOf(request[s])
             /\ Top(s).family \in Families
             /\ saga[s].statuses[Top(s).family] \in FamilyStatus
<1>1. /\ request[s] \in MoveDatatypeRequest /\ saga[s].stack \in Seq(IntentType)
      /\ Height(s) \in 0 .. 6
  BY MoverFacts
<1>2. Len(saga[s].stack) \in Nat \ {0} /\ Top(s) = saga[s].stack[Len(saga[s].stack)]
      /\ Top(s) \in IntentType
  BY <1>1, PopStack, Zenon DEF Top
<1> DEFINE n == Height(s)
<1>3. n \in 1 .. 6 /\ Top(s) = saga[s].stack[n]
  BY <1>1, <1>2 DEF Height
<1>4. \A k \in 1 .. n : saga[s].stack[k] = Intents(request[s])[k]
  BY DEF Control, StackOK
<1> HIDE DEF n
<1>5. Top(s) = Intents(request[s])[n]
  BY <1>3, <1>4
<1>6. Top(s).family \in FamiliesOf(request[s]) /\ Top(s).family = Plan(request[s])[n].family
  BY <1>1, <1>3, <1>5, IntentFamily
<1>7. SnapshotTaken(s)
  BY DEF Control, SagaOK, Moving
<1>8. Top(s).family \in Families /\ saga[s].statuses[Top(s).family] \in FamilyStatus
  BY <1>6, <1>7 DEF SnapshotTaken
<1>9. Top(s).label \in {"resume", "revert", "pause"}
  BY <1>2 DEF IntentType
<1> QED  BY <1>2, <1>3, <1>5, <1>6, <1>8, <1>9 DEF n

\* A call in a queue is typed, and its caller has an intent for it.
LEMMA QueuedCall ==
    ASSUME Control, NEW f \in Families, NEW k \in DOMAIN inbox[f]
    PROVE  /\ inbox[f][k] \in Call
           /\ inbox[f][k].caller \in Sagas
           /\ CallOK(f, inbox[f][k])
           /\ Moving(inbox[f][k].caller)
           /\ reply[inbox[f][k].caller] = "waiting"
           /\ saga[inbox[f][k].caller].stack # <<>>
           /\ Top(inbox[f][k].caller).family = f
<1> DEFINE c == inbox[f][k]  s == c.caller
<1>1. inbox[f] \in Seq(Call)
  BY DEF Control, TypeOK, ActorTypeOK
<1>2. c \in Call
  BY <1>1, QueueDomain
<1>3. s \in Sagas
  BY <1>2 DEF Call
<1>4. CallOK(f, c)
  BY DEF Control, QueueOK
<1>5. Moving(s) /\ reply[s] = "waiting" /\ Top(s).family = f
  BY <1>4 DEF CallOK
<1> HIDE DEF s
<1>6. saga[s].stack # <<>>
  <2>1. CASE saga[s].pc = "forward"
    <3>1. Len(saga[s].stack) = saga[s].done + 1 /\ saga[s].done \in 0 .. 6
      BY <1>3, <1>5, <2>1, MoverFacts DEF Control, StackOK, Height
    <3> QED  BY <3>1
  <2>2. CASE saga[s].pc = "unwinding"
    BY <1>3, <1>5, <2>2 DEF Control, StackOK
  <2> QED  BY <1>5, <2>1, <2>2 DEF Moving
<1> QED  BY <1>2, <1>3, <1>4, <1>5, <1>6 DEF s

LEMMA BeingServed ==
    ASSUME Control, NEW f \in Families, inbox[f] # <<>>
    PROVE  /\ 1 \in DOMAIN inbox[f]
           /\ Serving(f) = inbox[f][1]
           /\ Serving(f) \in Call
           /\ Serving(f).caller \in Sagas
           /\ CallOK(f, Serving(f))
           /\ Moving(Serving(f).caller)
           /\ reply[Serving(f).caller] = "waiting"
           /\ saga[Serving(f).caller].stack # <<>>
           /\ Top(Serving(f).caller).family = f
<1>1. inbox[f] \in Seq(Call)
  BY DEF Control, TypeOK, ActorTypeOK
<1>2. 1 \in DOMAIN inbox[f] /\ Serving(f) = inbox[f][1]
  BY <1>1, Dequeue DEF Serving
<1> QED  BY <1>2, QueuedCall

-----------------------------------------------------------------------------
(* What a step leaves alone keeps its part of Control.                     *)

LEMMA WorkflowKept ==
    ASSUME Control, NEW t \in Sagas, saga'[t] = saga[t], request' = request,
           (reply'[t] = "none") <=> (reply[t] = "none")
    PROVE  SagaOK(t)' /\ StackOK(t)'
<1>1. SagaOK(t)'
  BY DEF Control, SagaOK, Moving, SnapshotTaken
<1>2. StackOK(t)'
  BY DEF Control, StackOK, Height
<1> QED  BY <1>1, <1>2

LEMMA CallKept ==
    ASSUME Control, NEW f \in Families, NEW j \in DOMAIN inbox[f], NEW k,
           inbox'[f][k] = inbox[f][j], request' = request,
           reply'[inbox[f][j].caller] = "waiting",
           saga'[inbox[f][j].caller] = saga[inbox[f][j].caller]
    PROVE  CallOK(f, inbox[f][k])'
<1>1. CallOK(f, inbox[f][j])
  BY QueuedCall
<1> QED  BY <1>1 DEF CallOK, Moving, Top, ForwardCall, RestoreCall

LEMMA QueueKept ==
    ASSUME Control, NEW f \in Families, UNCHANGED <<inbox, request>>,
           \A t \in Sagas : reply[t] = "waiting" =>
                saga'[t] = saga[t] /\ reply'[t] = "waiting"
    PROVE  QueueOK(f)'
<1>1. ASSUME NEW k \in DOMAIN inbox[f] PROVE CallOK(f, inbox[f][k])'
  <2>1. /\ reply'[inbox[f][k].caller] = "waiting"
        /\ saga'[inbox[f][k].caller] = saga[inbox[f][k].caller]
    BY <1>1, QueuedCall
  <2> QED  BY <1>1, <2>1, CallKept
<1>2. \A j, k \in DOMAIN inbox[f] : inbox[f][j].caller = inbox[f][k].caller => j = k
  BY DEF Control, QueueOK
<1> QED  BY <1>1, <1>2 DEF QueueOK

LEMMA HandlerKept ==
    ASSUME Control, NEW f \in Families, steps'[f] = steps[f],
           inbox[f] # <<>> => inbox'[f] # <<>> /\ Head(inbox'[f]) = Head(inbox[f])
    PROVE  HandlerOK(f)'
  BY DEF Control, HandlerOK, Busy, Serving, PauseLeft

\* A step of a workflow that sends nothing.
LEMMA OwnStep ==
    ASSUME Control, NEW s \in Sagas, reply[s] # "waiting",
           UNCHANGED <<cluster, cache, inbox, steps, attempt, mishaps, crashes,
                       resets, request>>,
           reply' \in [Sagas -> Reply], \A t \in Sagas \ {s} : reply'[t] = reply[t],
           saga' \in [Sagas -> Progress], \A t \in Sagas \ {s} : saga'[t] = saga[t],
           SagaOK(s)', StackOK(s)'
    PROVE  Control'
<1>1. TypeOK'
  BY DEF Control, TypeOK, ClusterTypeOK, ActorTypeOK, cluster
<1>2. \A t \in Sagas : SagaOK(t)' /\ StackOK(t)'
  BY WorkflowKept
<1>3. \A f \in Families : QueueOK(f)'
  BY QueueKept
<1>4. \A f \in Families : HandlerOK(f)'
  BY HandlerKept
<1> QED  BY <1>1, <1>2, <1>3, <1>4 DEF Control

\* A step of a workflow that calls object f.
LEMMA SendingStep ==
    ASSUME Control, NEW s \in Sagas, NEW f \in Families, NEW c \in Call, c.caller = s,
           reply[s] = "none",
           UNCHANGED <<cluster, cache, steps, attempt, mishaps, crashes, resets, request>>,
           inbox' = [inbox EXCEPT ![f] = Append(@, c)],
           reply' = [reply EXCEPT ![s] = "waiting"],
           saga' \in [Sagas -> Progress], \A t \in Sagas \ {s} : saga'[t] = saga[t],
           SagaOK(s)', StackOK(s)',
           Moving(s)', Top(s)'.family = f,
           saga'[s].pc = "forward" => ForwardCall(f, c)',
           saga'[s].pc = "unwinding" => RestoreCall(f, c)'
    PROVE  Control'
<1>0. /\ inbox \in [Families -> Seq(Call)] /\ reply \in [Sagas -> Reply]
      /\ inbox[f] \in Seq(Call)
  BY DEF Control, TypeOK, ActorTypeOK
<1>1. /\ inbox'[f] = Append(inbox[f], c)
      /\ inbox'[f] \in Seq(Call)
      /\ inbox'[f] # <<>>
      /\ inbox[f] # <<>> => Head(inbox'[f]) = Head(inbox[f])
      /\ \A k \in DOMAIN inbox'[f] :
            \/ k \in DOMAIN inbox[f] /\ inbox'[f][k] = inbox[f][k]
            \/ k = Len(inbox[f]) + 1 /\ k \notin DOMAIN inbox[f] /\ inbox'[f][k] = c
  BY <1>0, Enqueue
<1>2. \A g \in Families \ {f} : inbox'[g] = inbox[g]
  BY <1>0
<1>3. TypeOK'
  <2>1. inbox' \in [Families -> Seq(Call)]
    BY <1>0, <1>1
  <2>2. reply' \in [Sagas -> Reply]
    BY <1>0 DEF Reply
  <2> QED  BY <2>1, <2>2 DEF Control, TypeOK, ClusterTypeOK, ActorTypeOK, cluster
<1>4. \A t \in Sagas : t # s => reply'[t] = reply[t]
  BY <1>0
<1>5. \A t \in Sagas : SagaOK(t)' /\ StackOK(t)'
  BY <1>4, WorkflowKept
<1>6. ASSUME NEW g \in Families, NEW k \in DOMAIN inbox[g]
      PROVE  inbox[g][k].caller # s /\ inbox[g][k].caller \in Sagas
             /\ reply'[inbox[g][k].caller] = "waiting"
             /\ saga'[inbox[g][k].caller] = saga[inbox[g][k].caller]
  BY <1>4, <1>6, QueuedCall
<1>7. ASSUME NEW g \in Families, NEW k \in DOMAIN inbox'[g]
      PROVE  CallOK(g, inbox[g][k])'
  <2>1. CASE k \in DOMAIN inbox[g] /\ inbox'[g][k] = inbox[g][k]
    BY <1>6, <2>1, CallKept
  <2>2. CASE g = f /\ inbox'[g][k] = c
    <3>1. reply'[s] = "waiting"
      BY <1>0
    <3>2. CallOK(f, c)'
      BY <3>1 DEF CallOK
    <3> QED  BY <2>2, <3>2
  <2> QED  BY <1>1, <1>2, <1>7, <2>1, <2>2
<1>8. ASSUME NEW g \in Families, NEW i \in DOMAIN inbox'[g], NEW j \in DOMAIN inbox'[g],
             inbox'[g][i].caller = inbox'[g][j].caller
      PROVE  i = j
  <2>1. \A k, l \in DOMAIN inbox[g] : inbox[g][k].caller = inbox[g][l].caller => k = l
    BY DEF Control, QueueOK
  <2>2. CASE g # f
    BY <1>2, <1>8, <2>1, <2>2
  <2>3. CASE g = f
    <3>1. \A k \in DOMAIN inbox[f] : inbox[f][k].caller # s
      BY <1>6
    <3> QED  BY <1>1, <1>8, <2>1, <2>3, <3>1
  <2> QED  BY <2>2, <2>3
<1>9. \A g \in Families : QueueOK(g)'
  BY <1>7, <1>8 DEF QueueOK
<1>10. \A g \in Families : HandlerOK(g)'
  BY <1>1, <1>2, HandlerKept
<1> QED  BY <1>3, <1>5, <1>9, <1>10 DEF Control

\* A step of object f that answers nobody.
LEMMA QuietStep ==
    ASSUME Control, NEW f \in Families, UNCHANGED <<inbox, reply, request, saga>>,
           ClusterTypeOK', ActorTypeOK',
           \A g \in Families \ {f} : steps'[g] = steps[g],
           HandlerOK(f)'
    PROVE  Control'
<1>1. TypeOK'
  BY DEF Control, TypeOK
<1>2. \A t \in Sagas : SagaOK(t)' /\ StackOK(t)'
  BY WorkflowKept
<1>3. \A g \in Families : QueueOK(g)'
  BY QueueKept
<1>4. \A g \in Families : HandlerOK(g)'
  BY HandlerKept
<1> QED  BY <1>1, <1>2, <1>3, <1>4 DEF Control

\* What an answer changes.
LEMMA AnswerFacts ==
    ASSUME Control, NEW f \in Families, inbox[f] # <<>>,
           NEW a \in {"changed", "unchanged", "failed"}, Answer(f, a)
    PROVE  /\ reply' \in [Sagas -> Reply]
           /\ reply'[Serving(f).caller] = a
           /\ \A t \in Sagas : t # Serving(f).caller => reply'[t] = reply[t]
           /\ \A t \in Sagas : (reply'[t] = "none") <=> (reply[t] = "none")
           /\ inbox' \in [Families -> Seq(Call)]
           /\ inbox'[f] = Tail(inbox[f])
           /\ \A g \in Families \ {f} : inbox'[g] = inbox[g]
           /\ steps' \in [Families -> Seq(Operation)]
           /\ steps'[f] = <<>>
           /\ \A g \in Families \ {f} : steps'[g] = steps[g]
           /\ attempt' \in [Families -> 1 .. MaxAttempts]
<1>0. /\ inbox \in [Families -> Seq(Call)] /\ reply \in [Sagas -> Reply]
      /\ steps \in [Families -> Seq(Operation)] /\ attempt \in [Families -> 1 .. MaxAttempts]
  BY DEF Control, TypeOK, ActorTypeOK
<1>1. Serving(f).caller \in Sagas /\ reply[Serving(f).caller] = "waiting"
  BY BeingServed
<1> DEFINE s == Serving(f).caller
<1>2. reply' = [reply EXCEPT ![s] = a]
  BY DEF Answer
<1> HIDE DEF s
<1>3. s \in Sagas /\ reply[s] = "waiting"
  BY <1>1 DEF s
<1>4. /\ reply' \in [Sagas -> Reply] /\ reply'[s] = a
      /\ \A t \in Sagas : t # s => reply'[t] = reply[t]
  BY <1>0, <1>2, <1>3 DEF Reply
<1>5. \A t \in Sagas : (reply'[t] = "none") <=> (reply[t] = "none")
  BY <1>3, <1>4
<1>6. Tail(inbox[f]) \in Seq(Call)
  BY <1>0, Dequeue
<1>7. /\ inbox' \in [Families -> Seq(Call)] /\ inbox'[f] = Tail(inbox[f])
      /\ \A g \in Families \ {f} : inbox'[g] = inbox[g]
  BY <1>0, <1>6 DEF Answer
<1>8. /\ steps' \in [Families -> Seq(Operation)] /\ steps'[f] = <<>>
      /\ \A g \in Families \ {f} : steps'[g] = steps[g]
  <2>1. <<>> \in Seq(Operation)
    OBVIOUS
  <2> QED  BY <1>0, <2>1 DEF Answer
<1>9. attempt' \in [Families -> 1 .. MaxAttempts]
  BY <1>0, RestateAssumption DEF Answer
<1> QED  BY <1>4, <1>5, <1>7, <1>8, <1>9 DEF s

LEMMA AnsweringStep ==
    ASSUME Control, NEW f \in Families, inbox[f] # <<>>,
           NEW a \in {"changed", "unchanged", "failed"}, Answer(f, a),
           UNCHANGED <<request, saga>>, ClusterTypeOK',
           cache' \in [Families -> FamilyState \union {"unset"}],
           mishaps' \in 0 .. MaxMishaps, crashes' \in 0 .. MaxCrashes, resets' \in 0 .. MaxResets
    PROVE  Control'
<1> DEFINE s == Serving(f).caller
<1>1. TypeOK'
  BY AnswerFacts DEF Control, TypeOK, ActorTypeOK
<1>2. \A t \in Sagas : SagaOK(t)' /\ StackOK(t)'
  BY AnswerFacts, WorkflowKept
<1>3. /\ 1 \in DOMAIN inbox[f] /\ Serving(f) = inbox[f][1]
      /\ \A k \in DOMAIN inbox'[f] :
            k \in Nat /\ k + 1 # 1 /\ k + 1 \in DOMAIN inbox[f]
            /\ inbox'[f][k] = inbox[f][k + 1]
      /\ \A g \in Families \ {f} : inbox'[g] = inbox[g]
  <2>1. inbox[f] \in Seq(Call) /\ inbox'[f] = Tail(inbox[f])
    BY AnswerFacts DEF Control, TypeOK, ActorTypeOK
  <2>2. \A k \in DOMAIN Tail(inbox[f]) :
            k + 1 \in DOMAIN inbox[f] /\ k + 1 # 1 /\ Tail(inbox[f])[k] = inbox[f][k + 1]
    BY <2>1, Dequeue
  <2>3. \A k \in DOMAIN Tail(inbox[f]) : k \in Nat
    BY <2>1, Dequeue, QueueDomain
  <2> QED  BY <2>1, <2>2, <2>3, BeingServed, AnswerFacts
<1>4. ASSUME NEW g \in Families, NEW k \in DOMAIN inbox'[g]
      PROVE  \E j \in DOMAIN inbox[g] : /\ inbox'[g][k] = inbox[g][j]
                                        /\ g = f => j = k + 1
                                        /\ g # f => j = k
  <2>1. CASE g = f
    BY <1>3, <1>4, <2>1
  <2>2. CASE g # f
    BY <1>3, <1>4, <2>2
  <2> QED  BY <2>1, <2>2
<1>5. ASSUME NEW g \in Families, NEW j \in DOMAIN inbox[g], g = f => j # 1
      PROVE  inbox[g][j].caller # s
  <2>1. Top(s).family = f /\ 1 \in DOMAIN inbox[f]
    BY BeingServed
  <2>2. Top(inbox[g][j].caller).family = g
    BY <1>5, QueuedCall
  <2>3. CASE g # f
    BY <2>1, <2>2, <2>3
  <2>4. CASE g = f
    <3>1. \A k, l \in DOMAIN inbox[f] : inbox[f][k].caller = inbox[f][l].caller => k = l
      BY DEF Control, QueueOK
    <3> QED  BY <1>3, <1>5, <2>1, <2>4, <3>1
  <2> QED  BY <2>3, <2>4
<1>6. ASSUME NEW g \in Families, NEW k \in DOMAIN inbox'[g]
      PROVE  CallOK(g, inbox[g][k])'
  <2>1. PICK j \in DOMAIN inbox[g] : /\ inbox'[g][k] = inbox[g][j]
                                     /\ g = f => j = k + 1
    BY <1>4, <1>6
  <2>2. g = f => j # 1
    BY <1>3, <1>6, <2>1
  <2>3. inbox[g][j].caller # s /\ inbox[g][j].caller \in Sagas
        /\ reply[inbox[g][j].caller] = "waiting"
    BY <1>5, <2>2, QueuedCall
  <2>4. reply'[inbox[g][j].caller] = "waiting"
    BY <2>3, AnswerFacts
  <2> QED  BY <2>1, <2>4, CallKept
<1>7. ASSUME NEW g \in Families, NEW k \in DOMAIN inbox'[g], NEW l \in DOMAIN inbox'[g],
             inbox'[g][k].caller = inbox'[g][l].caller
      PROVE  k = l
  <2>1. \A i, j \in DOMAIN inbox[g] : inbox[g][i].caller = inbox[g][j].caller => i = j
    BY DEF Control, QueueOK
  <2>2. CASE g # f
    BY <1>3, <1>7, <2>1, <2>2
  <2>3. CASE g = f
    <3>1. k + 1 = l + 1
      BY <1>3, <1>7, <2>1, <2>3
    <3> QED  BY <1>3, <1>7, <2>3, <3>1
  <2> QED  BY <2>2, <2>3
<1>8. \A g \in Families : QueueOK(g)'
  BY <1>6, <1>7 DEF QueueOK
<1>9. \A g \in Families : HandlerOK(g)'
  <2>1. HandlerOK(f)'
    BY AnswerFacts DEF HandlerOK, Busy
  <2>2. \A g \in Families \ {f} : inbox'[g] = inbox[g] /\ steps'[g] = steps[g]
    BY AnswerFacts
  <2>3. \A g \in Families \ {f} : HandlerOK(g)'
    BY <2>2, HandlerKept
  <2> QED  BY <2>1, <2>3
<1> QED  BY <1>1, <1>2, <1>8, <1>9 DEF Control

-----------------------------------------------------------------------------
(* The steps of a workflow.                                                *)

\* A step of a workflow replaces its own progress.
LEMMA OneProgress ==
    ASSUME Control, NEW s \in Sagas, NEW p \in Progress, saga' = [saga EXCEPT ![s] = p]
    PROVE  /\ saga' \in [Sagas -> Progress]
           /\ saga'[s] = p
           /\ \A t \in Sagas \ {s} : saga'[t] = saga[t]
<1>1. saga \in [Sagas -> Progress]
  BY DEF Control, TypeOK
<1> QED  BY <1>1

LEMMA GotoFacts ==
    ASSUME Control, NEW s \in Sagas,
           NEW pc \in {"read source", "forward", "unwinding"}, Goto(s, pc)
    PROVE  /\ saga' \in [Sagas -> Progress]
           /\ \A t \in Sagas \ {s} : saga'[t] = saga[t]
           /\ saga'[s].pc = pc
           /\ saga'[s].verdict = saga[s].verdict
           /\ saga'[s].statuses = saga[s].statuses
           /\ saga'[s].done = saga[s].done
           /\ saga'[s].stack = saga[s].stack
           /\ saga'[s].errors = saga[s].errors
<1> DEFINE q == [saga[s] EXCEPT !.pc = pc]
<1>1. saga[s] \in Progress
  BY MoverFacts
<1>2. /\ q \in Progress /\ q.pc = pc /\ q.verdict = saga[s].verdict
      /\ q.statuses = saga[s].statuses /\ q.done = saga[s].done
      /\ q.stack = saga[s].stack /\ q.errors = saga[s].errors
  BY <1>1 DEF Progress
<1>3. saga' = [saga EXCEPT ![s] = q]
  BY DEF Goto
<1> HIDE DEF q
<1> QED  BY <1>2, <1>3, OneProgress

LEMMA EndFacts ==
    ASSUME Control, NEW s \in Sagas, NEW v \in Verdict, End(s, v)
    PROVE  /\ saga' \in [Sagas -> Progress]
           /\ \A t \in Sagas \ {s} : saga'[t] = saga[t]
           /\ saga'[s].pc = "ended"
           /\ saga'[s].verdict = v
           /\ saga'[s].statuses = saga[s].statuses
           /\ saga'[s].done = saga[s].done
           /\ saga'[s].stack = saga[s].stack
           /\ saga'[s].errors = saga[s].errors
<1> DEFINE q == [saga[s] EXCEPT !.pc = "ended", !.verdict = v]
<1>1. saga[s] \in Progress
  BY MoverFacts
<1>2. /\ q \in Progress /\ q.pc = "ended" /\ q.verdict = v
      /\ q.statuses = saga[s].statuses /\ q.done = saga[s].done
      /\ q.stack = saga[s].stack /\ q.errors = saga[s].errors
  BY <1>1 DEF Progress
<1>3. saga' = [saga EXCEPT ![s] = q]
  BY DEF End
<1> HIDE DEF q
<1> QED  BY <1>2, <1>3, OneProgress

LEMMA ControlStart ==
    ASSUME Control, NEW s \in Sagas, Start(s)
    PROVE  Control'
<1>1. /\ saga[s].pc = "idle" /\ Goto(s, "read source")
      /\ UNCHANGED <<cluster, cache, inbox, steps, attempt, reply, mishaps, crashes,
                     resets, request>>
  BY DEF Start, Alone, handlers
<1>2. saga[s] \in Progress /\ reply \in [Sagas -> Reply]
  BY DEF Control, TypeOK, ActorTypeOK
<1>3. SagaOK(s) /\ StackOK(s) /\ reply[s] = "none"
  BY <1>1 DEF Control, SagaOK, Moving
<1>4. SagaOK(s)'
  BY <1>1, <1>2, <1>3, GotoFacts DEF Progress, SagaOK, Moving
<1>5. StackOK(s)'
  BY <1>1, <1>2, <1>3, GotoFacts DEF Progress, StackOK, Height
<1> QED  BY <1>1, <1>2, <1>3, <1>4, <1>5, GotoFacts, OwnStep

LEMMA ReadingFacts ==
    ASSUME Control, NEW s \in Sagas, NEW f, NEW next \in {"read target", "validating"},
           ReadFamily(s, f, next)
    PROVE  /\ f \in Families
           /\ Read(f) \in FamilyStatus
           /\ saga' \in [Sagas -> Progress]
           /\ \A t \in Sagas \ {s} : saga'[t] = saga[t]
           /\ saga'[s].pc = next
           /\ saga'[s].verdict = saga[s].verdict
           /\ saga'[s].statuses \in [DOMAIN saga[s].statuses \union {f} -> FamilyStatus]
           /\ saga'[s].statuses[f] = Read(f)
           /\ \A g \in DOMAIN saga[s].statuses \ {f} :
                saga'[s].statuses[g] = saga[s].statuses[g]
           /\ saga'[s].done = saga[s].done
           /\ saga'[s].stack = saga[s].stack
           /\ saga'[s].errors = saga[s].errors
           /\ UNCHANGED <<cluster, cache, inbox, steps, attempt, reply, mishaps,
                          crashes, resets, request>>
<1> DEFINE seen == [g \in DOMAIN saga[s].statuses \union {f} |->
                        IF g = f THEN Read(f) ELSE saga[s].statuses[g]]
           q == [saga[s] EXCEPT !.statuses = seen, !.pc = next]
<1>1. saga[s] \in Progress
  BY MoverFacts
<1>2. f \in Families /\ Read(f) \in FamilyStatus
  BY DEF ReadFamily, Read, FamilyStatus, Control, TypeOK, ClusterTypeOK
<1>3. /\ seen \in UNION {[S -> FamilyStatus] : S \in SUBSET Families}
      /\ seen \in [DOMAIN saga[s].statuses \union {f} -> FamilyStatus]
      /\ seen[f] = Read(f)
      /\ \A g \in DOMAIN saga[s].statuses \ {f} : seen[g] = saga[s].statuses[g]
  <2>1. PICK S \in SUBSET Families : saga[s].statuses \in [S -> FamilyStatus]
    BY <1>1 DEF Progress
  <2>2. seen \in [S \union {f} -> FamilyStatus] /\ S = DOMAIN saga[s].statuses
    BY <1>2, <2>1
  <2> QED  BY <1>2, <2>2
<1>4. saga' = [saga EXCEPT ![s] = q]
  BY DEF ReadFamily
<1>5. UNCHANGED <<cluster, cache, inbox, steps, attempt, reply, mishaps,
                  crashes, resets, request>>
  BY DEF ReadFamily, Alone, handlers
<1> HIDE DEF seen
<1>6. /\ q \in Progress /\ q.pc = next /\ q.verdict = saga[s].verdict
      /\ q.statuses = seen /\ q.done = saga[s].done
      /\ q.stack = saga[s].stack /\ q.errors = saga[s].errors
  BY <1>1, <1>3 DEF Progress
<1> HIDE DEF q
<1> QED  BY <1>2, <1>3, <1>4, <1>5, <1>6, OneProgress

LEMMA ControlReads ==
    ASSUME Control, NEW s \in Sagas, ReadSource(s) \/ ReadTarget(s)
    PROVE  Control'
<1>1. reply[s] = "none" /\ SagaOK(s) /\ StackOK(s)
      /\ request[s] \in MoveDatatypeRequest /\ reply \in [Sagas -> Reply]
  BY DEF ReadSource, ReadTarget, Control, SagaOK, Moving, TypeOK, ActorTypeOK
<1>2. CASE ReadSource(s)
  <2>1. PICK f : saga[s].pc = "read source" /\ ReadFamily(s, f, "read target")
                 /\ f = request[s].source
    BY <1>2 DEF ReadSource
  <2>2. saga[s].statuses = <<>>
    BY <1>1, <2>1 DEF SagaOK
  <2>3. DOMAIN saga[s].statuses \union {f} = {f}
    BY <2>2
  <2>4. /\ f \in Families /\ saga'[s].statuses \in [{f} -> FamilyStatus]
        /\ saga' \in [Sagas -> Progress] /\ \A t \in Sagas \ {s} : saga'[t] = saga[t]
        /\ saga'[s].pc = "read target" /\ saga'[s].verdict = saga[s].verdict
        /\ saga'[s].done = saga[s].done /\ saga'[s].stack = saga[s].stack
        /\ saga'[s].errors = saga[s].errors
        /\ UNCHANGED <<cluster, cache, inbox, steps, attempt, reply, mishaps,
                       crashes, resets, request>>
    BY <2>1, <2>3, ReadingFacts
  <2>5. SagaOK(s)'
    BY <1>1, <2>1, <2>4 DEF SagaOK, Moving
  <2>6. StackOK(s)'
    BY <1>1, <2>1, <2>4 DEF StackOK, Height
  <2> QED  BY <1>1, <2>4, <2>5, <2>6, OwnStep
<1>3. CASE ReadTarget(s)
  <2>1. PICK f : saga[s].pc = "read target" /\ ReadFamily(s, f, "validating")
                 /\ f = request[s].target
    BY <1>3 DEF ReadTarget
  <2>2. request[s].source \in Families
        /\ saga[s].statuses \in [{request[s].source} -> FamilyStatus]
    BY <1>1, <2>1 DEF SagaOK
  <2>3. DOMAIN saga[s].statuses \union {f} = FamiliesOf(request[s])
    BY <2>1, <2>2 DEF FamiliesOf
  <2>4. /\ f \in Families /\ saga'[s].statuses \in [FamiliesOf(request[s]) -> FamilyStatus]
        /\ saga' \in [Sagas -> Progress] /\ \A t \in Sagas \ {s} : saga'[t] = saga[t]
        /\ saga'[s].pc = "validating" /\ saga'[s].verdict = saga[s].verdict
        /\ saga'[s].done = saga[s].done /\ saga'[s].stack = saga[s].stack
        /\ saga'[s].errors = saga[s].errors
        /\ UNCHANGED <<cluster, cache, inbox, steps, attempt, reply, mishaps,
                       crashes, resets, request>>
    BY <2>1, <2>3, ReadingFacts
  <2>5. SnapshotTaken(s)'
    BY <2>1, <2>2, <2>4 DEF SnapshotTaken, FamiliesOf
  <2>6. SagaOK(s)'
    BY <1>1, <2>1, <2>4, <2>5 DEF SagaOK, Moving
  <2>7. StackOK(s)'
    BY <1>1, <2>1, <2>4 DEF StackOK, Height
  <2> QED  BY <1>1, <2>4, <2>6, <2>7, OwnStep
<1> QED  BY <1>2, <1>3

\* Accepting a move, and the four ways in which it ends.
LEMMA ControlTurns ==
    ASSUME Control, NEW s \in Sagas,
           ReadRaises(s) \/ Reject(s) \/ Accept(s) \/ Complete(s) \/ Unwound(s)
    PROVE  Control'
<1>1. SagaOK(s) /\ StackOK(s) /\ saga[s] \in Progress /\ reply \in [Sagas -> Reply]
  BY DEF Control, TypeOK, ActorTypeOK
<1>2. reply[s] = "none" /\ UNCHANGED <<cluster, cache, inbox, steps, attempt, reply,
                                      mishaps, crashes, resets, request>>
  BY <1>1 DEF ReadRaises, Reject, Accept, Complete, Unwound, Alone, handlers, SagaOK, Moving
<1>3. ASSUME NEW v \in Verdict \ {"none"}, End(s, v), saga[s].pc # "ended",
             saga[s].errors = {} \/ v = "COMPENSATION_INCOMPLETE"
      PROVE  Control'
  <2>1. SagaOK(s)'
    BY <1>1, <1>2, <1>3, EndFacts DEF SagaOK, Moving
  <2>2. StackOK(s)'
    BY <1>1, <1>2, <1>3, EndFacts DEF StackOK, Height
  <2> QED  BY <1>1, <1>2, <1>3, <2>1, <2>2, EndFacts, OwnStep
<1>4. CASE ReadRaises(s) \/ Reject(s) \/ Complete(s)
  <2>1. saga[s].pc \notin {"unwinding", "ended"} /\ saga[s].errors = {}
    BY <1>1, <1>4 DEF ReadRaises, Reject, Complete, SagaOK
  <2>2. \E v \in {"RAISED", "REJECTED", "COMPLETED"} : End(s, v)
    BY <1>4 DEF ReadRaises, Reject, Complete
  <2> QED  BY <1>3, <2>1, <2>2 DEF Verdict
<1>5. CASE Unwound(s)
  <2>1. CASE saga[s].errors = {}
    <3>1. End(s, "COMPENSATED") /\ saga[s].pc # "ended"
      BY <1>5, <2>1 DEF Unwound
    <3> QED  BY <1>3, <2>1, <3>1 DEF Verdict
  <2>2. CASE saga[s].errors # {}
    <3>1. End(s, "COMPENSATION_INCOMPLETE") /\ saga[s].pc # "ended"
      BY <1>5, <2>2 DEF Unwound
    <3> QED  BY <1>3, <3>1 DEF Verdict
  <2> QED  BY <2>1, <2>2
<1>6. CASE Accept(s)
  <2>1. saga[s].pc = "validating" /\ Goto(s, "forward")
        /\ ~Rejected(request[s], saga[s].statuses)
    BY <1>6 DEF Accept
  <2>2. SagaOK(s)'
    <3>1. SnapshotTaken(s)' /\ ~Rejected(request'[s], saga'[s].statuses)
      BY <1>1, <1>2, <2>1, GotoFacts DEF SagaOK, SnapshotTaken
    <3> QED  BY <1>1, <1>2, <2>1, <3>1, GotoFacts DEF SagaOK, Moving
  <2>3. StackOK(s)'
    <3>1. saga[s].stack = <<>> /\ saga[s].done = 0
      BY <1>1, <2>1 DEF SagaOK
    <3>2. saga'[s].stack = <<>> /\ saga'[s].done = 0 /\ saga'[s].pc = "forward"
          /\ reply'[s] = "none"
      BY <1>2, <2>1, <3>1, GotoFacts
    <3> QED  BY <3>2 DEF StackOK, Height, PlanLength
  <2> QED  BY <1>1, <1>2, <2>1, <2>2, <2>3, GotoFacts, OwnStep
<1> QED  BY <1>4, <1>5, <1>6

LEMMA ControlStepAnswered ==
    ASSUME Control, NEW s \in Sagas, StepAnswered(s) \/ StepFailed(s)
    PROVE  Control'
<1>1. /\ SagaOK(s) /\ StackOK(s) /\ saga[s] \in Progress /\ reply \in [Sagas -> Reply]
      /\ saga[s].done \in 0 .. 6 /\ Height(s) \in 0 .. 6
  BY MoverFacts DEF Control, TypeOK, ActorTypeOK
<1>2. /\ reply[s] \in {"changed", "unchanged", "failed"}
      /\ reply' = [reply EXCEPT ![s] = "none"]
      /\ saga[s].pc = "forward"
      /\ UNCHANGED <<cluster, cache, inbox, steps, attempt, mishaps, crashes, resets, request>>
  BY DEF StepAnswered, StepFailed, Receive
<1>3. /\ reply' \in [Sagas -> Reply] /\ reply'[s] = "none"
      /\ \A t \in Sagas \ {s} : reply'[t] = reply[t]
  BY <1>1, <1>2 DEF Reply
<1>4. Height(s) = saga[s].done + 1 /\ saga[s].done \in 0 .. 5
  BY <1>1, <1>2 DEF StackOK
<1>5. CASE StepAnswered(s)
  <2> DEFINE q == [saga[s] EXCEPT !.done = @ + 1]
  <2>1. saga' = [saga EXCEPT ![s] = q]
    BY <1>5 DEF StepAnswered
  <2>2. /\ q \in Progress /\ q.pc = "forward" /\ q.verdict = saga[s].verdict
        /\ q.statuses = saga[s].statuses /\ q.done = saga[s].done + 1
        /\ q.stack = saga[s].stack /\ q.errors = saga[s].errors
    BY <1>1, <1>2, <1>4 DEF Progress, PlanLength
  <2> HIDE DEF q
  <2>3. /\ saga' \in [Sagas -> Progress] /\ saga'[s] = q
        /\ \A t \in Sagas \ {s} : saga'[t] = saga[t]
    BY <2>1, <2>2, OneProgress
  <2>4. SagaOK(s)'
    BY <1>1, <1>2, <1>3, <2>2, <2>3 DEF SagaOK, Moving, SnapshotTaken
  <2>5. StackOK(s)'
    BY <1>1, <1>2, <1>3, <1>4, <2>2, <2>3 DEF StackOK, Height
  <2> QED  BY <1>2, <1>3, <2>3, <2>4, <2>5, OwnStep
<1>6. CASE StepFailed(s)
  <2>1. Goto(s, "unwinding")
    BY <1>6 DEF StepFailed
  <2>2. SagaOK(s)'
    <3>1. SnapshotTaken(s)' /\ ~Rejected(request'[s], saga'[s].statuses)
      BY <1>1, <1>2, <2>1, GotoFacts DEF SagaOK, SnapshotTaken, Moving
    <3> QED  BY <1>1, <1>2, <1>3, <2>1, <3>1, GotoFacts DEF SagaOK, Moving
  <2>3. StackOK(s)'
    BY <1>1, <1>2, <1>3, <2>1, GotoFacts DEF StackOK, Height
  <2> QED  BY <1>2, <1>3, <2>1, <2>2, <2>3, GotoFacts, OwnStep
<1> QED  BY <1>5, <1>6

LEMMA CallStepFacts ==
    ASSUME Control, NEW s \in Sagas, CallStep(s)
    PROVE  \E n \in 1 .. 6 :
             /\ saga[s].pc = "forward" /\ reply[s] = "none"
             /\ saga[s].done = n - 1 /\ Height(s) = n - 1
             /\ saga' \in [Sagas -> Progress]
             /\ \A t \in Sagas \ {s} : saga'[t] = saga[t]
             /\ saga'[s].pc = "forward"
             /\ saga'[s].verdict = saga[s].verdict
             /\ saga'[s].statuses = saga[s].statuses
             /\ saga'[s].done = n - 1
             /\ saga'[s].errors = saga[s].errors
             /\ saga'[s].stack # <<>>
             /\ Height(s)' = n
             /\ Top(s)' = Intents(request[s])[n]
             /\ \A k \in 1 .. n : saga'[s].stack[k] = Intents(request[s])[k]
             /\ CurrentStep(s) = Plan(request[s])[n]
             /\ SendStep(s, Plan(request[s])[n])
<1>1. /\ saga[s].pc = "forward" /\ reply[s] = "none" /\ saga[s].done < 6
      /\ SagaOK(s) /\ StackOK(s) /\ saga[s] \in Progress
      /\ request[s] \in MoveDatatypeRequest /\ saga[s].done \in 0 .. 6
      /\ saga[s].stack \in Seq(IntentType)
  BY MoverFacts DEF CallStep, Control, PlanLength
<1> DEFINE n == saga[s].done + 1
<1>2. n \in 1 .. 6 /\ Len(saga[s].stack) = n - 1 /\ Height(s) = n - 1
  BY <1>1 DEF StackOK, Height
<1>3. \A k \in 1 .. Len(saga[s].stack) : saga[s].stack[k] = Intents(request[s])[k]
  BY <1>1 DEF StackOK, Height
<1> DEFINE pushed == Append(saga[s].stack, Intents(request[s])[n])
           q == [saga[s] EXCEPT !.stack = pushed]
<1>4. saga' = [saga EXCEPT ![s] = q]
  BY DEF CallStep
<1>5. CurrentStep(s) = Plan(request[s])[n] /\ SendStep(s, Plan(request[s])[n])
  BY DEF CurrentStep, CallStep
<1>6. saga[s].done = n - 1
  BY <1>1
<1> HIDE DEF n
<1>7. /\ pushed \in Seq(IntentType) /\ pushed # <<>> /\ Len(pushed) = n
      /\ Last(pushed) = Intents(request[s])[n]
      /\ \A k \in 1 .. n : pushed[k] = Intents(request[s])[k]
  BY <1>1, <1>2, <1>3, PushIntent
<1> HIDE DEF pushed
<1>8. /\ q \in Progress /\ q.pc = "forward" /\ q.verdict = saga[s].verdict
      /\ q.statuses = saga[s].statuses /\ q.done = saga[s].done
      /\ q.stack = pushed /\ q.errors = saga[s].errors
  BY <1>1, <1>7 DEF Progress
<1> HIDE DEF q
<1>9. /\ saga' \in [Sagas -> Progress] /\ saga'[s] = q
      /\ \A t \in Sagas \ {s} : saga'[t] = saga[t]
  BY <1>4, <1>8, OneProgress
<1>10. Height(s)' = n /\ Top(s)' = Intents(request[s])[n]
  BY <1>7, <1>8, <1>9 DEF Height, Top
<1> QED  BY <1>1, <1>2, <1>5, <1>6, <1>7, <1>8, <1>9, <1>10

LEMMA ControlCallStep ==
    ASSUME Control, NEW s \in Sagas, CallStep(s)
    PROVE  Control'
<1>1. PICK n \in 1 .. 6 :
             /\ saga[s].pc = "forward" /\ reply[s] = "none"
             /\ saga' \in [Sagas -> Progress]
             /\ \A t \in Sagas \ {s} : saga'[t] = saga[t]
             /\ saga'[s].pc = "forward"
             /\ saga'[s].verdict = saga[s].verdict
             /\ saga'[s].statuses = saga[s].statuses
             /\ saga'[s].done = n - 1
             /\ saga'[s].errors = saga[s].errors
             /\ saga'[s].stack # <<>>
             /\ Height(s)' = n
             /\ Top(s)' = Intents(request[s])[n]
             /\ \A k \in 1 .. n : saga'[s].stack[k] = Intents(request[s])[k]
             /\ SendStep(s, Plan(request[s])[n])
  BY CallStepFacts
<1>2. /\ SagaOK(s) /\ StackOK(s) /\ request[s] \in MoveDatatypeRequest
      /\ reply \in [Sagas -> Reply] /\ SnapshotTaken(s)
  BY <1>1, MoverFacts DEF Control, TypeOK, ActorTypeOK, SagaOK
<1> DEFINE step == Plan(request[s])[n]
<1>3. /\ step.family = Intents(request[s])[n].family /\ step.family \in FamiliesOf(request[s])
      /\ n \in {1, 2} => Intents(request[s])[n].label = "resume" /\ step.command = "pause"
      /\ n \in {3, 4} => Intents(request[s])[n].label = "revert" /\ step.command = "patch"
      /\ n \in {5, 6} => Intents(request[s])[n].label = "pause" /\ step.command = "resume"
  BY <1>2, IntentFamily
<1>4. PICK f \in Families : f = step.family
  BY <1>2, <1>3 DEF SnapshotTaken
<1> DEFINE data == IF step.command = "patch"
                   THEN {NewConfig(request[s], saga[s].statuses, f)} ELSE {}
<1>5. data \in SUBSET SUBSET Datatypes
  <2>1. saga[s].statuses[f] \in FamilyStatus /\ request[s].datatype \in Datatypes
    BY <1>2, <1>3, <1>4 DEF SnapshotTaken, MoveDatatypeRequest
  <2>2. saga[s].statuses[f].datatypes \in SUBSET Datatypes
    BY <2>1 DEF FamilyStatus
  <2> QED  BY <2>1, <2>2 DEF NewConfig
<1>6. PICK c \in Call : c = [caller |-> s, command |-> step.command,
                             desired |-> {}, config |-> data]
  <2>1. step.command \in {"pause", "patch", "resume", "restore"}
    BY <1>3
  <2> HIDE DEF data, step
  <2> QED  BY <1>5, <2>1 DEF Call
<1>7. /\ inbox' = [inbox EXCEPT ![f] = Append(@, c)]
      /\ reply' = [reply EXCEPT ![s] = "waiting"]
      /\ UNCHANGED <<cluster, cache, steps, attempt, mishaps, crashes, resets, request>>
  BY <1>1, <1>4, <1>6 DEF SendStep, Send
<1> HIDE DEF step
<1>8. /\ Top(s)'.family = f
      /\ \/ Top(s)'.label = "resume" /\ step.command = "pause"
         \/ Top(s)'.label = "revert" /\ step.command = "patch"
         \/ Top(s)'.label = "pause" /\ step.command = "resume"
  BY <1>1, <1>3, <1>4
<1>9. ForwardCall(f, c)'
  <2>1. step.command = CommandFor(Top(s)'.label)
    BY <1>8 DEF CommandFor
  <2>2. data = IF Top(s)'.label = "revert"
               THEN {NewConfig(request[s], saga[s].statuses, f)} ELSE {}
    BY <1>8
  <2> HIDE DEF data
  <2>3. /\ c.command = CommandFor(Top(s)'.label) /\ c.desired = {} /\ c.caller = s
        /\ c.config = IF Top(s)'.label = "revert"
                      THEN {NewConfig(request'[s], saga'[s].statuses, f)} ELSE {}
    BY <1>1, <1>6, <1>7, <2>1, <2>2
  <2> QED  BY <2>3 DEF ForwardCall
<1>10. reply'[s] = "waiting" /\ request' = request /\ c.caller = s
  BY <1>2, <1>6, <1>7
<1>11. SagaOK(s)'
  BY <1>1, <1>2, <1>10 DEF SagaOK, Moving, SnapshotTaken
<1>12. StackOK(s)'
  BY <1>1, <1>10 DEF StackOK, PlanLength
<1>13. Moving(s)'
  BY <1>1 DEF Moving
<1> QED
  BY <1>1, <1>7, <1>8, <1>9, <1>10, <1>11, <1>12, <1>13, SendingStep

LEMMA ControlCallRestore ==
    ASSUME Control, NEW s \in Sagas, CallRestore(s)
    PROVE  Control'
<1> DEFINE top == Top(s)
<1>1. /\ saga[s].pc = "unwinding" /\ reply[s] = "none" /\ saga[s].stack # <<>>
      /\ UNCHANGED saga /\ Moving(s)
  BY DEF CallRestore, Moving
<1>2. /\ SagaOK(s) /\ StackOK(s) /\ reply \in [Sagas -> Reply]
      /\ saga \in [Sagas -> Progress]
  BY DEF Control, TypeOK, ActorTypeOK
<1>3. PICK f \in Families, base \in FamilyStatus :
         /\ top.label \in {"resume", "revert", "pause"}
         /\ top.family = f /\ saga[s].statuses[f] = base
  BY <1>1, TopOfStack
<1>4. PICK desired \in SUBSET FamilyState, config \in SUBSET SUBSET Datatypes :
         /\ Send(s, f, "restore", desired, config)
         /\ config = IF top.label = "revert" THEN {base.datatypes} ELSE {}
         /\ desired = IF top.label = "revert" THEN {}
                      ELSE IF top.label = "resume" THEN {base.state} ELSE {"SUSPENDED"}
  <2>1. base.datatypes \in SUBSET Datatypes /\ base.state \in FamilyState
    BY <1>3 DEF FamilyStatus
  <2>2. CASE top.label = "revert"
    <3>1. Send(s, f, "restore", {}, {base.datatypes})
      BY <1>3, <2>2 DEF CallRestore, Top
    <3> QED  BY <2>1, <2>2, <3>1
  <2>3. CASE top.label = "resume"
    <3>1. Send(s, f, "restore", {base.state}, {})
      BY <1>3, <2>3 DEF CallRestore, Top
    <3> QED  BY <2>1, <2>3, <3>1
  <2>4. CASE top.label = "pause"
    <3>1. Send(s, f, "restore", {"SUSPENDED"}, {})
      BY <1>3, <2>4 DEF CallRestore, Top
    <3> QED  BY <2>1, <2>4, <3>1 DEF FamilyState
  <2> QED  BY <1>3, <2>2, <2>3, <2>4
<1>5. PICK c \in Call : c = [caller |-> s, command |-> "restore",
                             desired |-> desired, config |-> config]
  BY DEF Call
<1>6. /\ inbox' = [inbox EXCEPT ![f] = Append(@, c)]
      /\ reply' = [reply EXCEPT ![s] = "waiting"]
      /\ UNCHANGED <<cluster, cache, steps, attempt, mishaps, crashes, resets, request>>
  BY <1>4, <1>5 DEF Send
<1>7. RestoreCall(f, c)'
  <2>1. Top(s)' = top /\ saga'[s].statuses[f] = base
    BY <1>1, <1>3 DEF Top
  <2> QED  BY <1>3, <1>4, <1>5, <2>1 DEF RestoreCall
<1>8. reply'[s] = "waiting"
  BY <1>2, <1>6
<1>9. SagaOK(s)'
  BY <1>1, <1>2, <1>6, <1>8 DEF SagaOK, Moving, SnapshotTaken
<1>10. StackOK(s)'
  BY <1>1, <1>2, <1>6, <1>8 DEF StackOK, Height
<1>11. Moving(s)' /\ Top(s)'.family = f /\ saga'[s].pc = "unwinding" /\ c.caller = s
  BY <1>1, <1>3, <1>5 DEF Moving, Top
<1> QED  BY <1>1, <1>2, <1>3, <1>6, <1>7, <1>9, <1>10, <1>11, SendingStep

LEMMA RestoreAnsweredFacts ==
    ASSUME Control, NEW s \in Sagas, RestoreAnswered(s)
    PROVE  /\ saga[s].pc = "unwinding" /\ Moving(s) /\ saga[s].stack # <<>>
           /\ reply[s] \in {"changed", "unchanged", "failed"}
           /\ reply' \in [Sagas -> Reply] /\ reply'[s] = "none"
           /\ \A t \in Sagas \ {s} : reply'[t] = reply[t]
           /\ UNCHANGED <<cluster, cache, inbox, steps, attempt, mishaps, crashes,
                          resets, request>>
           /\ saga' \in [Sagas -> Progress]
           /\ \A t \in Sagas \ {s} : saga'[t] = saga[t]
           /\ saga'[s].pc = "unwinding"
           /\ saga'[s].verdict = saga[s].verdict
           /\ saga'[s].statuses = saga[s].statuses
           /\ saga'[s].done = saga[s].done
           /\ saga'[s].errors = IF reply[s] = "failed"
                                THEN saga[s].errors \union {Top(s)} ELSE saga[s].errors
           /\ Height(s)' = Height(s) - 1
           /\ \A k \in 1 .. Height(s) - 1 : saga'[s].stack[k] = saga[s].stack[k]
<1>1. /\ saga[s].pc = "unwinding" /\ reply[s] \in {"changed", "unchanged", "failed"}
      /\ Moving(s) /\ saga[s].stack # <<>>
  BY DEF RestoreAnswered, Receive, Moving, Control, StackOK
<1>2. /\ reply' = [reply EXCEPT ![s] = "none"]
      /\ UNCHANGED <<cluster, cache, inbox, steps, attempt, mishaps, crashes, resets, request>>
  BY DEF RestoreAnswered, Receive
<1>3. /\ reply' \in [Sagas -> Reply] /\ reply'[s] = "none"
      /\ \A t \in Sagas \ {s} : reply'[t] = reply[t]
  BY <1>2 DEF Reply, Control, TypeOK, ActorTypeOK
<1>4. saga[s] \in Progress /\ saga[s].stack \in Seq(IntentType) /\ Top(s) \in IntentType
  BY <1>1, MoverFacts, TopOfStack
<1> DEFINE front == Front(saga[s].stack)
<1>5. /\ front \in Seq(IntentType) /\ Len(front) = Height(s) - 1
      /\ \A k \in 1 .. Height(s) - 1 : front[k] = saga[s].stack[k]
  <2>1. /\ front \in Seq(IntentType) /\ Len(front) = Len(saga[s].stack) - 1
        /\ \A k \in 1 .. Len(saga[s].stack) - 1 : front[k] = saga[s].stack[k]
    BY <1>1, <1>4, PopStack, Zenon
  <2> HIDE DEF front
  <2> QED  BY <2>1 DEF Height
<1> DEFINE good == IF reply[s] = "changed"
                   THEN saga[s].compensated \union {Top(s)} ELSE saga[s].compensated
           noop == IF reply[s] = "unchanged"
                   THEN saga[s].noops \union {Top(s)} ELSE saga[s].noops
           bad == IF reply[s] = "failed"
                  THEN saga[s].errors \union {Top(s)} ELSE saga[s].errors
           q == [saga[s] EXCEPT !.stack = front, !.compensated = good,
                                !.noops = noop, !.errors = bad]
<1>6. saga' = [saga EXCEPT ![s] = q]
  BY DEF RestoreAnswered, Top
<1>7. good \in SUBSET IntentType /\ noop \in SUBSET IntentType /\ bad \in SUBSET IntentType
  BY <1>4 DEF Progress
<1> HIDE DEF front, good, noop, bad
<1>8. /\ q \in Progress /\ q.pc = saga[s].pc /\ q.verdict = saga[s].verdict
      /\ q.statuses = saga[s].statuses /\ q.done = saga[s].done
      /\ q.stack = front /\ q.errors = bad
  BY <1>4, <1>5, <1>7 DEF Progress
<1> HIDE DEF q
<1>9. /\ saga' \in [Sagas -> Progress] /\ saga'[s] = q
      /\ \A t \in Sagas \ {s} : saga'[t] = saga[t]
  BY <1>6, <1>8, OneProgress
<1>10. Height(s)' = Height(s) - 1
  BY <1>5, <1>8, <1>9 DEF Height
<1> QED  BY <1>1, <1>2, <1>3, <1>5, <1>8, <1>9, <1>10 DEF bad

LEMMA ControlRestoreAnswered ==
    ASSUME Control, NEW s \in Sagas, RestoreAnswered(s)
    PROVE  Control'
<1>1. /\ saga[s].pc = "unwinding"
      /\ reply[s] \in {"changed", "unchanged", "failed"}
      /\ reply' \in [Sagas -> Reply] /\ reply'[s] = "none"
      /\ \A t \in Sagas \ {s} : reply'[t] = reply[t]
      /\ UNCHANGED <<cluster, cache, inbox, steps, attempt, mishaps, crashes,
                     resets, request>>
      /\ saga' \in [Sagas -> Progress]
      /\ \A t \in Sagas \ {s} : saga'[t] = saga[t]
      /\ saga'[s].pc = "unwinding"
      /\ saga'[s].verdict = saga[s].verdict
      /\ saga'[s].statuses = saga[s].statuses
      /\ Height(s)' = Height(s) - 1
      /\ \A k \in 1 .. Height(s) - 1 : saga'[s].stack[k] = saga[s].stack[k]
  BY RestoreAnsweredFacts
<1>2. /\ SagaOK(s) /\ StackOK(s) /\ Height(s) \in 0 .. 6
  BY MoverFacts DEF Control
<1>3. SagaOK(s)'
  BY <1>1, <1>2 DEF SagaOK, Moving, SnapshotTaken
<1>4. StackOK(s)'
  <2>1. \A k \in 1 .. Height(s) : saga[s].stack[k] = Intents(request[s])[k]
    BY <1>2 DEF StackOK
  <2> DEFINE n == Height(s)
  <2>2. n \in 0 .. 6 /\ Height(s)' = n - 1
    BY <1>1, <1>2
  <2>3. \A k \in 1 .. n - 1 : saga'[s].stack[k] = Intents(request'[s])[k]
    BY <1>1, <2>1, <2>2
  <2> HIDE DEF n
  <2> QED  BY <1>1, <2>2, <2>3 DEF StackOK, PlanLength
<1> QED  BY <1>1, <1>3, <1>4, OwnStep

-----------------------------------------------------------------------------
(* The steps of an object.                                                 *)

\* The call an object serves, by the phase of its caller and the label of the
\* intent the caller has on top of its stack.
LEMMA ServedCommand ==
    ASSUME Control, NEW f \in Families, inbox[f] # <<>>,
           NEW s, s = Serving(f).caller
    PROVE  LET call == Serving(f)  base == saga[s].statuses[f]
           IN  \/ /\ saga[s].pc = "forward" /\ Top(s).label = "resume"
                  /\ call.command = "pause"
               \/ /\ saga[s].pc = "forward" /\ Top(s).label = "revert"
                  /\ call.command = "patch"
                  /\ call.config = {NewConfig(request[s], saga[s].statuses, f)}
               \/ /\ saga[s].pc = "forward" /\ Top(s).label = "pause"
                  /\ call.command = "resume"
               \/ /\ saga[s].pc = "unwinding" /\ Top(s).label = "resume"
                  /\ call.command = "restore"
                  /\ call.desired = {base.state} /\ base.state \in FamilyState
                  /\ call.config = {}
               \/ /\ saga[s].pc = "unwinding" /\ Top(s).label = "revert"
                  /\ call.command = "restore"
                  /\ call.desired = {} /\ call.config = {base.datatypes}
               \/ /\ saga[s].pc = "unwinding" /\ Top(s).label = "pause"
                  /\ call.command = "restore"
                  /\ call.desired = {"SUSPENDED"} /\ call.config = {}
<1>1. /\ s \in Sagas /\ CallOK(f, Serving(f)) /\ Moving(s) /\ saga[s].stack # <<>>
      /\ Top(s).family = f
  BY BeingServed
<1>2. /\ Top(s).label \in {"resume", "revert", "pause"}
      /\ saga[s].statuses[f] \in FamilyStatus
  BY <1>1, TopOfStack
<1>3. saga[s].statuses[f].state \in FamilyState
  BY <1>2 DEF FamilyStatus
<1>4. CASE saga[s].pc = "forward"
  <2>1. ForwardCall(f, Serving(f))
    BY <1>1, <1>4 DEF CallOK
  <2> QED  BY <1>2, <1>4, <2>1 DEF ForwardCall, CommandFor
<1>5. CASE saga[s].pc = "unwinding"
  <2>1. RestoreCall(f, Serving(f))
    BY <1>1, <1>5 DEF CallOK
  <2> QED  BY <1>2, <1>3, <1>5, <2>1 DEF RestoreCall
<1> QED  BY <1>1, <1>4, <1>5 DEF Moving

\* What the object sets out to do about the call, and when it does nothing.
LEMMA HandlerDecides ==
    ASSUME Control, NEW f \in Families, inbox[f] # <<>>
    PROVE  LET call == Serving(f)  todo == HandlerSteps(f, Serving(f))
           IN  /\ call.command = "pause" =>
                    IF CachedState(f) = "SUSPENDED" THEN todo = <<>> ELSE todo = PauseSteps
               /\ call.command = "resume" =>
                    IF CachedState(f) = "RUNNING" THEN todo = <<>>
                                                  ELSE todo = <<"resume_job">>
               /\ call.command = "patch" => todo = <<"patch_configmap">>
               /\ call.command = "restore" /\ call.desired = {} =>
                    IF datatypes[f] \in call.config THEN todo = <<>>
                                                    ELSE todo = <<"patch_configmap">>
               /\ call.command = "restore" /\ call.desired = {"SUSPENDED"} =>
                    IF state[f] = "SUSPENDED" THEN todo = <<>> ELSE todo = PauseSteps
               /\ call.command = "restore" /\ call.desired = {"RUNNING"} =>
                    IF state[f] = "RUNNING" THEN todo = <<>> ELSE todo = <<"resume_job">>
<1> DEFINE call == Serving(f)  todo == HandlerSteps(f, call)
<1>1. /\ call.command = "pause" =>
                    IF CachedState(f) = "SUSPENDED" THEN todo = <<>> ELSE todo = PauseSteps
      /\ call.command = "resume" =>
                    IF CachedState(f) = "RUNNING" THEN todo = <<>>
                                                  ELSE todo = <<"resume_job">>
      /\ call.command = "patch" => todo = <<"patch_configmap">>
      /\ call.command = "restore" =>
            todo = RestoreStateSteps(f, call.desired) \o RestoreConfigSteps(f, call.config)
  BY DEF HandlerSteps
<1> DEFINE a == RestoreStateSteps(f, call.desired)  b == RestoreConfigSteps(f, call.config)
<1>2. ASSUME call.command = "restore", call.desired = {}
      PROVE  IF datatypes[f] \in call.config THEN todo = <<>>
                                             ELSE todo = <<"patch_configmap">>
  <2>1. a = <<>>
    BY <1>2 DEF RestoreStateSteps
  <2>2. call.config # {}
    BY <1>2, ServedCommand
  <2>3. IF datatypes[f] \in call.config THEN b = <<>> ELSE b = <<"patch_configmap">>
    BY <2>2 DEF RestoreConfigSteps
  <2> HIDE DEF a, b
  <2>4. b \in Seq(Operation)
    BY <2>3, StepsAsSequences
  <2>5. a \o b = b
    BY <2>1, <2>4, ConcatEmptySeq
  <2> QED  BY <1>1, <1>2, <2>3, <2>5 DEF a, b
<1>3. ASSUME call.command = "restore", call.desired \in {{"SUSPENDED"}, {"RUNNING"}}
      PROVE  /\ call.desired = {"SUSPENDED"} =>
                    IF state[f] = "SUSPENDED" THEN todo = <<>> ELSE todo = PauseSteps
             /\ call.desired = {"RUNNING"} =>
                    IF state[f] = "RUNNING" THEN todo = <<>> ELSE todo = <<"resume_job">>
  <2>1. call.config = {}
    BY <1>3, ServedCommand
  <2>2. b = <<>>
    BY <2>1 DEF RestoreConfigSteps
  <2>3. /\ call.desired = {"SUSPENDED"} =>
                IF state[f] = "SUSPENDED" THEN a = <<>> ELSE a = PauseSteps
        /\ call.desired = {"RUNNING"} =>
                IF state[f] = "RUNNING" THEN a = <<>> ELSE a = <<"resume_job">>
    BY <1>3 DEF RestoreStateSteps
  <2> HIDE DEF a, b
  <2>4. a \in Seq(Operation)
    BY <1>3, <2>3, StepsAsSequences
  <2>5. a \o b = a
    BY <2>2, <2>4, ConcatEmptySeq
  <2> QED  BY <1>1, <1>3, <2>3, <2>5 DEF a, b
<1> QED  BY <1>1, <1>2, <1>3

\* A busy object is about to make one of the four operations, and there is a
\* second one only in the middle of a pause.
LEMMA StepsLeft ==
    ASSUME Control, NEW f \in Families, Busy(f)
    PROVE  /\ inbox[f] # <<>>
           /\ \/ steps[f] = PauseSteps
              \/ steps[f] = <<"suspend_job">>
              \/ steps[f] = <<"resume_job">>
              \/ steps[f] = <<"patch_configmap">>
           /\ steps[f] # PauseSteps => Len(steps[f]) = 1
           /\ Len(steps[f]) # 1 => steps[f] = PauseSteps
           /\ Tail(steps[f]) \in Seq(Operation)
           /\ Head(steps[f]) \in Operation
<1>1. inbox[f] # <<>>
  BY DEF Control, HandlerOK
<1>2. PICK s : s = Serving(f).caller
  OBVIOUS
<1>3. \/ steps[f] = PauseSteps
      \/ steps[f] = <<"suspend_job">>
      \/ steps[f] = <<"resume_job">>
      \/ steps[f] = <<"patch_configmap">>
  BY <1>1, <1>2, ServedCommand DEF Control, HandlerOK, PauseLeft, FamilyState
<1>4. <<>> \in Seq(Operation) /\ <<"suspend_job">> \in Seq(Operation)
  BY StepsAsSequences
<1> QED  BY <1>1, <1>3, <1>4, StepsAsSequences

LEMMA AttemptTyped ==
    ASSUME Control, NEW f \in Families, NEW outcome, Attempt(f, outcome)
    PROVE  ClusterTypeOK' /\ mishaps' \in 0 .. MaxMishaps
<1>1. ClusterTypeOK
  BY DEF Control, TypeOK
<1>2. CASE UNCHANGED cluster
  <2>1. ClusterTypeOK'
    BY <1>1, <1>2 DEF ClusterTypeOK, cluster
  <2> QED  BY <2>1, RestateAssumption DEF Attempt, Control, TypeOK, ActorTypeOK
<1>3. CASE \E config \in SUBSET Datatypes : Mutate(Head(steps[f]), f, config)
  <2>1. ClusterTypeOK'
    BY <1>1, <1>3 DEF Mutate, TriggerSavepoint, SuspendJob, ResumeJob,
       PatchConfigmap, Commit, ClusterTypeOK, FamilyState
  <2> QED  BY <2>1, RestateAssumption DEF Attempt, Control, TypeOK, ActorTypeOK
<1> QED  BY <1>2, <1>3 DEF Attempt

LEMMA ControlEnter ==
    ASSUME Control, NEW f \in Families, Enter(f), UNCHANGED <<request, saga>>
    PROVE  Control'
<1> DEFINE call == Serving(f)  todo == HandlerSteps(f, call)
<1>1. /\ inbox[f] # <<>> /\ ~Busy(f)
      /\ cache' = [cache EXCEPT ![f] = SyncedCache(f, call)]
      /\ UNCHANGED <<cluster, mishaps, crashes, resets>>
      /\ IF todo = <<>> THEN Answer(f, "unchanged")
         ELSE steps' = [steps EXCEPT ![f] = todo] /\ UNCHANGED <<inbox, attempt, reply>>
  BY DEF Enter
<1>2. /\ cache \in [Families -> FamilyState \union {"unset"}]
      /\ state \in [Families -> FamilyState]
      /\ steps \in [Families -> Seq(Operation)]
      /\ mishaps \in 0 .. MaxMishaps /\ crashes \in 0 .. MaxCrashes /\ resets \in 0 .. MaxResets
      /\ ClusterTypeOK'
  BY <1>1 DEF Control, TypeOK, ActorTypeOK, ClusterTypeOK, cluster
<1>3. call.command \in {"pause", "patch", "resume", "restore"}
  BY <1>1, BeingServed DEF Call
<1>4. cache' \in [Families -> FamilyState \union {"unset"}]
  <2>1. SyncedCache(f, call) \in FamilyState \union {"unset"}
    BY <1>2, <1>3 DEF SyncedCache, CachedState
  <2> QED  BY <1>1, <1>2, <2>1
<1>5. CASE todo = <<>>
  BY <1>1, <1>2, <1>4, <1>5, AnsweringStep
<1>6. CASE todo # <<>>
  <2>1. steps' = [steps EXCEPT ![f] = todo] /\ UNCHANGED <<inbox, attempt, reply>>
    BY <1>1, <1>6
  <2>2. PICK s : s = Serving(f).caller
    OBVIOUS
  <2>3. /\ call.command = "pause" => todo = PauseSteps
        /\ call.command = "resume" => todo = <<"resume_job">>
        /\ call.command = "patch" => todo = <<"patch_configmap">>
        /\ call.command = "restore" /\ call.desired = {} => todo = <<"patch_configmap">>
        /\ call.command = "restore" /\ call.desired = {"SUSPENDED"} => todo = PauseSteps
        /\ call.command = "restore" /\ call.desired = {"RUNNING"} => todo = <<"resume_job">>
    BY <1>1, <1>6, HandlerDecides
  <2>4. \/ call.command \in {"pause", "resume", "patch"}
        \/ call.command = "restore" /\ call.desired \in {{}, {"SUSPENDED"}, {"RUNNING"}}
    BY <1>1, <2>2, ServedCommand DEF FamilyState
  <2> HIDE DEF todo
  <2>5. todo \in Seq(Operation)
    BY <2>3, <2>4, StepsAsSequences
  <2>6. /\ steps' \in [Families -> Seq(Operation)] /\ steps'[f] = todo
        /\ \A g \in Families \ {f} : steps'[g] = steps[g]
    BY <1>2, <2>1, <2>5
  <2>7. ActorTypeOK'
    BY <1>1, <1>2, <1>4, <2>1, <2>6 DEF Control, TypeOK, ActorTypeOK
  <2>8. HandlerOK(f)'
    <3>1. Serving(f)' = call
      BY <2>1 DEF Serving
    <3> HIDE DEF call
    <3>2. inbox'[f] # <<>>
      BY <1>1, <2>1
    <3> QED  BY <2>3, <2>6, <3>1, <3>2 DEF HandlerOK, PauseLeft
  <2> QED  BY <1>2, <2>1, <2>6, <2>7, <2>8, QuietStep
<1> QED  BY <1>5, <1>6

LEMMA ControlStepReturns ==
    ASSUME Control, NEW f \in Families, StepReturns(f), UNCHANGED <<request, saga>>
    PROVE  Control'
<1>1. /\ Busy(f) /\ Attempt(f, "ok") /\ UNCHANGED <<crashes, resets>>
      /\ cache' = [cache EXCEPT ![f] = CacheAfter(f, Head(steps[f]))]
  BY DEF StepReturns, Attempt
<1>2. ClusterTypeOK' /\ mishaps' \in 0 .. MaxMishaps
  BY <1>1, AttemptTyped
<1>3. /\ cache \in [Families -> FamilyState \union {"unset"}]
      /\ steps \in [Families -> Seq(Operation)]
      /\ attempt \in [Families -> 1 .. MaxAttempts]
      /\ crashes \in 0 .. MaxCrashes /\ resets \in 0 .. MaxResets
  BY DEF Control, TypeOK, ActorTypeOK
<1>4. cache' \in [Families -> FamilyState \union {"unset"}]
  <2>1. Head(steps[f]) \in Operation
    BY <1>1, StepsLeft
  <2>2. CacheAfter(f, Head(steps[f])) \in FamilyState \union {"unset"}
    BY <1>3, <2>1 DEF CacheAfter, Operation, FamilyState
  <2> QED  BY <1>1, <1>3, <2>2
<1>5. CASE Len(steps[f]) = 1
  <2>1. Answer(f, "changed") /\ inbox[f] # <<>>
    BY <1>1, <1>5, StepsLeft DEF StepReturns
  <2> QED  BY <1>1, <1>2, <1>3, <1>4, <2>1, AnsweringStep
<1>6. CASE Len(steps[f]) # 1
  <2>1. /\ steps' = [steps EXCEPT ![f] = Tail(@)]
        /\ attempt' = [attempt EXCEPT ![f] = 1]
        /\ UNCHANGED <<inbox, reply>>
    BY <1>6 DEF StepReturns
  <2>2. steps[f] = PauseSteps /\ inbox[f] # <<>> /\ Tail(steps[f]) \in Seq(Operation)
    BY <1>1, <1>6, StepsLeft
  <2>3. /\ steps' \in [Families -> Seq(Operation)] /\ steps'[f] = <<"suspend_job">>
        /\ \A g \in Families \ {f} : steps'[g] = steps[g]
    BY <1>3, <2>1, <2>2, StepsAsSequences
  <2>4. attempt' \in [Families -> 1 .. MaxAttempts]
    BY <1>3, <2>1, RestateAssumption
  <2>5. ActorTypeOK'
    BY <1>1, <1>2, <1>3, <1>4, <2>1, <2>3, <2>4 DEF Control, TypeOK, ActorTypeOK
  <2>6. HandlerOK(f)'
    <3>1. Serving(f)' = Serving(f) /\ inbox'[f] # <<>>
      BY <2>1, <2>2 DEF Serving
    <3>2. steps[f] # <<"resume_job">> /\ steps[f] # <<"patch_configmap">>
      BY <2>2, StepsAsSequences
    <3>3. HandlerOK(f)
      BY DEF Control
    <3> QED  BY <1>1, <2>3, <3>1, <3>2, <3>3 DEF HandlerOK, PauseLeft
  <2> QED  BY <1>2, <2>1, <2>3, <2>5, <2>6, QuietStep
<1> QED  BY <1>5, <1>6

LEMMA ControlRepeats ==
    ASSUME Control, NEW f \in Families, UNCHANGED <<request, saga>>,
           Crash(f) \/ Reset(f) \/ \E outcome \in Outcome : StepRetried(f, outcome)
    PROVE  Control'
<1>1. /\ ActorTypeOK /\ ClusterTypeOK /\ HandlerOK(f)
      /\ attempt \in [Families -> 1 .. MaxAttempts]
      /\ cache \in [Families -> FamilyState \union {"unset"}]
      /\ crashes \in 0 .. MaxCrashes /\ resets \in 0 .. MaxResets
  BY DEF Control, TypeOK, ActorTypeOK
<1>2. UNCHANGED <<inbox, reply, steps>>
  BY DEF Crash, Reset, StepRetried
<1>3. ClusterTypeOK' /\ ActorTypeOK'
  <2>1. CASE Crash(f)
    <3>1. ClusterTypeOK' /\ mishaps' \in 0 .. MaxMishaps
      BY <2>1, AttemptTyped DEF Crash
    <3>2. crashes' \in 0 .. MaxCrashes
      BY <1>1, <2>1, RestateAssumption DEF Crash
    <3>3. attempt' \in [Families -> 1 .. MaxAttempts]
      BY <1>1, <2>1, RestateAssumption DEF Crash
    <3> QED  BY <1>1, <2>1, <3>1, <3>2, <3>3 DEF ActorTypeOK, Crash
  <2>2. CASE Reset(f)
    <3>1. resets' \in 0 .. MaxResets
      BY <1>1, <2>2, RestateAssumption DEF Reset
    <3> QED  BY <1>1, <2>2, <3>1 DEF ActorTypeOK, ClusterTypeOK, Reset, cluster
  <2>3. ASSUME NEW outcome \in Outcome, StepRetried(f, outcome)
        PROVE  ClusterTypeOK' /\ ActorTypeOK'
    <3>1. ClusterTypeOK' /\ mishaps' \in 0 .. MaxMishaps
      BY <2>3, AttemptTyped DEF StepRetried
    <3>2. attempt' \in [Families -> 1 .. MaxAttempts]
      BY <1>1, <2>3, RestateAssumption DEF StepRetried
    <3> QED  BY <1>1, <2>3, <3>1, <3>2 DEF ActorTypeOK, StepRetried
  <2> QED  BY <2>1, <2>2, <2>3
<1>4. HandlerOK(f)'
  BY <1>1, <1>2, HandlerKept
<1> QED  BY <1>2, <1>3, <1>4, QuietStep

LEMMA ControlStepFails ==
    ASSUME Control, NEW f \in Families, NEW outcome \in Outcome, StepFails(f, outcome),
           UNCHANGED <<request, saga>>
    PROVE  Control'
<1>1. /\ Busy(f) /\ Attempt(f, outcome) /\ Answer(f, "failed")
      /\ UNCHANGED <<cache, crashes, resets>>
  BY DEF StepFails, Attempt
<1>2. ClusterTypeOK' /\ mishaps' \in 0 .. MaxMishaps /\ inbox[f] # <<>>
  BY <1>1, AttemptTyped, StepsLeft
<1> QED  BY <1>1, <1>2, AnsweringStep DEF Control, TypeOK, ActorTypeOK

-----------------------------------------------------------------------------
(* Control is inductive.                                                   *)

LEMMA ControlInit == Init => Control
<1> SUFFICES ASSUME Init PROVE Control
  OBVIOUS
<1>1. Fresh \in Progress
  BY DEF Fresh, Progress, PlanLength, Verdict
<1>2. saga = [s \in Sagas |-> Fresh]
  BY DEF Init
<1>3. TypeOK
  <2>1. ClusterTypeOK
    BY DEF Init, Seed, ClusterTypeOK, FamilyState
  <2>2. ActorTypeOK
    BY RestateAssumption DEF Init, ActorInit, ActorTypeOK, Reply
  <2> QED  BY <1>1, <1>2, <2>1, <2>2 DEF Init, TypeOK
<1>4. ASSUME NEW s \in Sagas PROVE SagaOK(s) /\ StackOK(s)
  <2>1. /\ saga[s].pc = "idle" /\ saga[s].statuses = <<>> /\ saga[s].done = 0
        /\ saga[s].stack = <<>> /\ saga[s].errors = {} /\ saga[s].verdict = "none"
        /\ reply[s] = "none"
    BY <1>2 DEF Fresh, Init, ActorInit
  <2> QED  BY <2>1 DEF SagaOK, StackOK, Moving, Height, PlanLength
<1>5. ASSUME NEW f \in Families PROVE QueueOK(f) /\ HandlerOK(f)
  <2>1. inbox[f] = <<>> /\ steps[f] = <<>>
    BY DEF Init, ActorInit
  <2> QED  BY <2>1 DEF QueueOK, HandlerOK, Busy
<1> QED  BY <1>3, <1>4, <1>5 DEF Control

LEMMA ControlStutter ==
    ASSUME Control, UNCHANGED vars
    PROVE  Control'
<1>1. TypeOK'
  BY DEF Control, TypeOK, ClusterTypeOK, ActorTypeOK, vars, handlers, cluster
<1>2. \A s \in Sagas : SagaOK(s)' /\ StackOK(s)'
  BY WorkflowKept DEF vars, handlers
<1>3. \A f \in Families : QueueOK(f)'
  BY QueueKept DEF vars, handlers
<1>4. \A f \in Families : HandlerOK(f)'
  BY HandlerKept DEF vars, handlers
<1> QED  BY <1>1, <1>2, <1>3, <1>4 DEF Control

LEMMA ControlNext == Control /\ [Next]_vars => Control'
<1> SUFFICES ASSUME Control, [Next]_vars PROVE Control'
  OBVIOUS
<1>1. ASSUME NEW s \in Sagas, Start(s) \/ SagaStep(s) PROVE Control'
  BY <1>1, ControlStart, ControlReads, ControlTurns, ControlCallStep, ControlStepAnswered,
     ControlCallRestore, ControlRestoreAnswered DEF SagaStep
<1>2. ASSUME NEW f \in Families, ObjectStep(f) PROVE Control'
  <2>1. UNCHANGED <<request, saga>>
    BY <1>2 DEF ObjectStep
  <2>2. CASE Enter(f)
    BY <2>1, <2>2, ControlEnter
  <2>3. CASE StepReturns(f)
    BY <2>1, <2>3, ControlStepReturns
  <2>4. CASE \E outcome \in Outcome : StepFails(f, outcome)
    BY <2>1, <2>4, ControlStepFails
  <2>5. CASE Crash(f) \/ Reset(f) \/ \E outcome \in Outcome : StepRetried(f, outcome)
    BY <2>1, <2>5, ControlRepeats
  <2> QED  BY <1>2, <2>2, <2>3, <2>4, <2>5 DEF ObjectStep, HandlerStep
<1> QED  BY <1>1, <1>2, ControlStutter DEF Next

\* Every workflow always knows where it is, and every call in a queue is the
\* one its caller waits for: for any number of moves that overlap in any way,
\* and any retries, crashes and cleared caches.
THEOREM RestateKeepsControl == Spec => []Control
<1>1. Init => Control
  BY ControlInit
<1>2. Control /\ [Next]_vars => Control'
  BY ControlNext
<1> QED  BY <1>1, <1>2, PTL DEF Spec

\* Type correctness of the workflows, the objects and the cluster.
THEOREM RestateIsTyped == Spec => []TypeOK
<1>1. Control => TypeOK
  BY DEF Control
<1> QED  BY <1>1, RestateKeepsControl, PTL

-----------------------------------------------------------------------------
(* What a step of a workflow, or of an object, leaves alone.               *)

\* A new call goes to the end of a queue.
LEMMA SentAtTheEnd ==
    ASSUME Control, NEW s \in Sagas, NEW f, NEW command, NEW desired, NEW config,
           Send(s, f, command, desired, config),
           NEW g \in Families, inbox[g] # <<>>
    PROVE  inbox'[g] # <<>> /\ Head(inbox'[g]) = Head(inbox[g])
<1> DEFINE c == [caller |-> s, command |-> command, desired |-> desired, config |-> config]
<1>1. inbox' = [inbox EXCEPT ![f] = Append(@, c)]
  BY DEF Send
<1> HIDE DEF c
<1>2. inbox \in [Families -> Seq(Call)] /\ inbox[g] \in Seq(Call \union {c})
  BY DEF Control, TypeOK, ActorTypeOK
<1>3. Append(inbox[g], c) # <<>> /\ Head(Append(inbox[g], c)) = Head(inbox[g])
  BY <1>2, Enqueue
<1>4. inbox'[g] = IF g = f THEN Append(inbox[g], c) ELSE inbox[g]
  BY <1>1, <1>2
<1> QED  BY <1>3, <1>4

LEMMA WorkflowFrame ==
    ASSUME Control, NEW s \in Sagas, Start(s) \/ SagaStep(s)
    PROVE  /\ UNCHANGED <<cluster, cache, steps, attempt, mishaps, crashes, resets, request>>
           /\ reply[s] # "waiting"
           /\ \A t \in Sagas \ {s} : saga'[t] = saga[t] /\ reply'[t] = reply[t]
           /\ saga[s].errors \subseteq saga'[s].errors
           /\ \A f \in Families : inbox[f] # <<>> =>
                inbox'[f] # <<>> /\ Head(inbox'[f]) = Head(inbox[f])
<1>0. /\ reply \in [Sagas -> Reply] /\ inbox \in [Families -> Seq(Call)]
      /\ Moving(s) \/ reply[s] = "none"
  BY MoverFacts DEF Control, TypeOK, ActorTypeOK
<1>1. CASE Start(s) \/ ReadSource(s) \/ ReadTarget(s) \/ Accept(s)
  <2>1. /\ UNCHANGED <<cluster, cache, inbox, steps, attempt, reply, mishaps, crashes,
                      resets, request>>
        /\ saga[s].pc \in {"idle", "read source", "read target", "validating"}
    BY <1>1 DEF Start, ReadSource, ReadTarget, ReadFamily, Accept, Alone, handlers
  <2>2. reply[s] = "none"
    BY <1>0, <2>1 DEF Moving
  <2>3. (\A t \in Sagas \ {s} : saga'[t] = saga[t]) /\ saga'[s].errors = saga[s].errors
    <3>1. CASE Start(s) \/ Accept(s)
      BY <3>1, GotoFacts DEF Start, Accept
    <3>2. CASE ReadSource(s) \/ ReadTarget(s)
      BY <3>2, ReadingFacts DEF ReadSource, ReadTarget
    <3> QED  BY <1>1, <3>1, <3>2
  <2> QED  BY <2>1, <2>2, <2>3
<1>2. CASE ReadRaises(s) \/ Reject(s) \/ Complete(s) \/ Unwound(s)
  <2>1. /\ UNCHANGED <<cluster, cache, inbox, steps, attempt, reply, mishaps, crashes,
                      resets, request>>
        /\ saga[s].pc \in {"read source", "read target", "validating"} \/ reply[s] = "none"
    BY <1>2 DEF ReadRaises, Reject, Complete, Unwound, Alone, handlers
  <2>2. reply[s] = "none"
    BY <1>0, <2>1 DEF Moving
  <2>3. \E v \in Verdict : End(s, v)
    BY <1>2 DEF ReadRaises, Reject, Complete, Unwound, Verdict
  <2>4. (\A t \in Sagas \ {s} : saga'[t] = saga[t]) /\ saga'[s].errors = saga[s].errors
    BY <2>3, EndFacts
  <2> QED  BY <2>1, <2>2, <2>4
<1>3. CASE CallStep(s) \/ CallRestore(s)
  <2>1. PICK f, command, desired, config : Send(s, f, command, desired, config)
    <3>1. CASE CallStep(s)
      BY <3>1 DEF CallStep, SendStep
    <3>2. CASE CallRestore(s)
      <4>1. Top(s).label \in {"resume", "revert", "pause"}
        BY <3>2, TopOfStack DEF CallRestore, Moving
      <4> QED  BY <3>2, <4>1 DEF CallRestore, Top
    <3> QED  BY <1>3, <3>1, <3>2
  <2>2. reply[s] = "none"
    BY <1>3 DEF CallStep, CallRestore
  <2>3. UNCHANGED <<cluster, cache, steps, attempt, mishaps, crashes, resets, request>>
        /\ \A t \in Sagas \ {s} : reply'[t] = reply[t]
    BY <1>0, <2>1 DEF Send
  <2>4. (\A t \in Sagas \ {s} : saga'[t] = saga[t]) /\ saga'[s].errors = saga[s].errors
    <3>1. CASE CallStep(s)
      BY <3>1, CallStepFacts
    <3>2. CASE CallRestore(s)
      BY <3>2 DEF CallRestore
    <3> QED  BY <1>3, <3>1, <3>2
  <2>5. \A g \in Families : inbox[g] # <<>> =>
            inbox'[g] # <<>> /\ Head(inbox'[g]) = Head(inbox[g])
    BY <2>1, SentAtTheEnd
  <2> QED  BY <2>2, <2>3, <2>4, <2>5
<1>4. CASE StepAnswered(s) \/ StepFailed(s)
  <2>1. /\ UNCHANGED <<cluster, cache, inbox, steps, attempt, mishaps, crashes, resets, request>>
        /\ reply[s] # "waiting" /\ \A t \in Sagas \ {s} : reply'[t] = reply[t]
    BY <1>0, <1>4 DEF StepAnswered, StepFailed, Receive
  <2>2. (\A t \in Sagas \ {s} : saga'[t] = saga[t]) /\ saga'[s].errors = saga[s].errors
    <3>1. saga[s] \in Progress /\ saga \in [Sagas -> Progress]
      BY DEF Control, TypeOK
    <3>2. CASE StepAnswered(s)
      BY <3>1, <3>2 DEF StepAnswered, Progress
    <3>3. CASE StepFailed(s)
      BY <3>3, GotoFacts DEF StepFailed
    <3> QED  BY <1>4, <3>2, <3>3
  <2> QED  BY <2>1, <2>2
<1>5. CASE RestoreAnswered(s)
  <2>1. /\ UNCHANGED <<cluster, cache, inbox, steps, attempt, mishaps, crashes, resets, request>>
        /\ reply[s] \in {"changed", "unchanged", "failed"}
        /\ \A t \in Sagas \ {s} : saga'[t] = saga[t] /\ reply'[t] = reply[t]
        /\ saga'[s].errors = IF reply[s] = "failed"
                             THEN saga[s].errors \union {Top(s)} ELSE saga[s].errors
    BY <1>5, RestoreAnsweredFacts
  <2> QED  BY <2>1
<1> QED  BY <1>1, <1>2, <1>3, <1>4, <1>5 DEF SagaStep

\* What one attempt of the operation at the head of the steps does.
LEMMA AttemptEffect ==
    ASSUME Control, NEW f \in Families, NEW outcome, Attempt(f, outcome)
    PROVE  /\ Busy(f)
           /\ \A g \in Families \ {f} :
                /\ state'[g] = state[g] /\ datatypes'[g] = datatypes[g]
                /\ savepoint'[g] = savepoint[g] /\ generation'[g] = generation[g]
           /\ ~Committed(outcome) => UNCHANGED cluster
           /\ Committed(outcome) /\ Head(steps[f]) = "trigger_savepoint" =>
                /\ state'[f] = state[f] /\ datatypes'[f] = datatypes[f]
                /\ savepoint'[f] # 0 /\ savepoint'[f] = generation'[f]
           /\ Committed(outcome) /\ Head(steps[f]) = "suspend_job" =>
                state'[f] = "SUSPENDED" /\ datatypes'[f] = datatypes[f]
           /\ Committed(outcome) /\ Head(steps[f]) = "resume_job" =>
                state'[f] = "RUNNING" /\ datatypes'[f] = datatypes[f]
           /\ Committed(outcome) /\ Head(steps[f]) = "patch_configmap" =>
                state'[f] = state[f] /\ datatypes'[f] \in Serving(f).config
<1>1. /\ state \in [Families -> FamilyState]
      /\ datatypes \in [Families -> SUBSET Datatypes]
      /\ generation \in [Families -> Nat] /\ savepoint \in [Families -> Nat]
  BY DEF Control, TypeOK, ClusterTypeOK
<1>2. CASE ~Committed(outcome)
  BY <1>2 DEF Attempt, cluster
<1>3. CASE Committed(outcome)
  <2>1. PICK config \in SUBSET Datatypes :
            /\ Head(steps[f]) = "patch_configmap" => config \in Serving(f).config
            /\ Mutate(Head(steps[f]), f, config)
    BY <1>3 DEF Attempt
  <2>2. generation'[f] = generation[f] + 1
        /\ \A g \in Families \ {f} : generation'[g] = generation[g]
    BY <1>1, <2>1 DEF Mutate, TriggerSavepoint, SuspendJob, ResumeJob, PatchConfigmap, Commit
  <2>3. CASE Head(steps[f]) = "trigger_savepoint"
    BY <1>1, <1>3, <2>1, <2>2, <2>3 DEF Mutate, TriggerSavepoint, Attempt
  <2>4. CASE Head(steps[f]) = "suspend_job"
    BY <1>1, <1>3, <2>1, <2>2, <2>4 DEF Mutate, SuspendJob, Attempt
  <2>5. CASE Head(steps[f]) = "resume_job"
    BY <1>1, <1>3, <2>1, <2>2, <2>5 DEF Mutate, ResumeJob, Attempt
  <2>6. CASE Head(steps[f]) = "patch_configmap"
    BY <1>1, <1>3, <2>1, <2>2, <2>6 DEF Mutate, PatchConfigmap, Attempt
  <2> QED  BY <2>1, <2>3, <2>4, <2>5, <2>6 DEF Mutate
<1> QED  BY <1>2, <1>3

\* An object step changes its own family and answers its own call at most.
LEMMA ObjectFrame ==
    ASSUME Control, NEW f \in Families, ObjectStep(f)
    PROVE  /\ UNCHANGED <<request, saga>>
           /\ \A g \in Families \ {f} :
                /\ state'[g] = state[g] /\ datatypes'[g] = datatypes[g]
                /\ savepoint'[g] = savepoint[g] /\ generation'[g] = generation[g]
                /\ cache'[g] = cache[g] /\ steps'[g] = steps[g] /\ inbox'[g] = inbox[g]
           /\ \/ UNCHANGED <<inbox, reply>>
              \/ /\ inbox[f] # <<>>
                 /\ \E a \in {"changed", "unchanged", "failed"} : Answer(f, a)
<1>1. UNCHANGED <<request, saga>>
  BY DEF ObjectStep
<1>2. cache \in [Families -> FamilyState \union {"unset"}]
      /\ steps \in [Families -> Seq(Operation)]
  BY DEF Control, TypeOK, ActorTypeOK
<1>3. ASSUME NEW a \in {"changed", "unchanged", "failed"}, inbox[f] # <<>>, Answer(f, a)
      PROVE  \A g \in Families \ {f} : steps'[g] = steps[g] /\ inbox'[g] = inbox[g]
  BY <1>3, AnswerFacts
<1>4. CASE Enter(f)
  <2>1. /\ inbox[f] # <<>> /\ UNCHANGED cluster
        /\ \A g \in Families \ {f} : cache'[g] = cache[g]
    BY <1>2, <1>4 DEF Enter
  <2>2. CASE HandlerSteps(f, Serving(f)) = <<>>
    <3>1. Answer(f, "unchanged")
      BY <1>4, <2>2 DEF Enter
    <3> QED  BY <1>1, <1>3, <2>1, <3>1 DEF cluster
  <2>3. CASE HandlerSteps(f, Serving(f)) # <<>>
    <3>1. UNCHANGED <<inbox, reply>> /\ \A g \in Families \ {f} : steps'[g] = steps[g]
      BY <1>2, <1>4, <2>3 DEF Enter
    <3> QED  BY <1>1, <2>1, <3>1 DEF cluster
  <2> QED  BY <2>2, <2>3
<1>5. CASE StepReturns(f)
  <2>1. Attempt(f, "ok") /\ \A g \in Families \ {f} : cache'[g] = cache[g]
    BY <1>2, <1>5 DEF StepReturns
  <2>2. CASE Len(steps[f]) = 1
    <3>1. Answer(f, "changed") /\ inbox[f] # <<>>
      BY <1>5, <2>1, <2>2, AttemptEffect, StepsLeft DEF StepReturns
    <3> QED  BY <1>1, <1>3, <2>1, <3>1, AttemptEffect
  <2>3. CASE Len(steps[f]) # 1
    <3>1. UNCHANGED <<inbox, reply>> /\ \A g \in Families \ {f} : steps'[g] = steps[g]
      BY <1>2, <1>5, <2>3 DEF StepReturns
    <3> QED  BY <1>1, <2>1, <3>1, AttemptEffect
  <2> QED  BY <2>2, <2>3
<1>6. ASSUME NEW outcome \in Outcome, StepFails(f, outcome)
      PROVE  /\ inbox[f] # <<>> /\ Answer(f, "failed") /\ Attempt(f, outcome)
             /\ UNCHANGED cache
  BY <1>6, AttemptEffect, StepsLeft DEF StepFails
<1>7. CASE \E outcome \in Outcome : StepFails(f, outcome)
  BY <1>1, <1>3, <1>6, <1>7, AttemptEffect
<1>8. ASSUME NEW outcome, StepRetried(f, outcome) \/ (Crash(f) /\ outcome = "ok")
      PROVE  Attempt(f, outcome) /\ UNCHANGED <<cache, steps, inbox, reply>>
  BY <1>8 DEF StepRetried, Crash
<1>9. CASE Crash(f) \/ \E outcome \in Outcome : StepRetried(f, outcome)
  BY <1>1, <1>8, <1>9, AttemptEffect
<1>10. CASE Reset(f)
  BY <1>1, <1>2, <1>10 DEF Reset, cluster
<1> QED  BY <1>4, <1>5, <1>7, <1>9, <1>10 DEF ObjectStep, HandlerStep

-----------------------------------------------------------------------------
(* Savepoints.                                                             *)

LEMMA SavepointFreshInit == Init => SavepointFresh
  BY DEF Init, ActorInit, SavepointFresh

\* What is left to do when an object takes up a call is never half a pause.
LEMMA StepsBegun ==
    ASSUME Control, NEW f \in Families, Enter(f)
    PROVE  steps'[f] # <<"suspend_job">>
<1>0. steps \in [Families -> Seq(Operation)] /\ inbox[f] # <<>>
  BY DEF Control, TypeOK, ActorTypeOK, Enter
<1>1. CASE HandlerSteps(f, Serving(f)) = <<>>
  <2>1. Answer(f, "unchanged")
    BY <1>1 DEF Enter
  <2>2. steps'[f] = <<>>
    BY <1>0, <2>1, AnswerFacts
  <2> QED  BY <2>2, StepsAsSequences
<1>2. CASE HandlerSteps(f, Serving(f)) # <<>>
  <2>1. PICK s : s = Serving(f).caller
    OBVIOUS
  <2>2. HandlerSteps(f, Serving(f)) \in
            {PauseSteps, <<"resume_job">>, <<"patch_configmap">>}
    BY <1>0, <1>2, <2>1, ServedCommand, HandlerDecides DEF FamilyState
  <2>3. steps'[f] = HandlerSteps(f, Serving(f))
    BY <1>0, <1>2 DEF Enter
  <2> QED  BY <2>2, <2>3, StepsAsSequences
<1> QED  BY <1>1, <1>2

LEMMA SavepointFreshStep ==
    ASSUME Control, SavepointFresh, NEW f \in Families, ObjectStep(f)
    PROVE  SavepointFresh'
<1>1. ASSUME NEW g \in Families, g # f, steps'[g] = <<"suspend_job">>, state'[g] = "RUNNING"
      PROVE  savepoint'[g] # 0 /\ savepoint'[g] = generation'[g]
  BY <1>1, ObjectFrame DEF SavepointFresh
<1>2. ASSUME steps'[f] = <<"suspend_job">>, state'[f] = "RUNNING"
      PROVE  savepoint'[f] # 0 /\ savepoint'[f] = generation'[f]
  <2>0. steps \in [Families -> Seq(Operation)]
    BY DEF Control, TypeOK, ActorTypeOK
  <2>1. ~Enter(f)
    BY <1>2, StepsBegun
  <2>2. ASSUME NEW a \in {"changed", "unchanged", "failed"}, inbox[f] # <<>>
        PROVE  ~Answer(f, a)
    BY <1>2, <2>2, AnswerFacts, StepsAsSequences
  <2>3. CASE StepReturns(f)
    <3>1. Attempt(f, "ok") /\ Busy(f) /\ inbox[f] # <<>>
      BY <2>3, AttemptEffect, StepsLeft DEF StepReturns
    <3>2. Len(steps[f]) # 1
      BY <2>2, <2>3, <3>1 DEF StepReturns
    <3>3. Head(steps[f]) = "trigger_savepoint"
      BY <3>1, <3>2, StepsLeft, StepsAsSequences
    <3> QED  BY <3>1, <3>3, AttemptEffect DEF Committed
  <2>4. ASSUME NEW outcome, StepRetried(f, outcome) \/ (Crash(f) /\ outcome = "ok")
        PROVE  savepoint'[f] # 0 /\ savepoint'[f] = generation'[f]
    <3>1. Attempt(f, outcome) /\ steps' = steps
      BY <2>4 DEF StepRetried, Crash
    <3>2. Head(steps[f]) = "suspend_job"
      BY <1>2, <3>1, StepsAsSequences
    <3>3. UNCHANGED cluster
      BY <1>2, <3>1, <3>2, AttemptEffect
    <3> QED  BY <1>2, <3>1, <3>3 DEF SavepointFresh, cluster
  <2>5. CASE Reset(f)
    BY <1>2, <2>5 DEF Reset, SavepointFresh, cluster
  <2>6. ASSUME NEW outcome \in Outcome PROVE ~StepFails(f, outcome)
    BY <2>2, AttemptEffect, StepsLeft DEF StepFails
  <2> QED  BY <2>1, <2>3, <2>4, <2>5, <2>6 DEF ObjectStep, HandlerStep
<1> QED  BY <1>1, <1>2 DEF SavepointFresh

LEMMA SavepointFreshNext == Control /\ SavepointFresh /\ [Next]_vars => SavepointFresh'
<1> SUFFICES ASSUME Control, SavepointFresh, [Next]_vars PROVE SavepointFresh'
  OBVIOUS
<1>1. CASE UNCHANGED vars \/ \E s \in Sagas : Start(s) \/ SagaStep(s)
  <2>1. UNCHANGED <<cluster, steps>>
    BY <1>1, WorkflowFrame DEF vars, handlers
  <2> QED  BY <2>1 DEF SavepointFresh, cluster
<1>2. CASE \E f \in Families : ObjectStep(f)
  BY <1>2, SavepointFreshStep
<1> QED  BY <1>1, <1>2 DEF Next

\* A job is suspended by the second step of a pause and nothing else.
LEMMA SuspendingStep ==
    ASSUME Control, [Next]_vars, NEW f \in Families,
           state[f] = "RUNNING", state'[f] = "SUSPENDED"
    PROVE  steps[f] = <<"suspend_job">>
<1>1. ASSUME NEW s \in Sagas, Start(s) \/ SagaStep(s) PROVE FALSE
  BY <1>1, WorkflowFrame DEF cluster
<1>2. PICK g \in Families : ObjectStep(g)
  BY <1>1 DEF Next, vars, cluster
<1>3. g = f
  BY <1>2, ObjectFrame
<1>4. PICK outcome : Attempt(f, outcome)
  BY <1>2, <1>3 DEF ObjectStep, HandlerStep, Enter, StepReturns, StepRetried, StepFails,
     Crash, Reset, cluster
<1>5. Head(steps[f]) = "suspend_job"
  <2>1. Busy(f) /\ Head(steps[f]) \in Operation
    BY <1>4, AttemptEffect, StepsLeft
  <2> QED  BY <1>4, <2>1, AttemptEffect DEF Operation, cluster
<1> QED  BY <1>4, <1>5, AttemptEffect, StepsLeft, StepsAsSequences

\* For any moves that overlap in any way, and any retries, crashes and cleared
\* caches: a running job is suspended only right after a savepoint of it.
THEOREM SuspendsHaveSavepoints == Spec => SuspendRightAfterSavepoint
<1>1. Init => SavepointFresh
  BY SavepointFreshInit
<1>2. Control /\ SavepointFresh /\ [Next]_vars => SavepointFresh'
  BY SavepointFreshNext
<1>3. Spec => []SavepointFresh
  BY <1>1, <1>2, RestateKeepsControl, PTL DEF Spec
<1>4. Control /\ SavepointFresh /\ [Next]_vars =>
        [\A f \in Families :
            state[f] = "RUNNING" /\ state'[f] = "SUSPENDED" =>
                savepoint[f] # 0 /\ savepoint[f] = generation[f]]_vars
  BY SuspendingStep DEF SavepointFresh
<1> QED  BY <1>3, <1>4, RestateKeepsControl, PTL DEF Spec, SuspendRightAfterSavepoint

-----------------------------------------------------------------------------
(* Caches.                                                                 *)

\* Who is to restore a family, or has reported that he could not, stays so
\* through his own steps: an unwind takes an intent off only with its answer.
LEMMA OwnerKeeps ==
    ASSUME Control, NEW s \in Sagas, SagaStep(s), NEW f \in Families,
           RestoreUnserved(s, f)
    PROVE  RestoreUnserved(s, f)' \/ \E i \in saga'[s].errors : i.family = f
<1>1. PICK k \in 1 .. Height(s) :
          /\ saga[s].stack[k].family = f
          /\ reply[s] \in {"changed", "unchanged"} => k < Height(s)
  BY DEF RestoreUnserved
<1>2. /\ Height(s) \in 0 .. 6
      /\ Moving(s) \/ reply[s] = "none"
      /\ saga[s].pc = "unwinding" \/ reply[s] = "failed"
  BY MoverFacts DEF RestoreUnserved
<1>3. CASE StepFailed(s)
  <2>1. /\ saga'[s].pc = "unwinding" /\ saga'[s].stack = saga[s].stack
        /\ reply' = [reply EXCEPT ![s] = "none"]
    BY <1>3, GotoFacts DEF StepFailed, Receive
  <2>2. reply'[s] = "none"
    BY <2>1 DEF Control, TypeOK, ActorTypeOK
  <2> QED  BY <1>1, <2>1, <2>2 DEF RestoreUnserved, Height
<1>4. CASE CallRestore(s)
  <2>1. saga' = saga /\ saga[s].pc = "unwinding" /\ reply[s] = "none"
    BY <1>4 DEF CallRestore
  <2>2. reply'[s] = "waiting"
    <3>1. Top(s).label \in {"resume", "revert", "pause"}
      BY <1>4, TopOfStack DEF CallRestore, Moving
    <3>2. \E g, c, d, e : Send(s, g, c, d, e)
      BY <1>4, <3>1 DEF CallRestore, Top
    <3> QED  BY <3>2 DEF Send, Control, TypeOK, ActorTypeOK
  <2> QED  BY <1>1, <2>1, <2>2 DEF RestoreUnserved, Height
<1>5. CASE RestoreAnswered(s)
  <2>1. /\ saga'[s].pc = "unwinding" /\ reply'[s] = "none"
        /\ Height(s)' = Height(s) - 1 /\ saga[s].stack # <<>> /\ Moving(s)
        /\ reply[s] \in {"changed", "unchanged", "failed"}
        /\ \A j \in 1 .. Height(s) - 1 : saga'[s].stack[j] = saga[s].stack[j]
        /\ saga'[s].errors = IF reply[s] = "failed"
                             THEN saga[s].errors \union {Top(s)} ELSE saga[s].errors
    BY <1>5, RestoreAnsweredFacts
  <2>2. CASE k < Height(s)
    <3>1. k \in 1 .. Height(s) - 1
      BY <1>1, <1>2, <2>2
    <3>2. k \in 1 .. Height(s)' /\ saga'[s].stack[k].family = f
      BY <1>1, <2>1, <3>1
    <3> QED  BY <2>1, <3>2 DEF RestoreUnserved
  <2>3. CASE k = Height(s)
    <3>1. Top(s) = saga[s].stack[k]
      BY <1>2, <2>1, <2>3, MoverFacts, PopStack, Zenon DEF Top, Height
    <3>2. Top(s) \in saga'[s].errors
      BY <1>1, <2>1, <2>3
    <3> QED  BY <1>1, <3>1, <3>2
  <2> QED  BY <1>1, <1>2, <2>2, <2>3
<1>6. CASE Unwound(s)
  <2>1. saga[s].stack = <<>>
    BY <1>6 DEF Unwound
  <2>2. Height(s) = 0
    BY <2>1 DEF Height
  <2> QED  BY <1>1, <2>2
<1>7. CASE ReadSource(s) \/ ReadTarget(s) \/ ReadRaises(s) \/ Reject(s) \/ Accept(s)
  <2>1. saga[s].pc \in {"read source", "read target", "validating"}
    BY <1>7 DEF ReadSource, ReadTarget, ReadRaises, Reject, Accept
  <2> QED  BY <1>2, <2>1 DEF Moving
<1>8. CASE CallStep(s) \/ StepAnswered(s) \/ Complete(s)
  BY <1>2, <1>8 DEF CallStep, StepAnswered, Receive, Complete
<1> QED  BY <1>3, <1>4, <1>5, <1>6, <1>7, <1>8 DEF SagaStep

LEMMA OwnerStays ==
    ASSUME Control, NEW s \in Sagas, Start(s) \/ SagaStep(s), NEW f \in Families, HasOwner(f)
    PROVE  HasOwner(f)'
<1>1. PICK t \in Sagas : RestoreUnserved(t, f) \/ \E i \in saga[t].errors : i.family = f
  BY DEF HasOwner
<1>2. CASE t # s
  <2>1. saga'[t] = saga[t] /\ reply'[t] = reply[t]
    BY <1>2, WorkflowFrame
  <2>2. RestoreUnserved(t, f)' \/ \E i \in saga'[t].errors : i.family = f
    BY <1>1, <2>1 DEF RestoreUnserved, Height
  <2> QED  BY <2>2 DEF HasOwner
<1>3. CASE t = s /\ \E i \in saga[s].errors : i.family = f
  <2>1. \E i \in saga'[s].errors : i.family = f
    BY <1>3, WorkflowFrame
  <2> QED  BY <2>1 DEF HasOwner
<1>4. CASE t = s /\ RestoreUnserved(s, f)
  <2>1. SagaStep(s)
    BY <1>4, MoverFacts DEF Start, RestoreUnserved, Moving
  <2> QED  BY <1>4, <2>1, OwnerKeeps DEF HasOwner
<1> QED  BY <1>1, <1>2, <1>3, <1>4

\* An answer takes no owner away, but from the family whose restore it is.
LEMMA OwnerAnswered ==
    ASSUME Control, NEW g \in Families, inbox[g] # <<>>,
           NEW a \in {"changed", "unchanged", "failed"}, Answer(g, a),
           UNCHANGED <<request, saga>>, NEW f \in Families, HasOwner(f),
           f = g => saga[Serving(g).caller].pc = "forward" \/ a = "failed"
    PROVE  HasOwner(f)'
<1>0. PICK s \in Sagas : s = Serving(g).caller
  BY BeingServed
<1>1. reply[s] = "waiting" /\ saga[s].stack # <<>> /\ Top(s).family = g
  BY <1>0, BeingServed
<1>2. reply'[s] = a /\ \A t \in Sagas : t # s => reply'[t] = reply[t]
  BY <1>0, AnswerFacts
<1>3. PICK t \in Sagas : RestoreUnserved(t, f) \/ \E i \in saga[t].errors : i.family = f
  BY DEF HasOwner
<1>4. CASE \E i \in saga[t].errors : i.family = f
  BY <1>4 DEF HasOwner
<1>5. CASE t # s /\ RestoreUnserved(t, f)
  <2>1. RestoreUnserved(t, f)'
    BY <1>2, <1>5 DEF RestoreUnserved, Height
  <2> QED  BY <2>1 DEF HasOwner
<1>6. CASE t = s /\ RestoreUnserved(s, f)
  <2>1. PICK k \in 1 .. Height(s) : saga[s].stack[k].family = f
    BY <1>6 DEF RestoreUnserved
  <2>2. saga[s].pc = "unwinding"
    BY <1>1, <1>6 DEF RestoreUnserved
  <2>3. a = "failed" \/ k < Height(s)
    <3>1. Height(s) \in 0 .. 6
      BY <1>1, MoverFacts
    <3>2. k = Height(s) => saga[s].stack[k] = Top(s)
      BY <1>1, MoverFacts, PopStack, Zenon DEF Top, Height
    <3> QED  BY <1>0, <1>1, <2>1, <2>2, <3>1, <3>2
  <2>4. RestoreUnserved(s, f)'
    BY <1>2, <2>1, <2>2, <2>3 DEF RestoreUnserved, Height
  <2> QED  BY <1>1, <2>4 DEF HasOwner
<1> QED  BY <1>3, <1>4, <1>5, <1>6

\* A command that fails leaves its caller to put the family right.
LEMMA FailureOwned ==
    ASSUME Control, NEW f \in Families, inbox[f] # <<>>, Answer(f, "failed"),
           UNCHANGED <<request, saga>>
    PROVE  HasOwner(f)'
<1>0. PICK s \in Sagas : s = Serving(f).caller
  BY BeingServed
<1>1. Moving(s) /\ saga[s].stack # <<>> /\ Top(s).family = f
  BY <1>0, BeingServed
<1>2. reply'[s] = "failed"
  BY <1>0, AnswerFacts
<1>3. Height(s) \in 1 .. 6 /\ Top(s) = saga[s].stack[Height(s)]
  <2>1. saga[s].stack \in Seq(IntentType) /\ Height(s) \in 0 .. 6
    BY <1>1, MoverFacts
  <2>2. Len(saga[s].stack) \in Nat \ {0}
        /\ Top(s) = saga[s].stack[Len(saga[s].stack)]
    BY <1>1, <2>1, PopStack, Zenon DEF Top
  <2> QED  BY <2>1, <2>2 DEF Height
<1>4. RestoreUnserved(s, f)'
  BY <1>1, <1>2, <1>3 DEF RestoreUnserved, Height
<1> QED  BY <1>1, <1>4 DEF HasOwner

LEMMA CacheEnter ==
    ASSUME Control, NEW f \in Families, CacheOK(f), Enter(f), UNCHANGED <<request, saga>>
    PROVE  CacheOK(f)'
<1>0. /\ steps \in [Families -> Seq(Operation)] /\ inbox[f] # <<>> /\ ~Busy(f)
      /\ cache \in [Families -> FamilyState \union {"unset"}]
      /\ state[f] \in FamilyState
      /\ UNCHANGED state
      /\ cache'[f] = SyncedCache(f, Serving(f))
  BY DEF Control, TypeOK, ActorTypeOK, ClusterTypeOK, Enter, cluster
<1>1. PICK s \in Sagas : s = Serving(f).caller
  BY <1>0, BeingServed
<1>2. \/ Serving(f).command = "restore" /\ cache'[f] = state[f]
      \/ /\ saga[s].pc = "forward" /\ Serving(f).command # "restore"
         /\ cache'[f] \in {cache[f], state[f]}
  BY <1>0, <1>1, ServedCommand DEF SyncedCache, CachedState
<1>3. CASE HandlerSteps(f, Serving(f)) = <<>>
  <2>1. Answer(f, "unchanged")
    BY <1>3 DEF Enter
  <2>2. steps'[f] = <<>>
    BY <1>0, <2>1, AnswerFacts
  <2>3. ASSUME cache'[f] \notin {"unset", state'[f]} PROVE HasOwner(f)'
    <3>1. saga[s].pc = "forward" /\ cache[f] \notin {"unset", state[f]}
      BY <1>0, <1>2, <2>3
    <3>2. HasOwner(f)
      BY <1>0, <3>1 DEF CacheOK
    <3> QED  BY <1>0, <1>1, <2>1, <3>1, <3>2, OwnerAnswered
  <2> QED  BY <2>2, <2>3, StepsAsSequences DEF CacheOK
<1>4. CASE HandlerSteps(f, Serving(f)) # <<>>
  <2>1. /\ steps'[f] = HandlerSteps(f, Serving(f))
        /\ UNCHANGED <<inbox, reply>>
    BY <1>0, <1>4 DEF Enter
  <2>2. Busy(f)' /\ Serving(f)' = Serving(f)
    BY <1>4, <2>1 DEF Busy, Serving
  <2>3. ASSUME cache'[f] \notin {"unset", state'[f]} PROVE HasOwner(f)'
    <3>1. cache[f] \notin {"unset", state[f]}
      BY <1>0, <1>2, <2>3
    <3>2. HasOwner(f)
      BY <1>0, <3>1 DEF CacheOK
    <3> QED  BY <2>1, <3>2 DEF HasOwner, RestoreUnserved, Height
  <2> QED  BY <1>0, <1>2, <2>2, <2>3 DEF CacheOK
<1> QED  BY <1>3, <1>4

LEMMA CacheReturns ==
    ASSUME Control, NEW f \in Families, CacheOK(f), StepReturns(f), UNCHANGED <<request, saga>>
    PROVE  CacheOK(f)'
<1>0. /\ steps \in [Families -> Seq(Operation)]
      /\ cache \in [Families -> FamilyState \union {"unset"}]
      /\ Attempt(f, "ok") /\ Busy(f) /\ inbox[f] # <<>>
      /\ cache'[f] = CacheAfter(f, Head(steps[f]))
  BY AttemptEffect, StepsLeft DEF StepReturns, Control, TypeOK, ActorTypeOK
<1>1. CASE Len(steps[f]) # 1
  <2>1. steps'[f] = <<"suspend_job">>
    BY <1>0, <1>1, StepsLeft, StepsAsSequences DEF StepReturns
  <2> QED  BY <2>1, StepsAsSequences DEF CacheOK, Busy
<1>2. CASE Len(steps[f]) = 1
  <2>1. Answer(f, "changed")
    BY <1>2 DEF StepReturns
  <2>2. steps'[f] = <<>>
    BY <1>0, <2>1, AnswerFacts
  <2>3. ASSUME cache'[f] \notin {"unset", state'[f]} PROVE HasOwner(f)'
    <3>1. steps[f] = <<"patch_configmap">> /\ Head(steps[f]) = "patch_configmap"
      <4>1. Head(steps[f]) \notin {"suspend_job", "resume_job"}
        BY <1>0, <2>3, AttemptEffect DEF CacheAfter, Committed
      <4>2. steps[f] # PauseSteps
        <5>1. Len(PauseSteps) = 2
          BY StepsAsSequences
        <5> QED  BY <1>2, <5>1
      <4>3. PICK op \in {"suspend_job", "resume_job", "patch_configmap"} : steps[f] = <<op>>
        <5>1. \/ steps[f] = <<"suspend_job">>
              \/ steps[f] = <<"resume_job">>
              \/ steps[f] = <<"patch_configmap">>
          BY <1>0, <4>2, StepsLeft
        <5> QED  BY <5>1
      <4>4. Head(steps[f]) = op
        BY <4>3
      <4> QED  BY <4>1, <4>3, <4>4
    <3>2. cache'[f] = cache[f] /\ state'[f] = state[f]
      BY <1>0, <3>1, AttemptEffect DEF CacheAfter, Committed
    <3>3. HasOwner(f) /\ Serving(f).command # "restore"
      BY <2>3, <3>1, <3>2 DEF CacheOK
    <3>4. saga[Serving(f).caller].pc = "forward"
      BY <1>0, <3>3, ServedCommand
    <3> QED  BY <1>0, <2>1, <3>3, <3>4, OwnerAnswered
  <2> QED  BY <2>2, <2>3, StepsAsSequences DEF CacheOK
<1> QED  BY <1>1, <1>2

LEMMA CacheRepeats ==
    ASSUME Control, NEW f \in Families, CacheOK(f), UNCHANGED <<request, saga>>,
           Crash(f) \/ \E outcome \in Outcome : StepRetried(f, outcome)
    PROVE  CacheOK(f)'
<1>1. PICK outcome : Attempt(f, outcome) /\ UNCHANGED <<cache, steps, inbox, reply>>
  BY DEF Crash, StepRetried
<1>2. Busy(f)' /\ Serving(f)' = Serving(f)
  BY <1>1, AttemptEffect DEF Busy, Serving
<1>3. HasOwner(f) => HasOwner(f)'
  BY <1>1 DEF HasOwner, RestoreUnserved, Height
<1>4. steps[f] = <<"patch_configmap">> => state'[f] = state[f]
  BY <1>1, AttemptEffect, StepsAsSequences DEF cluster
<1> QED  BY <1>1, <1>2, <1>3, <1>4 DEF CacheOK

\* A step of the object of another family.
LEMMA CacheElsewhere ==
    ASSUME Control, NEW f \in Families, NEW g \in Families \ {f}, CacheOK(f), ObjectStep(g)
    PROVE  CacheOK(f)'
<1>1. /\ state'[f] = state[f] /\ cache'[f] = cache[f] /\ steps'[f] = steps[f]
      /\ inbox'[f] = inbox[f] /\ UNCHANGED <<request, saga>>
  BY ObjectFrame
<1>2. ASSUME HasOwner(f) PROVE HasOwner(f)'
  <2>1. CASE UNCHANGED <<inbox, reply>>
    BY <1>1, <1>2, <2>1 DEF HasOwner, RestoreUnserved, Height
  <2>2. CASE inbox[g] # <<>> /\ \E a \in {"changed", "unchanged", "failed"} : Answer(g, a)
    BY <1>1, <1>2, <2>2, OwnerAnswered
  <2> QED  BY <2>1, <2>2, ObjectFrame
<1> QED  BY <1>1, <1>2 DEF CacheOK, Busy, Serving

LEMMA CacheStep ==
    ASSUME Control, NEW f \in Families, CacheOK(f), ObjectStep(f)
    PROVE  CacheOK(f)'
<1>1. UNCHANGED <<request, saga>>
  BY DEF ObjectStep
<1>2. CASE \E outcome \in Outcome : StepFails(f, outcome)
  <2>1. Answer(f, "failed") /\ inbox[f] # <<>>
    BY <1>2, AttemptEffect, StepsLeft DEF StepFails
  <2>2. steps'[f] = <<>> /\ HasOwner(f)'
    BY <1>1, <2>1, AnswerFacts, FailureOwned
  <2> QED  BY <2>2, StepsAsSequences DEF CacheOK
<1>3. CASE Reset(f)
  <2>1. cache'[f] = "unset" /\ steps'[f] = <<>>
    BY <1>3 DEF Reset, Busy, Control, TypeOK, ActorTypeOK
  <2> QED  BY <2>1, StepsAsSequences DEF CacheOK
<1> QED
  BY <1>1, <1>2, <1>3, CacheEnter, CacheReturns, CacheRepeats DEF ObjectStep, HandlerStep

LEMMA StaleCacheInit == Init => StaleCacheHasOwner
<1> SUFFICES ASSUME Init PROVE StaleCacheHasOwner
  OBVIOUS
<1>1. \A f \in Families : cache[f] = "unset" /\ steps[f] = <<>>
  BY DEF Init, ActorInit
<1> QED  BY <1>1, StepsAsSequences DEF StaleCacheHasOwner, CacheOK

LEMMA StaleCacheNext == Control /\ StaleCacheHasOwner /\ [Next]_vars => StaleCacheHasOwner'
<1> SUFFICES ASSUME Control, StaleCacheHasOwner, [Next]_vars, NEW f \in Families
             PROVE  CacheOK(f)'
  BY DEF StaleCacheHasOwner
<1>0. CacheOK(f)
  BY DEF StaleCacheHasOwner
<1>1. ASSUME NEW s \in Sagas, Start(s) \/ SagaStep(s) PROVE CacheOK(f)'
  <2>1. UNCHANGED <<state, cache, steps>> /\ (HasOwner(f) => HasOwner(f)')
    BY <1>1, WorkflowFrame, OwnerStays DEF cluster
  <2>2. steps[f] = <<"patch_configmap">> => Serving(f)' = Serving(f)
    <3>1. steps[f] = <<"patch_configmap">> => inbox[f] # <<>>
      BY StepsLeft, StepsAsSequences DEF Busy
    <3> QED  BY <1>1, <3>1, WorkflowFrame DEF Serving
  <2> QED  BY <1>0, <2>1, <2>2 DEF CacheOK, Busy
<1>2. ASSUME NEW g \in Families, ObjectStep(g) PROVE CacheOK(f)'
  BY <1>0, <1>2, CacheStep, CacheElsewhere
<1>3. CASE UNCHANGED vars
  BY <1>0, <1>3 DEF vars, handlers, cluster, CacheOK, HasOwner, RestoreUnserved, Height,
     Busy, Serving
<1> QED  BY <1>1, <1>2, <1>3 DEF Next

\* For any moves that overlap in any way: between two handlers a cache that is
\* wrong about its job is about to be put right by an unwind, or the restore of
\* that family has failed and is reported.
THEOREM StaleCachesHaveOwners == Spec => []StaleCacheIsOwedOrReported
<1>1. Init => StaleCacheHasOwner
  BY StaleCacheInit
<1>2. Control /\ StaleCacheHasOwner /\ [Next]_vars => StaleCacheHasOwner'
  BY StaleCacheNext
<1>3. Control /\ StaleCacheHasOwner => StaleCacheIsOwedOrReported
  <2> SUFFICES ASSUME Control, NEW f \in Families, HasOwner(f)
               PROVE  \E s \in Sagas :
                         RestoreOwed(s, f) \/ \E i \in saga[s].errors : i.family = f
    BY DEF StaleCacheHasOwner, CacheOK, StaleCacheIsOwedOrReported
  <2>1. PICK s \in Sagas : RestoreUnserved(s, f) \/ \E i \in saga[s].errors : i.family = f
    BY DEF HasOwner
  <2>2. DOMAIN saga[s].stack = 1 .. Height(s)
    BY MoverFacts, QueueDomain DEF Height
  <2> QED  BY <2>1, <2>2 DEF RestoreUnserved, RestoreOwed
<1> QED  BY <1>1, <1>2, <1>3, RestateKeepsControl, PTL DEF Spec

-----------------------------------------------------------------------------
(* Suspended jobs.                                                         *)

\* The labels of a stack come in pairs, and every second intent but one is
\* about the same family.
LEMMA StackPlaces ==
    ASSUME Control, NEW s \in Sagas, NEW k \in 1 .. Height(s)
    PROVE  /\ k \in 1 .. 6
           /\ saga[s].stack[k].label = "resume" <=> k <= 2
           /\ saga[s].stack[k].label = "pause" <=> k > 4
           /\ \A j \in {k + 2, k + 4} :
                j <= Height(s) => saga[s].stack[j].family = saga[s].stack[k].family
<1>1. /\ Height(s) \in 0 .. 6
      /\ \A j \in 1 .. Height(s) : saga[s].stack[j] = Intents(request[s])[j]
  BY MoverFacts DEF Control, StackOK
<1> DEFINE n == Height(s)
<1>2. n \in 0 .. 6 /\ k \in 1 .. n /\ k \in 1 .. 6
  BY <1>1
<1> HIDE DEF n
<1>3. /\ saga[s].stack[k] = Intents(request[s])[k]
      /\ \A j \in {k + 2, k + 4} :
            j <= n => j \in 1 .. 6 /\ saga[s].stack[j] = Intents(request[s])[j]
  BY <1>1, <1>2 DEF n
<1>4. CASE k = 1
  BY <1>3, <1>4 DEF Intents, Intent, n
<1>5. CASE k = 2
  BY <1>3, <1>5 DEF Intents, Intent, n
<1>6. CASE k \in {3, 4}
  BY <1>3, <1>6 DEF Intents, Intent, n
<1>7. CASE k \in {5, 6}
  BY <1>3, <1>7 DEF Intents, Intent, n
<1> QED  BY <1>2, <1>4, <1>5, <1>6, <1>7

\* The caller that an object serves, and the place of the call in its plan.
LEMMA ServedPlace ==
    ASSUME Control, NEW f \in Families, inbox[f] # <<>>
    PROVE  LET s == Serving(f).caller
           IN  /\ s \in Sagas /\ Moving(s) /\ reply[s] = "waiting"
               /\ Height(s) \in 1 .. 6 /\ Top(s) = saga[s].stack[Height(s)]
               /\ Top(s).family = f
               /\ f \in DOMAIN saga[s].statuses
               /\ saga[s].pc = "forward" => Height(s) = saga[s].done + 1
<1>1. PICK s \in Sagas : s = Serving(f).caller
  BY BeingServed
<1>2. Moving(s) /\ reply[s] = "waiting" /\ saga[s].stack # <<>> /\ Top(s).family = f
  BY <1>1, BeingServed
<1>3. Height(s) \in 1 .. 6 /\ Top(s) = saga[s].stack[Height(s)] /\ f \in FamiliesOf(request[s])
  <2>1. PICK n \in 1 .. 6 : /\ Height(s) = n
                            /\ Top(s) = Intents(request[s])[n]
                            /\ Top(s).family \in FamiliesOf(request[s])
    BY <1>2, TopOfStack
  <2>2. saga[s].stack[n] = Intents(request[s])[n]
    BY <2>1 DEF Control, StackOK
  <2> QED  BY <1>2, <2>1, <2>2
<1>4. f \in DOMAIN saga[s].statuses /\ (saga[s].pc = "forward" => Height(s) = saga[s].done + 1)
  BY <1>2, <1>3 DEF Control, SagaOK, StackOK, SnapshotTaken, Moving
<1> QED  BY <1>1, <1>2, <1>3, <1>4

\* An answer leaves it accounted for that a family is suspended, but the answer
\* to its resume, or to a restore that has made it run.
StillSuspended(s, f) ==
    /\ saga[s].pc = "forward" => Top(s).label # "pause"
    /\ saga[s].pc = "unwinding" /\ Top(s).label = "resume" =>
            saga[s].statuses[f].state = "SUSPENDED"

LEMMA ExplainedAnswered ==
    ASSUME Control, NEW g \in Families, inbox[g] # <<>>,
           NEW a \in {"changed", "unchanged", "failed"}, Answer(g, a),
           UNCHANGED <<request, saga>>, NEW f \in Families, Explained(f),
           f = g => a = "failed" \/ StillSuspended(Serving(g).caller, f)
    PROVE  Explained(f)'
<1>0. PICK s \in Sagas : s = Serving(g).caller
  BY BeingServed
<1>1. /\ Moving(s) /\ reply[s] = "waiting"
      /\ Height(s) \in 1 .. 6 /\ Top(s) = saga[s].stack[Height(s)] /\ Top(s).family = g
      /\ g \in DOMAIN saga[s].statuses
      /\ saga[s].pc = "forward" => Height(s) = saga[s].done + 1
  BY <1>0, ServedPlace
<1>2. reply'[s] = a /\ \A t \in Sagas : t # s => reply'[t] = reply[t]
  BY <1>0, AnswerFacts
<1>3. CASE \E t \in Sagas : GoesBackToSuspended(t, f)
  BY <1>3 DEF Explained, GoesBackToSuspended
<1>4. ASSUME NEW t \in Sagas, HoldsSuspended(t, f) PROVE Explained(f)'
  <2>1. PICK k \in 1 .. Height(t) :
            saga[t].stack[k] = Intent("resume", f) /\ Effective(t) < k + 4
    BY <1>4 DEF HoldsSuspended
  <2>2. saga[t].pc = "forward"
    BY <1>4 DEF HoldsSuspended
  <2>3. CASE t # s
    BY <1>2, <1>4, <2>3 DEF HoldsSuspended, Explained, Effective, Answered, Height
  <2>4. CASE t = s
    <3> DEFINE n == Height(s)
    <3>1. n \in 1 .. 6 /\ k \in 1 .. n /\ saga[s].done = n - 1 /\ saga[s].done < k + 4
      BY <1>1, <2>1, <2>2, <2>4, MoverFacts DEF Effective, Answered
    <3>2. k <= 2 /\ (n = k + 4 => saga[s].stack[n].family = f)
      BY <2>1, <2>4, StackPlaces DEF Intent
    <3>3. a = "failed" \/ n # k + 4
      <4> SUFFICES ASSUME a # "failed", n = k + 4 PROVE FALSE
        OBVIOUS
      <4>1. f = g /\ Top(s).label = "pause"
        <5>1. n > 4
          BY <3>1
        <5> QED  BY <1>1, <3>1, <3>2, <5>1, StackPlaces
      <4> QED  BY <1>0, <2>2, <2>4, <4>1 DEF StillSuspended
    <3>4. Effective(s)' < k + 4
      <4>1. Effective(s)' = IF a = "failed" THEN saga[s].done ELSE saga[s].done + 1
        BY <1>2 DEF Effective, Answered
      <4> HIDE DEF n
      <4> QED  BY <3>1, <3>2, <3>3, <4>1
    <3>5. HoldsSuspended(s, f)'
      BY <2>1, <2>2, <2>4, <3>4 DEF HoldsSuspended, Height
    <3> QED  BY <3>5 DEF Explained
  <2> QED  BY <2>3, <2>4
<1>5. CASE HasOwner(f)
  <2>1. CASE f = g /\ a = "failed"
    BY <2>1, FailureOwned DEF Explained
  <2>2. CASE f # g \/ saga[s].pc = "forward"
    BY <1>0, <1>5, <2>2, OwnerAnswered DEF Explained
  <2>3. CASE f = g /\ a # "failed" /\ saga[s].pc = "unwinding"
    <3>1. CASE Top(s).label = "resume"
      <4>1. GoesBackToSuspended(s, f)'
        BY <1>0, <1>1, <2>3, <3>1 DEF StillSuspended, GoesBackToSuspended
      <4> QED  BY <4>1 DEF Explained
    <3>2. CASE Top(s).label # "resume"
      <4> DEFINE n == Height(s)
      <4>1. n \in 1 .. 6 /\ n > 2
        BY <1>1, <3>2, StackPlaces
      <4>2. n - 2 \in 1 .. n /\ n - 2 < n /\ (n - 2) + 2 = n
        BY <4>1
      <4>3. saga[s].stack[n - 2].family = f
        BY <1>1, <2>3, <4>1, <4>2, StackPlaces
      <4>4. RestoreUnserved(s, f)'
        BY <2>3, <4>2, <4>3 DEF RestoreUnserved, Height
      <4> QED  BY <4>4 DEF Explained, HasOwner
    <3> QED  BY <3>1, <3>2
  <2> QED  BY <1>1, <2>1, <2>2, <2>3 DEF Moving
<1> QED  BY <1>3, <1>4, <1>5 DEF Explained

\* Whoever has a job suspended accounts for it before it is.
LEMMA SuspendingExplained ==
    ASSUME Control, NEW f \in Families, Busy(f),
           Head(steps[f]) \in {"trigger_savepoint", "suspend_job"}
    PROVE  Explained(f) /\ StillSuspended(Serving(f).caller, f)
<1>0. inbox[f] # <<>> /\ HandlerOK(f)
  BY StepsLeft DEF Control
<1>1. PICK s \in Sagas : s = Serving(f).caller
  BY <1>0, BeingServed
<1>2. /\ reply[s] = "waiting" /\ Height(s) \in 1 .. 6
      /\ Top(s) = saga[s].stack[Height(s)] /\ Top(s).family = f
      /\ f \in DOMAIN saga[s].statuses
      /\ saga[s].pc = "forward" => Height(s) = saga[s].done + 1
  BY <1>0, <1>1, ServedPlace
<1>3. steps[f] # <<"resume_job">> /\ steps[f] # <<"patch_configmap">>
  OBVIOUS
<1>4. \/ saga[s].pc = "forward" /\ Top(s).label = "resume"
      \/ /\ saga[s].pc = "unwinding" /\ Top(s).label = "resume"
         /\ saga[s].statuses[f].state = "SUSPENDED"
      \/ saga[s].pc = "unwinding" /\ Top(s).label = "pause"
  BY <1>0, <1>1, <1>3, ServedCommand DEF HandlerOK, FamilyState
<1>5. StillSuspended(s, f)
  BY <1>4 DEF StillSuspended
<1>6. CASE saga[s].pc = "forward" /\ Top(s).label = "resume"
  <2>1. saga[s].stack[Height(s)] = Intent("resume", f)
    <3>1. Top(s) \in IntentType
      BY <1>0, <1>1, BeingServed, TopOfStack
    <3> QED  BY <1>2, <1>6, <3>1 DEF IntentType, Intent
  <2>2. Effective(s) < Height(s) + 4
    BY <1>2, <1>6, MoverFacts DEF Effective, Answered
  <2>3. HoldsSuspended(s, f)
    BY <1>2, <1>6, <2>1, <2>2 DEF HoldsSuspended
  <2> QED  BY <1>1, <1>5, <2>3 DEF Explained
<1>7. CASE /\ saga[s].pc = "unwinding" /\ Top(s).label = "resume"
           /\ saga[s].statuses[f].state = "SUSPENDED"
  BY <1>1, <1>2, <1>5, <1>7 DEF Explained, GoesBackToSuspended
<1>8. CASE saga[s].pc = "unwinding" /\ Top(s).label = "pause"
  <2>1. RestoreUnserved(s, f)
    BY <1>2, <1>8 DEF RestoreUnserved
  <2> QED  BY <1>1, <1>5, <2>1 DEF Explained, HasOwner
<1> QED  BY <1>4, <1>6, <1>7, <1>8

LEMMA ExplainedReplaced ==
    ASSUME NEW f \in Families, Explained(f), UNCHANGED <<saga, reply>>
    PROVE  Explained(f)'
BY DEF Explained, HasOwner, RestoreUnserved, HoldsSuspended, GoesBackToSuspended, Effective,
   Answered, Height

\* The answer to a call that had nothing to do.
LEMMA ExplainedEnter ==
    ASSUME Control, NEW f \in Families, CacheOK(f), Enter(f), UNCHANGED <<request, saga>>,
           state[f] = "SUSPENDED", Explained(f)
    PROVE  Explained(f)'
<1>0. inbox[f] # <<>> /\ ~Busy(f)
  BY DEF Enter
<1>1. CASE HandlerSteps(f, Serving(f)) # <<>>
  BY <1>1, ExplainedReplaced DEF Enter
<1>2. CASE HandlerSteps(f, Serving(f)) = <<>>
  <2>1. Answer(f, "unchanged")
    BY <1>2 DEF Enter
  <2>2. PICK s \in Sagas : s = Serving(f).caller
    BY <1>0, BeingServed
  <2>3. CASE StillSuspended(s, f)
    BY <1>0, <2>1, <2>2, <2>3, ExplainedAnswered
  <2>4. CASE saga[s].pc = "forward" /\ Top(s).label = "pause"
    <3>1. Serving(f).command = "resume"
      BY <1>0, <2>2, <2>4, ServedCommand
    <3>2. cache[f] \notin {"unset", state[f]}
      BY <1>0, <1>2, <3>1, HandlerDecides, StepsAsSequences DEF CachedState
    <3>3. HasOwner(f)
      BY <1>0, <3>2 DEF CacheOK
    <3>4. HasOwner(f)'
      BY <1>0, <2>1, <2>2, <2>4, <3>3, OwnerAnswered
    <3> QED  BY <3>4 DEF Explained
  <2>5. ASSUME saga[s].pc = "unwinding", Top(s).label = "resume",
               saga[s].statuses[f].state # "SUSPENDED"
        PROVE  FALSE
    <3>1. Serving(f).command = "restore" /\ Serving(f).desired = {"RUNNING"}
      BY <1>0, <2>2, <2>5, ServedCommand DEF FamilyState
    <3> QED  BY <1>0, <1>2, <3>1, HandlerDecides, StepsAsSequences
  <2> QED  BY <2>3, <2>4, <2>5 DEF StillSuspended
<1> QED  BY <1>1, <1>2

\* The return of a step, of which the resume leaves nothing to account for.
LEMMA ExplainedReturns ==
    ASSUME Control, NEW f \in Families, StepReturns(f), UNCHANGED <<request, saga>>,
           state[f] = "SUSPENDED" => Explained(f), state'[f] = "SUSPENDED"
    PROVE  Explained(f)'
<1>0. Attempt(f, "ok") /\ Busy(f) /\ inbox[f] # <<>> /\ Committed("ok")
  BY AttemptEffect, StepsLeft DEF StepReturns, Committed
<1>1. PICK s \in Sagas : s = Serving(f).caller
  BY <1>0, BeingServed
<1>2. Explained(f) /\ StillSuspended(s, f)
  <2>1. CASE Head(steps[f]) \in {"trigger_savepoint", "suspend_job"}
    BY <1>0, <1>1, <2>1, SuspendingExplained
  <2>2. CASE steps[f] = <<"resume_job">>
    <3>1. Head(steps[f]) = "resume_job"
      BY <2>2
    <3> QED  BY <1>0, <3>1, AttemptEffect
  <2>3. CASE steps[f] = <<"patch_configmap">>
    <3>1. Head(steps[f]) = "patch_configmap"
      BY <2>3
    <3>2. state'[f] = state[f]
      BY <1>0, <3>1, AttemptEffect
    <3>3. Top(s).label = "revert"
      <4>1. steps[f] # PauseSteps /\ steps[f] # <<"suspend_job">> /\ steps[f] # <<"resume_job">>
        BY <2>3, StepsAsSequences
      <4> QED
        BY <1>0, <1>1, <4>1, ServedCommand DEF Control, HandlerOK, PauseLeft, FamilyState
    <3> QED  BY <3>2, <3>3 DEF StillSuspended
  <2>4. steps[f] \in {PauseSteps, <<"suspend_job">>} =>
            Head(steps[f]) \in {"trigger_savepoint", "suspend_job"}
    BY DEF PauseSteps
  <2> QED  BY <1>0, <2>1, <2>2, <2>3, <2>4, StepsLeft
<1>3. CASE Len(steps[f]) = 1
  <2>1. Answer(f, "changed")
    BY <1>3 DEF StepReturns
  <2> QED  BY <1>0, <1>1, <1>2, <2>1, ExplainedAnswered
<1>4. CASE Len(steps[f]) # 1
  BY <1>2, <1>4, ExplainedReplaced DEF StepReturns
<1> QED  BY <1>3, <1>4

LEMMA ExplainedObject ==
    ASSUME Control, NEW f \in Families, CacheOK(f), ObjectStep(f),
           state[f] = "SUSPENDED" => Explained(f), state'[f] = "SUSPENDED"
    PROVE  Explained(f)'
<1>0. UNCHANGED <<request, saga>>
  BY DEF ObjectStep
<1>1. CASE Enter(f)
  BY <1>0, <1>1, ExplainedEnter DEF Enter, cluster
<1>2. CASE StepReturns(f)
  BY <1>0, <1>2, ExplainedReturns
<1>3. CASE \E outcome \in Outcome : StepFails(f, outcome)
  <2>1. Answer(f, "failed") /\ inbox[f] # <<>>
    BY <1>3, AttemptEffect, StepsLeft DEF StepFails
  <2> QED  BY <1>0, <2>1, FailureOwned DEF Explained
<1>4. CASE Crash(f) \/ \E outcome \in Outcome : StepRetried(f, outcome)
  <2>1. PICK outcome : Attempt(f, outcome) /\ UNCHANGED reply
    BY <1>4 DEF Crash, StepRetried
  <2>2. Busy(f)
    BY <2>1, AttemptEffect
  <2>3. CASE state[f] = "SUSPENDED"
    BY <1>0, <2>1, <2>3, ExplainedReplaced
  <2>4. CASE state[f] # "SUSPENDED"
    <3>1. Committed(outcome) /\ Head(steps[f]) \notin
              {"trigger_savepoint", "resume_job", "patch_configmap"}
      BY <2>1, <2>4, AttemptEffect DEF cluster
    <3>2. Head(steps[f]) = "suspend_job"
      BY <2>2, <3>1, StepsLeft DEF Operation
    <3>3. Explained(f)
      BY <2>2, <3>2, SuspendingExplained
    <3> QED  BY <1>0, <2>1, <3>3, ExplainedReplaced
  <2> QED  BY <2>3, <2>4
<1>5. CASE Reset(f)
  BY <1>0, <1>5, ExplainedReplaced DEF Reset, cluster
<1> QED  BY <1>1, <1>2, <1>3, <1>4, <1>5 DEF ObjectStep, HandlerStep

LEMMA ExplainedElsewhere ==
    ASSUME Control, NEW f \in Families, NEW g \in Families \ {f}, ObjectStep(g), Explained(f)
    PROVE  Explained(f)'
<1>1. UNCHANGED <<request, saga>>
  BY DEF ObjectStep
<1>2. CASE UNCHANGED <<inbox, reply>>
  BY <1>1, <1>2, ExplainedReplaced
<1>3. CASE inbox[g] # <<>> /\ \E a \in {"changed", "unchanged", "failed"} : Answer(g, a)
  BY <1>1, <1>3, ExplainedAnswered
<1> QED  BY <1>2, <1>3, ObjectFrame

\* A move that has a job suspended accounts for it until its own resume, and
\* from the start of its unwind as its restores are owed.
LEMMA HolderKeeps ==
    ASSUME Control, NEW s \in Sagas, SagaStep(s), NEW f \in Families, HoldsSuspended(s, f)
    PROVE  Explained(f)'
<1>1. PICK k \in 1 .. Height(s) :
          saga[s].stack[k] = Intent("resume", f) /\ Effective(s) < k + 4
  BY DEF HoldsSuspended
<1>2. saga[s].pc = "forward" /\ Height(s) \in 0 .. 6 /\ saga[s].done \in 0 .. 6
  BY MoverFacts DEF HoldsSuspended
<1>3. k <= 2
  BY <1>1, StackPlaces DEF Intent
<1>4. CASE CallStep(s)
  <2>1. PICK n \in 1 .. 6 :
            /\ reply[s] = "none" /\ saga[s].done = n - 1 /\ Height(s) = n - 1
            /\ saga'[s].pc = "forward" /\ saga'[s].done = n - 1 /\ Height(s)' = n
            /\ \A j \in 1 .. n : saga'[s].stack[j] = Intents(request[s])[j]
    BY <1>4, CallStepFacts
  <2>2. reply'[s] = "waiting"
    BY <1>4 DEF CallStep, SendStep, Send, Control, TypeOK, ActorTypeOK
  <2>3. k \in 1 .. n /\ saga'[s].stack[k] = saga[s].stack[k]
    BY <1>1, <2>1 DEF Control, StackOK
  <2>4. Effective(s)' = Effective(s)
    BY <2>1, <2>2 DEF Effective, Answered
  <2>5. HoldsSuspended(s, f)'
    BY <1>1, <2>1, <2>3, <2>4 DEF HoldsSuspended
  <2> QED  BY <2>5 DEF Explained
<1>5. CASE StepAnswered(s)
  <2>1. /\ reply[s] \in {"changed", "unchanged"} /\ reply'[s] = "none"
        /\ saga'[s].pc = "forward" /\ saga'[s].done = saga[s].done + 1
        /\ saga'[s].stack = saga[s].stack
    <3>1. saga[s] \in Progress /\ saga \in [Sagas -> Progress] /\ reply \in [Sagas -> Reply]
      BY DEF Control, TypeOK, ActorTypeOK
    <3> QED  BY <1>2, <1>5, <3>1 DEF StepAnswered, Receive, Progress
  <2>2. Effective(s)' = Effective(s)
    BY <2>1 DEF Effective, Answered
  <2>3. HoldsSuspended(s, f)'
    BY <1>1, <2>1, <2>2 DEF HoldsSuspended, Height
  <2> QED  BY <2>3 DEF Explained
<1>6. CASE StepFailed(s)
  <2>1. /\ saga'[s].pc = "unwinding" /\ saga'[s].stack = saga[s].stack
        /\ reply' = [reply EXCEPT ![s] = "none"]
    BY <1>6, GotoFacts DEF StepFailed, Receive
  <2>2. reply'[s] = "none"
    BY <2>1 DEF Control, TypeOK, ActorTypeOK
  <2>3. RestoreUnserved(s, f)'
    BY <1>1, <2>1, <2>2 DEF RestoreUnserved, Height, Intent
  <2> QED  BY <2>3 DEF Explained, HasOwner
<1>7. ASSUME Complete(s) PROVE FALSE
  <2>1. saga[s].done = 6 /\ reply[s] = "none"
    BY <1>7 DEF Complete, PlanLength
  <2>2. Effective(s) = 6
    BY <2>1 DEF Effective, Answered
  <2> QED  BY <1>1, <1>2, <1>3, <2>2
<1>8. ASSUME ReadSource(s) \/ ReadTarget(s) \/ ReadRaises(s) \/ Reject(s) \/ Accept(s)
             \/ CallRestore(s) \/ RestoreAnswered(s) \/ Unwound(s)
      PROVE  FALSE
  BY <1>2, <1>8 DEF ReadSource, ReadTarget, ReadRaises, Reject, Accept, CallRestore,
     RestoreAnswered, Unwound
<1> QED  BY <1>4, <1>5, <1>6, <1>7, <1>8 DEF SagaStep

LEMMA RestorerKeeps ==
    ASSUME Control, NEW s \in Sagas, Start(s) \/ SagaStep(s), NEW f \in Families,
           GoesBackToSuspended(s, f)
    PROVE  GoesBackToSuspended(s, f)'
<1>1. saga[s].pc \in {"unwinding", "ended"} /\ saga \in [Sagas -> Progress]
  BY DEF GoesBackToSuspended, Control, SagaOK, TypeOK
<1>2. saga[s].pc = "unwinding" /\ (CallRestore(s) \/ RestoreAnswered(s) \/ Unwound(s))
  BY <1>1 DEF Start, SagaStep, ReadSource, ReadTarget, ReadRaises, Reject, Accept, CallStep,
     StepAnswered, StepFailed, Complete, CallRestore, RestoreAnswered, Unwound
<1>3. /\ saga'[s].statuses = saga[s].statuses
      /\ saga'[s].pc = "unwinding"
         \/ saga'[s].verdict \in {"COMPENSATED", "COMPENSATION_INCOMPLETE"}
  <2>1. CASE CallRestore(s)
    BY <1>2, <2>1 DEF CallRestore
  <2>2. CASE RestoreAnswered(s)
    BY <2>2, RestoreAnsweredFacts
  <2>3. CASE Unwound(s)
    <3>1. PICK v \in {"COMPENSATED", "COMPENSATION_INCOMPLETE"} : End(s, v)
      BY <2>3 DEF Unwound
    <3> QED  BY <3>1, EndFacts DEF Verdict
  <2> QED  BY <1>2, <2>1, <2>2, <2>3
<1> QED  BY <1>3 DEF GoesBackToSuspended

LEMMA ExplainedStays ==
    ASSUME Control, NEW s \in Sagas, Start(s) \/ SagaStep(s), NEW f \in Families, Explained(f)
    PROVE  Explained(f)'
<1>1. CASE HasOwner(f)
  BY <1>1, OwnerStays DEF Explained
<1>2. ASSUME NEW t \in Sagas, t # s, HoldsSuspended(t, f) \/ GoesBackToSuspended(t, f)
      PROVE  Explained(f)'
  <2>1. saga'[t] = saga[t] /\ reply'[t] = reply[t]
    BY <1>2, WorkflowFrame
  <2>2. HoldsSuspended(t, f)' \/ GoesBackToSuspended(t, f)'
    BY <1>2, <2>1 DEF HoldsSuspended, GoesBackToSuspended, Effective, Answered, Height
  <2> QED  BY <2>2 DEF Explained
<1>3. CASE HoldsSuspended(s, f)
  <2>1. SagaStep(s)
    BY <1>3 DEF Start, HoldsSuspended
  <2> QED  BY <1>3, <2>1, HolderKeeps
<1>4. CASE GoesBackToSuspended(s, f)
  BY <1>4, RestorerKeeps DEF Explained
<1> QED  BY <1>1, <1>2, <1>3, <1>4 DEF Explained

LEMMA SuspensionsNext ==
    Control /\ StaleCacheHasOwner /\ SuspensionsExplained /\ [Next]_vars
        => SuspensionsExplained'
<1> SUFFICES ASSUME Control, StaleCacheHasOwner, SuspensionsExplained, [Next]_vars,
                    NEW f \in Families, state'[f] = "SUSPENDED"
             PROVE  Explained(f)'
  BY DEF SuspensionsExplained
<1>0. (state[f] = "SUSPENDED" => Explained(f)) /\ CacheOK(f)
  BY DEF SuspensionsExplained, StaleCacheHasOwner
<1>1. ASSUME NEW s \in Sagas, Start(s) \/ SagaStep(s) PROVE Explained(f)'
  BY <1>0, <1>1, WorkflowFrame, ExplainedStays DEF cluster
<1>2. ASSUME NEW g \in Families, ObjectStep(g) PROVE Explained(f)'
  <2>1. CASE g = f
    BY <1>0, <1>2, <2>1, ExplainedObject
  <2>2. CASE g # f
    BY <1>0, <1>2, <2>2, ObjectFrame, ExplainedElsewhere
  <2> QED  BY <2>1, <2>2
<1>3. CASE UNCHANGED vars
  BY <1>0, <1>3, ExplainedReplaced DEF vars, handlers, cluster
<1> QED  BY <1>1, <1>2, <1>3 DEF Next

\* For any moves that overlap in any way: when all are over and none asks for
\* an operator, a job is suspended only on behalf of a move that was rolled back
\* and whose snapshot has it SUSPENDED.
THEOREM SuspensionsHaveReasons == Spec => []SuspensionsWereThereBefore
<1>1. Init => SuspensionsExplained
  <2>1. Init => \A f \in Families : state[f] = "RUNNING"
    BY DEF Init, Seed
  <2> QED  BY <2>1 DEF SuspensionsExplained
<1>2. Init => StaleCacheHasOwner
  BY StaleCacheInit
<1>3. Control /\ StaleCacheHasOwner /\ [Next]_vars => StaleCacheHasOwner'
  BY StaleCacheNext
<1>4. Control /\ StaleCacheHasOwner /\ SuspensionsExplained /\ [Next]_vars
        => SuspensionsExplained'
  BY SuspensionsNext
<1>5. Control /\ SuspensionsExplained => SuspensionsWereThereBefore
  <2> SUFFICES ASSUME Control, NEW f \in Families, Explained(f),
                      \A s \in Sagas : /\ saga[s].pc \in {"idle", "ended"}
                                       /\ saga[s].verdict # "COMPENSATION_INCOMPLETE"
               PROVE  \E s \in Sagas : /\ saga[s].verdict = "COMPENSATED"
                                       /\ f \in DOMAIN saga[s].statuses
                                       /\ saga[s].statuses[f].state = "SUSPENDED"
    BY DEF SuspensionsExplained, SuspensionsWereThereBefore
  <2>1. \A s \in Sagas : saga[s].errors = {} /\ reply[s] = "none"
    BY DEF Control, SagaOK, Moving
  <2>2. ~HasOwner(f)
    BY <2>1 DEF HasOwner, RestoreUnserved
  <2> QED  BY <2>2 DEF Explained, HoldsSuspended, GoesBackToSuspended
<1> QED  BY <1>1, <1>2, <1>3, <1>4, <1>5, RestateKeepsControl, PTL DEF Spec
=============================================================================
