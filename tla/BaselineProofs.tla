--------------------------- MODULE BaselineProofs ---------------------------
(***************************************************************************)
(* What the baseline saga guarantees, for any families, datatypes, retry   *)
(* budget and number of moves: Control, which is inductive by itself; the  *)
(* other parts of IInv, each inductive relative to Control; and that the   *)
(* saga implements MoveContract.  Its verdict reaches the caller whatever  *)
(* engine carries it.  Last, the fault rules: the saga under them is the   *)
(* saga with its outcomes decided, and a fault that is shorter than the    *)
(* retry budget never makes a move unwind.                                 *)
(***************************************************************************)
EXTENDS ChaosBaseline, VerdictTransport, PlanProofs

LEMMA OpsAsSequences ==
    /\ PauseOps \in Seq(Operation) /\ PauseOps # <<>>
    /\ Head(PauseOps) = "trigger_savepoint" /\ Tail(PauseOps) = <<"suspend_job">>
    /\ \A op \in Operation : 
        /\ <<op>> \in Seq(Operation) /\ <<op>> # <<>>
        /\ Head(<<op>>) = op /\ Tail(<<op>>) = <<>>
        /\ <<op>> # PauseOps
    /\ <<"suspend_job">> \in Seq(Operation) /\ <<"suspend_job">> # <<>>
    /\ <<"patch_configmap">> \in Seq(Operation) /\ <<"patch_configmap">> # <<>>
    /\ <<"resume_job">> \in Seq(Operation) /\ <<"resume_job">> # <<>>
  BY DEF PauseOps, Operation

-----------------------------------------------------------------------------
(* The command in progress belongs to the intent on top of the stack.      *)

LEMMA TopOfStack ==
    ASSUME Control, Moving, stack # <<>>
    PROVE  \E n \in 1 .. 6 :
             /\ Len(stack) = n
             /\ Last(stack) = Intents(request)[n]
             /\ Last(stack) \in IntentType
             /\ Last(stack).family \in FamiliesOf(request)
<1>1. request \in MoveDatatypeRequest /\ stack \in Seq(IntentType)
  BY DEF Control, TypeOK
<1>2. Len(stack) \in Nat \ {0} /\ Last(stack) = stack[Len(stack)] /\ Last(stack) \in IntentType
  BY <1>1, PopStack, Zenon
<1> DEFINE n == Len(stack)
<1>3. n \in Nat \ {0} /\ Last(stack) = stack[n] /\ Last(stack) \in IntentType
  BY <1>2
<1>4. n <= 6 /\ \A k \in 1 .. n : stack[k] = Intents(request)[k]
  BY DEF Control, StackOK, PlanLength
<1> HIDE DEF n
<1>5. n \in 1 .. 6 /\ n \in 1 .. n
  BY <1>3, <1>4
<1>6. Last(stack) = Intents(request)[n]
  BY <1>3, <1>4, <1>5, Zenon
<1>7. Last(stack).family \in FamiliesOf(request)
  BY <1>1, <1>5, <1>6, IntentFamily, Zenon
<1> QED  BY <1>3, <1>5, <1>6, <1>7 DEF n

LEMMA CurrentSubject ==
    ASSUME Control, todo # <<>>
    PROVE  /\ Moving /\ stack # <<>>
           /\ Subject = Last(stack).family
           /\ Subject \in FamiliesOf(request)
           /\ Subject \in Families
           /\ statuses[Subject] \in FamilyStatus
           /\ ConfigToWrite \in SUBSET Datatypes
<1>1. Moving
  BY DEF Control, PhasesOK, Moving
<1>2. stack # <<>>
  <2>1. CASE pc = "forward"
    <3>1. Len(stack) = done + 1 /\ done \in 0 .. 6
      BY <2>1 DEF Control, StackOK, TypeOK, PlanLength
    <3> QED  BY <3>1
  <2>2. CASE pc = "unwinding"
    BY <2>2 DEF Control, StackOK
  <2> QED  BY <1>1, <2>1, <2>2 DEF Moving
<1>3. Subject = Last(stack).family
  <2>1. CASE pc = "forward"
    <3>1. Len(stack) = done + 1 /\ done \in 0 .. 6
      BY <2>1 DEF Control, StackOK, TypeOK, PlanLength
    <3>2. PICK n \in 1 .. 6 : Len(stack) = n /\ Last(stack) = Intents(request)[n]
      BY <1>1, <1>2, TopOfStack
    <3>3. request \in MoveDatatypeRequest
      BY DEF Control, TypeOK
    <3>4. Plan(request)[n].family = Intents(request)[n].family
      BY <3>2, <3>3, IntentFamily
    <3>5. n = done + 1
      BY <3>1, <3>2
    <3> QED  BY <2>1, <3>2, <3>4, <3>5 DEF Subject, CurrentStep
  <2>2. CASE pc = "unwinding"
    BY <2>2 DEF Subject
  <2> QED  BY <1>1, <2>1, <2>2 DEF Moving
<1>4. Subject \in FamiliesOf(request)
  BY <1>1, <1>2, <1>3, TopOfStack
<1>5. SnapshotTaken
  BY <1>1 DEF Control, PhasesOK, Accepted
<1>6. Subject \in Families /\ statuses[Subject] \in FamilyStatus
  BY <1>4, <1>5 DEF SnapshotTaken
<1>7. ConfigToWrite \in SUBSET Datatypes
  <2>1. request.datatype \in Datatypes
    BY DEF Control, TypeOK, MoveDatatypeRequest
  <2>2. statuses[Subject].datatypes \in SUBSET Datatypes
    BY <1>6 DEF FamilyStatus
  <2> QED  BY <2>1, <2>2 DEF ConfigToWrite, NewConfig
<1> QED  BY <1>1, <1>2, <1>3, <1>4, <1>6, <1>7

\* An attempt keeps the cluster well typed, whatever its outcome.
LEMMA AttemptTyped ==
    ASSUME Control, NEW outcome, Attempt(outcome)
    PROVE  ClusterTypeOK'
<1>1. Subject \in Families /\ ConfigToWrite \in SUBSET Datatypes
  BY CurrentSubject DEF Attempt
<1>2. ClusterTypeOK
  BY DEF Control, TypeOK
<1>3. CASE UNCHANGED cluster
  BY <1>2, <1>3 DEF ClusterTypeOK, cluster
<1>4. CASE Mutate(Head(todo), Subject, ConfigToWrite)
  BY <1>1, <1>2, <1>4 DEF Mutate, TriggerSavepoint, SuspendJob, ResumeJob,
     PatchConfigmap, Commit, ClusterTypeOK, FamilyState
<1> QED  BY <1>3, <1>4 DEF Attempt

\* What is left to do is a pause, the suspend of a pause, or one operation.
LEMMA TodoValues ==
    ASSUME Control, todo # <<>>
    PROVE  \/ PauseLeft
           \/ todo = <<"patch_configmap">>
           \/ todo = <<"resume_job">>
<1>1. Moving /\ stack # <<>>
  BY CurrentSubject
<1>2. Last(stack) \in IntentType
  BY <1>1, TopOfStack
<1>3. Last(stack).label \in {"resume", "revert", "pause"}
  BY <1>2 DEF IntentType
<1> QED  BY <1>1, <1>3 DEF Control, TodoOK, Moving

LEMMA TodoTail ==
    ASSUME Control, todo # <<>>
    PROVE  /\ Tail(todo) \in Seq(Operation)
           /\ \/ todo = PauseOps /\ Tail(todo) = <<"suspend_job">>
              \/ todo # PauseOps /\ Tail(todo) = <<>>
<1>1. \/ todo = PauseOps
      \/ \E op \in Operation : todo = <<op>>
  BY TodoValues DEF PauseLeft, Operation
<1>2. <<>> \in Seq(Operation) /\ "suspend_job" \in Operation
  BY DEF Operation
<1> QED  BY <1>1, <1>2, OpsAsSequences

LEMMA PopPlan ==
    ASSUME Control, Moving, stack # <<>>
    PROVE  /\ Front(stack) \in Seq(IntentType)
           /\ Len(stack) \in Nat
           /\ 1 <= Len(stack)
           /\ Len(Front(stack)) = Len(stack) - 1
           /\ \A k \in 1 .. Len(Front(stack)) : Front(stack)[k] = Intents(request)[k]
<1>1. stack \in Seq(IntentType)
  BY DEF Control, TypeOK
<1>2. /\ Len(stack) \in Nat \ {0}
      /\ Front(stack) \in Seq(IntentType)
      /\ Len(Front(stack)) = Len(stack) - 1
      /\ \A k \in 1 .. Len(stack) - 1 : Front(stack)[k] = stack[k]
  BY <1>1, PopStack, Zenon
<1> DEFINE n == Len(stack)  front == Front(stack)
<1>3. n \in Nat \ {0} /\ Len(front) = n - 1 /\ \A k \in 1 .. n - 1 : front[k] = stack[k]
  BY <1>2
<1>4. \A k \in 1 .. n : stack[k] = Intents(request)[k]
  BY DEF Control, StackOK
<1> HIDE DEF n, front
<1>5. \A k \in 1 .. n - 1 : front[k] = Intents(request)[k]
  BY <1>3, <1>4
<1>6. n \in Nat /\ 1 <= n /\ \A k \in 1 .. Len(front) : front[k] = Intents(request)[k]
  BY <1>3, <1>5
<1> QED  BY <1>2, <1>6 DEF n, front

-----------------------------------------------------------------------------
(* Control is inductive.                                                   *)

LEMMA ControlInit == Init => Control
<1> SUFFICES ASSUME Init PROVE Control
  OBVIOUS
<1>1. TypeOK
  BY BaselineAssumption DEF Init, Seed, TypeOK, ClusterTypeOK, PlanLength, Verdict, FamilyState
<1>2. PhasesOK
  BY DEF Init, PhasesOK, Moving, RolledBack
<1>3. StackOK
  BY DEF Init, StackOK, PlanLength, RolledBack
<1>4. TodoOK
  BY DEF Init, TodoOK
<1> QED  BY <1>1, <1>2, <1>3, <1>4 DEF Control

\* Steps of the saga that neither call the cluster nor touch the stack.
LEMMA ControlOwnSteps ==
    ASSUME Control, ReadAll \/ ReadRaises \/ Reject \/ Accept \/ Complete \/ Unwound
    PROVE  Control'
<1> USE DEF Control
<1>1. CASE ReadAll
  <2>1. TypeOK'
    <3>1. \A f \in FamiliesOf(request) : Read(f) \in FamilyStatus
      BY <1>1 DEF ReadAll, Read, FamilyStatus, TypeOK, ClusterTypeOK
    <3>2. statuses' \in [FamiliesOf(request) -> FamilyStatus]
      BY <1>1, <3>1 DEF ReadAll
    <3> QED  BY <1>1, <3>2 DEF ReadAll, TypeOK, ClusterTypeOK, cluster, report
  <2>2. SnapshotTaken'
    BY <1>1, <2>1 DEF ReadAll, SnapshotTaken, TypeOK, FamiliesOf
  <2>3. PhasesOK'
    BY <1>1, <2>2 DEF ReadAll, PhasesOK, Moving, RolledBack, report
  <2>4. StackOK'
    BY <1>1 DEF ReadAll, StackOK, RolledBack, PlanLength
  <2>5. TodoOK'
    BY <1>1 DEF ReadAll, TodoOK, PhasesOK
  <2> QED  BY <2>1, <2>3, <2>4, <2>5
<1>2. CASE ReadRaises
  <2>1. TypeOK'
    BY <1>2 DEF ReadRaises, End, TypeOK, ClusterTypeOK, cluster, report, Verdict
  <2>2. PhasesOK'
    BY <1>2 DEF ReadRaises, End, PhasesOK, Moving, RolledBack, report
  <2>3. StackOK'
    BY <1>2 DEF ReadRaises, End, StackOK, RolledBack
  <2>4. TodoOK'
    BY <1>2 DEF ReadRaises, TodoOK, PhasesOK
  <2> QED  BY <2>1, <2>2, <2>3, <2>4
<1>3. CASE Reject
  <2>1. TypeOK'
    BY <1>3 DEF Reject, End, TypeOK, ClusterTypeOK, cluster, report, Verdict
  <2>2. PhasesOK'
    BY <1>3 DEF Reject, End, PhasesOK, Moving, RolledBack, report
  <2>3. StackOK'
    BY <1>3 DEF Reject, End, StackOK, RolledBack
  <2>4. TodoOK'
    BY <1>3 DEF Reject, TodoOK, PhasesOK
  <2> QED  BY <2>1, <2>2, <2>3, <2>4
<1>4. CASE Accept
  <2>1. TypeOK'
    BY <1>4 DEF Accept, TypeOK, ClusterTypeOK, cluster, report
  <2>2. PhasesOK'
    BY <1>4 DEF Accept, PhasesOK, Moving, RolledBack, report, Accepted, SnapshotTaken
  <2>3. StackOK'
    <3>1. stack = <<>> /\ stack' = <<>> /\ done' = 0 /\ todo' = <<>> /\ pc' = "forward"
          /\ verdict' = "none"
      BY <1>4 DEF Accept, PhasesOK
    <3> QED  BY <3>1 DEF StackOK, RolledBack, PlanLength
  <2>4. TodoOK'
    BY <1>4 DEF Accept, TodoOK, PhasesOK
  <2> QED  BY <2>1, <2>2, <2>3, <2>4
<1>5. CASE Complete
  <2>1. TypeOK'
    BY <1>5 DEF Complete, End, TypeOK, ClusterTypeOK, cluster, report, Verdict
  <2>2. PhasesOK'
    BY <1>5 DEF Complete, End, PhasesOK, Moving, RolledBack, report, Accepted, SnapshotTaken
  <2>3. StackOK'
    BY <1>5 DEF Complete, End, StackOK, RolledBack
  <2>4. TodoOK'
    BY <1>5 DEF Complete, TodoOK
  <2> QED  BY <2>1, <2>2, <2>3, <2>4
<1>6. CASE Unwound
  <2>1. TypeOK'
    BY <1>6 DEF Unwound, End, TypeOK, ClusterTypeOK, cluster, report, Verdict
  <2>2. todo = <<>> /\ done < PlanLength
    BY <1>6 DEF Unwound, StackOK
  <2>3. PhasesOK'
    BY <1>6, <2>2 DEF Unwound, End, PhasesOK, Moving, RolledBack, report, Accepted, SnapshotTaken
  <2>4. StackOK'
    BY <1>6, <2>2 DEF Unwound, End, StackOK, RolledBack
  <2>5. TodoOK'
    BY <1>6, <2>2 DEF Unwound, TodoOK
  <2> QED  BY <2>1, <2>3, <2>4, <2>5
<1> QED  BY <1>1, <1>2, <1>3, <1>4, <1>5, <1>6

\* A death and the start of another move both leave an empty saga.
LEMMA ControlResets ==
    ASSUME Control, Die \/ \E r \in MoveDatatypeRequest : NextSaga(r)
    PROVE  Control'
<1> USE DEF Control
<1>1. CASE Die
  <2>1. TypeOK'
    BY <1>1, BaselineAssumption DEF Die, End, TypeOK, ClusterTypeOK, cluster, Verdict, PlanLength
  <2>2. PhasesOK'
    BY <1>1 DEF Die, End, PhasesOK, Moving, RolledBack
  <2>3. StackOK'
    BY <1>1 DEF Die, End, StackOK, RolledBack, PlanLength
  <2>4. TodoOK'
    BY <1>1 DEF Die, TodoOK
  <2> QED  BY <2>1, <2>2, <2>3, <2>4
<1>2. ASSUME NEW r \in MoveDatatypeRequest, NextSaga(r)
      PROVE  Control'
  <2>1. TypeOK'
    BY <1>2, BaselineAssumption DEF NextSaga, Begin, TypeOK, ClusterTypeOK, cluster, Verdict, PlanLength
  <2>2. PhasesOK'
    BY <1>2 DEF NextSaga, Begin, PhasesOK, Moving, RolledBack
  <2>3. StackOK'
    BY <1>2 DEF NextSaga, Begin, StackOK, RolledBack, PlanLength
  <2>4. TodoOK'
    BY <1>2 DEF NextSaga, Begin, TodoOK
  <2> QED  BY <2>1, <2>2, <2>3, <2>4
<1> QED  BY <1>1, <1>2

\* The intent is pushed and the operations of its step are the ones to make.
LEMMA ControlBeginStep ==
    ASSUME Control, BeginStep
    PROVE  Control'
<1> DEFINE n == done + 1
<1>1. /\ done \in 0 .. 6 /\ n \in 1 .. 6 /\ request \in MoveDatatypeRequest
      /\ stack \in Seq(IntentType) /\ todo = <<>> /\ pc = "forward"
      /\ verdict = "none"
  BY DEF BeginStep, Control, TypeOK, PlanLength, PhasesOK
<1>2. Intents(request)[n] \in IntentType
  BY <1>1, IntentsByPosition
<1>3. stack' = Append(stack, Intents(request)[n]) /\ Len(stack) = done
  BY <1>1 DEF BeginStep, Control, StackOK
<1>4. stack' \in Seq(IntentType) /\ Len(stack') = n /\ stack'[n] = Intents(request)[n]
      /\ \A k \in 1 .. done : stack'[k] = stack[k]
  BY <1>1, <1>2, <1>3
<1>5. \A k \in 1 .. n : stack'[k] = Intents(request)[k]
  <2>1. \A k \in 1 .. done : stack[k] = Intents(request)[k]
    BY <1>3 DEF Control, StackOK
  <2> QED  BY <1>1, <1>4, <2>1
<1>6. /\ request' = request /\ pc' = "forward" /\ done' = done /\ statuses' = statuses
      /\ verdict' = "none" /\ UNCHANGED <<cluster, sagas, attempt, report>>
  BY <1>1 DEF BeginStep
<1>7. Last(stack') = Intents(request)[n]
  BY <1>4 DEF Last
<1>8. /\ todo' \in Seq(Operation) /\ todo' # <<>>
      /\ n \in {1, 2} => todo' = PauseOps /\ Last(stack').label = "resume"
      /\ n \in {3, 4} => todo' = <<"patch_configmap">> /\ Last(stack').label = "revert"
      /\ n \in {5, 6} => todo' = <<"resume_job">> /\ Last(stack').label = "pause"
  <2>1. todo' = CommandOps(Plan(request)[n].command)
    BY DEF BeginStep, CurrentStep
  <2>2. n \in 1 .. 6
    BY <1>1
  <2> HIDE DEF n
  <2>3. CASE n \in {1, 2}
    <3>1. todo' = CommandOps("pause") /\ Last(stack').label = "resume"
      BY <1>1, <1>7, <2>1, <2>3, IntentFamily
    <3>2. todo' = PauseOps
      BY <3>1 DEF CommandOps
    <3> QED  BY <1>1, <2>3, <3>1, <3>2, OpsAsSequences
  <2>4. CASE n \in {3, 4}
    <3>1. todo' = CommandOps("patch") /\ Last(stack').label = "revert"
      BY <1>1, <1>7, <2>1, <2>4, IntentFamily
    <3>2. todo' = <<"patch_configmap">>
      BY <3>1 DEF CommandOps
    <3>3. todo' \in Seq(Operation) /\ todo' # <<>>
      BY <3>2, OpsAsSequences
    <3>4. ~(n \in {1, 2}) /\ ~(n \in {5, 6})
      BY <2>2, <2>4
    <3> QED  BY <3>1, <3>2, <3>3, <3>4, Zenon
  <2>5. CASE n \in {5, 6}
    <3>1. todo' = CommandOps("resume") /\ Last(stack').label = "pause"
      BY <1>1, <1>7, <2>1, <2>5, IntentFamily
    <3>2. todo' = <<"resume_job">>
      BY <3>1 DEF CommandOps
    <3>3. todo' \in Seq(Operation) /\ todo' # <<>>
      BY <3>2, OpsAsSequences
    <3>4. ~(n \in {1, 2}) /\ ~(n \in {3, 4})
      BY <2>2, <2>5
    <3> QED  BY <3>1, <3>2, <3>3, <3>4, Zenon
  <2> QED  BY <2>2, <2>3, <2>4, <2>5
<1>9. TypeOK'
  <2>1. todo' \in Seq(Operation) /\ stack' \in Seq(IntentType)
    BY <1>4, <1>8
  <2>2. TypeOK
    BY DEF Control
  <2> QED  BY <1>6, <2>1, <2>2 DEF TypeOK, ClusterTypeOK, cluster, report, Verdict
<1>10. PhasesOK'
  BY <1>1, <1>6 DEF Control, PhasesOK, Moving, RolledBack, report, Accepted, SnapshotTaken
<1>11. StackOK'
  <2>1. Len(stack') <= PlanLength /\ Len(stack') = done' + 1
    BY <1>1, <1>4, <1>6 DEF PlanLength
  <2>2. \A k \in 1 .. Len(stack') : stack'[k] = Intents(request')[k]
    BY <1>4, <1>5, <1>6
  <2> QED  BY <1>6, <1>8, <2>1, <2>2 DEF StackOK, RolledBack
<1>12. TodoOK'
  BY <1>1, <1>6, <1>8 DEF TodoOK, PauseLeft
<1> QED  BY <1>9, <1>10, <1>11, <1>12 DEF Control

\* A retried attempt leaves everything but the cluster and the count alone.
LEMMA ControlRetry ==
    ASSUME Control, NEW outcome \in Outcome, Retry(outcome)
    PROVE  Control'
<1>1. ClusterTypeOK'
  BY AttemptTyped DEF Retry
<1>2. attempt' \in 1 .. MaxAttempts
  BY BaselineAssumption DEF Retry, Control, TypeOK
<1>3. UNCHANGED <<request, sagas, pc, statuses, done, stack, todo, report, verdict>>
  BY DEF Retry
<1>4. TypeOK'
  BY <1>1, <1>2, <1>3 DEF Control, TypeOK, report
<1>5. PhasesOK'
  BY <1>3 DEF Control, PhasesOK, Moving, RolledBack, report, Accepted, SnapshotTaken
<1>6. StackOK'
  BY <1>3 DEF Control, StackOK, RolledBack
<1>7. TodoOK'
  BY <1>3 DEF Control, TodoOK, PauseLeft, DesiredState, Last
<1> QED  BY <1>4, <1>5, <1>6, <1>7 DEF Control

LEMMA ControlStepReturns ==
    ASSUME Control, StepReturns
    PROVE  Control'
<1>1. ClusterTypeOK'
  BY AttemptTyped DEF StepReturns, Returns
<1>2. /\ todo # <<>> /\ todo' = Tail(todo) /\ attempt' = 1 /\ pc = "forward"
      /\ done' = IF Tail(todo) = <<>> THEN done + 1 ELSE done
      /\ UNCHANGED <<request, sagas, pc, statuses, stack, report, verdict>>
  BY DEF StepReturns, Returns, Attempt
<1>3. Len(stack) = done + 1 /\ done \in 0 .. 6 /\ Len(stack) <= 6
  BY <1>2 DEF Control, StackOK, TypeOK, PlanLength
<1>4. done' \in 0 .. 6
  <2>1. done + 1 <= 6
    BY <1>3
  <2> QED  BY <1>2, <1>3, <2>1
<1>5. todo' \in Seq(Operation)
  BY <1>2, TodoTail
<1>6. TypeOK'
  BY <1>1, <1>2, <1>4, <1>5, BaselineAssumption DEF Control, TypeOK, report, PlanLength
<1>7. PhasesOK'
  BY <1>2 DEF Control, PhasesOK, Moving, RolledBack, report, Accepted, SnapshotTaken
<1>8. StackOK'
  BY <1>2, <1>3 DEF Control, StackOK, RolledBack, PhasesOK
<1>9. TodoOK'
  <2>1. CASE Tail(todo) = <<>>
    BY <1>2, <2>1 DEF TodoOK
  <2>2. CASE Tail(todo) # <<>>
    <3>1. todo = PauseOps /\ todo' = <<"suspend_job">>
      BY <1>2, <2>2, TodoTail
    <3>2. todo # <<"patch_configmap">> /\ todo # <<"resume_job">>
      BY <3>1, OpsAsSequences DEF Operation
    <3>3. Last(stack).label # "revert" /\ Last(stack).label # "pause"
      BY <1>2, <3>2 DEF Control, TodoOK
    <3>4. Last(stack') = Last(stack) /\ pc' = "forward"
      BY <1>2 DEF Last
    <3> QED  BY <3>1, <3>3, <3>4 DEF TodoOK, PauseLeft
  <2> QED  BY <2>1, <2>2
<1> QED  BY <1>6, <1>7, <1>8, <1>9 DEF Control

LEMMA ControlStepRaises ==
    ASSUME Control, NEW outcome \in Outcome, StepRaises(outcome)
    PROVE  Control'
<1>1. ClusterTypeOK'
  BY AttemptTyped DEF StepRaises, Raises
<1>2. /\ todo # <<>> /\ todo' = <<>> /\ attempt' = 1 /\ pc = "forward" /\ pc' = "unwinding"
      /\ UNCHANGED <<request, sagas, statuses, done, stack, report, verdict>>
  BY DEF StepRaises, Raises, Attempt
<1>3. TypeOK'
  BY <1>1, <1>2, BaselineAssumption DEF Control, TypeOK, report
<1>4. PhasesOK'
  BY <1>2 DEF Control, PhasesOK, Moving, RolledBack, report, Accepted, SnapshotTaken
<1>5. StackOK'
  <2>1. Len(stack) = done + 1 /\ done \in 0 .. 6 /\ Len(stack) <= 6
    BY <1>2 DEF Control, StackOK, TypeOK, PlanLength
  <2>2. done < PlanLength /\ Len(stack) <= done + 1
    BY <2>1 DEF PlanLength
  <2> QED  BY <1>2, <2>2 DEF Control, StackOK, RolledBack, PhasesOK
<1>6. TodoOK'
  BY <1>2 DEF TodoOK
<1> QED  BY <1>3, <1>4, <1>5, <1>6 DEF Control

\* A pop keeps the rest of the stack a prefix of the intents.
LEMMA ControlPop ==
    ASSUME Control, Restoring, todo' = <<>>,
           ClusterTypeOK', attempt' = 1 \/ attempt' = attempt,
           stack' = Front(stack), compensated' \subseteq IntentType,
           noops' \subseteq IntentType, errors' \subseteq IntentType,
           UNCHANGED <<request, sagas, pc, statuses, done, verdict>>
    PROVE  Control'
<1>1. Moving /\ stack # <<>> /\ pc = "unwinding" /\ done < PlanLength
  BY DEF Restoring, Moving, Control, StackOK
<1>2. /\ stack' \in Seq(IntentType) /\ Len(stack) \in Nat /\ Len(stack') = Len(stack) - 1
      /\ \A k \in 1 .. Len(stack') : stack'[k] = Intents(request)[k]
  BY <1>1, PopPlan
<1>3. TypeOK'
  <2>1. <<>> \in Seq(Operation)
    BY DEF Operation
  <2> QED  BY <1>2, <2>1, BaselineAssumption DEF Control, TypeOK
<1>4. PhasesOK'
  BY <1>1 DEF Control, PhasesOK, Moving, RolledBack, Accepted, SnapshotTaken
<1>5. StackOK'
  <2>1. Len(stack) <= PlanLength /\ Len(stack) <= done + 1 /\ verdict = "none"
    BY <1>1 DEF Control, StackOK, PhasesOK
  <2>2. Len(stack') <= PlanLength /\ Len(stack') <= done + 1
    BY <1>2, <2>1 DEF PlanLength, Control, TypeOK
  <2> QED  BY <1>1, <1>2, <2>1, <2>2 DEF StackOK, RolledBack
<1>6. TodoOK'
  BY DEF TodoOK
<1> QED  BY <1>3, <1>4, <1>5, <1>6 DEF Control

LEMMA ControlBeginRestore ==
    ASSUME Control, BeginRestore
    PROVE  Control'
<1>1. /\ pc = "unwinding" /\ stack # <<>> /\ todo' = RestoreOps(Last(stack))
      /\ UNCHANGED <<cluster, request, sagas, pc, statuses, done, stack, attempt,
                     report, verdict>>
  BY DEF BeginRestore, Restoring
<1>2. /\ todo' \in Seq(Operation)
      /\ Last(stack).label = "revert" => todo' = <<"patch_configmap">>
      /\ Last(stack).label # "revert" =>
            IF DesiredState(Last(stack)) = "SUSPENDED" THEN todo' = PauseOps
                                                       ELSE todo' = <<"resume_job">>
  <2>1. CASE Last(stack).label = "revert"
    <3>1. todo' = <<"patch_configmap">>
      BY <1>1, <2>1 DEF RestoreOps
    <3> QED  BY <2>1, <3>1, OpsAsSequences
  <2>2. CASE Last(stack).label # "revert" /\ DesiredState(Last(stack)) = "SUSPENDED"
    <3>1. todo' = PauseOps
      BY <1>1, <2>2 DEF RestoreOps
    <3> QED  BY <2>2, <3>1, OpsAsSequences
  <2>3. CASE Last(stack).label # "revert" /\ DesiredState(Last(stack)) # "SUSPENDED"
    <3>1. todo' = <<"resume_job">>
      BY <1>1, <2>3 DEF RestoreOps
    <3> QED  BY <2>3, <3>1, OpsAsSequences
  <2> QED  BY <2>1, <2>2, <2>3
<1>3. TypeOK'
  BY <1>1, <1>2 DEF Control, TypeOK, ClusterTypeOK, cluster, report
<1>4. PhasesOK'
  BY <1>1 DEF Control, PhasesOK, Moving, RolledBack, report, Accepted, SnapshotTaken
<1>5. StackOK'
  BY <1>1 DEF Control, StackOK, RolledBack
<1>6. TodoOK'
  <2>1. Last(stack') = Last(stack) /\ DesiredState(Last(stack))' = DesiredState(Last(stack))
    BY <1>1 DEF Last, DesiredState
  <2> QED  BY <1>1, <1>2, <2>1 DEF TodoOK, PauseLeft
<1> QED  BY <1>3, <1>4, <1>5, <1>6 DEF Control

LEMMA ControlRestoreReturns ==
    ASSUME Control, RestoreReturns
    PROVE  Control'
<1>1. ClusterTypeOK'
  BY AttemptTyped DEF RestoreReturns, Returns
<1>2. /\ todo # <<>> /\ todo' = Tail(todo) /\ attempt' = 1 /\ Restoring
      /\ UNCHANGED <<request, sagas, pc, statuses, done, noops, errors, verdict>>
  BY DEF RestoreReturns, Returns, Attempt
<1>3. Last(stack) \in IntentType
  BY <1>2, TopOfStack DEF Restoring, Moving
<1>4. CASE Tail(todo) = <<>>
  <2>1. stack' = Front(stack) /\ compensated' = compensated \union {Last(stack)}
    BY <1>4 DEF RestoreReturns
  <2>2. compensated' \subseteq IntentType /\ noops' \subseteq IntentType
        /\ errors' \subseteq IntentType
    BY <1>2, <1>3, <2>1 DEF Control, TypeOK
  <2> QED  BY <1>1, <1>2, <1>4, <2>1, <2>2, ControlPop
<1>5. CASE Tail(todo) # <<>>
  <2>1. UNCHANGED <<compensated, stack>>
    BY <1>5 DEF RestoreReturns
  <2>2. todo' \in Seq(Operation) /\ todo = PauseOps /\ todo' = <<"suspend_job">>
    BY <1>2, <1>5, TodoTail
  <2>3. TypeOK'
    BY <1>1, <1>2, <2>1, <2>2, BaselineAssumption DEF Control, TypeOK
  <2>4. PhasesOK'
    BY <1>2, <2>1 DEF Control, PhasesOK, Moving, RolledBack, Accepted, SnapshotTaken, Restoring
  <2>5. StackOK'
    BY <1>2, <2>1 DEF Control, StackOK, RolledBack, Restoring
  <2>6. TodoOK'
    <3>1. todo # <<"patch_configmap">> /\ todo # <<"resume_job">>
      BY <2>2, OpsAsSequences DEF Operation
    <3>2. /\ Last(stack).label # "revert"
          /\ DesiredState(Last(stack)) = "SUSPENDED"
          /\ pc = "unwinding"
      BY <1>2, <3>1 DEF Control, TodoOK, Restoring
    <3>3. Last(stack') = Last(stack) /\ DesiredState(Last(stack))' = DesiredState(Last(stack))
      BY <1>2, <2>1 DEF Last, DesiredState
    <3> QED  BY <1>2, <2>2, <3>2, <3>3 DEF TodoOK, PauseLeft
  <2> QED  BY <2>3, <2>4, <2>5, <2>6 DEF Control
<1> QED  BY <1>4, <1>5

LEMMA ControlRestoreDone ==
    ASSUME Control,
           RestoreNoop \/ \E outcome \in Outcome : RestoreRaises(outcome)
    PROVE  Control'
<1>1. CASE RestoreNoop
  <2>1. Last(stack) \in IntentType
    BY <1>1, TopOfStack DEF RestoreNoop, Restoring, Moving
  <2>2. ClusterTypeOK'
    BY <1>1 DEF RestoreNoop, Control, TypeOK, ClusterTypeOK, cluster
  <2>3. compensated' \subseteq IntentType /\ noops' \subseteq IntentType
        /\ errors' \subseteq IntentType
    BY <1>1, <2>1 DEF RestoreNoop, Control, TypeOK
  <2> QED  BY <1>1, <2>2, <2>3, ControlPop DEF RestoreNoop
<1>2. ASSUME NEW outcome \in Outcome, RestoreRaises(outcome)
      PROVE  Control'
  <2>1. Last(stack) \in IntentType
    BY <1>2, TopOfStack DEF RestoreRaises, Restoring, Moving
  <2>2. ClusterTypeOK'
    BY <1>2, AttemptTyped DEF RestoreRaises, Raises
  <2>3. compensated' \subseteq IntentType /\ noops' \subseteq IntentType
        /\ errors' \subseteq IntentType
    BY <1>2, <2>1 DEF RestoreRaises, Control, TypeOK
  <2> QED  BY <1>2, <2>2, <2>3, ControlPop DEF RestoreRaises, Raises
<1> QED  BY <1>1, <1>2

LEMMA ControlNext == Control /\ [Next]_vars => Control'
<1> SUFFICES ASSUME Control, [Next]_vars PROVE Control'
  OBVIOUS
<1>1. CASE ReadAll \/ ReadRaises \/ Reject \/ Accept \/ Complete \/ Unwound
  BY <1>1, ControlOwnSteps
<1>2. CASE BeginStep
  BY <1>2, ControlBeginStep
<1>3. CASE StepReturns
  BY <1>3, ControlStepReturns
<1>4. CASE \E outcome \in Outcome : Retry(outcome)
  BY <1>4, ControlRetry
<1>5. CASE \E outcome \in Outcome : StepRaises(outcome)
  BY <1>5, ControlStepRaises
<1>6. CASE RestoreNoop \/ \E outcome \in Outcome : RestoreRaises(outcome)
  BY <1>6, ControlRestoreDone
<1>7. CASE BeginRestore
  BY <1>7, ControlBeginRestore
<1>8. CASE RestoreReturns
  BY <1>8, ControlRestoreReturns
<1>9. CASE Die \/ \E r \in MoveDatatypeRequest : NextSaga(r)
  BY <1>9, ControlResets
<1>10. CASE UNCHANGED vars
  BY <1>10 DEF vars, saga, cluster, report, Control, TypeOK, ClusterTypeOK, PhasesOK,
     Moving, RolledBack, Accepted, SnapshotTaken, StackOK, TodoOK, PauseLeft,
     DesiredState, Last
<1> QED
  BY <1>1, <1>2, <1>3, <1>4, <1>5, <1>6, <1>7, <1>8, <1>9, <1>10 DEF Next, SagaStep

\* The saga always knows where it is: types, phases, stack and pending
\* operations agree, for any families, datatypes, budget and number of moves.
THEOREM SagaKeepsControl == Spec => []Control
<1>1. Init => Control
  BY ControlInit
<1>2. Control /\ [Next]_vars => Control'
  BY ControlNext
<1> QED  BY <1>1, <1>2, PTL DEF Spec

\* Type correctness of the baseline saga and of the cluster it drives.
THEOREM SagaIsTyped == Spec => []TypeOK
<1>1. Control => TypeOK
  BY DEF Control
<1> QED  BY <1>1, SagaKeepsControl, PTL

-----------------------------------------------------------------------------
(* What the saga guarantees about the cluster.  Control is assumed of both *)
(* states of a step from here on.                                          *)

\* Position, label and family of the intent on top of the stack.
LEMMA TopFacts ==
    ASSUME Control, Moving, stack # <<>>
    PROVE  \E n \in 1 .. 6 :
             /\ Len(stack) = n
             /\ n \in {1, 3, 5} => Last(stack).family = request.source
             /\ n \in {2, 4, 6} => Last(stack).family = request.target
             /\ n \in {1, 2} => Last(stack).label = "resume"
             /\ n \in {3, 4} => Last(stack).label = "revert"
             /\ n \in {5, 6} => Last(stack).label = "pause"
             /\ Last(stack) = Intent(Last(stack).label, Last(stack).family)
             /\ Last(stack) = Intents(request)[n]
<1>1. PICK n \in 1 .. 6 : /\ Len(stack) = n
                          /\ Last(stack) = Intents(request)[n]
                          /\ Last(stack) \in IntentType
  BY TopOfStack
<1>2. request \in MoveDatatypeRequest
  BY DEF Control, TypeOK
<1> DEFINE top == Last(stack)
<1>3. /\ top = Intents(request)[n]
      /\ top \in IntentType
  BY <1>1
<1> HIDE DEF top
<1>4. /\ n \in {1, 3, 5} => top.family = request.source
      /\ n \in {2, 4, 6} => top.family = request.target
      /\ n \in {1, 2} => top.label = "resume"
      /\ n \in {3, 4} => top.label = "revert"
      /\ n \in {5, 6} => top.label = "pause"
  BY <1>2, <1>3, IntentFamily
<1>5. top = Intent(top.label, top.family)
  BY <1>3 DEF Intent, IntentType
<1> QED  BY <1>1, <1>3, <1>4, <1>5 DEF top

\* What one attempt does to the cluster, by the operation it makes.
LEMMA AttemptEffect ==
    ASSUME Control, NEW outcome, Attempt(outcome)
    PROVE  /\ ~Committed(outcome) => UNCHANGED cluster
           /\ Committed(outcome) =>
               /\ generation' = [generation EXCEPT ![Subject] = @ + 1]
               /\ todo = PauseOps =>
                   /\ savepoint' = [savepoint EXCEPT ![Subject] = generation[Subject] + 1]
                   /\ UNCHANGED <<state, datatypes>>
               /\ todo = <<"suspend_job">> =>
                   /\ state' = [state EXCEPT ![Subject] = "SUSPENDED"]
                   /\ UNCHANGED <<datatypes, savepoint>>
               /\ todo = <<"resume_job">> =>
                   /\ state' = [state EXCEPT ![Subject] = "RUNNING"]
                   /\ UNCHANGED <<datatypes, savepoint>>
               /\ todo = <<"patch_configmap">> =>
                   /\ datatypes' = [datatypes EXCEPT ![Subject] = ConfigToWrite]
                   /\ UNCHANGED <<state, savepoint>>
<1>1. ~Committed(outcome) => UNCHANGED cluster
  BY DEF Attempt
<1> SUFFICES ASSUME Committed(outcome)
             PROVE  /\ generation' = [generation EXCEPT ![Subject] = @ + 1]
                    /\ todo = PauseOps =>
                        /\ savepoint' = [savepoint EXCEPT ![Subject] = generation[Subject] + 1]
                        /\ UNCHANGED <<state, datatypes>>
                    /\ todo = <<"suspend_job">> =>
                        /\ state' = [state EXCEPT ![Subject] = "SUSPENDED"]
                        /\ UNCHANGED <<datatypes, savepoint>>
                    /\ todo = <<"resume_job">> =>
                        /\ state' = [state EXCEPT ![Subject] = "RUNNING"]
                        /\ UNCHANGED <<datatypes, savepoint>>
                    /\ todo = <<"patch_configmap">> =>
                        /\ datatypes' = [datatypes EXCEPT ![Subject] = ConfigToWrite]
                        /\ UNCHANGED <<state, savepoint>>
  BY <1>1
<1>2. Mutate(Head(todo), Subject, ConfigToWrite)
  BY DEF Attempt
<1>3. /\ todo = PauseOps => Head(todo) = "trigger_savepoint"
      /\ todo = <<"suspend_job">> => Head(todo) = "suspend_job"
      /\ todo = <<"resume_job">> => Head(todo) = "resume_job"
      /\ todo = <<"patch_configmap">> => Head(todo) = "patch_configmap"
  BY OpsAsSequences DEF Operation
<1>4. generation' = [generation EXCEPT ![Subject] = @ + 1]
  BY <1>2 DEF Mutate, TriggerSavepoint, SuspendJob, ResumeJob, PatchConfigmap, Commit
<1>5. todo = PauseOps => TriggerSavepoint(Subject)
  BY <1>2, <1>3 DEF Mutate
<1>6. todo = <<"suspend_job">> => SuspendJob(Subject)
  BY <1>2, <1>3 DEF Mutate
<1>7. todo = <<"resume_job">> => ResumeJob(Subject)
  BY <1>2, <1>3 DEF Mutate
<1>8. todo = <<"patch_configmap">> => PatchConfigmap(Subject, ConfigToWrite)
  BY <1>2, <1>3 DEF Mutate
<1> QED
  BY <1>4, <1>5, <1>6, <1>7, <1>8 DEF TriggerSavepoint, SuspendJob, ResumeJob, PatchConfigmap

\* The components an attempt can change, by the position of its intent: a
\* patch only happens at the positions of the reverts, and a family's state
\* only changes while the stack reaches its first intent.
LEMMA AttemptByPosition ==
    ASSUME Control, NEW outcome, Attempt(outcome)
    PROVE  /\ Moving /\ stack # <<>>
           /\ Subject \in FamiliesOf(request) /\ Subject = Last(stack).family
           /\ \A f \in Families :
                /\ state'[f] # state[f] => f = Subject /\ Last(stack).label # "revert"
                /\ datatypes'[f] # datatypes[f] => f = Subject /\ Last(stack).label = "revert"
<1>1. /\ Moving /\ stack # <<>> /\ todo # <<>>
      /\ Subject \in FamiliesOf(request) /\ Subject = Last(stack).family
      /\ Subject \in Families
  BY CurrentSubject DEF Attempt
<1>2. ClusterTypeOK
  BY DEF Control, TypeOK
<1>3. Last(stack).label \in {"resume", "revert", "pause"}
  <2>1. Last(stack) \in IntentType
    BY <1>1, TopOfStack
  <2> QED  BY <2>1 DEF IntentType
<1>4. CASE ~Committed(outcome)
  BY <1>1, <1>4, AttemptEffect DEF cluster
<1>5. CASE Committed(outcome)
  <2>1. CASE Last(stack).label = "revert"
    <3>1. todo = <<"patch_configmap">>
      BY <1>1, <2>1 DEF Control, TodoOK
    <3>2. state' = state /\ datatypes' = [datatypes EXCEPT ![Subject] = ConfigToWrite]
      BY <1>5, <3>1, AttemptEffect
    <3> QED  BY <1>1, <1>2, <2>1, <3>2 DEF ClusterTypeOK
  <2>2. CASE Last(stack).label # "revert"
    <3>1. PauseLeft \/ todo = <<"resume_job">>
      BY <1>1, <1>3, <2>2 DEF Control, TodoOK, Moving
    <3>2. datatypes' = datatypes
          /\ \/ state' = state
             \/ state' = [state EXCEPT ![Subject] = "SUSPENDED"]
             \/ state' = [state EXCEPT ![Subject] = "RUNNING"]
      BY <1>5, <3>1, AttemptEffect DEF PauseLeft
    <3> QED  BY <1>1, <1>2, <2>2, <3>2 DEF ClusterTypeOK
  <2> QED  BY <2>1, <2>2
<1> QED  BY <1>1, <1>4, <1>5

\* An attempt only disturbs what the stack can still put back.
LEMMA AttemptDeviations ==
    ASSUME Control, DeviationsPending, NEW outcome, Attempt(outcome),
           NEW f \in FamiliesOf(request)
    PROVE  /\ datatypes'[f] # statuses[f].datatypes =>
                Len(stack) >= RevertPosition(f) \/ Intent("revert", f) \in errors
           /\ state'[f] # statuses[f].state =>
                Len(stack) >= ResumePosition(f) \/ Intent("resume", f) \in errors
<1>1. /\ Moving /\ stack # <<>>
      /\ Subject \in FamiliesOf(request) /\ Subject = Last(stack).family
      /\ \A g \in Families :
            /\ state'[g] # state[g] => g = Subject /\ Last(stack).label # "revert"
            /\ datatypes'[g] # datatypes[g] => g = Subject /\ Last(stack).label = "revert"
  BY AttemptByPosition
<1>2. f \in Families /\ request.source # request.target /\ f \in {request.source, request.target}
  BY <1>1 DEF Control, PhasesOK, Accepted, SnapshotTaken, Rejected, FamiliesOf
<1>3. PICK n \in 1 .. 6 :
        /\ Len(stack) = n
        /\ n \in {1, 3, 5} => Last(stack).family = request.source
        /\ n \in {2, 4, 6} => Last(stack).family = request.target
        /\ n \in {1, 2} => Last(stack).label = "resume"
        /\ n \in {3, 4} => Last(stack).label = "revert"
        /\ n \in {5, 6} => Last(stack).label = "pause"
  BY <1>1, TopFacts
<1>4. /\ datatypes[f] # statuses[f].datatypes =>
            n >= RevertPosition(f) \/ Intent("revert", f) \in errors
      /\ state[f] # statuses[f].state =>
            n >= ResumePosition(f) \/ Intent("resume", f) \in errors
  BY <1>1, <1>3 DEF DeviationsPending, Moving
<1>5. datatypes'[f] # datatypes[f] => n >= RevertPosition(f)
  BY <1>1, <1>2, <1>3 DEF RevertPosition
<1>6. state'[f] # state[f] => n >= ResumePosition(f)
  BY <1>1, <1>2, <1>3 DEF ResumePosition
<1>7. /\ datatypes'[f] # statuses[f].datatypes =>
            n >= RevertPosition(f) \/ Intent("revert", f) \in errors
      /\ state'[f] # statuses[f].state =>
            n >= ResumePosition(f) \/ Intent("resume", f) \in errors
  BY <1>4, <1>5, <1>6
<1> QED  BY <1>3, <1>7

\* Once its intent is satisfied or blamed, popping it forgets nothing.
LEMMA PopDeviations ==
    ASSUME Control, Restoring, stack' = Front(stack),
           UNCHANGED <<request, pc, statuses, verdict>>,
           errors \subseteq errors',
           \/ Last(stack) \in errors'
           \/ /\ Last(stack).label = "revert" =>
                    datatypes'[Last(stack).family] = statuses[Last(stack).family].datatypes
              /\ Last(stack).label = "resume" =>
                    state'[Last(stack).family] = statuses[Last(stack).family].state,
           \A f \in FamiliesOf(request) :
                /\ datatypes'[f] # statuses[f].datatypes =>
                     Len(stack) >= RevertPosition(f) \/ Intent("revert", f) \in errors
                /\ state'[f] # statuses[f].state =>
                     Len(stack) >= ResumePosition(f) \/ Intent("resume", f) \in errors
    PROVE  DeviationsPending'
<1>1. Moving /\ stack # <<>> /\ pc = "unwinding"
  BY DEF Restoring, Moving
<1>2. request.source # request.target /\ FamiliesOf(request) = {request.source, request.target}
  BY <1>1 DEF Control, PhasesOK, Accepted, Rejected, FamiliesOf
<1>3. PICK n \in 1 .. 6 :
        /\ Len(stack) = n
        /\ n \in {1, 3, 5} => Last(stack).family = request.source
        /\ n \in {2, 4, 6} => Last(stack).family = request.target
        /\ n \in {1, 2} => Last(stack).label = "resume"
        /\ n \in {3, 4} => Last(stack).label = "revert"
        /\ n \in {5, 6} => Last(stack).label = "pause"
        /\ Last(stack) = Intent(Last(stack).label, Last(stack).family)
  BY <1>1, TopFacts
<1> DEFINE m == Len(stack')
<1>4. m = n - 1
  BY <1>1, <1>3, PopPlan
<1> HIDE DEF m
<1>5. ASSUME NEW f \in FamiliesOf(request)
      PROVE  /\ datatypes'[f] # statuses[f].datatypes =>
                  m >= RevertPosition(f) \/ Intent("revert", f) \in errors'
             /\ state'[f] # statuses[f].state =>
                  m >= ResumePosition(f) \/ Intent("resume", f) \in errors'
  <2>1. /\ datatypes'[f] # statuses[f].datatypes =>
             n >= RevertPosition(f) \/ Intent("revert", f) \in errors'
        /\ state'[f] # statuses[f].state =>
             n >= ResumePosition(f) \/ Intent("resume", f) \in errors'
    BY <1>3, <1>5
  <2>2. n = RevertPosition(f) => Last(stack).family = f /\ Last(stack).label = "revert"
    BY <1>2, <1>3, <1>5 DEF RevertPosition
  <2>3. n = ResumePosition(f) => Last(stack).family = f /\ Last(stack).label = "resume"
    BY <1>2, <1>3, <1>5 DEF ResumePosition
  <2>4. n = RevertPosition(f) =>
            datatypes'[f] = statuses[f].datatypes \/ Intent("revert", f) \in errors'
    BY <1>3, <2>2
  <2>5. n = ResumePosition(f) =>
            state'[f] = statuses[f].state \/ Intent("resume", f) \in errors'
    BY <1>3, <2>3
  <2>6. /\ n >= RevertPosition(f) /\ n # RevertPosition(f) => m >= RevertPosition(f)
        /\ n >= ResumePosition(f) /\ n # ResumePosition(f) => m >= ResumePosition(f)
    BY <1>4 DEF RevertPosition, ResumePosition
  <2> QED  BY <2>1, <2>4, <2>5, <2>6
<1> QED  BY <1>5 DEF DeviationsPending, RevertPosition, ResumePosition, m

\* When the last operation of a restore returns, its intent is satisfied.
LEMMA RestoreSatisfies ==
    ASSUME Control, RestoreReturns, Tail(todo) = <<>>
    PROVE  /\ Last(stack).label = "revert" =>
                datatypes'[Last(stack).family] = statuses[Last(stack).family].datatypes
           /\ Last(stack).label # "revert" =>
                state'[Last(stack).family] = DesiredState(Last(stack))
<1>1. Attempt("ok") /\ todo # <<>> /\ pc = "unwinding" /\ stack # <<>>
  BY DEF RestoreReturns, Returns, Attempt, Restoring
<1>2. Subject = Last(stack).family /\ Subject \in Families /\ statuses[Subject] \in FamilyStatus
  BY <1>1, CurrentSubject
<1>3. Committed("ok")
  BY DEF Committed
<1>4. ClusterTypeOK
  BY DEF Control, TypeOK
<1>5. CASE Last(stack).label = "revert"
  <2>1. todo = <<"patch_configmap">>
    BY <1>1, <1>5 DEF Control, TodoOK
  <2>2. datatypes' = [datatypes EXCEPT ![Subject] = ConfigToWrite]
    BY <1>1, <1>3, <2>1, AttemptEffect
  <2>3. ConfigToWrite = statuses[Subject].datatypes
    BY <1>1 DEF ConfigToWrite
  <2> QED  BY <1>2, <1>4, <1>5, <2>2, <2>3 DEF ClusterTypeOK
<1>6. CASE Last(stack).label # "revert"
  <2>1. CASE DesiredState(Last(stack)) = "SUSPENDED"
    <3>1. todo = <<"suspend_job">>
      <4>1. PauseLeft
        BY <1>1, <1>6, <2>1 DEF Control, TodoOK
      <4> QED  BY <4>1, OpsAsSequences DEF PauseLeft
    <3>2. state' = [state EXCEPT ![Subject] = "SUSPENDED"]
      BY <1>1, <1>3, <3>1, AttemptEffect
    <3> QED  BY <1>2, <1>4, <1>6, <2>1, <3>2 DEF ClusterTypeOK
  <2>2. CASE DesiredState(Last(stack)) # "SUSPENDED"
    <3>1. todo = <<"resume_job">>
      BY <1>1, <1>6, <2>2 DEF Control, TodoOK
    <3>2. state' = [state EXCEPT ![Subject] = "RUNNING"]
      BY <1>1, <1>3, <3>1, AttemptEffect
    <3>3. DesiredState(Last(stack)) = "RUNNING"
      BY <1>2, <2>2 DEF DesiredState, FamilyStatus, FamilyState
    <3> QED  BY <1>2, <1>4, <1>6, <3>2, <3>3 DEF ClusterTypeOK
  <2> QED  BY <2>1, <2>2
<1> QED  BY <1>5, <1>6

LEMMA DeviationsInit == Init => DeviationsPending
  BY DEF Init, DeviationsPending, RolledBack

LEMMA DeviationsNext ==
    ASSUME Control, Control', DeviationsPending, [Next]_vars
    PROVE  DeviationsPending'
<1>1. CASE ReadAll
  <2>1. \A f \in FamiliesOf(request) :
          statuses'[f].state = state'[f] /\ statuses'[f].datatypes = datatypes'[f]
    BY <1>1 DEF ReadAll, Read, cluster
  <2> QED  BY <1>1, <2>1 DEF ReadAll, DeviationsPending, RevertPosition, ResumePosition
<1>2. CASE ReadRaises \/ Reject \/ Complete \/ Die \/ \E r \in MoveDatatypeRequest : NextSaga(r)
  BY <1>2 DEF ReadRaises, Reject, Complete, Die, NextSaga, Begin, End, DeviationsPending, RolledBack
<1>3. CASE Accept \/ Unwound \/ BeginRestore
  BY <1>3 DEF Accept, Unwound, BeginRestore, Restoring, End, DeviationsPending, RolledBack,
     RevertPosition, ResumePosition, cluster, report
<1>4. CASE BeginStep
  <2>1. /\ pc = "forward" /\ pc' = "forward" /\ UNCHANGED <<cluster, request, statuses, errors>>
    BY <1>4 DEF BeginStep, report
  <2> DEFINE n == Len(stack)  m == Len(stack')
  <2>2. n = done /\ m = done' + 1 /\ done' = done /\ done \in 0 .. 6
    BY <1>4 DEF BeginStep, Control, StackOK, TypeOK, PlanLength, CurrentStep
  <2>3. \A f \in FamiliesOf(request) :
            /\ datatypes[f] # statuses[f].datatypes =>
                 n >= RevertPosition(f) \/ Intent("revert", f) \in errors
            /\ state[f] # statuses[f].state =>
                 n >= ResumePosition(f) \/ Intent("resume", f) \in errors
    BY <2>1 DEF DeviationsPending
  <2> HIDE DEF n, m
  <2>4. \A f \in FamiliesOf(request) :
            /\ datatypes[f] # statuses[f].datatypes =>
                 m >= RevertPosition(f) \/ Intent("revert", f) \in errors
            /\ state[f] # statuses[f].state =>
                 m >= ResumePosition(f) \/ Intent("resume", f) \in errors
    BY <2>2, <2>3 DEF RevertPosition, ResumePosition
  <2> QED  BY <2>1, <2>4 DEF DeviationsPending, RevertPosition, ResumePosition, cluster, m
<1>5. ASSUME NEW outcome \in Outcome, Attempt(outcome),
             UNCHANGED <<request, statuses, stack, errors>>
      PROVE  DeviationsPending'
  <2>1. \A f \in FamiliesOf(request) :
            /\ datatypes'[f] # statuses[f].datatypes =>
                 Len(stack) >= RevertPosition(f) \/ Intent("revert", f) \in errors
            /\ state'[f] # statuses[f].state =>
                 Len(stack) >= ResumePosition(f) \/ Intent("resume", f) \in errors
    BY <1>5, AttemptDeviations
  <2> QED  BY <1>5, <2>1 DEF DeviationsPending, RevertPosition, ResumePosition
<1>6. CASE StepReturns
  BY <1>5, <1>6 DEF StepReturns, Returns, report, Outcome
<1>7. CASE \E outcome \in Outcome : Retry(outcome) \/ StepRaises(outcome)
  BY <1>5, <1>7 DEF Retry, StepRaises, Raises, report
<1>8. CASE RestoreReturns
  <2>1. CASE Tail(todo) = <<>>
    <3>1. Attempt("ok") /\ Restoring /\ stack' = Front(stack)
          /\ UNCHANGED <<request, pc, statuses, errors, verdict>>
      BY <1>8, <2>1 DEF RestoreReturns, Returns
    <3>2. \A f \in FamiliesOf(request) :
            /\ datatypes'[f] # statuses[f].datatypes =>
                 Len(stack) >= RevertPosition(f) \/ Intent("revert", f) \in errors
            /\ state'[f] # statuses[f].state =>
                 Len(stack) >= ResumePosition(f) \/ Intent("resume", f) \in errors
      BY <3>1, AttemptDeviations
    <3>3. /\ Last(stack).label = "revert" =>
                datatypes'[Last(stack).family] = statuses[Last(stack).family].datatypes
          /\ Last(stack).label = "resume" =>
                state'[Last(stack).family] = statuses[Last(stack).family].state
      BY <1>8, <2>1, RestoreSatisfies DEF DesiredState
    <3> QED  BY <3>1, <3>2, <3>3, PopDeviations
  <2>2. CASE Tail(todo) # <<>>
    BY <1>5, <1>8, <2>2 DEF RestoreReturns, Returns, Outcome
  <2> QED  BY <2>1, <2>2
<1>9. CASE RestoreNoop
  <2>1. Restoring /\ Satisfied(Last(stack)) /\ stack' = Front(stack)
        /\ UNCHANGED <<cluster, request, pc, statuses, errors, verdict>>
    BY <1>9 DEF RestoreNoop
  <2>2. \A f \in FamiliesOf(request) :
            /\ datatypes'[f] # statuses[f].datatypes =>
                 Len(stack) >= RevertPosition(f) \/ Intent("revert", f) \in errors
            /\ state'[f] # statuses[f].state =>
                 Len(stack) >= ResumePosition(f) \/ Intent("resume", f) \in errors
    BY <2>1 DEF DeviationsPending, Restoring, cluster
  <2>3. /\ Last(stack).label = "revert" =>
                datatypes'[Last(stack).family] = statuses[Last(stack).family].datatypes
        /\ Last(stack).label = "resume" =>
                state'[Last(stack).family] = statuses[Last(stack).family].state
    BY <2>1 DEF Satisfied, Read, DesiredState, cluster
  <2> QED  BY <2>1, <2>2, <2>3, PopDeviations
<1>10. CASE \E outcome \in Outcome : RestoreRaises(outcome)
  <2>1. PICK outcome \in Outcome : RestoreRaises(outcome)
    BY <1>10
  <2>2. Attempt(outcome) /\ Restoring /\ stack' = Front(stack)
        /\ errors' = errors \union {Last(stack)}
        /\ UNCHANGED <<request, pc, statuses, verdict>>
    BY <2>1 DEF RestoreRaises, Raises
  <2>3. \A f \in FamiliesOf(request) :
            /\ datatypes'[f] # statuses[f].datatypes =>
                 Len(stack) >= RevertPosition(f) \/ Intent("revert", f) \in errors
            /\ state'[f] # statuses[f].state =>
                 Len(stack) >= ResumePosition(f) \/ Intent("resume", f) \in errors
    BY <2>2, AttemptDeviations
  <2> QED  BY <2>2, <2>3, PopDeviations
<1>11. CASE UNCHANGED vars
  BY <1>11 DEF vars, saga, cluster, report, DeviationsPending, RolledBack, RevertPosition,
     ResumePosition
<1> QED
  BY <1>1, <1>2, <1>3, <1>4, <1>6, <1>7, <1>8, <1>9, <1>10, <1>11 DEF Next, SagaStep

THEOREM SagaKeepsDeviationsPending == Spec => []DeviationsPending
<1>1. Init => DeviationsPending
  BY DeviationsInit
<1>2. Control /\ Control' /\ DeviationsPending /\ [Next]_vars => DeviationsPending'
  BY DeviationsNext
<1> QED  BY <1>1, <1>2, SagaKeepsControl, PTL DEF Spec

\* For every cluster, request, retry budget and fault: what a rolled-back move
\* leaves different from its snapshot is named in its report.
THEOREM RollbackIsAccountedFor == Spec => []ErrorsNameEveryDeviation
<1>1. Control /\ DeviationsPending => ErrorsNameEveryDeviation
  <2> SUFFICES ASSUME Control, DeviationsPending, RolledBack, NEW f \in FamiliesOf(request)
               PROVE  /\ datatypes[f] # statuses[f].datatypes => Intent("revert", f) \in errors
                      /\ state[f] # statuses[f].state => Intent("resume", f) \in errors
    BY DEF ErrorsNameEveryDeviation
  <2>1. Len(stack) = 0
    BY DEF Control, StackOK
  <2> QED  BY <2>1 DEF DeviationsPending, RevertPosition, ResumePosition
<1> QED  BY <1>1, SagaKeepsControl, SagaKeepsDeviationsPending, PTL

-----------------------------------------------------------------------------
(* The order of things: the phase barriers of the move and of its unwind,  *)
(* and the savepoint before a suspend.                                     *)

\* An attempt on the way forward keeps what the earlier steps established.
LEMMA AttemptKeepsProgress ==
    ASSUME Control, ForwardProgress, pc = "forward", NEW outcome, Attempt(outcome)
    PROVE  /\ done \in 0 .. 5 /\ Len(stack) = done + 1
           /\ done \in 1 .. 3 => state'[request.source] = "SUSPENDED"
           /\ done \in 2 .. 4 => state'[request.target] = "SUSPENDED"
           /\ done >= 3 => datatypes'[request.source]
                             = NewConfig(request, statuses, request.source)
           /\ done >= 4 => datatypes'[request.target]
                             = NewConfig(request, statuses, request.target)
           /\ done >= 5 => state'[request.source] = "RUNNING"
<1>1. /\ Moving /\ stack # <<>> /\ Subject = Last(stack).family
      /\ \A f \in Families :
            /\ state'[f] # state[f] => f = Subject /\ Last(stack).label # "revert"
            /\ datatypes'[f] # datatypes[f] => f = Subject /\ Last(stack).label = "revert"
  BY AttemptByPosition
<1>2. /\ request.source \in Families /\ request.target \in Families
      /\ request.source # request.target
  BY <1>1 DEF Control, PhasesOK, Accepted, SnapshotTaken, Rejected, FamiliesOf
<1>3. PICK n \in 1 .. 6 :
        /\ Len(stack) = n
        /\ n \in {1, 3, 5} => Last(stack).family = request.source
        /\ n \in {2, 4, 6} => Last(stack).family = request.target
        /\ n \in {1, 2} => Last(stack).label = "resume"
        /\ n \in {3, 4} => Last(stack).label = "revert"
        /\ n \in {5, 6} => Last(stack).label = "pause"
  BY <1>1, TopFacts
<1>4. done \in 0 .. 6 /\ n = done + 1
  <2>1. todo # <<>>
    BY DEF Attempt
  <2> QED  BY <1>3, <2>1 DEF Control, StackOK, TypeOK, PlanLength
<1>5. /\ done \in 1 .. 3 => state[request.source] = "SUSPENDED"
      /\ done \in 2 .. 4 => state[request.target] = "SUSPENDED"
      /\ done >= 3 => datatypes[request.source]
                        = NewConfig(request, statuses, request.source)
      /\ done >= 4 => datatypes[request.target]
                        = NewConfig(request, statuses, request.target)
      /\ done >= 5 => state[request.source] = "RUNNING"
  BY DEF ForwardProgress
<1>6. /\ n \in 2 .. 4 => state'[request.source] = state[request.source]
      /\ n \in 3 .. 5 => state'[request.target] = state[request.target]
      /\ n >= 4 => datatypes'[request.source] = datatypes[request.source]
      /\ n >= 5 => datatypes'[request.target] = datatypes[request.target]
      /\ n >= 6 => state'[request.source] = state[request.source]
  BY <1>1, <1>2, <1>3
<1> QED  BY <1>3, <1>4, <1>5, <1>6

\* What the step that returns has established.
LEMMA StepEstablishes ==
    ASSUME Control, StepReturns, Tail(todo) = <<>>
    PROVE  /\ done = 0 => state'[request.source] = "SUSPENDED"
           /\ done = 1 => state'[request.target] = "SUSPENDED"
           /\ done = 2 => datatypes'[request.source]
                            = NewConfig(request, statuses, request.source)
           /\ done = 3 => datatypes'[request.target]
                            = NewConfig(request, statuses, request.target)
           /\ done = 4 => state'[request.source] = "RUNNING"
           /\ done = 5 => state'[request.target] = "RUNNING"
<1>1. Attempt("ok") /\ todo # <<>> /\ pc = "forward" /\ Moving
  BY DEF StepReturns, Returns, Attempt, Moving
<1>2. Subject = Last(stack).family /\ Subject \in Families /\ stack # <<>>
  BY <1>1, CurrentSubject
<1>3. Committed("ok") /\ ClusterTypeOK
  BY DEF Committed, Control, TypeOK
<1>4. PICK n \in 1 .. 6 :
        /\ Len(stack) = n
        /\ n \in {1, 3, 5} => Last(stack).family = request.source
        /\ n \in {2, 4, 6} => Last(stack).family = request.target
        /\ n \in {1, 2} => Last(stack).label = "resume"
        /\ n \in {3, 4} => Last(stack).label = "revert"
        /\ n \in {5, 6} => Last(stack).label = "pause"
  BY <1>1, <1>2, TopFacts
<1>5. done \in 0 .. 6 /\ n = done + 1
  BY <1>1, <1>4 DEF Control, StackOK, TypeOK, PlanLength
<1>6. Last(stack).label = "resume" => state'[Subject] = "SUSPENDED"
  <2> SUFFICES ASSUME Last(stack).label = "resume" PROVE state'[Subject] = "SUSPENDED"
    OBVIOUS
  <2>1. todo = <<"suspend_job">>
    <3>1. PauseLeft
      BY <1>1 DEF Control, TodoOK
    <3> QED  BY <3>1, OpsAsSequences DEF PauseLeft
  <2>2. state' = [state EXCEPT ![Subject] = "SUSPENDED"]
    BY <1>1, <1>3, <2>1, AttemptEffect
  <2> QED  BY <1>2, <1>3, <2>2 DEF ClusterTypeOK
<1>7. Last(stack).label = "revert" => datatypes'[Subject] = NewConfig(request, statuses, Subject)
  <2> SUFFICES ASSUME Last(stack).label = "revert"
               PROVE  datatypes'[Subject] = NewConfig(request, statuses, Subject)
    OBVIOUS
  <2>1. todo = <<"patch_configmap">>
    BY <1>1 DEF Control, TodoOK
  <2>2. datatypes' = [datatypes EXCEPT ![Subject] = ConfigToWrite]
    BY <1>1, <1>3, <2>1, AttemptEffect
  <2>3. ConfigToWrite = NewConfig(request, statuses, Subject)
    BY <1>1 DEF ConfigToWrite
  <2> QED  BY <1>2, <1>3, <2>2, <2>3 DEF ClusterTypeOK
<1>8. Last(stack).label = "pause" => state'[Subject] = "RUNNING"
  <2> SUFFICES ASSUME Last(stack).label = "pause" PROVE state'[Subject] = "RUNNING"
    OBVIOUS
  <2>1. todo = <<"resume_job">>
    BY <1>1 DEF Control, TodoOK
  <2>2. state' = [state EXCEPT ![Subject] = "RUNNING"]
    BY <1>1, <1>3, <2>1, AttemptEffect
  <2> QED  BY <1>2, <1>3, <2>2 DEF ClusterTypeOK
<1> QED  BY <1>2, <1>4, <1>5, <1>6, <1>7, <1>8

LEMMA ProgressNext ==
    ASSUME Control, Control', ForwardProgress, [Next]_vars
    PROVE  ForwardProgress'
<1>1. CASE ReadAll \/ ReadRaises \/ Reject \/ Unwound \/ Die \/ BeginRestore \/ RestoreNoop
           \/ RestoreReturns \/ \E r \in MoveDatatypeRequest : NextSaga(r)
  BY <1>1 DEF ReadAll, ReadRaises, Reject, Unwound, Die, BeginRestore, RestoreNoop,
     RestoreReturns, Restoring, NextSaga, Begin, End, ForwardProgress, Control, PhasesOK
<1>2. CASE \E outcome \in Outcome : StepRaises(outcome) \/ RestoreRaises(outcome)
  BY <1>2 DEF StepRaises, RestoreRaises, Restoring, ForwardProgress, Control, PhasesOK
<1>3. CASE Accept
  <2>1. done' = 0 /\ verdict' = "none"
    BY <1>3 DEF Accept, Control, PhasesOK
  <2> QED  BY <2>1 DEF ForwardProgress
<1>4. CASE BeginStep
  BY <1>4 DEF BeginStep, ForwardProgress, cluster
<1>5. CASE Complete
  BY <1>5 DEF Complete, End, ForwardProgress, cluster
<1>6. CASE StepReturns
  <2>1. Attempt("ok") /\ pc = "forward" /\ pc' = "forward"
        /\ UNCHANGED <<request, statuses, verdict>>
    BY <1>6 DEF StepReturns, Returns
  <2>2. verdict' # "COMPLETED"
    BY <2>1 DEF Control, PhasesOK
  <2>3. /\ done \in 0 .. 5
        /\ done \in 1 .. 3 => state'[request.source] = "SUSPENDED"
        /\ done \in 2 .. 4 => state'[request.target] = "SUSPENDED"
        /\ done >= 3 => datatypes'[request.source]
                             = NewConfig(request, statuses, request.source)
        /\ done >= 4 => datatypes'[request.target]
                             = NewConfig(request, statuses, request.target)
        /\ done >= 5 => state'[request.source] = "RUNNING"
    BY <2>1, AttemptKeepsProgress
  <2>4. CASE Tail(todo) = <<>>
    <3>1. done' = done + 1
      BY <1>6, <2>4 DEF StepReturns
    <3>2. /\ done' \in 1 .. 3 => state'[request.source] = "SUSPENDED"
          /\ done' \in 2 .. 4 => state'[request.target] = "SUSPENDED"
          /\ done' >= 3 => datatypes'[request.source]
                             = NewConfig(request, statuses, request.source)
          /\ done' >= 4 => datatypes'[request.target]
                             = NewConfig(request, statuses, request.target)
          /\ done' >= 5 => state'[request.source] = "RUNNING"
          /\ done' >= 6 => state'[request.target] = "RUNNING"
      BY <1>6, <2>3, <2>4, <3>1, StepEstablishes
    <3> QED  BY <2>1, <2>2, <3>2 DEF ForwardProgress
  <2>5. CASE Tail(todo) # <<>>
    <3>1. done' = done
      BY <1>6, <2>5 DEF StepReturns
    <3> QED  BY <2>1, <2>2, <2>3, <3>1 DEF ForwardProgress
  <2> QED  BY <2>4, <2>5
<1>7. CASE \E outcome \in Outcome : Retry(outcome)
  <2>1. PICK outcome \in Outcome : Retry(outcome)
    BY <1>7
  <2>2. Attempt(outcome) /\ UNCHANGED <<request, statuses, done, pc, verdict>> /\ todo # <<>>
    BY <2>1 DEF Retry, Attempt
  <2>3. CASE pc = "forward"
    <3>1. verdict' # "COMPLETED"
      BY <2>2, <2>3 DEF Control, PhasesOK
    <3> QED  BY <2>2, <2>3, <3>1, AttemptKeepsProgress DEF ForwardProgress
  <2>4. CASE pc # "forward"
    BY <2>2, <2>4 DEF Control, PhasesOK, ForwardProgress
  <2> QED  BY <2>3, <2>4
<1>8. CASE UNCHANGED vars
  BY <1>8 DEF vars, saga, cluster, ForwardProgress
<1> QED
  BY <1>1, <1>2, <1>3, <1>4, <1>5, <1>6, <1>7, <1>8 DEF Next, SagaStep

\* On the way back, an attempt keeps suspended what the barrier needs.
LEMMA AttemptKeepsUnwindBarrier ==
    ASSUME Control, UnwindBarrier, pc = "unwinding", errors = {},
           NEW outcome, Attempt(outcome)
    PROVE  /\ Len(stack) \in 3 .. 4 => state'[request.source] = "SUSPENDED"
           /\ Len(stack) \in 3 .. 5 => state'[request.target] = "SUSPENDED"
<1>1. /\ Moving /\ stack # <<>> /\ Subject = Last(stack).family
      /\ \A f \in Families : state'[f] # state[f] => f = Subject /\ Last(stack).label # "revert"
  BY AttemptByPosition
<1>2. /\ request.source \in Families /\ request.target \in Families
      /\ request.source # request.target
  BY <1>1 DEF Control, PhasesOK, Accepted, SnapshotTaken, Rejected, FamiliesOf
<1>3. PICK n \in 1 .. 6 :
        /\ Len(stack) = n
        /\ n \in {1, 3, 5} => Last(stack).family = request.source
        /\ n \in {3, 4} => Last(stack).label = "revert"
  BY <1>1, TopFacts
<1>4. /\ n \in 3 .. 4 => state[request.source] = "SUSPENDED"
      /\ n \in 3 .. 5 => state[request.target] = "SUSPENDED"
  BY <1>3 DEF UnwindBarrier
<1>5. /\ n \in 3 .. 4 => state'[request.source] = state[request.source]
      /\ n \in 3 .. 5 => state'[request.target] = state[request.target]
  BY <1>1, <1>2, <1>3
<1> QED  BY <1>3, <1>4, <1>5

\* Popping a "pause" whose family is suspended extends the barrier.
LEMMA PopUnwindBarrier ==
    ASSUME Control, Restoring, stack' = Front(stack),
           UNCHANGED <<request, pc>>,
           Last(stack).label = "pause" => state'[Last(stack).family] = "SUSPENDED",
           /\ Len(stack) \in 3 .. 4 => state'[request.source] = "SUSPENDED"
           /\ Len(stack) \in 3 .. 5 => state'[request.target] = "SUSPENDED"
    PROVE  UnwindBarrier'
<1>1. Moving /\ stack # <<>>
  BY DEF Restoring, Moving
<1>2. PICK n \in 1 .. 6 :
        /\ Len(stack) = n
        /\ n \in {1, 3, 5} => Last(stack).family = request.source
        /\ n \in {2, 4, 6} => Last(stack).family = request.target
        /\ n \in {5, 6} => Last(stack).label = "pause"
  BY <1>1, TopFacts
<1> DEFINE m == Len(stack')
<1>3. m = n - 1
  BY <1>1, <1>2, PopPlan
<1> HIDE DEF m
<1>4. /\ n \in 3 .. 4 => state'[request.source] = "SUSPENDED"
      /\ n \in 3 .. 5 => state'[request.target] = "SUSPENDED"
      /\ n = 5 => state'[request.source] = "SUSPENDED"
      /\ n = 6 => state'[request.target] = "SUSPENDED"
  BY <1>2
<1>5. /\ m \in 3 .. 4 => state'[request.source] = "SUSPENDED"
      /\ m \in 3 .. 5 => state'[request.target] = "SUSPENDED"
  BY <1>3, <1>4
<1> QED  BY <1>5 DEF UnwindBarrier, m

LEMMA UnwindBarrierNext ==
    ASSUME Control, Control', ForwardProgress, UnwindBarrier, [Next]_vars
    PROVE  UnwindBarrier'
<1>1. CASE ReadAll \/ ReadRaises \/ Reject \/ Accept \/ Complete \/ Unwound \/ Die \/ BeginStep
           \/ StepReturns \/ \E r \in MoveDatatypeRequest : NextSaga(r)
  BY <1>1 DEF ReadAll, ReadRaises, Reject, Accept, Complete, Unwound, Die, BeginStep,
     StepReturns, NextSaga, Begin, End, UnwindBarrier
<1>2. CASE \E outcome \in Outcome : StepRaises(outcome)
  <2>1. PICK outcome \in Outcome : StepRaises(outcome)
    BY <1>2
  <2>2. Attempt(outcome) /\ pc = "forward" /\ UNCHANGED <<request, stack>>
    BY <2>1 DEF StepRaises, Raises
  <2>3. /\ done \in 0 .. 5 /\ Len(stack) = done + 1
        /\ done \in 1 .. 3 => state'[request.source] = "SUSPENDED"
        /\ done \in 2 .. 4 => state'[request.target] = "SUSPENDED"
    BY <2>2, AttemptKeepsProgress
  <2> DEFINE n == Len(stack)
  <2>4. n = done + 1
    BY <2>3
  <2> HIDE DEF n
  <2>5. /\ n \in 3 .. 4 => state'[request.source] = "SUSPENDED"
        /\ n \in 3 .. 5 => state'[request.target] = "SUSPENDED"
    BY <2>3, <2>4
  <2> QED  BY <2>2, <2>5 DEF UnwindBarrier, n
<1>3. CASE \E outcome \in Outcome : Retry(outcome)
  <2>1. PICK outcome \in Outcome : Retry(outcome)
    BY <1>3
  <2>2. Attempt(outcome) /\ UNCHANGED <<request, stack, pc, errors>>
    BY <2>1 DEF Retry, report
  <2> QED  BY <2>2, AttemptKeepsUnwindBarrier DEF UnwindBarrier
<1>4. CASE BeginRestore
  BY <1>4 DEF BeginRestore, UnwindBarrier, cluster, report
<1>5. CASE RestoreReturns
  <2>1. Attempt("ok") /\ Restoring /\ pc = "unwinding" /\ UNCHANGED <<request, pc, errors>>
    BY <1>5 DEF RestoreReturns, Returns, Restoring
  <2>2. CASE Tail(todo) = <<>>
    <3>1. stack' = Front(stack)
      BY <1>5, <2>2 DEF RestoreReturns
    <3>2. Last(stack).label = "pause" => state'[Last(stack).family] = "SUSPENDED"
      BY <1>5, <2>2, RestoreSatisfies DEF DesiredState
    <3>3. CASE errors = {}
      BY <2>1, <3>1, <3>2, <3>3, AttemptKeepsUnwindBarrier, PopUnwindBarrier
    <3>4. CASE errors # {}
      BY <2>1, <3>4 DEF UnwindBarrier
    <3> QED  BY <3>3, <3>4
  <2>3. CASE Tail(todo) # <<>>
    <3>1. UNCHANGED stack
      BY <1>5, <2>3 DEF RestoreReturns
    <3> QED  BY <2>1, <3>1, AttemptKeepsUnwindBarrier DEF UnwindBarrier
  <2> QED  BY <2>2, <2>3
<1>6. CASE RestoreNoop
  <2>1. Restoring /\ Satisfied(Last(stack)) /\ stack' = Front(stack)
        /\ UNCHANGED <<cluster, request, pc, errors>>
    BY <1>6 DEF RestoreNoop
  <2>2. Last(stack).label = "pause" => state'[Last(stack).family] = "SUSPENDED"
    BY <2>1 DEF Satisfied, Read, DesiredState, cluster
  <2>3. CASE errors = {}
    <3>1. /\ Len(stack) \in 3 .. 4 => state'[request.source] = "SUSPENDED"
          /\ Len(stack) \in 3 .. 5 => state'[request.target] = "SUSPENDED"
      BY <2>1, <2>3 DEF UnwindBarrier, Restoring, cluster
    <3> QED  BY <2>1, <2>2, <3>1, PopUnwindBarrier
  <2>4. CASE errors # {}
    BY <2>1, <2>4 DEF UnwindBarrier
  <2> QED  BY <2>3, <2>4
<1>7. CASE \E outcome \in Outcome : RestoreRaises(outcome)
  <2>1. errors' # {}
    BY <1>7 DEF RestoreRaises
  <2> QED  BY <2>1 DEF UnwindBarrier
<1>8. CASE UNCHANGED vars
  BY <1>8 DEF vars, saga, cluster, report, UnwindBarrier
<1> QED
  BY <1>1, <1>2, <1>3, <1>4, <1>5, <1>6, <1>7, <1>8 DEF Next, SagaStep

THEOREM SagaKeepsBarriers == Spec => []Barriers
<1>1. Init => Barriers
  BY DEF Init, Barriers, ForwardProgress, UnwindBarrier
<1>2. Control /\ Control' /\ Barriers /\ [Next]_vars => Barriers'
  BY ProgressNext, UnwindBarrierNext DEF Barriers
<1> QED  BY <1>1, <1>2, SagaKeepsControl, PTL DEF Spec

-----------------------------------------------------------------------------
(* Consequences of the barriers.                                           *)

\* A completed move is the whole move, whatever was retried on the way.
THEOREM CompletedMoveIsWhole == Spec => []CompletedMovesDatatype
<1>1. Control /\ Barriers => CompletedMovesDatatype
  <2> SUFFICES ASSUME Control, Barriers, verdict = "COMPLETED"
               PROVE  CompletedMovesDatatype
    BY DEF CompletedMovesDatatype
  <2>1. /\ statuses \in [FamiliesOf(request) -> FamilyStatus]
        /\ FamiliesOf(request) = {request.source, request.target}
        /\ request.source # request.target
        /\ request.datatype \in statuses[request.source].datatypes
    BY DEF Control, PhasesOK, Accepted, SnapshotTaken, Rejected, FamiliesOf
  <2>2. /\ state[request.source] = "RUNNING" /\ state[request.target] = "RUNNING"
        /\ datatypes[request.source] = NewConfig(request, statuses, request.source)
        /\ datatypes[request.target] = NewConfig(request, statuses, request.target)
    BY DEF Barriers, ForwardProgress, PlanLength
  <2>3. /\ datatypes[request.source] = statuses[request.source].datatypes \ {request.datatype}
        /\ datatypes[request.target]
             = statuses[request.target].datatypes \union {request.datatype}
    BY <2>1, <2>2 DEF NewConfig
  <2> QED  BY <2>1, <2>2, <2>3 DEF CompletedMovesDatatype
<1> QED  BY <1>1, SagaKeepsControl, SagaKeepsBarriers, PTL

\* The cluster only changes by an attempt of a moving saga.
LEMMA OnlyAttemptsChangeCluster ==
    ASSUME Control, [Next]_vars, cluster' # cluster
    PROVE  \E outcome \in Outcome : Attempt(outcome)
<1>1. CASE StepReturns \/ RestoreReturns
  BY <1>1 DEF StepReturns, RestoreReturns, Returns, Outcome
<1>2. CASE \E outcome \in Outcome : Retry(outcome) \/ StepRaises(outcome) \/ RestoreRaises(outcome)
  BY <1>2 DEF Retry, StepRaises, RestoreRaises, Raises
<1> QED
  BY <1>1, <1>2 DEF Next, SagaStep, ReadAll, ReadRaises, Reject, Accept, BeginStep, Complete,
     RestoreNoop, BeginRestore, Unwound, Die, NextSaga, vars

\* Routing is only rewritten while both families are suspended.
THEOREM RoutingIsPatchedSuspended == Spec => PatchOnlyWhileSuspended
<1> DEFINE A == datatypes' # datatypes /\ errors = {} =>
                  \A f \in FamiliesOf(request) : state[f] = "SUSPENDED"
<1>1. ASSUME Control, Barriers, [Next]_vars
      PROVE  A
  <2> SUFFICES ASSUME datatypes' # datatypes, errors = {}
               PROVE  \A f \in FamiliesOf(request) : state[f] = "SUSPENDED"
    OBVIOUS
  <2>1. PICK outcome \in Outcome : Attempt(outcome)
    BY <1>1, OnlyAttemptsChangeCluster DEF cluster
  <2>2. /\ Moving /\ stack # <<>> /\ todo # <<>>
        /\ \A f \in Families :
              datatypes'[f] # datatypes[f] => f = Subject /\ Last(stack).label = "revert"
    BY <1>1, <2>1, AttemptByPosition DEF Attempt
  <2>3. Last(stack).label = "revert"
    <3>1. ClusterTypeOK /\ ClusterTypeOK'
      BY <1>1, <2>1, AttemptTyped DEF Control, TypeOK
    <3>2. \E f \in Families : datatypes'[f] # datatypes[f]
      BY <3>1 DEF ClusterTypeOK
    <3> QED  BY <2>2, <3>2
  <2>4. PICK n \in 1 .. 6 :
        /\ Len(stack) = n
        /\ n \in {1, 2} => Last(stack).label = "resume"
        /\ n \in {5, 6} => Last(stack).label = "pause"
    BY <1>1, <2>2, TopFacts
  <2>5. n \in 3 .. 4
    BY <2>3, <2>4
  <2>6. state[request.source] = "SUSPENDED" /\ state[request.target] = "SUSPENDED"
    <3>1. CASE pc = "forward"
      <4>1. done \in 0 .. 6 /\ n = done + 1
        BY <1>1, <2>2, <2>4, <3>1 DEF Control, StackOK, TypeOK, PlanLength
      <4>2. done \in 1 .. 3 /\ done \in 2 .. 4
        BY <2>5, <4>1
      <4> QED  BY <1>1, <3>1, <4>2 DEF Barriers, ForwardProgress
    <3>2. CASE pc = "unwinding"
      BY <1>1, <2>4, <2>5, <3>2 DEF Barriers, UnwindBarrier
    <3> QED  BY <2>2, <3>1, <3>2 DEF Moving
  <2> QED  BY <2>6 DEF FamiliesOf
<1>2. Control /\ Barriers /\ [Next]_vars => [A]_vars
  BY <1>1
<1> QED  BY <1>2, SagaKeepsControl, SagaKeepsBarriers, PTL DEF Spec, PatchOnlyWhileSuspended

\* The unwind starts no job before the old routing is back everywhere.
THEOREM ResumesFollowReverts == Spec => ResumeOnlyAfterRevert
<1> DEFINE A == pc = "unwinding" /\ errors = {}
                /\ (\E f \in Families : state[f] = "SUSPENDED" /\ state'[f] = "RUNNING") =>
                  \A f \in FamiliesOf(request) : datatypes[f] = statuses[f].datatypes
<1>1. ASSUME Control, DeviationsPending, [Next]_vars
      PROVE  A
  <2> SUFFICES ASSUME pc = "unwinding", errors = {},
                      NEW f \in Families, state[f] = "SUSPENDED", state'[f] = "RUNNING"
               PROVE  \A g \in FamiliesOf(request) : datatypes[g] = statuses[g].datatypes
    OBVIOUS
  <2>1. PICK outcome \in Outcome : Attempt(outcome)
    BY <1>1, OnlyAttemptsChangeCluster DEF cluster
  <2>2. /\ Moving /\ stack # <<>> /\ f = Subject /\ Last(stack).label # "revert"
    BY <1>1, <2>1, AttemptByPosition
  <2>3. Last(stack).label # "pause"
    <3> SUFFICES ASSUME Last(stack).label = "pause" PROVE FALSE
      OBVIOUS
    <3>1. PauseLeft
      BY <1>1, <2>1 DEF Control, TodoOK, DesiredState, Attempt
    <3>2. state' = state \/ state' = [state EXCEPT ![Subject] = "SUSPENDED"]
      BY <1>1, <2>1, <3>1, AttemptEffect DEF PauseLeft, cluster
    <3>3. ClusterTypeOK
      BY <1>1 DEF Control, TypeOK
    <3> QED  BY <2>2, <3>2, <3>3 DEF ClusterTypeOK
  <2>4. PICK n \in 1 .. 6 :
        /\ Len(stack) = n
        /\ n \in {3, 4} => Last(stack).label = "revert"
        /\ n \in {5, 6} => Last(stack).label = "pause"
    BY <1>1, <2>2, TopFacts
  <2>5. n < 3
    BY <2>2, <2>3, <2>4
  <2> QED  BY <1>1, <2>4, <2>5 DEF DeviationsPending, RevertPosition
<1>2. Control /\ DeviationsPending /\ [Next]_vars => [A]_vars
  BY <1>1
<1> QED
  BY <1>2, SagaKeepsControl, SagaKeepsDeviationsPending, PTL DEF Spec, ResumeOnlyAfterRevert

-----------------------------------------------------------------------------
(* A suspend has a savepoint of its own moment.                            *)

\* A command never starts with a bare suspend.
LEMMA CommandsStartWithSavepoint ==
    ASSUME Control, BeginStep \/ BeginRestore
    PROVE  todo' # <<"suspend_job">>
<1>1. /\ PauseOps # <<"suspend_job">>
      /\ <<"patch_configmap">> # <<"suspend_job">>
      /\ <<"resume_job">> # <<"suspend_job">>
  BY DEF PauseOps
<1>2. CASE BeginStep
  <2>1. /\ done \in 0 .. 5 /\ request \in MoveDatatypeRequest
        /\ todo' = CommandOps(Plan(request)[done + 1].command)
    BY <1>2 DEF BeginStep, CurrentStep, Control, TypeOK, PlanLength
  <2> DEFINE n == done + 1
  <2>2. n \in 1 .. 6 /\ todo' = CommandOps(Plan(request)[n].command)
    BY <2>1
  <2> HIDE DEF n
  <2>3. Plan(request)[n].command \in {"pause", "patch", "resume"}
    BY <2>1, <2>2, IntentFamily
  <2> QED  BY <1>1, <2>2, <2>3 DEF CommandOps
<1>3. CASE BeginRestore
  <2>1. todo' = RestoreOps(Last(stack))
    BY <1>3 DEF BeginRestore
  <2> QED  BY <1>1, <2>1 DEF RestoreOps
<1> QED  BY <1>2, <1>3

LEMMA SavepointFreshNext ==
    ASSUME Control, Control', SavepointFresh, [Next]_vars
    PROVE  SavepointFresh'
<1>1. CASE \/ ReadAll \/ ReadRaises \/ Reject \/ Accept \/ Complete \/ Unwound \/ Die \/ RestoreNoop
           \/ \E r \in MoveDatatypeRequest : NextSaga(r)
           \/ \E outcome \in Outcome : StepRaises(outcome) \/ RestoreRaises(outcome)
  <2>1. todo' = <<>>
    BY <1>1 DEF ReadAll, ReadRaises, Reject, Accept, Complete, Unwound, Die, RestoreNoop, NextSaga,
       Begin, StepRaises, RestoreRaises, Raises, Control, PhasesOK, StackOK
  <2> QED  BY <2>1 DEF SavepointFresh
<1>2. CASE BeginStep \/ BeginRestore
  BY <1>2, CommandsStartWithSavepoint DEF SavepointFresh
<1>3. CASE StepReturns \/ RestoreReturns
  <2>1. /\ Attempt("ok") /\ todo # <<>> /\ todo' = Tail(todo) /\ UNCHANGED pc
        /\ Tail(todo) # <<>> => UNCHANGED <<request, done, stack>>
    BY <1>3 DEF StepReturns, RestoreReturns, Returns, Attempt
  <2>2. CASE Tail(todo) = <<>>
    BY <2>1, <2>2 DEF SavepointFresh
  <2>3. CASE Tail(todo) # <<>>
    <3>1. todo = PauseOps /\ Subject \in Families /\ ClusterTypeOK
      BY <2>1, <2>3, TodoTail, CurrentSubject DEF Control, TypeOK
    <3>2. /\ generation' = [generation EXCEPT ![Subject] = @ + 1]
          /\ savepoint' = [savepoint EXCEPT ![Subject] = generation[Subject] + 1]
      BY <2>1, <3>1, AttemptEffect DEF Committed
    <3>3. Subject' = Subject
      BY <2>1, <2>3 DEF Subject, CurrentStep, Last
    <3>4. /\ savepoint'[Subject] = generation'[Subject]
          /\ savepoint'[Subject] # 0
      BY <3>1, <3>2 DEF ClusterTypeOK
    <3> QED  BY <3>3, <3>4 DEF SavepointFresh
  <2> QED  BY <2>2, <2>3
<1>4. CASE \E outcome \in Outcome : Retry(outcome)
  <2>1. PICK outcome \in Outcome : Retry(outcome)
    BY <1>4
  <2>2. Attempt(outcome) /\ UNCHANGED <<request, pc, done, stack, todo>> /\ todo # <<>>
    BY <2>1 DEF Retry, Attempt
  <2>3. Subject' = Subject /\ Subject \in Families /\ ClusterTypeOK
    BY <2>2, CurrentSubject DEF Subject, CurrentStep, Last, Control, TypeOK
  <2> SUFFICES ASSUME todo = <<"suspend_job">>, state'[Subject] = "RUNNING"
               PROVE  savepoint'[Subject] # 0 /\ savepoint'[Subject] = generation'[Subject]
    BY <2>2, <2>3 DEF SavepointFresh
  <2>4. ~Committed(outcome)
    BY <2>2, <2>3, AttemptEffect DEF ClusterTypeOK
  <2>5. UNCHANGED cluster
    BY <2>2, <2>4, AttemptEffect
  <2> QED  BY <2>5 DEF SavepointFresh, cluster
<1>5. CASE UNCHANGED vars
  BY <1>5 DEF vars, saga, cluster, SavepointFresh, Subject, CurrentStep, Last
<1> QED
  BY <1>1, <1>2, <1>3, <1>4, <1>5 DEF Next, SagaStep

THEOREM SagaKeepsSavepointFresh == Spec => []SavepointFresh
<1>1. Init => SavepointFresh
  BY DEF Init, SavepointFresh
<1>2. Control /\ Control' /\ SavepointFresh /\ [Next]_vars => SavepointFresh'
  BY SavepointFreshNext
<1> QED  BY <1>1, <1>2, SagaKeepsControl, PTL DEF Spec

\* A running job is only suspended right after a savepoint of it.
THEOREM SuspendsHaveSavepoints == Spec => SuspendRightAfterSavepoint
<1> DEFINE A == \A f \in Families :
                  state[f] = "RUNNING" /\ state'[f] = "SUSPENDED" =>
                    savepoint[f] # 0 /\ savepoint[f] = generation[f]
<1>1. ASSUME Control, SavepointFresh, [Next]_vars
      PROVE  A
  <2> SUFFICES ASSUME NEW f \in Families, state[f] = "RUNNING", state'[f] = "SUSPENDED"
               PROVE  savepoint[f] # 0 /\ savepoint[f] = generation[f]
    OBVIOUS
  <2>1. PICK outcome \in Outcome : Attempt(outcome)
    BY <1>1, OnlyAttemptsChangeCluster DEF cluster
  <2>2. f = Subject /\ Subject \in Families /\ todo # <<>>
    BY <1>1, <2>1, AttemptByPosition DEF Attempt
  <2>3. todo = <<"suspend_job">>
    <3>1. ClusterTypeOK
      BY <1>1 DEF Control, TypeOK
    <3>2. Committed(outcome)
      BY <1>1, <2>1, AttemptEffect DEF cluster
    <3>3. todo # PauseOps /\ todo # <<"patch_configmap">> /\ todo # <<"resume_job">>
      BY <1>1, <2>1, <2>2, <3>1, <3>2, AttemptEffect DEF ClusterTypeOK
    <3> QED  BY <1>1, <2>2, <3>3, TodoValues DEF PauseLeft
  <2> QED  BY <1>1, <2>2, <2>3 DEF SavepointFresh
<1>2. Control /\ SavepointFresh /\ [Next]_vars => [A]_vars
  BY <1>1
<1> QED
  BY <1>2, SagaKeepsControl, SagaKeepsSavepointFresh, PTL DEF Spec, SuspendRightAfterSavepoint

-----------------------------------------------------------------------------
(* The report of a rolled-back move is complete, and an observer of the    *)
(* families and of the verdict can rely on MoveContract.                   *)

\* The intents from position n on, up to the one of the step that failed.
RegisteredFrom(n) == {Intents(request)[k] : k \in n .. done + 1}

LEMMA PopReport ==
    ASSUME Control, ReportSoFar, Restoring, stack' = Front(stack),
           UNCHANGED <<request, pc, done>>,
           \/ /\ compensated' = compensated \union {Last(stack)}
              /\ UNCHANGED <<noops, errors>>
           \/ /\ noops' = noops \union {Last(stack)}
              /\ UNCHANGED <<compensated, errors>>
           \/ /\ errors' = errors \union {Last(stack)}
              /\ UNCHANGED <<compensated, noops>>
    PROVE  ReportSoFar'
<1>1. Moving /\ stack # <<>> /\ pc = "unwinding" /\ done \in 0 .. 5
      /\ request \in MoveDatatypeRequest
  BY DEF Restoring, Moving, Control, StackOK, TypeOK, PlanLength
<1>2. request.source # request.target
  BY <1>1 DEF Control, PhasesOK, Accepted, Rejected
<1>3. PICK n \in 1 .. 6 : Len(stack) = n /\ Last(stack) = Intents(request)[n]
  BY <1>1, TopFacts
<1> DEFINE m == Len(stack')
<1>4. m = n - 1 /\ n <= done + 1
  <2>1. Len(stack) <= done + 1
    BY <1>1 DEF Control, StackOK
  <2> QED  BY <1>1, <1>3, <2>1, PopPlan
<1> HIDE DEF m
<1>5. compensated \union noops \union errors = RegisteredFrom(n + 1)
  BY <1>1, <1>3 DEF ReportSoFar, RegisteredFrom
<1>6. Last(stack) \notin RegisteredFrom(n + 1)
  <2> SUFFICES ASSUME NEW k \in n + 1 .. done + 1, Last(stack) = Intents(request)[k]
               PROVE  FALSE
    BY DEF RegisteredFrom
  <2>1. k \in 1 .. 6 /\ k # n
    BY <1>1
  <2> QED  BY <1>1, <1>2, <1>3, <2>1, IntentsDiffer
<1>7. RegisteredFrom(m + 1) = RegisteredFrom(n + 1) \union {Last(stack)}
  <2>1. m + 1 .. done + 1 = (n + 1 .. done + 1) \union {n}
    BY <1>1, <1>4
  <2> QED  BY <1>3, <2>1 DEF RegisteredFrom
<1>8. RegisteredFrom(m + 1) = {Intents(request')[k] : k \in m + 1 .. done' + 1}
  BY DEF RegisteredFrom
<1>9. /\ compensated' \union noops' \union errors' = RegisteredFrom(m + 1)
      /\ compensated' \intersect noops' = {}
      /\ (compensated' \union noops') \intersect errors' = {}
  <2>1. /\ compensated \intersect noops = {}
        /\ (compensated \union noops) \intersect errors = {}
    BY <1>1 DEF ReportSoFar
  <2>2. /\ Last(stack) \notin compensated
        /\ Last(stack) \notin noops
        /\ Last(stack) \notin errors
    BY <1>5, <1>6
  <2> QED  BY <1>5, <1>7, <2>1, <2>2
<1> QED  BY <1>8, <1>9 DEF ReportSoFar, m

LEMMA ReportNext ==
    ASSUME Control, Control', ReportSoFar, [Next]_vars
    PROVE  ReportSoFar'
<1>1. CASE ReadAll \/ ReadRaises \/ Reject \/ Accept \/ Complete \/ Die \/ BeginStep
           \/ StepReturns \/ \E r \in MoveDatatypeRequest : NextSaga(r)
  BY <1>1 DEF ReadAll, ReadRaises, Reject, Accept, Complete, Die, BeginStep, StepReturns,
     NextSaga, Begin, End, ReportSoFar, RolledBack, Control, PhasesOK
<1>2. CASE \E outcome \in Outcome : StepRaises(outcome)
  <2>1. /\ pc = "forward" /\ todo # <<>> /\ UNCHANGED <<request, done, stack, report>>
    BY <1>2 DEF StepRaises, Raises, Attempt
  <2>2. Len(stack) = done + 1 /\ done \in 0 .. 6 /\ compensated = {} /\ noops = {} /\ errors = {}
    BY <2>1 DEF Control, StackOK, PhasesOK, TypeOK, PlanLength
  <2> DEFINE n == Len(stack)
  <2>3. n + 1 .. done + 1 = {}
    BY <2>2
  <2> HIDE DEF n
  <2>4. {Intents(request)[k] : k \in n + 1 .. done + 1} = {}
    BY <2>3
  <2> QED  BY <2>1, <2>2, <2>4 DEF ReportSoFar, report, n
<1>3. CASE BeginRestore \/ Unwound \/ (\E outcome \in Outcome : Retry(outcome)) \/ UNCHANGED vars
  BY <1>3 DEF BeginRestore, Restoring, Unwound, End, Retry, ReportSoFar, RolledBack, report, vars, saga
<1>4. CASE RestoreReturns
  <2>1. CASE Tail(todo) = <<>>
    BY <1>4, <2>1, PopReport DEF RestoreReturns
  <2>2. CASE Tail(todo) # <<>>
    BY <1>4, <2>2 DEF RestoreReturns, Restoring, ReportSoFar, RolledBack
  <2> QED  BY <2>1, <2>2
<1>5. CASE RestoreNoop
  BY <1>5, PopReport DEF RestoreNoop
<1>6. CASE \E outcome \in Outcome : RestoreRaises(outcome)
  BY <1>6, PopReport DEF RestoreRaises
<1> QED
  BY <1>1, <1>2, <1>3, <1>4, <1>5, <1>6 DEF Next, SagaStep

THEOREM SagaKeepsReportSoFar == Spec => []ReportSoFar
<1>1. Init => ReportSoFar
  BY DEF Init, ReportSoFar, RolledBack
<1>2. Control /\ Control' /\ ReportSoFar /\ [Next]_vars => ReportSoFar'
  BY ReportNext
<1> QED  BY <1>1, <1>2, SagaKeepsControl, PTL DEF Spec

\* The invariant the safety of the saga rests on, as one formula.
THEOREM SagaKeepsInvariant == Spec => []IInv
<1>1. Control /\ DeviationsPending /\ Barriers /\ SavepointFresh /\ ReportSoFar => IInv
  BY DEF IInv
<1> QED
  BY <1>1, SagaKeepsControl, SagaKeepsDeviationsPending, SagaKeepsBarriers,
     SagaKeepsSavepointFresh, SagaKeepsReportSoFar, PTL

\* A rolled-back move reports every intent it registered, exactly once.
THEOREM ReportIsComplete == Spec => []ReportAccountsForEveryIntent
<1>1. Control /\ ReportSoFar => ReportAccountsForEveryIntent
  <2> SUFFICES ASSUME Control, ReportSoFar, RolledBack PROVE ReportAccountsForEveryIntent
    BY DEF ReportAccountsForEveryIntent
  <2>1. Len(stack) = 0
    BY DEF Control, StackOK
  <2>2. Len(stack) + 1 .. done + 1 = 1 .. done + 1
    BY <2>1
  <2> QED  BY <2>2 DEF ReportSoFar, ReportAccountsForEveryIntent
<1> QED  BY <1>1, SagaKeepsControl, SagaKeepsReportSoFar, PTL

-----------------------------------------------------------------------------
(* Refinement.                                                             *)

\* The contract's vocabulary, reached through the instance, is the saga's own.
LEMMA SameVocabulary ==
    /\ Contract!FamilyState = FamilyState
    /\ Contract!MoveDatatypeRequest = MoveDatatypeRequest
    /\ Contract!IntentType = IntentType
    /\ \A label, f : Contract!Intent(label, f) = Intent(label, f)
    /\ \A r : Contract!FamiliesOf(r) = FamiliesOf(r)
    /\ \A r, snap : Contract!Rejected(r, snap) = Rejected(r, snap)
    /\ \A r, snap, f : Contract!NewConfig(r, snap, f) = NewConfig(r, snap, f)
  BY DEF Contract!FamilyState, FamilyState, Contract!MoveDatatypeRequest, MoveDatatypeRequest,
         Contract!IntentType, IntentType, Contract!Intent, Intent,
         Contract!FamiliesOf, FamiliesOf, Contract!Rejected, Rejected,
         Contract!NewConfig, NewConfig

\* An attempt moves one family of the move, or nothing an observer sees.
LEMMA AttemptIsMove ==
    ASSUME Control, NEW outcome, Attempt(outcome),
           pc' \in {"forward", "unwinding"}, UNCHANGED <<request, statuses, verdict>>
    PROVE  Contract!Next \/ UNCHANGED Contract!cvars
<1>1. /\ pc \in {"forward", "unwinding"} /\ Subject \in FamiliesOf(request)
      /\ Subject \in Families
  BY CurrentSubject DEF Attempt, Moving
<1>2. Phase = "moving" /\ Phase' = "moving" /\ pc # "ended" /\ pc' # "ended"
  BY <1>1 DEF Phase
<1>3. ConfigToWrite \in {statuses[Subject].datatypes, NewConfig(request, statuses, Subject)}
  BY DEF ConfigToWrite
<1>4. \/ UNCHANGED <<state, datatypes>>
      \/ state' = [state EXCEPT ![Subject] = "SUSPENDED"] /\ UNCHANGED datatypes
      \/ state' = [state EXCEPT ![Subject] = "RUNNING"] /\ UNCHANGED datatypes
      \/ datatypes' = [datatypes EXCEPT ![Subject] = ConfigToWrite] /\ UNCHANGED state
  <2>1. CASE UNCHANGED cluster
    BY <2>1 DEF cluster
  <2>2. CASE Mutate(Head(todo), Subject, ConfigToWrite)
    BY <2>2 DEF Mutate, TriggerSavepoint, SuspendJob, ResumeJob, PatchConfigmap
  <2> QED  BY <2>1, <2>2 DEF Attempt
<1>5. CASE UNCHANGED <<state, datatypes>>
  BY <1>2, <1>5 DEF Contract!cvars
<1>6. CASE \/ state' = [state EXCEPT ![Subject] = "SUSPENDED"] /\ UNCHANGED datatypes
           \/ state' = [state EXCEPT ![Subject] = "RUNNING"] /\ UNCHANGED datatypes
  <2>1. Contract!SwitchState(Subject)
    BY <1>6, SameVocabulary DEF Contract!SwitchState, FamilyState
  <2> QED  BY <1>1, <1>2, <2>1, SameVocabulary DEF Contract!Move, Contract!Next
<1>7. CASE datatypes' = [datatypes EXCEPT ![Subject] = ConfigToWrite] /\ UNCHANGED state
  <2>1. Contract!Reroute(Subject)
    BY <1>3, <1>7, SameVocabulary DEF Contract!Reroute
  <2> QED  BY <1>1, <1>2, <2>1, SameVocabulary DEF Contract!Move, Contract!Next
<1> QED  BY <1>4, <1>5, <1>6, <1>7

LEMMA StepImplementsContract ==
    ASSUME Control, Control', DeviationsPending, Barriers, [Next]_vars
    PROVE  Contract!Next \/ UNCHANGED Contract!cvars
<1>1. CASE ReadAll
  <2>1. Phase = "open" /\ Phase' = "open" /\ pc # "ended" /\ pc' # "ended"
    BY <1>1 DEF ReadAll, Phase
  <2>2. statuses' = [f \in FamiliesOf(request) |-> Contract!Observe(f)]
    BY <1>1 DEF ReadAll, Read, Contract!Observe
  <2>3. Contract!Look
    BY <1>1, <2>1, <2>2, SameVocabulary DEF ReadAll, Contract!Look, cluster
  <2> QED  BY <2>3 DEF Contract!Next
<1>2. CASE ReadRaises \/ Reject
  <2>1. Phase = "open" /\ Phase' = "ended" /\ pc' = "ended" /\ errors = {} /\ errors' = {}
        /\ verdict' \in {"RAISED", "REJECTED"} /\ UNCHANGED <<state, datatypes, request, statuses>>
    BY <1>2 DEF ReadRaises, Reject, End, Phase, Control, PhasesOK, cluster, report
  <2>2. Contract!Refuse
    BY <2>1, SameVocabulary DEF Contract!Refuse, Contract!Settle
  <2> QED  BY <2>2 DEF Contract!Next
<1>3. CASE Accept
  <2>1. Phase = "open" /\ Phase' = "moving" /\ pc # "ended" /\ pc' # "ended"
        /\ UNCHANGED <<state, datatypes, request, statuses, verdict>>
    BY <1>3 DEF Accept, Phase, cluster
  <2>2. DOMAIN statuses = FamiliesOf(request) /\ ~Rejected(request, statuses)
    BY <1>3 DEF Accept, Control, PhasesOK, SnapshotTaken
  <2>3. Contract!Start
    BY <2>1, <2>2, SameVocabulary DEF Contract!Start
  <2> QED  BY <2>3 DEF Contract!Next
<1>4. CASE BeginStep \/ BeginRestore \/ RestoreNoop
  <2>1. Phase' = Phase /\ pc # "ended" /\ pc' # "ended"
        /\ UNCHANGED <<state, datatypes, request, statuses, verdict>>
    BY <1>4 DEF BeginStep, BeginRestore, RestoreNoop, Restoring, Phase, cluster
  <2> QED  BY <2>1 DEF Contract!cvars
<1>5. CASE StepReturns \/ RestoreReturns
  <2>1. /\ Attempt("ok") /\ pc' \in {"forward", "unwinding"}
        /\ UNCHANGED <<request, statuses, verdict>>
    BY <1>5 DEF StepReturns, RestoreReturns, Returns, Restoring
  <2> QED  BY <2>1, AttemptIsMove
<1>6. CASE \E outcome \in Outcome : Retry(outcome) \/ StepRaises(outcome) \/ RestoreRaises(outcome)
  <2>1. PICK outcome \in Outcome : Retry(outcome) \/ StepRaises(outcome) \/ RestoreRaises(outcome)
    BY <1>6
  <2>2. Attempt(outcome) /\ UNCHANGED <<request, statuses, verdict>>
    BY <2>1 DEF Retry, StepRaises, RestoreRaises, Raises
  <2>3. pc' \in {"forward", "unwinding"}
    <3>1. pc \in {"forward", "unwinding"}
      BY <2>2, CurrentSubject DEF Attempt, Moving
    <3> QED  BY <2>1, <3>1 DEF Retry, StepRaises, RestoreRaises
  <2> QED  BY <2>2, <2>3, AttemptIsMove
<1>7. CASE Complete
  <2>1. Phase = "moving" /\ Phase' = "ended" /\ pc # "ended" /\ pc' = "ended" /\ verdict' = "COMPLETED"
        /\ errors' = {} /\ UNCHANGED <<state, datatypes, request, statuses>>
    BY <1>7 DEF Complete, End, Phase, Control, PhasesOK, cluster, report
  <2>2. \A f \in FamiliesOf(request) :
          Contract!Observe(f) = [state |-> "RUNNING", datatypes |-> NewConfig(request, statuses, f)]
    BY <1>7 DEF Complete, Barriers, ForwardProgress, PlanLength, FamiliesOf, Contract!Observe
  <2>3. Contract!Complete
    BY <2>1, <2>2, SameVocabulary DEF Contract!Complete, Contract!Settle
  <2> QED  BY <2>3 DEF Contract!Next
<1>8. CASE Unwound
  <2>1. /\ Phase = "moving" /\ Phase' = "ended" /\ pc = "unwinding" /\ pc' = "ended"
        /\ errors' = errors /\ UNCHANGED <<state, datatypes, request, statuses>>
        /\ verdict' = IF errors = {} THEN "COMPENSATED" ELSE "COMPENSATION_INCOMPLETE"
    BY <1>8 DEF Unwound, End, Phase, cluster, report
  <2>2. Len(stack) = 0
    BY <1>8 DEF Unwound
  <2>3. \A f \in FamiliesOf(request) :
            /\ datatypes[f] # statuses[f].datatypes => Intent("revert", f) \in errors
            /\ state[f] # statuses[f].state => Intent("resume", f) \in errors
    BY <2>1, <2>2 DEF DeviationsPending, RevertPosition, ResumePosition
  <2>4. CASE errors = {}
    <3>1. statuses \in [FamiliesOf(request) -> FamilyStatus]
      BY <2>1 DEF Control, PhasesOK, Moving, Accepted, SnapshotTaken
    <3>2. \A f \in FamiliesOf(request) : Contract!Observe(f) = statuses[f]
      BY <2>3, <2>4, <3>1 DEF Contract!Observe, FamilyStatus
    <3>3. Contract!Compensated
      BY <2>1, <2>4, <3>2, SameVocabulary DEF Contract!Compensated, Contract!Settle
    <3> QED  BY <3>3 DEF Contract!Next
  <2>5. CASE errors # {}
    <3>1. errors \subseteq IntentType
      BY DEF Control, TypeOK
    <3>2. Contract!Incomplete
      BY <2>1, <2>3, <2>5, <3>1, SameVocabulary DEF Contract!Incomplete, Contract!Settle
    <3> QED  BY <3>2 DEF Contract!Next
  <2> QED  BY <2>4, <2>5
<1>9. CASE Die
  <2>1. /\ Phase # "ended" /\ Phase' = "ended" /\ pc # "ended" /\ pc' = "ended" /\ verdict' = "DIED"
        /\ errors' = {} /\ statuses' = <<>> /\ UNCHANGED <<state, datatypes, request>>
    BY <1>9 DEF Die, End, Phase, Control, TypeOK, cluster
  <2>2. Contract!Abandon
    BY <2>1, SameVocabulary DEF Contract!Abandon, Contract!Settle
  <2> QED  BY <2>2 DEF Contract!Next
<1>10. CASE \E r \in MoveDatatypeRequest : NextSaga(r)
  <2>1. /\ Phase = "ended" /\ Phase' = "open" /\ pc' # "ended" /\ verdict' = "none"
        /\ request' \in MoveDatatypeRequest /\ statuses' = <<>> /\ UNCHANGED <<state, datatypes>>
    BY <1>10 DEF NextSaga, Begin, Phase, cluster
  <2>2. Contract!Another
    BY <2>1, SameVocabulary DEF Contract!Another
  <2> QED  BY <2>2 DEF Contract!Next
<1>11. CASE UNCHANGED vars
  BY <1>11 DEF vars, saga, cluster, report, Contract!cvars, Phase
<1> QED
  BY <1>1, <1>2, <1>3, <1>4, <1>5, <1>6, <1>7, <1>8, <1>9, <1>10, <1>11 DEF Next, SagaStep

\* To an observer of families and verdicts, the baseline saga is the contract.
THEOREM SagaImplementsContract == Spec => ImplementsContract
<1>1. Init => Contract!Init
  BY SameVocabulary DEF Init, Seed, Contract!Init, Phase
<1>2. Control /\ Control' /\ DeviationsPending /\ Barriers /\ [Next]_vars
        => [Contract!Next]_(Contract!cvars)
  BY StepImplementsContract
<1> QED
  BY <1>1, <1>2, SagaKeepsControl, SagaKeepsDeviationsPending, SagaKeepsBarriers, PTL
     DEF Spec, ImplementsContract, Contract!Spec

-----------------------------------------------------------------------------
(* The verdict on its way to the caller.                                   *)

\* The search stops at the outermost error with a verdict.
LEMMA OutermostVerdict ==
    ASSUME NEW caught, Len(caught) \in Nat, NEW n \in 1 .. Len(caught),
           VerdictOf(caught[n]) # <<>>,
           \A k \in 1 .. (n - 1) : VerdictOf(caught[k]) = <<>>
    PROVE  extract_saga_failure(caught) = VerdictOf(caught[n])
<1> DEFINE I == {i \in 1 .. Len(caught) : VerdictOf(caught[i]) # <<>>}
<1>1. n \in I /\ \A i \in I : n <= i /\ i \in Nat
  OBVIOUS
<1>2. Min(I) = n
  <2>1. Min(I) = CHOOSE x \in I : \A y \in I : x <= y
    BY DEF Min
  <2> HIDE DEF I
  <2>2. \A x \in I : (\A y \in I : x <= y) <=> x = n
    BY <1>1
  <2> QED  BY <1>1, <2>1, <2>2
<1>3. SelectInSeq(caught, LAMBDA error : VerdictOf(error) # <<>>) = n
  BY <1>1, <1>2 DEF SelectInSeq
<1> QED  BY <1>3 DEF extract_saga_failure

LEMMA NoVerdict ==
    ASSUME NEW caught, Len(caught) \in Nat,
           \A k \in 1 .. Len(caught) : VerdictOf(caught[k]) = <<>>
    PROVE  extract_saga_failure(caught) = <<>>
<1>1. SelectInSeq(caught, LAMBDA error : VerdictOf(error) # <<>>) = 0
  BY DEF SelectInSeq
<1> QED  BY <1>1 DEF extract_saga_failure

LEMMA Wrapped ==
    ASSUME NEW S, NEW error \in S, NEW causes \in Seq(S)
    PROVE  /\ Len(<<error>> \o causes) \in Nat
           /\ Len(<<error>> \o causes) = 1 + Len(causes)
           /\ (<<error>> \o causes)[1] = error
           /\ \A k \in 1 .. Len(causes) : (<<error>> \o causes)[k + 1] = causes[k]
           /\ <<error>> \o causes \in Seq(S)
           /\ Head(<<error>> \o causes) = error
  OBVIOUS

LEMMA SagaErrorArrives ==
    ASSUME NEW engine \in Engine
    PROVE  extract_saga_failure(
             Delivered(engine, SagaRaises(engine, SagaFailure, Causes(engine))))
               = << SagaFailure, SAGA_ERROR_TYPES(verdict) >>
<1> DEFINE type == SAGA_ERROR_TYPES(verdict)
           raised == SagaRaises(engine, SagaFailure, Causes(engine))
           S == {Error("ClusterError"), Error("ActivityError"), Error("ApplicationError"),
                 Error("TerminalError")}
<1>1. Causes(engine) \in Seq(S)
  <2>1. \A a, b \in S : <<>> \in Seq(S) /\ <<a>> \in Seq(S) /\ <<a, b>> \in Seq(S)
    OBVIOUS
  <2>2. \E a, b \in S : Causes(engine) \in {<<>>, <<a>>, <<a, b>>}
    BY DEF Causes, ClusterErrors, Engine
  <2> QED  BY <2>1, <2>2
<1>2. SAGA_ERROR_TYPES(SagaFailure.outcome) = type
  BY DEF SagaFailure
<1> HIDE DEF S, type
<1>3. CASE engine = "None"
  <2> DEFINE error == [Error("SagaError") EXCEPT !.type = type, !.details = <<SagaFailure>>]
  <2>1. Delivered(engine, raised) = <<error>> \o Causes(engine)
    BY <1>2, <1>3 DEF Delivered, SagaRaises
  <2>2. VerdictOf(error) = <<SagaFailure, type>> /\ <<SagaFailure, type>> # <<>>
    BY DEF VerdictOf, Error
  <2> HIDE DEF error, raised
  <2>3. error \in S \union {error} /\ Causes(engine) \in Seq(S \union {error})
    BY <1>1
  <2> DEFINE caught == Delivered(engine, raised)
  <2>4. Len(caught) \in Nat /\ 1 \in 1 .. Len(caught) /\ caught[1] = error
    BY <2>1, <2>3, Wrapped
  <2> HIDE DEF caught
  <2>5. \A k \in 1 .. (1 - 1) : VerdictOf(caught[k]) = <<>>
    OBVIOUS
  <2>6. extract_saga_failure(caught) = VerdictOf(error)
    BY <2>2, <2>4, <2>5, OutermostVerdict
  <2> QED  BY <2>2, <2>6 DEF caught, raised, type
<1>4. CASE engine = "Temporal"
  <2> DEFINE error == [Error("ApplicationError") EXCEPT
                         !.type = type, !.details = <<SagaFailure>>]
             wrapping == Error("WorkflowFailureError")
  <2>1. Delivered(engine, raised) = <<wrapping>> \o (<<error>> \o Causes(engine))
    BY <1>2, <1>4 DEF Delivered, SagaRaises
  <2>2. /\ VerdictOf(error) = <<SagaFailure, type>> /\ <<SagaFailure, type>> # <<>>
        /\ VerdictOf(wrapping) = <<>>
    BY DEF VerdictOf, Error
  <2> HIDE DEF error, wrapping, raised
  <2> DEFINE U == S \union {error, wrapping}
             inner == <<error>> \o Causes(engine)
             caught == Delivered(engine, raised)
  <2>3. error \in U /\ wrapping \in U /\ Causes(engine) \in Seq(U)
    BY <1>1
  <2> HIDE DEF U
  <2>4. inner \in Seq(U) /\ Len(inner) \in Nat /\ 1 \in 1 .. Len(inner) /\ inner[1] = error
    BY <2>3, Wrapped
  <2> HIDE DEF inner
  <2>5. /\ Len(<<wrapping>> \o inner) \in Nat /\ 2 \in 1 .. Len(<<wrapping>> \o inner)
        /\ (<<wrapping>> \o inner)[1] = wrapping /\ (<<wrapping>> \o inner)[1 + 1] = error
    BY <2>3, <2>4, Wrapped
  <2>6. /\ Len(caught) \in Nat /\ 2 \in 1 .. Len(caught)
        /\ caught[1] = wrapping /\ caught[2] = error
    BY <2>1, <2>5 DEF inner
  <2> HIDE DEF caught
  <2>7. \A k \in 1 .. (2 - 1) : VerdictOf(caught[k]) = <<>>
    BY <2>2, <2>6
  <2>8. extract_saga_failure(caught) = VerdictOf(error)
    BY <2>2, <2>6, <2>7, OutermostVerdict
  <2> QED  BY <2>2, <2>8 DEF caught, raised, type
<1>5. CASE engine = "Restate"
  <2> DEFINE first == saga_terminal_error(SagaFailure, Causes(engine))
             error == [Error("HttpError") EXCEPT !.body = first.body]
             caught == Delivered(engine, raised)
  <2>1. raised = <<first>> \o Causes(engine)
    BY <1>5 DEF SagaRaises
  <2>2. first \in S \union {first} /\ Causes(engine) \in Seq(S \union {first})
    BY <1>1
  <2>3. first.body = [envelope |-> <<type>>, payload |-> <<SagaFailure>>]
    BY <1>2 DEF saga_terminal_error, Error
  <2> HIDE DEF first, raised
  <2>4. Head(raised) = first
    BY <2>1, <2>2, Wrapped
  <2>5. caught = <<error>>
    BY <1>5, <2>4 DEF Delivered
  <2>6. /\ error.class = "HttpError"
        /\ error.body = [envelope |-> <<type>>, payload |-> <<SagaFailure>>]
    BY <2>3 DEF Error
  <2> HIDE DEF error, caught
  <2>7. VerdictOf(error) = <<SagaFailure, type>> /\ <<SagaFailure, type>> # <<>>
    BY <2>6 DEF VerdictOf, decode_saga_failure
  <2>8. Len(caught) \in Nat /\ 1 \in 1 .. Len(caught) /\ caught[1] = error
    BY <2>5
  <2>9. \A k \in 1 .. (1 - 1) : VerdictOf(caught[k]) = <<>>
    OBVIOUS
  <2>10. extract_saga_failure(caught) = VerdictOf(error)
    BY <2>7, <2>8, <2>9, OutermostVerdict
  <2> QED  BY <2>7, <2>10 DEF caught, raised, type
<1> QED  BY <1>3, <1>4, <1>5 DEF Engine

LEMMA ClusterErrorIsNoVerdict ==
    ASSUME NEW engine \in Engine
    PROVE  extract_saga_failure(Delivered(engine, ClusterErrors(engine))) = <<>>
<1> DEFINE caught == Delivered(engine, ClusterErrors(engine))
<1>1. CASE engine = "None"
  <2>1. caught = << Error("ClusterError") >>
    BY <1>1 DEF Delivered, ClusterErrors
  <2>2. VerdictOf(Error("ClusterError")) = <<>>
    BY DEF VerdictOf, Error
  <2> HIDE DEF caught
  <2>3. Len(caught) = 1 /\ caught[1] = Error("ClusterError")
    BY <2>1
  <2>4. \A k \in 1 .. Len(caught) : VerdictOf(caught[k]) = <<>>
    BY <2>2, <2>3
  <2> QED  BY <2>3, <2>4, NoVerdict DEF caught
<1>2. CASE engine = "Temporal"
  <2> DEFINE inner == << Error("ActivityError"), Error("ApplicationError") >>
             S == {Error("WorkflowFailureError"), Error("ActivityError"),
                   Error("ApplicationError")}
  <2>1. caught = << Error("WorkflowFailureError") >> \o inner
    BY <1>2 DEF Delivered, ClusterErrors
  <2>2. /\ VerdictOf(Error("WorkflowFailureError")) = <<>>
        /\ VerdictOf(Error("ActivityError")) = <<>>
        /\ VerdictOf(Error("ApplicationError")) = <<>>
    BY DEF VerdictOf, Error
  <2>3. /\ Len(caught) = 3 /\ caught[1] = Error("WorkflowFailureError")
        /\ caught[2] = Error("ActivityError") /\ caught[3] = Error("ApplicationError")
    <3>1. /\ Error("WorkflowFailureError") \in S /\ inner \in Seq(S) /\ Len(inner) = 2
          /\ inner[1] = Error("ActivityError") /\ inner[2] = Error("ApplicationError")
      OBVIOUS
    <3> HIDE DEF inner, S, caught
    <3>2. /\ Len(caught) = 1 + 2 /\ caught[1] = Error("WorkflowFailureError")
          /\ caught[1 + 1] = inner[1] /\ caught[2 + 1] = inner[2]
      BY <2>1, <3>1, Wrapped
    <3> QED  BY <3>1, <3>2
  <2> HIDE DEF caught
  <2>4. \A k \in 1 .. Len(caught) : VerdictOf(caught[k]) = <<>>
    BY <2>2, <2>3
  <2> QED  BY <2>3, <2>4, NoVerdict DEF caught
<1>3. CASE engine = "Restate"
  <2> DEFINE error == [Error("HttpError") EXCEPT !.body = NoBody]
  <2>1. Head(ClusterErrors(engine)).body = NoBody
    BY <1>3 DEF ClusterErrors, Error
  <2>2. caught = << error >>
    BY <1>3, <2>1 DEF Delivered
  <2>3. VerdictOf(error) = <<>>
    BY DEF VerdictOf, decode_saga_failure, Error, NoBody
  <2> HIDE DEF caught, error
  <2>4. Len(caught) = 1 /\ caught[1] = error
    BY <2>2
  <2>5. \A k \in 1 .. Len(caught) : VerdictOf(caught[k]) = <<>>
    BY <2>3, <2>4
  <2> QED  BY <2>4, <2>5, NoVerdict DEF caught
<1> QED  BY <1>1, <1>2, <1>3 DEF Engine

\* Through every engine's wrapping of errors the caller gets the verdict that the
\* saga reached, under its type and with its whole report, whatever that report
\* contains; and an error of the cluster alone is never taken for one.
THEOREM VerdictsReachCallers == Spec => []VerdictReachesCaller
<1>1. VerdictReachesCaller
  BY SagaErrorArrives, ClusterErrorIsNoVerdict DEF VerdictReachesCaller
<1> QED  BY <1>1, PTL

-----------------------------------------------------------------------------
(* The saga under fault rules.                                             *)

Under == <<Subject, Head(todo)>>

LEMMA OutcomesAreOutcomes == \A key : ChaosOutcome(key) \in Outcome
  BY DEF ChaosOutcome, Outcome

LEMMA ChaosStepIsSagaStep ==
    ASSUME [ChaosNext]_chaosVars
    PROVE  [Next]_vars
<1>1. CASE ChaosAttempt
  <2>1. PICK outcome \in Outcome :
            \/ StepReturns
            \/ RestoreReturns
            \/ Retry(outcome)
            \/ StepRaises(outcome)
            \/ RestoreRaises(outcome)
    BY <1>1, OutcomesAreOutcomes DEF ChaosAttempt
  <2> QED  BY <2>1 DEF Next, SagaStep
<1>2. CASE OwnStep
  BY <1>2 DEF OwnStep, Next, SagaStep
<1>3. CASE \E table \in RuleTables : SetChaos(table)
  BY <1>3 DEF SetChaos
<1>4. CASE UNCHANGED chaosVars
  BY <1>4 DEF chaosVars
<1> QED  BY <1>1, <1>2, <1>3, <1>4 DEF ChaosNext

\* What is proved of the saga holds under rules.
LEMMA SagaUnderRules == ChaosSpec => Spec
<1>1. ChaosInit => Init
  BY DEF ChaosInit
<1>2. [ChaosNext]_chaosVars => [Next]_vars
  BY ChaosStepIsSagaStep
<1> QED  BY <1>1, <1>2, PTL DEF ChaosSpec, Spec

-----------------------------------------------------------------------------
(* Every attempt but the first was made necessary by a strike of the rule. *)

RulesTyped ==
    /\ DOMAIN rules \subseteq Key
    /\ \A key \in DOMAIN rules : rules[key].times \in Nat
    /\ hits \in [Key -> Nat]

HitsKeepUp ==
    attempt > 1 =>
        /\ todo # <<>>
        /\ Under \in DOMAIN rules
        /\ hits[Under] >= attempt - 1

LEMMA TablesAreTyped ==
    ASSUME NEW table \in RuleTables
    PROVE  DOMAIN table \subseteq Key /\ \A key \in DOMAIN table : table[key].times \in Nat
<1>1. PICK under \in UNION {kSubset(n, Key) : n \in 0 .. MaxFaults} :
            table \in [under -> ChaosRule]
  BY DEF RuleTables, RuleTablesOver
<1>2. under \subseteq Key
  BY <1>1 DEF kSubset
<1>3. \A rule \in ChaosRule : rule.times \in Nat
  BY ChaosAssumption DEF ChaosRule
<1> QED  BY <1>1, <1>2, <1>3

LEMMA RulesTypedInit == ChaosInit => RulesTyped
  BY TablesAreTyped DEF ChaosInit, RulesTyped, NoHits

LEMMA RulesTypedNext ==
    ASSUME RulesTyped, [ChaosNext]_chaosVars
    PROVE  RulesTyped'
<1>1. CASE ChaosAttempt
  <2>1. rules' = rules /\ \E key : CountHit(key)
    BY <1>1 DEF ChaosAttempt
  <2>2. PICK key : CountHit(key)
    BY <2>1
  <2>3. hits' \in [Key -> Nat]
    <3>1. CASE Strikes(rules, hits, key)
      <4>1. key \in Key
        BY <3>1 DEF Strikes, ModeOf, RulesTyped
      <4> QED  BY <2>2, <3>1, <4>1 DEF CountHit, RulesTyped
    <3>2. CASE ~Strikes(rules, hits, key)
      BY <2>2, <3>2 DEF CountHit, RulesTyped
    <3> QED  BY <3>1, <3>2
  <2> QED  BY <2>1, <2>3 DEF RulesTyped
<1>2. CASE OwnStep \/ UNCHANGED chaosVars
  BY <1>2 DEF OwnStep, chaos, chaosVars, RulesTyped
<1>3. CASE \E table \in RuleTables : SetChaos(table)
  BY <1>3, TablesAreTyped DEF SetChaos, NoHits, RulesTyped
<1> QED  BY <1>1, <1>2, <1>3 DEF ChaosNext

LEMMA HitsKeepUpNext ==
    ASSUME Control, RulesTyped, HitsKeepUp, [ChaosNext]_chaosVars
    PROVE  HitsKeepUp'
<1>1. CASE ChaosAttempt
  <2> DEFINE outcome == ChaosOutcome(Under)
  <2>1. CASE Retry(outcome)
    <3>1. /\ attempt' = attempt + 1 /\ todo' = todo /\ todo # <<>>
          /\ Under' = Under /\ rules' = rules /\ CountHit(Under)
      BY <1>1, <2>1 DEF Retry, Attempt, ChaosAttempt, Under, Subject, CurrentStep
    <3>2. Strikes(rules, hits, Under)
      BY <2>1 DEF Retry, Retryable, ChaosOutcome
    <3>3. Under \in DOMAIN rules /\ Under \in Key
      BY <3>2 DEF Strikes, ModeOf, RulesTyped
    <3>4. hits[Under] \in Nat /\ hits'[Under] = hits[Under] + 1
      BY <3>1, <3>2, <3>3 DEF CountHit, RulesTyped
    <3>5. attempt \in Nat \ {0}
      BY DEF Control, TypeOK
    <3>6. hits'[Under] >= attempt
      BY <3>4, <3>5 DEF HitsKeepUp
    <3> HIDE DEF outcome
    <3> QED  BY <3>1, <3>3, <3>5, <3>6 DEF HitsKeepUp
  <2>2. CASE ~Retry(outcome)
    <3>1. attempt' = 1
      BY <1>1, <2>2 DEF ChaosAttempt, Under, StepReturns, RestoreReturns, Returns,
         StepRaises, RestoreRaises, Raises
    <3> QED  BY <3>1 DEF HitsKeepUp
  <2> QED  BY <2>1, <2>2
<1>2. CASE OwnStep
  <2>1. CASE Die \/ \E r \in MoveDatatypeRequest : NextSaga(r)
    BY <2>1 DEF Die, NextSaga, Begin, HitsKeepUp
  <2>2. CASE ~(Die \/ \E r \in MoveDatatypeRequest : NextSaga(r))
    <3>1. todo = <<>> /\ attempt' = attempt
      BY <1>2, <2>2 DEF OwnStep, ReadAll, ReadRaises, Reject, Accept, BeginStep, Complete,
         RestoreNoop, BeginRestore, Unwound, Control, PhasesOK, StackOK
    <3> QED  BY <3>1 DEF HitsKeepUp
  <2> QED  BY <2>1, <2>2
<1>3. CASE \E table \in RuleTables : SetChaos(table)
  <2>1. todo = <<>> /\ attempt' = attempt
    BY <1>3 DEF SetChaos, vars, saga, Control, PhasesOK
  <2> QED  BY <2>1 DEF HitsKeepUp
<1>4. CASE UNCHANGED chaosVars
  BY <1>4 DEF chaosVars, vars, saga, chaos, HitsKeepUp, Under, Subject, CurrentStep
<1> QED  BY <1>1, <1>2, <1>3, <1>4 DEF ChaosNext

LEMMA UnwindingIsEarned ==
    ASSUME Control, RulesTyped, HitsKeepUp, ChaosNext,
           pc = "forward", pc' = "unwinding"
    PROVE  /\ Under \in DOMAIN rules
           /\ rules[Under].mode = "permanent" \/ rules[Under].times >= MaxAttempts
<1> DEFINE outcome == ChaosOutcome(Under)
<1>1. StepRaises(outcome)
  BY DEF ChaosNext, OwnStep, SetChaos, vars, saga, ReadAll, ReadRaises, Reject, Accept,
     BeginStep, Complete, RestoreNoop, BeginRestore, Restoring, Unwound, Die, End,
     NextSaga, Begin, ChaosAttempt, StepReturns, RestoreReturns, Retry, RestoreRaises, Under
<1>2. CASE outcome = "permanent"
  BY <1>2 DEF ChaosOutcome, ModeOf
<1>3. CASE Retryable(outcome) /\ attempt = MaxAttempts
  <2>1. Strikes(rules, hits, Under)
    BY <1>3 DEF Retryable, ChaosOutcome
  <2>2. /\ Under \in DOMAIN rules /\ Under \in Key
        /\ hits[Under] < rules[Under].times
    BY <2>1 DEF Strikes, ModeOf, RulesTyped
  <2>3. hits[Under] \in Nat /\ rules[Under].times \in Nat /\ MaxAttempts \in Nat \ {0}
    BY <2>2, BaselineAssumption DEF RulesTyped
  <2>4. MaxAttempts > 1 => hits[Under] >= MaxAttempts - 1
    BY <1>3 DEF HitsKeepUp
  <2> HIDE DEF outcome
  <2> QED  BY <2>2, <2>3, <2>4
<1> QED  BY <1>1, <1>2, <1>3 DEF StepRaises, Raises

\* A move turns to its rollback only because of an operation whose rule is
\* permanent or lasts at least as long as the retry budget.
THEOREM OnlyLongFaultsUnwind == ChaosSpec => ShortFaultsAreAbsorbed
<1>1. ChaosInit => RulesTyped /\ HitsKeepUp
  BY RulesTypedInit DEF ChaosInit, Init, HitsKeepUp
<1>2. Control /\ RulesTyped /\ HitsKeepUp /\ [ChaosNext]_chaosVars
        => RulesTyped' /\ HitsKeepUp'
  BY RulesTypedNext, HitsKeepUpNext
<1>3. ChaosSpec => []Control
  BY SagaUnderRules, SagaKeepsControl, PTL
<1> DEFINE Earned ==
        pc = "forward" /\ pc' = "unwinding" =>
            \E key \in DOMAIN rules :
                /\ key = <<Subject, Head(todo)>>
                /\ rules[key].mode = "permanent" \/ rules[key].times >= MaxAttempts
<1>4. Control /\ RulesTyped /\ HitsKeepUp /\ [ChaosNext]_chaosVars => [Earned]_chaosVars
  BY UnwindingIsEarned DEF Under
<1> HIDE DEF Earned
<1>5. ChaosSpec => [][Earned]_chaosVars
  BY <1>1, <1>2, <1>3, <1>4, PTL DEF ChaosSpec
<1> QED  BY <1>5 DEF ShortFaultsAreAbsorbed, Earned
=============================================================================
