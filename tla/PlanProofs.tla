----------------------------- MODULE PlanProofs -----------------------------
(***************************************************************************)
(* Lemmas about the plan, the stack of intents and the queues of calls,    *)
(* which the proofs about every engine's saga need: they mention no        *)
(* variable.                                                               *)
(***************************************************************************)
EXTENDS SagaPlan, SequencesExt, SequenceTheorems, TLAPS

\* The intents by their position in the plan.
LEMMA IntentsByPosition ==
    ASSUME NEW r \in MoveDatatypeRequest
    PROVE  /\ Intents(r) \in Seq(IntentType)
           /\ Len(Intents(r)) = 6
           /\ Intents(r)[1] = Intent("resume", r.source)
           /\ Intents(r)[2] = Intent("resume", r.target)
           /\ Intents(r)[3] = Intent("revert", r.source)
           /\ Intents(r)[4] = Intent("revert", r.target)
           /\ Intents(r)[5] = Intent("pause", r.source)
           /\ Intents(r)[6] = Intent("pause", r.target)
           /\ \A k \in 1 .. 6 : Intents(r)[k] \in IntentType
<1>1. Intent("resume", r.source) \in IntentType /\ Intent("resume", r.target) \in IntentType
      /\ Intent("revert", r.source) \in IntentType /\ Intent("revert", r.target) \in IntentType
      /\ Intent("pause", r.source) \in IntentType /\ Intent("pause", r.target) \in IntentType
  BY DEF Intent, IntentType, MoveDatatypeRequest
<1>2. Intents(r) \in Seq(IntentType) /\ Len(Intents(r)) = 6
  BY <1>1 DEF Intents
<1> QED  BY <1>1, <1>2 DEF Intents

\* The intent of a step is about the step's family, and undoes its command.
LEMMA IntentFamily ==
    ASSUME NEW r \in MoveDatatypeRequest, NEW k \in 1 .. 6
    PROVE  /\ Intents(r)[k].family = Plan(r)[k].family
           /\ Intents(r)[k].family \in FamiliesOf(r)
           /\ Intents(r)[k].family = IF k \in {1, 3, 5} THEN r.source ELSE r.target
           /\ k \in {1, 2} => /\ Intents(r)[k].label = "resume"
                              /\ Plan(r)[k].command = "pause"
           /\ k \in {3, 4} => /\ Intents(r)[k].label = "revert"
                              /\ Plan(r)[k].command = "patch"
           /\ k \in {5, 6} => /\ Intents(r)[k].label = "pause"
                              /\ Plan(r)[k].command = "resume"
<1>1. k \in {1, 2, 3, 4, 5, 6}
  OBVIOUS
<1> DEFINE i == Intents(r)  p == Plan(r)
<1>2. /\ i[1] = Intent("resume", r.source) /\ p[1] = Step("pause", r.source)
      /\ i[2] = Intent("resume", r.target) /\ p[2] = Step("pause", r.target)
      /\ i[3] = Intent("revert", r.source) /\ p[3] = Step("patch", r.source)
      /\ i[4] = Intent("revert", r.target) /\ p[4] = Step("patch", r.target)
      /\ i[5] = Intent("pause", r.source)  /\ p[5] = Step("resume", r.source)
      /\ i[6] = Intent("pause", r.target)  /\ p[6] = Step("resume", r.target)
  BY DEF Intents, Plan
<1> HIDE DEF i, p
<1>3. /\ i[k].family = p[k].family
      /\ i[k].family \in {r.source, r.target}
      /\ i[k].family = IF k \in {1, 3, 5} THEN r.source ELSE r.target
  BY <1>1, <1>2 DEF Intent, Step
<1>4. /\ k \in {1, 2} => i[k].label = "resume" /\ p[k].command = "pause"
      /\ k \in {3, 4} => i[k].label = "revert" /\ p[k].command = "patch"
      /\ k \in {5, 6} => i[k].label = "pause"  /\ p[k].command = "resume"
  BY <1>1, <1>2 DEF Intent, Step
<1> QED  BY <1>3, <1>4 DEF i, p, FamiliesOf

\* No two steps of a move register the same intent.
LEMMA IntentsDiffer ==
    ASSUME NEW r \in MoveDatatypeRequest, r.source # r.target,
           NEW i \in 1 .. 6, NEW j \in 1 .. 6, i # j
    PROVE  Intents(r)[i] # Intents(r)[j]
<1> DEFINE a == Intents(r)[i]  b == Intents(r)[j]
<1>1. /\ a.family = IF i \in {1, 3, 5} THEN r.source ELSE r.target
      /\ i \in {1, 2} => a.label = "resume"
      /\ i \in {3, 4} => a.label = "revert"
      /\ i \in {5, 6} => a.label = "pause"
  BY IntentFamily
<1>2. /\ b.family = IF j \in {1, 3, 5} THEN r.source ELSE r.target
      /\ j \in {1, 2} => b.label = "resume"
      /\ j \in {3, 4} => b.label = "revert"
      /\ j \in {5, 6} => b.label = "pause"
  BY IntentFamily
<1> HIDE DEF a, b
<1>3. a.label # b.label \/ a.family # b.family
  BY <1>1, <1>2
<1> QED  BY <1>3 DEF a, b

\* What is left when the last intent has been taken off the stack.
LEMMA PopStack ==
    ASSUME NEW S, NEW s \in Seq(S), s # <<>>
    PROVE  /\ Len(s) \in Nat \ {0}
           /\ Front(s) \in Seq(S)
           /\ Len(Front(s)) = Len(s) - 1
           /\ \A k \in 1 .. Len(s) - 1 : Front(s)[k] = s[k]
           /\ Last(s) = s[Len(s)]
           /\ Last(s) \in S
<1>1. Len(s) \in Nat \ {0} /\ \A i \in 1 .. Len(s) : s[i] \in S
  BY EmptySeq, ElementOfSeq
<1> DEFINE n == Len(s) - 1
<1>2. n \in Nat /\ \A i \in 1 .. n : s[i] \in S
  BY <1>1
<1> HIDE DEF n
<1>3. /\ SubSeq(s, 1, n) \in Seq(S)
      /\ Len(SubSeq(s, 1, n)) = IF 1 <= n THEN n - 1 + 1 ELSE 0
      /\ \A i \in 1 .. n - 1 + 1 : SubSeq(s, 1, n)[i] = s[1 + i - 1]
  BY <1>2, SubSeqProperties
<1>4. /\ SubSeq(s, 1, n) \in Seq(S)
      /\ Len(SubSeq(s, 1, n)) = n
      /\ \A k \in 1 .. n : SubSeq(s, 1, n)[k] = s[k]
  BY <1>2, <1>3
<1> QED  BY <1>1, <1>4 DEF Front, Last, n

\* Pushing the intent of the next step keeps the stack a prefix of the intents.
LEMMA PushIntent ==
    ASSUME NEW r \in MoveDatatypeRequest, NEW stack \in Seq(IntentType),
           NEW n \in 1 .. 6, Len(stack) = n - 1,
           \A k \in 1 .. Len(stack) : stack[k] = Intents(r)[k]
    PROVE  LET pushed == Append(stack, Intents(r)[n])
           IN  /\ pushed \in Seq(IntentType)
               /\ pushed # <<>>
               /\ Len(pushed) = n
               /\ Last(pushed) = Intents(r)[n]
               /\ \A k \in 1 .. n : pushed[k] = Intents(r)[k]
<1> DEFINE pushed == Append(stack, Intents(r)[n])
<1>1. Intents(r)[n] \in IntentType
  BY IntentsByPosition
<1>2. /\ pushed \in Seq(IntentType) /\ pushed # <<>> /\ Len(pushed) = n
      /\ pushed[n] = Intents(r)[n]
      /\ \A k \in 1 .. n - 1 : pushed[k] = stack[k]
  BY <1>1, AppendProperties
<1>3. Last(pushed) = Intents(r)[n]
  BY <1>2 DEF Last
<1> HIDE DEF pushed
<1>4. \A k \in 1 .. n : pushed[k] = Intents(r)[k]
  BY <1>2
<1> QED  BY <1>2, <1>3, <1>4 DEF pushed

-----------------------------------------------------------------------------
(* Queues of calls.                                                        *)

LEMMA QueueDomain ==
    ASSUME NEW S, NEW q \in Seq(S)
    PROVE  /\ Len(q) \in Nat
           /\ DOMAIN q = 1 .. Len(q)
           /\ \A k \in DOMAIN q : q[k] \in S
  BY ElementOfSeq

\* What becomes of the queue when its first call is answered.
LEMMA Dequeue ==
    ASSUME NEW S, NEW q \in Seq(S), q # <<>>
    PROVE  /\ 1 \in DOMAIN q
           /\ Head(q) = q[1]
           /\ Head(q) \in S
           /\ Tail(q) \in Seq(S)
           /\ \A k \in DOMAIN Tail(q) :
                k + 1 \in DOMAIN q /\ k + 1 # 1 /\ Tail(q)[k] = q[k + 1]
<1>1. Len(q) \in Nat /\ Len(q) # 0 /\ DOMAIN q = 1 .. Len(q)
  BY EmptySeq
<1>2. Tail(q) \in Seq(S) /\ Len(Tail(q)) = Len(q) - 1 /\ Head(q) \in S
      /\ \A i \in 1 .. Len(Tail(q)) : Tail(q)[i] = q[i + 1]
  BY HeadTailProperties
<1>3. DOMAIN Tail(q) = 1 .. Len(q) - 1
  BY <1>2
<1> QED  BY <1>1, <1>2, <1>3

LEMMA Enqueue ==
    ASSUME NEW S, NEW q \in Seq(S), NEW c \in S
    PROVE  /\ Append(q, c) \in Seq(S)
           /\ Append(q, c) # <<>>
           /\ \A k \in DOMAIN Append(q, c) :
                \/ k \in DOMAIN q /\ Append(q, c)[k] = q[k]
                \/ k = Len(q) + 1 /\ k \notin DOMAIN q /\ Append(q, c)[k] = c
           /\ q # <<>> => Head(Append(q, c)) = Head(q)
<1>1. Len(q) \in Nat /\ DOMAIN q = 1 .. Len(q)
  OBVIOUS
<1>2. /\ Append(q, c) \in Seq(S) /\ Append(q, c) # <<>> /\ Len(Append(q, c)) = Len(q) + 1
      /\ \A k \in 1 .. Len(q) : Append(q, c)[k] = q[k]
      /\ Append(q, c)[Len(q) + 1] = c
  BY AppendProperties
<1>3. DOMAIN Append(q, c) = 1 .. Len(q) + 1
  BY <1>2
<1>4. ASSUME q # <<>> PROVE Head(Append(q, c)) = Head(q)
  <2>1. Head(Append(q, c)) = Append(q, c)[1] /\ Head(q) = q[1]
    BY <1>2, <1>4
  <2>2. 1 \in 1 .. Len(q)
    BY <1>1, <1>4, EmptySeq
  <2> QED  BY <1>2, <2>1, <2>2
<1> QED  BY <1>1, <1>2, <1>3, <1>4
=============================================================================
