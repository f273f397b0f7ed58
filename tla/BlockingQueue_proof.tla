------------------------ MODULE BlockingQueue_proof ------------------------
(***************************************************************************)
(* Proofs about BlockingQueue, for every number of producers, consumers    *)
(* and items and every capacity: no wakeup is lost, and the queue's        *)
(* operations are atomic.                                                  *)
(***************************************************************************)
EXTENDS BlockingQueue, Integers, FiniteSetTheorems, TLAPS

-----------------------------------------------------------------------------
(* Who is asleep, and who is inside a call.                                *)

Asleep == notFull \cup notEmpty

\* A thread that waits has not been told the end, is asleep or awake, and, as
\* a producer, still has the item it came with.
WaitInv ==
  /\ Asleep \cap awake = {}
  /\ \A t \in Asleep \cup awake : t \notin gone
  /\ \A p \in Producers : p \in Asleep \cup awake => HasMore(p)

QueueTypes == TypeOK /\ WaitInv

LEMMA SequenceFacts ==
  ASSUME NEW S, NEW s \in Seq(S)
  PROVE  /\ Len(s) \in Nat /\ (s = <<>> <=> Len(s) = 0)
         /\ \A x \in S : Append(s, x) \in Seq(S) /\ Len(Append(s, x)) = Len(s) + 1
         /\ s # <<>> => Tail(s) \in Seq(S) /\ Len(Tail(s)) = Len(s) - 1
OBVIOUS

LEMMA WokenSleeps ==
  ASSUME NEW sleepers, NEW woken \in NotifyOne(sleepers)
  PROVE  /\ woken \subseteq sleepers
         /\ sleepers # {} => \E t \in sleepers : woken = {t}
BY DEF NotifyOne

LEMMA QueueTypesInit == Init => QueueTypes
<1> SUFFICES ASSUME Init PROVE QueueTypes
  OBVIOUS
<1>1. <<>> \in Seq(Producers \X (1 .. Items)) /\ 0 \in 0 .. Items
  BY QueueAssumption
<1> QED
  BY <1>1 DEF Init, QueueTypes, TypeOK, WaitInv, Asleep

LEMMA PushTypes ==
  ASSUME QueueTypes, NEW p \in Producers, Push(p)
  PROVE  /\ ~Full /\ p \notin Asleep \cup gone /\ HasMore(p)
         /\ m_finished => p \in awake
         /\ QueueTypes'
<1> USE DEF QueueTypes, TypeOK, WaitInv, Asleep, HasMore, Threads
<1>1. /\ ~Full /\ p \notin Asleep \cup gone /\ HasMore(p)
      /\ m_finished => p \in awake
  BY QueueAssumption DEF Push, Running, Resuming
<1>2. pushed[p] + 1 \in 1 .. Items
  BY <1>1, QueueAssumption
<1>3. m_queue' \in Seq(Producers \X (1 .. Items))
  BY <1>2, SequenceFacts DEF Push
<1>4. PICK woken \in NotifyOne(notEmpty) :
        notEmpty' = notEmpty \ woken /\ awake' = (awake \ {p}) \cup woken
  BY DEF Push
<1>5. woken \subseteq notEmpty
  BY WokenSleeps
<1>6. /\ pushed' = [pushed EXCEPT ![p] = @ + 1]
      /\ UNCHANGED <<m_finished, notFull, gone>>
  BY DEF Push
<1>7. TypeOK'
  BY <1>2, <1>3, <1>4, <1>5, <1>6, QueueAssumption
<1>8. WaitInv'
  <2>1. p \notin Asleep' \cup awake'
    BY <1>1, <1>4, <1>5, <1>6, QueueAssumption
  <2>2. Asleep' \cap awake' = {} /\ Asleep' \cup awake' \subseteq Asleep \cup awake
    BY <1>4, <1>5, <1>6, QueueAssumption
  <2> QED
    BY <1>6, <2>1, <2>2
<1> QED
  BY <1>1, <1>7, <1>8

LEMMA PopTypes ==
  ASSUME QueueTypes, NEW c \in Consumers, Pop(c)
  PROVE  c \notin gone /\ QueueTypes'
<1> USE DEF QueueTypes, TypeOK, WaitInv, Asleep, HasMore, Threads
<1>1. c \notin gone
  BY DEF Pop, Running, Resuming
<1>2. m_queue' \in Seq(Producers \X (1 .. Items))
  BY SequenceFacts DEF Pop
<1>3. PICK woken \in NotifyOne(notFull) :
        notFull' = notFull \ woken /\ awake' = (awake \ {c}) \cup woken
  BY DEF Pop
<1>4. woken \subseteq notFull
  BY WokenSleeps
<1>5. UNCHANGED <<m_finished, notEmpty, pushed, gone>>
  BY DEF Pop, clients
<1>6. TypeOK'
  BY <1>2, <1>3, <1>4, <1>5
<1>7. Asleep' \cap awake' = {} /\ Asleep' \cup awake' \subseteq Asleep \cup awake
  BY <1>3, <1>4, <1>5, QueueAssumption
<1>8. WaitInv'
  BY <1>5, <1>7
<1> QED
  BY <1>1, <1>6, <1>8

LEMMA OtherTypes ==
  ASSUME QueueTypes, [Next]_queueVars,
         \A p \in Producers : ~Push(p), \A c \in Consumers : ~Pop(c)
  PROVE  QueueTypes'
<1> USE QueueAssumption DEF QueueTypes, TypeOK, WaitInv, Asleep, HasMore, Threads, clients
<1>1. ASSUME NEW p \in Producers, PushRefused(p) PROVE QueueTypes'
  BY <1>1 DEF PushRefused, Running
<1>2. ASSUME NEW p \in Producers, PushWait(p) PROVE QueueTypes'
  BY <1>2 DEF PushWait, Running, Resuming
<1>3. ASSUME NEW c \in Consumers, PopWait(c) PROVE QueueTypes'
  BY <1>3 DEF PopWait, Running, Resuming
<1>4. ASSUME NEW c \in Consumers, PopEnd(c) PROVE QueueTypes'
  BY <1>4 DEF PopEnd, Running, Resuming
<1>5. CASE Finish
  BY <1>5 DEF Finish
<1>6. ASSUME NEW t \in Threads, SpuriousWakeup(t) PROVE QueueTypes'
  BY <1>6 DEF SpuriousWakeup
<1>7. CASE UNCHANGED queueVars
  BY <1>7 DEF queueVars
<1> HIDE DEF QueueTypes
<1> QED
  BY <1>1, <1>2, <1>3, <1>4, <1>5, <1>6, <1>7 DEF Next, Produce, Consume, TryPush, TryPop

LEMMA QueueTypesStep == QueueTypes /\ [Next]_queueVars => QueueTypes'
BY PushTypes, PopTypes, OtherTypes

\* TypeOK: the queue holds items of the producers, only producers wait for
\* room, only consumers wait for items.
THEOREM QueueTypeCorrect == Spec => []TypeOK
<1>1. QueueTypes => TypeOK
  BY DEF QueueTypes
<1> QED
  BY <1>1, QueueTypesInit, QueueTypesStep, PTL DEF Spec

-----------------------------------------------------------------------------
(* Wakeups.                                                                *)

AwakeConsumers == awake \cap Consumers
AwakeProducers == awake \cap Producers

LEMMA AwakeFinite ==
  TypeOK => IsFiniteSet(AwakeConsumers) /\ IsFiniteSet(AwakeProducers)
BY QueueAssumption, FS_Subset DEF AwakeConsumers, AwakeProducers

\* One more, or one less, awake.
LEMMA OneMore ==
  ASSUME NEW S, IsFiniteSet(S), NEW x
  PROVE  /\ Cardinality(S) \in Nat
         /\ IsFiniteSet(S \cup {x}) /\ IsFiniteSet(S \ {x})
         /\ Cardinality(S \cup {x}) \in Nat /\ Cardinality(S \ {x}) \in Nat
         /\ Cardinality(S \cup {x}) >= Cardinality(S)
         /\ Cardinality(S \ {x}) >= Cardinality(S) - 1
         /\ x \notin S => Cardinality(S \cup {x}) = Cardinality(S) + 1
         /\ x \in S => Cardinality(S \ {x}) = Cardinality(S) - 1
<1>1. Cardinality(S) \in Nat /\ IsFiniteSet(S \cup {x}) /\ IsFiniteSet(S \ {x})
  BY FS_CardinalityType, FS_AddElement, FS_RemoveElement
<1>2. Cardinality(S \cup {x}) \in Nat /\ Cardinality(S \ {x}) \in Nat
  BY <1>1, FS_CardinalityType
<1>3. /\ x \notin S => Cardinality(S \cup {x}) = Cardinality(S) + 1
      /\ x \in S => Cardinality(S \ {x}) = Cardinality(S) - 1
  BY FS_AddElement, FS_RemoveElement
<1>4. x \in S => Cardinality(S \cup {x}) = Cardinality(S)
  <2>1. x \in S => S \cup {x} = S
    OBVIOUS
  <2> QED
    BY <2>1
<1>5. x \notin S => Cardinality(S \ {x}) = Cardinality(S)
  <2>1. x \notin S => S \ {x} = S
    OBVIOUS
  <2> QED
    BY <2>1
<1>6. Cardinality(S \cup {x}) \in {Cardinality(S), Cardinality(S) + 1}
      /\ Cardinality(S \ {x}) \in {Cardinality(S), Cardinality(S) - 1}
  BY <1>3, <1>4, <1>5
<1>7. Cardinality(S \cup {x}) >= Cardinality(S) /\ Cardinality(S \ {x}) >= Cardinality(S) - 1
  BY <1>1, <1>6
<1> QED
  BY <1>1, <1>2, <1>3, <1>7

LEMMA MaybeOneMore ==
  ASSUME NEW S, IsFiniteSet(S), NEW x, NEW T, T = S \/ T = S \cup {x}
  PROVE  /\ Cardinality(S) \in Nat /\ Cardinality(T) \in Nat
         /\ Cardinality(T) >= Cardinality(S)
<1>1. Cardinality(S) \in Nat
  BY FS_CardinalityType
<1>2. CASE T = S
  BY <1>1, <1>2
<1>3. CASE T = S \cup {x}
  BY <1>3, OneMore
<1> QED
  BY <1>2, <1>3

LEMMA PushWakes ==
  ASSUME QueueTypes, NoLostWakeup, NEW p \in Producers, Push(p)
  PROVE  NoLostWakeup'
<1> USE QueueAssumption DEF QueueTypes, TypeOK, WaitInv, Asleep
<1> DEFINE n == Len(m_queue)
           nn == Len(m_queue')
<1>1. n \in Nat /\ nn = n + 1
  <2>1. m_queue' = Append(m_queue, <<p, pushed[p] + 1>>)
    BY DEF Push
  <2>2. pushed[p] + 1 \in 1 .. Items
    BY PushTypes DEF HasMore
  <2> QED
    BY <2>1, <2>2, SequenceFacts
<1>2. PICK woken \in NotifyOne(notEmpty) :
        notEmpty' = notEmpty \ woken /\ awake' = (awake \ {p}) \cup woken
  BY DEF Push
<1>3. /\ woken \subseteq notEmpty
      /\ notEmpty # {} => \E t \in notEmpty : woken = {t}
  BY WokenSleeps
<1>4. UNCHANGED <<m_finished, notFull>>
  BY DEF Push
<1>5. AwakeProducers' = AwakeProducers \ {p}
  BY <1>2, <1>3 DEF AwakeProducers
<1>6. IsFiniteSet(AwakeConsumers) /\ IsFiniteSet(AwakeProducers)
  BY AwakeFinite
<1>7. notFull' # {} => MaxSize - nn <= Cardinality(AwakeProducers')
  <2>1. notFull # {} => MaxSize - n <= Cardinality(AwakeProducers)
    BY DEF NoLostWakeup, AwakeProducers
  <2>2. /\ Cardinality(AwakeProducers) \in Nat
        /\ Cardinality(AwakeProducers') >= Cardinality(AwakeProducers) - 1
    BY <1>5, <1>6, OneMore
  <2>3. Cardinality(AwakeProducers') \in Nat
    BY <1>5, <1>6, OneMore
  <2> QED
    BY <1>1, <1>4, <2>1, <2>2, <2>3
<1>8. ASSUME notEmpty' # {} PROVE nn <= Cardinality(AwakeConsumers') /\ ~m_finished'
  <2>1. notEmpty # {} /\ n <= Cardinality(AwakeConsumers) /\ ~m_finished
    BY <1>2, <1>8 DEF NoLostWakeup, AwakeConsumers
  <2>2. PICK t \in notEmpty : woken = {t}
    BY <1>3, <2>1
  <2>3. AwakeConsumers' = AwakeConsumers \cup {t} /\ t \notin AwakeConsumers
    BY <1>2, <2>2 DEF AwakeConsumers
  <2>4. Cardinality(AwakeConsumers') = Cardinality(AwakeConsumers) + 1
        /\ Cardinality(AwakeConsumers) \in Nat
    BY <1>6, <2>3, OneMore
  <2> QED
    BY <1>1, <1>4, <2>1, <2>4
<1> QED
  BY <1>7, <1>8 DEF NoLostWakeup, AwakeConsumers, AwakeProducers

LEMMA PopWakes ==
  ASSUME QueueTypes, NoLostWakeup, NEW c \in Consumers, Pop(c)
  PROVE  NoLostWakeup'
<1> USE QueueAssumption DEF QueueTypes, TypeOK, WaitInv, Asleep
<1> DEFINE n == Len(m_queue)
           nn == Len(m_queue')
<1>1. n \in Nat /\ nn = n - 1
  BY SequenceFacts DEF Pop
<1>2. PICK woken \in NotifyOne(notFull) :
        notFull' = notFull \ woken /\ awake' = (awake \ {c}) \cup woken
  BY DEF Pop
<1>3. /\ woken \subseteq notFull
      /\ notFull # {} => \E t \in notFull : woken = {t}
  BY WokenSleeps
<1>4. UNCHANGED <<m_finished, notEmpty>>
  BY DEF Pop
<1>5. AwakeConsumers' = AwakeConsumers \ {c}
  BY <1>2, <1>3 DEF AwakeConsumers
<1>6. IsFiniteSet(AwakeConsumers) /\ IsFiniteSet(AwakeProducers)
  BY AwakeFinite
<1>7. notEmpty' # {} => nn <= Cardinality(AwakeConsumers') /\ ~m_finished'
  <2>1. notEmpty # {} => n <= Cardinality(AwakeConsumers) /\ ~m_finished
    BY DEF NoLostWakeup, AwakeConsumers
  <2>2. /\ Cardinality(AwakeConsumers) \in Nat
        /\ Cardinality(AwakeConsumers') >= Cardinality(AwakeConsumers) - 1
    BY <1>5, <1>6, OneMore
  <2>3. Cardinality(AwakeConsumers') \in Nat
    BY <1>5, <1>6, OneMore
  <2> QED
    BY <1>1, <1>4, <2>1, <2>2, <2>3
<1>8. ASSUME notFull' # {} PROVE MaxSize - nn <= Cardinality(AwakeProducers')
  <2>1. notFull # {} /\ MaxSize - n <= Cardinality(AwakeProducers)
    BY <1>2, <1>8 DEF NoLostWakeup, AwakeProducers
  <2>2. PICK t \in notFull : woken = {t}
    BY <1>3, <2>1
  <2>3. AwakeProducers' = AwakeProducers \cup {t} /\ t \notin AwakeProducers
    BY <1>2, <2>2 DEF AwakeProducers
  <2>4. Cardinality(AwakeProducers') = Cardinality(AwakeProducers) + 1
        /\ Cardinality(AwakeProducers) \in Nat
    BY <1>6, <2>3, OneMore
  <2> QED
    BY <1>1, <2>1, <2>4
<1> QED
  BY <1>7, <1>8 DEF NoLostWakeup, AwakeConsumers, AwakeProducers

LEMMA OtherWakes ==
  ASSUME QueueTypes, NoLostWakeup, [Next]_queueVars,
         \A p \in Producers : ~Push(p), \A c \in Consumers : ~Pop(c)
  PROVE  NoLostWakeup'
<1> USE QueueAssumption DEF QueueTypes, TypeOK, Threads, clients
<1>1. IsFiniteSet(AwakeConsumers) /\ IsFiniteSet(AwakeProducers)
  BY AwakeFinite
<1>2. Len(m_queue) \in Nat /\ (m_queue = <<>> => Len(m_queue) = 0)
  BY SequenceFacts
<1>3. ASSUME NEW p \in Producers, PushRefused(p) PROVE NoLostWakeup'
  BY <1>3 DEF PushRefused, NoLostWakeup
<1>4. ASSUME NEW p \in Producers, PushWait(p) PROVE NoLostWakeup'
  <2>1. /\ AwakeConsumers' = AwakeConsumers /\ AwakeProducers' = AwakeProducers \ {p}
        /\ UNCHANGED <<m_queue, m_finished, notEmpty>>
    BY <1>4 DEF PushWait, AwakeConsumers, AwakeProducers
  <2>2. MaxSize - Len(m_queue) <= 0
    BY <1>2, <1>4 DEF PushWait, Full
  <2>3. Cardinality(AwakeProducers') \in Nat
    BY <1>1, <2>1, OneMore
  <2>4. MaxSize - Len(m_queue) <= Cardinality(AwakeProducers')
    BY <1>2, <2>2, <2>3
  <2> QED
    BY <2>1, <2>4 DEF NoLostWakeup, AwakeConsumers, AwakeProducers
<1>5. ASSUME NEW c \in Consumers, PopWait(c) PROVE NoLostWakeup'
  <2>1. /\ AwakeConsumers' = AwakeConsumers \ {c} /\ AwakeProducers' = AwakeProducers
        /\ UNCHANGED <<m_queue, m_finished, notFull>> /\ ~m_finished /\ m_queue = <<>>
    BY <1>5 DEF PopWait, CanPop, AwakeConsumers, AwakeProducers
  <2>2. Cardinality(AwakeConsumers') \in Nat
    BY <1>1, <2>1, OneMore
  <2>3. Len(m_queue') <= Cardinality(AwakeConsumers') /\ ~m_finished'
    BY <1>2, <2>1, <2>2
  <2>4. notFull' # {} => MaxSize - Len(m_queue') <= Cardinality(AwakeProducers')
    BY <2>1 DEF NoLostWakeup, AwakeProducers
  <2> QED
    BY <2>3, <2>4 DEF NoLostWakeup, AwakeConsumers, AwakeProducers
<1>6. ASSUME NEW c \in Consumers, PopEnd(c) PROVE NoLostWakeup'
  <2>1. /\ AwakeProducers' = AwakeProducers /\ m_finished /\ notEmpty' = notEmpty
        /\ UNCHANGED <<m_queue, notFull>>
    BY <1>6 DEF PopEnd, AwakeProducers
  <2> QED
    BY <2>1 DEF NoLostWakeup, AwakeProducers
<1>7. CASE Finish
  BY <1>7 DEF Finish, NoLostWakeup
<1>8. ASSUME NEW t \in Threads, SpuriousWakeup(t) PROVE NoLostWakeup'
  <2>1. /\ notFull' \subseteq notFull /\ notEmpty' \subseteq notEmpty
        /\ UNCHANGED <<m_queue, m_finished>>
    BY <1>8 DEF SpuriousWakeup
  <2>2. /\ AwakeConsumers' = AwakeConsumers \/ AwakeConsumers' = AwakeConsumers \cup {t}
        /\ AwakeProducers' = AwakeProducers \/ AwakeProducers' = AwakeProducers \cup {t}
    BY <1>8 DEF SpuriousWakeup, AwakeConsumers, AwakeProducers
  <2>3. /\ Cardinality(AwakeConsumers) \in Nat /\ Cardinality(AwakeProducers) \in Nat
        /\ Cardinality(AwakeConsumers') \in Nat /\ Cardinality(AwakeProducers') \in Nat
        /\ Cardinality(AwakeConsumers') >= Cardinality(AwakeConsumers)
        /\ Cardinality(AwakeProducers') >= Cardinality(AwakeProducers)
    <3>1. /\ Cardinality(AwakeConsumers) \in Nat /\ Cardinality(AwakeConsumers') \in Nat
          /\ Cardinality(AwakeConsumers') >= Cardinality(AwakeConsumers)
      BY <1>1, <2>2, MaybeOneMore
    <3>2. /\ Cardinality(AwakeProducers) \in Nat /\ Cardinality(AwakeProducers') \in Nat
          /\ Cardinality(AwakeProducers') >= Cardinality(AwakeProducers)
      BY <1>1, <2>2, MaybeOneMore
    <3> QED
      BY <3>1, <3>2
  <2>4. notEmpty # {} => Len(m_queue) <= Cardinality(AwakeConsumers) /\ ~m_finished
    BY DEF NoLostWakeup, AwakeConsumers
  <2>5. notFull # {} => MaxSize - Len(m_queue) <= Cardinality(AwakeProducers)
    BY DEF NoLostWakeup, AwakeProducers
  <2>6. notEmpty' # {} => Len(m_queue) <= Cardinality(AwakeConsumers') /\ ~m_finished
    BY <1>2, <2>1, <2>3, <2>4
  <2>7. notFull' # {} => MaxSize - Len(m_queue) <= Cardinality(AwakeProducers')
    BY <1>2, <2>1, <2>3, <2>5
  <2> QED
    BY <2>1, <2>6, <2>7 DEF NoLostWakeup, AwakeConsumers, AwakeProducers
<1>9. CASE UNCHANGED queueVars
  BY <1>9 DEF queueVars, NoLostWakeup
<1> QED
  BY <1>3, <1>4, <1>5, <1>6, <1>7, <1>8, <1>9
     DEF Next, Produce, Consume, TryPush, TryPop

QueueInv == QueueTypes /\ NoLostWakeup

LEMMA QueueInvStep == QueueInv /\ [Next]_queueVars => QueueInv'
BY QueueTypesStep, PushWakes, PopWakes, OtherWakes DEF QueueInv

\* NoLostWakeup: however notifications, spurious wakeups and the end of the
\* queue fall, while a consumer sleeps another one is awake for every item, and
\* while a producer sleeps another one is awake for every free place.
THEOREM WakeupsSuffice == Spec => []NoLostWakeup
<1>1. Init => QueueInv
  BY QueueTypesInit DEF QueueInv, Init, NoLostWakeup
<1>2. QueueInv => NoLostWakeup
  BY DEF QueueInv
<1> QED
  BY <1>1, <1>2, QueueInvStep, PTL DEF Spec

-----------------------------------------------------------------------------
(* The queue is an atomic one.                                             *)

\* The producers that wait when the queue is finished, or did so then.
Late == IF m_finished THEN notFull \cup AwakeProducers ELSE {}

LEMMA QueueStepOrStutter ==
  ASSUME QueueTypes, [Next]_queueVars
  PROVE  [Atomic!Next]_(Atomic!atomicVars)
<1> USE QueueAssumption DEF QueueTypes, TypeOK, WaitInv, Asleep, Late, AwakeProducers,
        Threads, clients, HasMore
<1> DEFINE Goal == [Atomic!Next]_(Atomic!atomicVars)
<1> SUFFICES Goal
  OBVIOUS
<1>1. ASSUME UNCHANGED <<m_queue, m_finished, pushed, gone>>, Late' = Late PROVE Goal
  BY <1>1 DEF Atomic!atomicVars
<1>2. ASSUME NEW p \in Producers, PushRefused(p) PROVE Goal
  <2>1. Atomic!Refuse(p)
    BY <1>2 DEF PushRefused, Running, Atomic!Refuse
  <2> QED
    BY <1>2, <2>1 DEF Atomic!Next, Atomic!Produce
<1>3. ASSUME NEW p \in Producers, PushWait(p) PROVE Goal
  BY <1>1, <1>3 DEF PushWait, Running, Resuming
<1>4. ASSUME NEW p \in Producers, Push(p) PROVE Goal
  <2>1. /\ ~Full /\ p \notin notFull \cup gone /\ pushed[p] < Items
        /\ m_finished => p \in awake
    BY <1>4, PushTypes
  <2>2. PICK woken \in NotifyOne(notEmpty) :
          notEmpty' = notEmpty \ woken /\ awake' = (awake \ {p}) \cup woken
    BY <1>4 DEF Push
  <2>3. woken \subseteq notEmpty
    BY WokenSleeps
  <2>4. UNCHANGED <<m_finished, notFull, gone>>
    BY <1>4 DEF Push
  <2>5. Late' = Late \ {p}
    BY <2>1, <2>2, <2>3, <2>4
  <2>6. Len(m_queue) < MaxSize
    BY <2>1, SequenceFacts DEF Full
  <2>7. Atomic!Push(p)
    BY <1>4, <2>1, <2>4, <2>5, <2>6 DEF Push, Atomic!Push
  <2> QED
    BY <1>4, <2>7 DEF Atomic!Next, Atomic!Produce
<1>5. ASSUME NEW c \in Consumers, PopWait(c) PROVE Goal
  BY <1>1, <1>5 DEF PopWait, CanPop
<1>6. ASSUME NEW c \in Consumers, PopEnd(c) PROVE Goal
  <2>1. Atomic!End(c)
    BY <1>6 DEF PopEnd, Running, Resuming, Atomic!End
  <2> QED
    BY <1>6, <2>1 DEF Atomic!Next, Atomic!Consume
<1>7. ASSUME NEW c \in Consumers, Pop(c) PROVE Goal
  <2>1. PICK woken \in NotifyOne(notFull) :
          notFull' = notFull \ woken /\ awake' = (awake \ {c}) \cup woken
    BY <1>7 DEF Pop
  <2>2. woken \subseteq notFull
    BY WokenSleeps
  <2>3. m_finished' = m_finished /\ Late' = Late
    <3>1. AwakeProducers' = AwakeProducers \cup woken
      BY <2>1, <2>2
    <3>2. notFull' \cup AwakeProducers' = notFull \cup AwakeProducers
      BY <2>1, <2>2, <3>1
    <3> QED
      BY <1>7, <3>2 DEF Pop
  <2>4. Atomic!Pop(c)
    BY <1>7, <2>3, PopTypes DEF Pop, Atomic!Pop
  <2> QED
    BY <1>7, <2>4 DEF Atomic!Next, Atomic!Consume
<1>8. CASE Finish
  <2>1. Late' \in SUBSET {p \in Producers \ gone : pushed[p] < Items}
    BY <1>8 DEF Finish
  <2>2. Atomic!Finish
    BY <1>8, <2>1 DEF Finish, Atomic!Finish
  <2> QED
    BY <2>2 DEF Atomic!Next
<1>9. ASSUME NEW t \in Threads, SpuriousWakeup(t) PROVE Goal
  <2>1. /\ UNCHANGED <<m_queue, m_finished, pushed, gone>>
        /\ notFull' = notFull \ {t} /\ awake' = awake \cup {t}
        /\ t \in notFull \cup notEmpty
    BY <1>9 DEF SpuriousWakeup
  <2>2. notFull' \cup AwakeProducers' = notFull \cup AwakeProducers
    <3>1. CASE t \in notFull
      BY <2>1, <3>1
    <3>2. CASE t \in notEmpty
      BY <2>1, <3>2
    <3> QED
      BY <2>1, <3>1, <3>2
  <2>3. Late' = Late
    BY <2>1, <2>2
  <2> QED
    BY <1>1, <2>1, <2>3
<1>10. CASE UNCHANGED queueVars
  BY <1>1, <1>10 DEF queueVars
<1> HIDE DEF Goal
<1> QED
  BY <1>2, <1>3, <1>4, <1>5, <1>6, <1>7, <1>8, <1>9, <1>10
     DEF Next, Produce, Consume, TryPush, TryPop

\* The safety part of AtomicFairSpec: with its mutex, its condition variables
\* and the pushes that survive Finish, BlockingQueue implements the queue with
\* atomic operations that the session's model uses.
THEOREM QueueIsAtomic == Spec => Atomic!Spec
<1>1. Init => Atomic!Init
  BY DEF Init, Atomic!Init
<1>2. QueueTypes /\ [Next]_queueVars => [Atomic!Next]_(Atomic!atomicVars)
  BY QueueStepOrStutter
<1> QED
  BY <1>1, <1>2, QueueTypesInit, QueueTypesStep, PTL DEF Spec, Atomic!Spec
=============================================================================
