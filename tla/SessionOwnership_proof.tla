----------------------- MODULE SessionOwnership_proof -----------------------
(***************************************************************************)
(* Proofs about who holds which block and which buffer of a session, for   *)
(* every size and configuration: a block is at one place at a time, on its *)
(* way from the reader to the writer, and what is marked as processed is   *)
(* not taken up again.                                                     *)
(***************************************************************************)
EXTENDS SessionPipeline_proof

USE DEF Tasks, Queues, TaskStatus, ReaderPcs, WorkerPcs, WriterPcs,
        CounterNames, NoPtr

-----------------------------------------------------------------------------
(* Where the reader and the writer start.                                  *)

StartOrder ==
  /\ status["writer"] = "INIT" => writerPc = "idle"
  /\ readerPc \in {"idle", "start"} => m_currentIndex = 0

LEMMA StartOrderStep ==
  TypeOK /\ FinishInv /\ StartOrder /\ [Next]_vars => StartOrder'
<1> SUFFICES ASSUME TypeOK, FinishInv, StartOrder, [Next]_vars
             PROVE  StartOrder'
  OBVIOUS
<1>0. \A t \in Tasks : status'[t] = "INIT" => status[t] = "INIT"
  BY StatusStays
<1> USE <1>0 DEF StartOrder, TypeOK, ControlTypeOK, readerVars, writerVars,
        SetStatus
<1>1. CASE Start
  BY <1>1 DEF Start, StartReader, StartHasher, StartWriter, FinishInv, ReaderOrder
<1>2. CASE (\E t \in Tasks : Abort(t)) \/ SetPause(~m_pause) \/ UNCHANGED vars
  <2>1. UNCHANGED <<readerPc, m_currentIndex, writerPc>>
    BY <1>2 DEF Abort, SetPause, vars
  <2> QED
    BY <2>1
<1>3. CASE Reader
  BY <1>3 DEF Reader, ReaderStart, ReaderLeave, ReaderNext, ReaderAlloc,
     ReaderAllocTimeout, ReaderRead, ReaderReadFail, ReaderPush, ReaderCount,
     ReaderFinish
<1>4. ASSUME NEW v \in Workers, Worker(v) PROVE StartOrder'
  BY <1>4 DEF Worker, WorkerStart, WorkerCheck, WorkerPop, WorkerDrained,
     WorkerHash, WorkerDrop, WorkerMark, WorkerForward, WorkerExit, WorkerLast
<1>5. CASE Writer
  BY <1>5 DEF Writer, WriterCheck, WriterPop, WriterDrained, WriterDiscard,
     WriterWrite, WriterWriteFail, WriterMark, WriterStore, WriterVerdict
<1> HIDE DEF StartOrder, TypeOK
<1> QED
  BY <1>1, <1>2, <1>3, <1>4, <1>5 DEF Next, Threads

-----------------------------------------------------------------------------
(* How a step moves the blocks in flight.                                  *)

\* Every block in flight after a step was in flight before it, at a place of
\* its own.  What the writer held it still holds.
Carried ==
  \E f \in [InFlight' -> InFlight] :
    /\ \A x, y \in InFlight' : f[x] = f[y] => x = y
    /\ \A x \in InFlight' : /\ f[x][3] = x[3]
                            /\ f[x][1] = "writer" => f[x] = x

\* A block leaves when a worker drops it or the writer puts it away.
Leaves(x) ==
  \/ \E w \in Workers : WorkerDrop(w) /\ x = <<"worker", w, workerBlock[w]>>
  \/ (WriterStore \/ WriterDiscard) /\ x = <<"writer", 0, writerBlock>>

Kept == \A x \in InFlight : Leaves(x) \/ \E y \in InFlight' : y[3] = x[3]

\* The block that ReaderRead puts in flight.
ReadBlock == <<"reader", 0, [index |-> m_currentIndex, ptr |-> readerPtr]>>

LEMMA Triples == \A x \in InFlight : x = <<x[1], x[2], x[3]>>
BY DEF InFlight

LEMMA TriplesAfter == \A x \in InFlight' : x = <<x[1], x[2], x[3]>>
BY DEF InFlight

\* A step that leaves every holder of a block alone.
SameHolders ==
  /\ UNCHANGED <<hashingQueue, writeQueue>>
  /\ \A w \in Workers : /\ WorkerHolds(w)' = WorkerHolds(w)
                        /\ WorkerHolds(w) => workerBlock'[w] = workerBlock[w]
  /\ WriterHolds' = WriterHolds
  /\ WriterHolds => writerBlock' = writerBlock
  /\ readerPc' = "push" <=> readerPc = "push"
  /\ readerPc = "push" => UNCHANGED <<m_currentIndex, readerPtr>>

LEMMA SameHoldersCarry == SameHolders => InFlight' = InFlight
BY DEF SameHolders, InFlight

\* A step after which no other block is in flight carries them.
LEMMA SubsetCarries == InFlight' \subseteq InFlight => Carried
<1> SUFFICES ASSUME InFlight' \subseteq InFlight PROVE Carried
  OBVIOUS
<1> DEFINE f == [x \in InFlight' |-> x]
<1>1. f \in [InFlight' -> InFlight]
  OBVIOUS
<1> QED
  BY <1>1 DEF Carried

LEMMA SameCarries == InFlight' = InFlight => Carried /\ Kept
BY SubsetCarries DEF Kept

\* The indices of a queue's items.
LEMMA QueueDomain ==
  ASSUME NEW q \in Seq(ConsumeBlock)
  PROVE  /\ DOMAIN q = 1 .. Len(q) /\ Len(q) \in Nat
         /\ \A i \in DOMAIN q : q[i] \in ConsumeBlock
         /\ \A i \in DOMAIN q : i \in Nat /\ i >= 1
         /\ q # <<>> => /\ 1 \in DOMAIN q /\ q[1] = Head(q)
                        /\ \A i \in DOMAIN Tail(q) :
                             i + 1 \in DOMAIN q /\ Tail(q)[i] = q[i + 1]
                        /\ \A i \in DOMAIN q : i # 1 =>
                             i - 1 \in DOMAIN Tail(q) /\ Tail(q)[i - 1] = q[i]
         /\ \A block \in ConsumeBlock :
              /\ DOMAIN Append(q, block) = DOMAIN q \cup {Len(q) + 1}
              /\ Len(q) + 1 \notin DOMAIN q
              /\ Append(q, block)[Len(q) + 1] = block
              /\ \A i \in DOMAIN q : Append(q, block)[i] = q[i]
<1>1. DOMAIN q = 1 .. Len(q) /\ Len(q) \in Nat /\ \A i \in DOMAIN q : q[i] \in ConsumeBlock
  BY LenProperties, ElementOfSeq
<1>2. ASSUME q # <<>>
      PROVE  /\ 1 \in DOMAIN q /\ q[1] = Head(q)
             /\ DOMAIN Tail(q) = 1 .. Len(q) - 1
             /\ \A i \in 1 .. Len(q) - 1 : Tail(q)[i] = q[i + 1]
  BY <1>1, <1>2, HeadTailProperties, EmptySeq, LenProperties
<1>3. \A block \in ConsumeBlock :
        /\ DOMAIN Append(q, block) = 1 .. Len(q) + 1
        /\ Append(q, block)[Len(q) + 1] = block
        /\ \A i \in 1 .. Len(q) : Append(q, block)[i] = q[i]
  BY <1>1, AppendProperties, LenProperties
<1> QED
  BY <1>1, <1>2, <1>3

LEMMA WorkerPopCarries ==
  ASSUME TypeOK, NEW w \in Workers, WorkerPop(w)
  PROVE  Carried /\ Kept
<1> DEFINE was(x) ==
      IF x[1] = "hashing" THEN <<"hashing", x[2] + 1, x[3]>>
      ELSE IF x[1] = "worker" /\ x[2] = w THEN <<"hashing", 1, x[3]>>
      ELSE x
    f == [x \in InFlight' |-> was(x)]
<1> USE DEF WorkerPop, Goto, TypeOK, QueuesTypeOK, WorkerTypeOK, readerVars,
        writerVars, queues
<1>1. ASSUME NEW x \in InFlight'
      PROVE  /\ was(x) \in InFlight /\ was(x)[3] = x[3]
             /\ was(x)[1] = "writer" => was(x) = x
  <2>1. CASE \E i \in DOMAIN hashingQueue' : x = <<"hashing", i, hashingQueue'[i]>>
    <3>1. PICK i \in DOMAIN hashingQueue' : x = <<"hashing", i, hashingQueue'[i]>>
      BY <2>1
    <3>2. i + 1 \in DOMAIN hashingQueue /\ hashingQueue'[i] = hashingQueue[i + 1]
      BY <3>1, QueueDomain
    <3> QED
      BY <3>1, <3>2 DEF InFlight
  <2>2. CASE x = <<"worker", w, Head(hashingQueue)>>
    <3>1. 1 \in DOMAIN hashingQueue /\ hashingQueue[1] = Head(hashingQueue)
      BY QueueDomain
    <3> QED
      BY <2>2, <3>1 DEF InFlight
  <2>3. CASE x \in InFlight /\ x[1] # "hashing" /\ ~(x[1] = "worker" /\ x[2] = w)
    BY <2>3
  <2> QED
    BY <2>1, <2>2, <2>3 DEF InFlight, WorkerHolds, WriterHolds
<1>2. ASSUME NEW x \in InFlight', NEW y \in InFlight', was(x) = was(y)
      PROVE  x = y
  <2>1. \A i \in DOMAIN hashingQueue' : i \in Nat /\ i >= 1
    BY QueueDomain, QueueTypes
  <2>2. \A z \in InFlight' : z[1] = "hashing" => z[2] \in Nat /\ z[2] >= 1
    BY <2>1 DEF InFlight
  <2>3. x = <<x[1], x[2], x[3]>> /\ y = <<y[1], y[2], y[3]>>
    BY TriplesAfter
  <2> HIDE DEF WorkerPop, TypeOK
  <2> QED
    BY <1>2, <2>2, <2>3
<1>3. Carried
  <2>1. f \in [InFlight' -> InFlight]
    BY <1>1
  <2>2. \A x, y \in InFlight' : f[x] = f[y] => x = y
    BY <1>2
  <2>3. \A x \in InFlight' : f[x][3] = x[3] /\ (f[x][1] = "writer" => f[x] = x)
    BY <1>1
  <2> QED
    BY <2>1, <2>2, <2>3 DEF Carried
<1>4. ASSUME NEW x \in InFlight PROVE \E y \in InFlight' : y[3] = x[3]
  <2>1. CASE \E i \in DOMAIN hashingQueue : x = <<"hashing", i, hashingQueue[i]>>
    <3>1. PICK i \in DOMAIN hashingQueue : x = <<"hashing", i, hashingQueue[i]>>
      BY <2>1
    <3>2. CASE i = 1
      <4>1. <<"worker", w, x[3]>> \in InFlight'
        BY <3>1, <3>2, QueueDomain DEF InFlight, WorkerHolds
      <4> QED
        BY <4>1
    <3>3. CASE i # 1
      <4>1. <<"hashing", i - 1, x[3]>> \in InFlight'
        BY <3>1, <3>3, QueueDomain DEF InFlight
      <4> QED
        BY <4>1
    <3> QED
      BY <3>2, <3>3
  <2>2. CASE x \in InFlight'
    BY <2>2
  <2> QED
    BY <2>1, <2>2 DEF InFlight, WorkerHolds, WriterHolds
<1> QED
  BY <1>3, <1>4 DEF Kept

LEMMA WriterPopCarries == TypeOK /\ WriterPop => Carried /\ Kept
<1> SUFFICES ASSUME TypeOK, WriterPop PROVE Carried /\ Kept
  OBVIOUS
<1> DEFINE was(x) ==
      IF x[1] = "write" THEN <<"write", x[2] + 1, x[3]>>
      ELSE IF x[1] = "writer" THEN <<"write", 1, x[3]>>
      ELSE x
    f == [x \in InFlight' |-> was(x)]
<1> USE DEF WriterPop, TypeOK, QueuesTypeOK, WriterTypeOK, readerVars,
        workerVars, queues
<1>1. ASSUME NEW x \in InFlight'
      PROVE  /\ was(x) \in InFlight /\ was(x)[3] = x[3]
             /\ was(x)[1] # "writer"
  <2>1. CASE \E i \in DOMAIN writeQueue' : x = <<"write", i, writeQueue'[i]>>
    <3>1. PICK i \in DOMAIN writeQueue' : x = <<"write", i, writeQueue'[i]>>
      BY <2>1
    <3>2. i + 1 \in DOMAIN writeQueue /\ writeQueue'[i] = writeQueue[i + 1]
      BY <3>1, QueueDomain
    <3> QED
      BY <3>1, <3>2 DEF InFlight
  <2>2. CASE x = <<"writer", 0, Head(writeQueue)>>
    <3>1. 1 \in DOMAIN writeQueue /\ writeQueue[1] = Head(writeQueue)
      BY QueueDomain
    <3> QED
      BY <2>2, <3>1 DEF InFlight
  <2>3. CASE x \in InFlight /\ x[1] \notin {"write", "writer"}
    BY <2>3
  <2> QED
    BY <2>1, <2>2, <2>3 DEF InFlight, WorkerHolds, WriterHolds
<1>2. ASSUME NEW x \in InFlight', NEW y \in InFlight', was(x) = was(y)
      PROVE  x = y
  <2>1. \A i \in DOMAIN writeQueue' : i \in Nat /\ i >= 1
    BY QueueDomain, QueueTypes
  <2>2. \A z \in InFlight' : /\ z[1] = "write" => z[2] \in Nat /\ z[2] >= 1
                             /\ z[1] = "writer" => z[2] = 0
    BY <2>1 DEF InFlight
  <2>3. x = <<x[1], x[2], x[3]>> /\ y = <<y[1], y[2], y[3]>>
    BY TriplesAfter
  <2> HIDE DEF WriterPop, TypeOK
  <2> QED
    BY <1>2, <2>2, <2>3
<1>3. Carried
  <2>1. f \in [InFlight' -> InFlight]
    BY <1>1
  <2>2. \A x, y \in InFlight' : f[x] = f[y] => x = y
    BY <1>2
  <2>3. \A x \in InFlight' : f[x][3] = x[3] /\ (f[x][1] = "writer" => f[x] = x)
    BY <1>1
  <2> QED
    BY <2>1, <2>2, <2>3 DEF Carried
<1>4. ASSUME NEW x \in InFlight PROVE \E y \in InFlight' : y[3] = x[3]
  <2>1. CASE \E i \in DOMAIN writeQueue : x = <<"write", i, writeQueue[i]>>
    <3>1. PICK i \in DOMAIN writeQueue : x = <<"write", i, writeQueue[i]>>
      BY <2>1
    <3>2. CASE i = 1
      <4>1. <<"writer", 0, x[3]>> \in InFlight'
        BY <3>1, <3>2, QueueDomain DEF InFlight, WriterHolds
      <4> QED
        BY <4>1
    <3>3. CASE i # 1
      <4>1. <<"write", i - 1, x[3]>> \in InFlight'
        BY <3>1, <3>3, QueueDomain DEF InFlight
      <4> QED
        BY <4>1
    <3> QED
      BY <3>2, <3>3
  <2>2. CASE x \in InFlight'
    BY <2>2
  <2> QED
    BY <2>1, <2>2 DEF InFlight, WorkerHolds, WriterHolds
<1> QED
  BY <1>3, <1>4 DEF Kept

\* What is pushed ends up as the last item: NoPushAfterFinish.
LEMMA WorkerForwardCarries ==
  ASSUME TypeOK, FinishInv, NEW w \in Workers, WorkerForward(w)
  PROVE  Carried /\ Kept
<1> DEFINE n == Len(writeQueue) + 1
    was(x) == IF x[1] = "write" /\ x[2] = n THEN <<"worker", w, x[3]>> ELSE x
    f == [x \in InFlight' |-> was(x)]
<1> USE DEF WorkerForward, Goto, TypeOK, QueuesTypeOK, WorkerTypeOK,
        readerVars, writerVars, queues
<1>1. writeQueue' = Append(writeQueue, workerBlock[w])
  BY DEF FinishInv, WriteFinished, WorkersTogether, Pushed
<1>2. workerBlock[w] \in ConsumeBlock
  OBVIOUS
<1>3. /\ DOMAIN writeQueue' = DOMAIN writeQueue \cup {n}
      /\ n \notin DOMAIN writeQueue
      /\ writeQueue'[n] = workerBlock[w]
      /\ \A i \in DOMAIN writeQueue : writeQueue'[i] = writeQueue[i]
  <2>1. /\ DOMAIN Append(writeQueue, workerBlock[w]) = DOMAIN writeQueue \cup {n}
        /\ n \notin DOMAIN writeQueue
        /\ Append(writeQueue, workerBlock[w])[n] = workerBlock[w]
        /\ \A i \in DOMAIN writeQueue :
             Append(writeQueue, workerBlock[w])[i] = writeQueue[i]
    BY <1>2, QueueDomain
  <2> HIDE DEF WorkerForward, TypeOK
  <2> QED
    BY <1>1, <2>1
<1> HIDE DEF n
<1>4. ASSUME NEW x \in InFlight'
      PROVE  /\ was(x) \in InFlight /\ was(x)[3] = x[3]
             /\ was(x)[1] = "writer" => was(x) = x
  BY <1>3 DEF InFlight, WorkerHolds, WriterHolds
<1>5. ASSUME NEW x \in InFlight', NEW y \in InFlight', was(x) = was(y)
      PROVE  x = y
  <2>1. \A z \in InFlight' : ~(z[1] = "worker" /\ z[2] = w)
    BY DEF InFlight, WorkerHolds
  <2>2. x = <<x[1], x[2], x[3]>> /\ y = <<y[1], y[2], y[3]>>
    BY TriplesAfter
  <2> HIDE DEF WorkerForward, TypeOK
  <2> QED
    BY <1>5, <2>1, <2>2
<1>6. Carried
  <2>1. f \in [InFlight' -> InFlight]
    BY <1>4
  <2>2. \A x, y \in InFlight' : f[x] = f[y] => x = y
    BY <1>5
  <2>3. \A x \in InFlight' : f[x][3] = x[3] /\ (f[x][1] = "writer" => f[x] = x)
    BY <1>4
  <2> QED
    BY <2>1, <2>2, <2>3 DEF Carried
<1>7. ASSUME NEW x \in InFlight PROVE \E y \in InFlight' : y[3] = x[3]
  <2>1. CASE x = <<"worker", w, workerBlock[w]>>
    <3>1. <<"write", n, x[3]>> \in InFlight'
      BY <1>3, <2>1 DEF InFlight
    <3> QED
      BY <3>1
  <2>2. CASE x \in InFlight'
    BY <2>2
  <2> QED
    BY <1>3, <2>1, <2>2 DEF InFlight, WorkerHolds, WriterHolds
<1> QED
  BY <1>6, <1>7 DEF Kept

LEMMA ReaderPushCarries ==
  TypeOK /\ FinishInv /\ ReaderPush => Carried /\ Kept
<1> SUFFICES ASSUME TypeOK, FinishInv, ReaderPush PROVE Carried /\ Kept
  OBVIOUS
<1> DEFINE block == [index |-> m_currentIndex, ptr |-> readerPtr]
    q == IF HasherEnabled THEN hashingQueue ELSE writeQueue
    tag == IF HasherEnabled THEN "hashing" ELSE "write"
    n == Len(q) + 1
    was(x) == IF x[1] = tag /\ x[2] = n THEN <<"reader", 0, x[3]>> ELSE x
    f == [x \in InFlight' |-> was(x)]
<1> USE DEF ReaderPush, ReaderQueue, TypeOK, QueuesTypeOK, ReaderTypeOK,
        workerVars, writerVars
<1>1. block \in ConsumeBlock
  BY DEF ConsumeBlock
<1>2. /\ q \in Seq(ConsumeBlock)
      /\ HasherEnabled => /\ hashingQueue' = Append(q, block)
                          /\ UNCHANGED writeQueue
      /\ ~HasherEnabled => /\ writeQueue' = Append(q, block)
                           /\ UNCHANGED hashingQueue
  BY DEF FinishInv, ReaderOrder, Pushed
<1>3. /\ DOMAIN Append(q, block) = DOMAIN q \cup {n}
      /\ n \notin DOMAIN q
      /\ Append(q, block)[n] = block
      /\ \A i \in DOMAIN q : Append(q, block)[i] = q[i]
  BY <1>1, <1>2, QueueDomain
<1>4. /\ HasherEnabled =>
           /\ q = hashingQueue /\ tag = "hashing"
           /\ DOMAIN hashingQueue' = DOMAIN hashingQueue \cup {n}
           /\ n \notin DOMAIN hashingQueue
           /\ hashingQueue'[n] = block /\ UNCHANGED writeQueue
           /\ \A i \in DOMAIN hashingQueue : hashingQueue'[i] = hashingQueue[i]
      /\ ~HasherEnabled =>
           /\ q = writeQueue /\ tag = "write"
           /\ DOMAIN writeQueue' = DOMAIN writeQueue \cup {n}
           /\ n \notin DOMAIN writeQueue
           /\ writeQueue'[n] = block /\ UNCHANGED hashingQueue
           /\ \A i \in DOMAIN writeQueue : writeQueue'[i] = writeQueue[i]
  BY <1>2, <1>3
<1>5. UNCHANGED <<workerPc, workerBlock, writerPc, writerBlock>> /\ readerPc' = "count"
  OBVIOUS
<1> HIDE DEF n, q, tag
<1>6. ASSUME NEW x \in InFlight'
      PROVE  /\ was(x) \in InFlight /\ was(x)[3] = x[3]
             /\ was(x)[1] = "writer" => was(x) = x
  <2>1. CASE HasherEnabled
    BY <1>4, <1>5, <2>1 DEF InFlight, WorkerHolds, WriterHolds
  <2>2. CASE ~HasherEnabled
    BY <1>4, <1>5, <2>2 DEF InFlight, WorkerHolds, WriterHolds
  <2> QED
    BY <2>1, <2>2
<1>7. ASSUME NEW x \in InFlight', NEW y \in InFlight', was(x) = was(y)
      PROVE  x = y
  <2>1. \A z \in InFlight' : z[1] # "reader"
    BY <1>5 DEF InFlight
  <2>2. x = <<x[1], x[2], x[3]>> /\ y = <<y[1], y[2], y[3]>>
    BY TriplesAfter
  <2> HIDE DEF ReaderPush, TypeOK
  <2> QED
    BY <1>7, <2>1, <2>2
<1>8. Carried
  <2>1. f \in [InFlight' -> InFlight]
    BY <1>6
  <2>2. \A x, y \in InFlight' : f[x] = f[y] => x = y
    BY <1>7
  <2>3. \A x \in InFlight' : f[x][3] = x[3] /\ (f[x][1] = "writer" => f[x] = x)
    BY <1>6
  <2> QED
    BY <2>1, <2>2, <2>3 DEF Carried
<1>9. ASSUME NEW x \in InFlight PROVE \E y \in InFlight' : y[3] = x[3]
  <2>1. CASE x = <<"reader", 0, block>>
    <3>1. <<tag, n, x[3]>> \in InFlight'
      BY <1>4, <2>1 DEF InFlight
    <3> QED
      BY <3>1
  <2>2. CASE x # <<"reader", 0, block>>
    <3>1. x \in InFlight'
      <4>1. CASE HasherEnabled
        BY <1>4, <1>5, <2>2, <4>1 DEF InFlight, WorkerHolds, WriterHolds
      <4>2. CASE ~HasherEnabled
        BY <1>4, <1>5, <2>2, <4>2 DEF InFlight, WorkerHolds, WriterHolds
      <4> QED
        BY <4>1, <4>2
    <3> QED
      BY <3>1
  <2> QED
    BY <2>1, <2>2
<1> QED
  BY <1>8, <1>9 DEF Kept

\* The worker's drop, the writer's store and discard.
LEMMA LeavingCarries ==
  ASSUME TypeOK,
         \/ WriterStore \/ WriterDiscard
         \/ \E w \in Workers : WorkerDrop(w)
  PROVE  Carried /\ Kept
<1> USE DEF TypeOK, WorkerTypeOK, WriterTypeOK, queues, readerVars, workerVars,
        writerVars
<1>1. CASE WriterStore \/ WriterDiscard
  <2>1. InFlight' \subseteq InFlight
    BY <1>1 DEF WriterStore, WriterDiscard, InFlight, WorkerHolds, WriterHolds
  <2>2. ASSUME NEW x \in InFlight PROVE Leaves(x) \/ x \in InFlight'
    BY <1>1 DEF WriterStore, WriterDiscard, InFlight, WorkerHolds, WriterHolds,
       Leaves
  <2> QED
    BY <2>1, <2>2, SubsetCarries DEF Kept
<1>2. ASSUME NEW w \in Workers, WorkerDrop(w) PROVE Carried /\ Kept
  <2>1. InFlight' \subseteq InFlight
    BY <1>2 DEF WorkerDrop, Goto, InFlight, WorkerHolds, WriterHolds
  <2>2. ASSUME NEW x \in InFlight PROVE Leaves(x) \/ x \in InFlight'
    <3>1. CASE x = <<"worker", w, workerBlock[w]>>
      BY <1>2, <3>1 DEF Leaves
    <3>2. CASE x # <<"worker", w, workerBlock[w]>>
      BY <1>2, <3>2 DEF WorkerDrop, Goto, InFlight, WorkerHolds, WriterHolds
    <3> QED
      BY <3>1, <3>2
  <2> QED
    BY <2>1, <2>2, SubsetCarries DEF Kept
<1> QED
  BY <1>1, <1>2

LEMMA ReaderReadAdds == ReaderRead => InFlight' = InFlight \cup {ReadBlock}
BY DEF ReaderRead, InFlight, WorkerHolds, WriterHolds, ReadBlock, queues,
       workerVars, writerVars

\* The steps that move no block.
LEMMA OtherStepsHold ==
  ASSUME TypeOK, FinishInv, StartOrder, [Next]_vars, ~ReaderRead, ~ReaderPush,
         ~WriterPop, ~WriterStore, ~WriterDiscard,
         \A w \in Workers : ~WorkerPop(w) /\ ~WorkerDrop(w) /\ ~WorkerForward(w)
  PROVE  SameHolders
<1> USE DEF SameHolders, WorkerHolds, WriterHolds, queues, readerVars,
        workerVars, writerVars, TypeOK, WorkerTypeOK, Goto
<1>1. CASE Start
  <2>1. CASE StartReader \/ StartHasher
    BY <2>1 DEF StartReader, StartHasher, FinishInv, WorkersTogether,
       ReaderOrder, StartOrder
  <2>2. CASE StartWriter
    BY <2>2 DEF StartWriter, StartOrder
  <2> QED
    BY <1>1, <2>1, <2>2 DEF Start
<1>2. CASE (\E t \in Tasks : Abort(t)) \/ SetPause(~m_pause) \/ UNCHANGED vars
  BY <1>2 DEF Abort, SetPause, vars
<1>3. CASE Reader
  BY <1>3 DEF Reader, ReaderStart, ReaderLeave, ReaderNext, ReaderAlloc,
     ReaderAllocTimeout, ReaderReadFail, ReaderCount, ReaderFinish
<1>4. ASSUME NEW v \in Workers, Worker(v) PROVE SameHolders
  BY <1>4 DEF Worker, WorkerStart, WorkerCheck, WorkerDrained, WorkerHash,
     WorkerMark, WorkerExit, WorkerLast
<1>5. CASE Writer
  BY <1>5 DEF Writer, WriterCheck, WriterDrained, WriterWrite, WriterWriteFail,
     WriterMark, WriterVerdict
<1> QED
  <2> HIDE DEF SameHolders, WorkerHolds, WriterHolds, TypeOK, WorkerTypeOK
  <2> QED
    BY <1>1, <1>2, <1>3, <1>4, <1>5 DEF Next, Threads

\* Only ReaderRead puts a block in flight, only Leaves takes one out.
LEMMA BlocksMove ==
  ASSUME TypeOK, FinishInv, StartOrder, [Next]_vars
  PROVE  Kept /\ (Carried \/ ReaderRead)
<1>1. CASE ReaderRead
  BY <1>1, ReaderReadAdds DEF Kept
<1>2. CASE ReaderPush \/ WriterPop
  BY <1>2, ReaderPushCarries, WriterPopCarries
<1>3. CASE \E w \in Workers : WorkerPop(w) \/ WorkerForward(w)
  BY <1>3, WorkerPopCarries, WorkerForwardCarries
<1>4. CASE WriterStore \/ WriterDiscard \/ \E w \in Workers : WorkerDrop(w)
  BY <1>4, LeavingCarries
<1>5. CASE SameHolders
  BY <1>5, SameHoldersCarry, SameCarries
<1> QED
  BY <1>1, <1>2, <1>3, <1>4, <1>5, OtherStepsHold

-----------------------------------------------------------------------------
(* One place for each block.                                               *)

\* The first block that the reader has not put in flight or skipped.
Frontier ==
  IF readerPc \in {"push", "count"} THEN m_currentIndex + 1 ELSE m_currentIndex

OnePlace ==
  /\ \A x, y \in InFlight : x[3].index = y[3].index => x = y
  /\ \A x \in InFlight : x[3].index < Frontier

OwnInv == TypeOK /\ FinishInv /\ StartOrder /\ OnePlace

LEMMA FlightType == TypeOK => \A x \in InFlight : x[3] \in ConsumeBlock
<1> SUFFICES ASSUME TypeOK, NEW x \in InFlight PROVE x[3] \in ConsumeBlock
  OBVIOUS
<1>1. CASE \E i \in DOMAIN hashingQueue : x = <<"hashing", i, hashingQueue[i]>>
  BY <1>1, QueueDomain DEF TypeOK, QueuesTypeOK
<1>2. CASE \E i \in DOMAIN writeQueue : x = <<"write", i, writeQueue[i]>>
  BY <1>2, QueueDomain DEF TypeOK, QueuesTypeOK
<1>3. CASE \E w \in Workers : WorkerHolds(w) /\ x = <<"worker", w, workerBlock[w]>>
  BY <1>3 DEF TypeOK, WorkerTypeOK, WorkerHolds
<1>4. CASE WriterHolds /\ x = <<"writer", 0, writerBlock>>
  BY <1>4 DEF TypeOK, WriterTypeOK, WriterHolds
<1>5. CASE readerPc = "push" /\ x = <<"reader", 0, [index |-> m_currentIndex, ptr |-> readerPtr]>>
  BY <1>5 DEF TypeOK, ReaderTypeOK, ConsumeBlock
<1> QED
  BY <1>1, <1>2, <1>3, <1>4, <1>5 DEF InFlight

\* Where the reader stands: it only goes forward.
LEMMA FrontierStep ==
  TypeOK /\ FinishInv /\ StartOrder /\ [Next]_vars =>
    /\ Frontier \in Nat /\ Frontier' \in Nat /\ Frontier' >= Frontier
    /\ ReaderRead => Frontier = m_currentIndex /\ Frontier' = m_currentIndex + 1
<1> SUFFICES ASSUME TypeOK, FinishInv, StartOrder, [Next]_vars
             PROVE  /\ Frontier \in Nat /\ Frontier' \in Nat
                    /\ Frontier' >= Frontier
                    /\ ReaderRead => /\ Frontier = m_currentIndex
                                     /\ Frontier' = m_currentIndex + 1
  OBVIOUS
<1>1. m_currentIndex \in Nat /\ m_currentIndex' \in Nat
  BY IndexTypes, TypeStep DEF TypeOK, ReaderTypeOK
<1>2. Frontier \in Nat /\ Frontier' \in Nat
  <2>1. /\ Frontier = m_currentIndex \/ Frontier = m_currentIndex + 1
        /\ Frontier' = m_currentIndex' \/ Frontier' = m_currentIndex' + 1
    BY DEF Frontier
  <2> QED
    BY <1>1, <2>1
<1>3. ReaderRead => Frontier = m_currentIndex /\ Frontier' = m_currentIndex + 1
  BY DEF ReaderRead, Frontier
<1>4. /\ readerPc \in {"push", "count"} => Frontier = m_currentIndex + 1
      /\ readerPc \notin {"push", "count"} => Frontier = m_currentIndex
      /\ readerPc' \in {"push", "count"} => Frontier' = m_currentIndex' + 1
      /\ readerPc' \notin {"push", "count"} => Frontier' = m_currentIndex'
  BY DEF Frontier
<1>5. Frontier' >= Frontier
  <2> USE <1>1, <1>2, <1>4 DEF readerVars
  <2>1. CASE Start
    <3>1. /\ UNCHANGED m_currentIndex
          /\ readerPc' = readerPc \/ (readerPc = "idle" /\ readerPc' = "start")
      BY <2>1 DEF Start, StartReader, StartHasher, StartWriter, FinishInv, ReaderOrder
    <3> QED
      BY <3>1
  <2>2. CASE (\E t \in Tasks : Abort(t)) \/ SetPause(~m_pause) \/ UNCHANGED vars
    <3>1. UNCHANGED <<readerPc, m_currentIndex>>
      BY <2>2 DEF Abort, SetPause, vars
    <3> QED
      BY <3>1
  <2>3. CASE ReaderStart
    BY <2>3 DEF ReaderStart, StartOrder
  <2>4. CASE ReaderRead
    BY <2>4 DEF ReaderRead
  <2>5. CASE Reader /\ ~ReaderStart /\ ~ReaderRead
    <3>1. CASE ReaderNext
      <4>1. /\ readerPc \notin {"push", "count"} /\ readerPc' \notin {"push", "count"}
            /\ m_currentIndex' = m_currentIndex \/ m_currentIndex' = m_currentIndex + 1
        BY <3>1 DEF ReaderNext
      <4> QED
        BY <4>1
    <3>2. CASE ReaderPush
      BY <3>2 DEF ReaderPush
    <3>3. CASE ReaderCount
      BY <3>3 DEF ReaderCount
    <3>4. CASE ReaderLeave \/ ReaderAlloc \/ ReaderAllocTimeout \/ ReaderReadFail
               \/ ReaderFinish
      <4>1. /\ readerPc \notin {"push", "count"} /\ readerPc' \notin {"push", "count"}
            /\ m_currentIndex' = m_currentIndex
        BY <3>4 DEF ReaderLeave, ReaderAlloc, ReaderAllocTimeout,
           ReaderReadFail, ReaderFinish
      <4> QED
        BY <4>1
    <3> QED
      BY <2>5, <3>1, <3>2, <3>3, <3>4 DEF Reader
  <2>6. ASSUME NEW v \in Workers, Worker(v) PROVE Frontier' >= Frontier
    BY <2>6 DEF Worker, WorkerStart, WorkerCheck, WorkerPop, WorkerDrained,
       WorkerHash, WorkerDrop, WorkerMark, WorkerForward, WorkerExit, WorkerLast
  <2>7. CASE Writer
    BY <2>7 DEF Writer, WriterCheck, WriterPop, WriterDrained, WriterDiscard,
       WriterWrite, WriterWriteFail, WriterMark, WriterStore, WriterVerdict
  <2> QED
    BY <2>1, <2>2, <2>3, <2>4, <2>5, <2>6, <2>7 DEF Next, Threads
<1> QED
  BY <1>2, <1>3, <1>5

LEMMA OwnStep == OwnInv /\ [Next]_vars => OwnInv'
<1> SUFFICES ASSUME OwnInv, [Next]_vars PROVE OnePlace'
  BY TypeStep, FinishStep, StartOrderStep DEF OwnInv
<1> USE DEF OwnInv
<1>1. \A x \in InFlight : x[3].index \in Nat
  BY FlightType, IndexTypes DEF ConsumeBlock, Blocks
<1>2. CASE Carried
  <2>1. PICK f \in [InFlight' -> InFlight] :
          /\ \A x, y \in InFlight' : f[x] = f[y] => x = y
          /\ \A x \in InFlight' : f[x][3] = x[3]
    BY <1>2 DEF Carried
  <2>2. \A x, y \in InFlight' : x[3].index = y[3].index => x = y
    BY <2>1 DEF OnePlace
  <2>3. \A x \in InFlight' : x[3].index < Frontier'
    BY <2>1, <1>1, FrontierStep DEF OnePlace
  <2> QED
    BY <2>2, <2>3 DEF OnePlace
<1>3. CASE ReaderRead
  <2>1. InFlight' = InFlight \cup {ReadBlock}
    BY <1>3, ReaderReadAdds
  <2>2. ReadBlock[3].index = Frontier /\ Frontier' = Frontier + 1 /\ Frontier \in Nat
    BY <1>3, FrontierStep DEF ReadBlock
  <2>3. \A x \in InFlight : x[3].index < ReadBlock[3].index
    BY <2>2 DEF OnePlace
  <2> HIDE DEF OwnInv
  <2>4. \A x, y \in InFlight' : x[3].index = y[3].index => x = y
    BY <1>1, <2>1, <2>2, <2>3 DEF OwnInv, OnePlace
  <2>5. \A x \in InFlight' : x[3].index < Frontier'
    BY <1>1, <2>1, <2>2, <2>3
  <2> QED
    BY <2>4, <2>5 DEF OnePlace
<1> QED
  BY <1>2, <1>3, BlocksMove

-----------------------------------------------------------------------------
(* What is marked as processed, or about to be, is not taken up again.     *)

\* The bit of a block is set, or in a byte that a thread is about to store.
IsSettled(b) ==
  \/ b \in processed
  \/ \E w \in Workers : /\ workerPc[w] = "mark"
                        /\ b \in workerByte[w] \/ b = workerBlock[w].index
  \/ writerPc = "store" /\ b \in writerByte

\* A bit that no store of a byte can take away: it is in all those bytes.
Firm(b) ==
  /\ b \in processed
  /\ \A w \in Workers :
       workerPc[w] = "mark" /\ SameByte(b, workerBlock[w].index) => b \in workerByte[w]
  /\ writerPc = "store" /\ SameByte(b, writerBlock.index) => b \in writerByte

\* Nobody holds the block or will: the reader is past it, or will skip it.
PutAway(b) ==
  /\ \A x \in InFlight : x[3].index # b
  /\ b >= Frontier => CheckpointEnabled /\ Firm(b)
  /\ readerPc \in {"alloc", "read"} => m_currentIndex # b

\* The steps that touch no bitmap and no byte of one.
SameMarks ==
  /\ UNCHANGED processed
  /\ \A w \in Workers :
       /\ workerPc'[w] = "mark" <=> workerPc[w] = "mark"
       /\ workerPc[w] = "mark" => /\ workerBlock'[w] = workerBlock[w]
                                  /\ workerByte'[w] = workerByte[w]
  /\ writerPc' = "store" <=> writerPc = "store"
  /\ writerPc = "store" => UNCHANGED <<writerBlock, writerByte>>

LEMMA OtherStepsMark ==
  ASSUME TypeOK, FinishInv, StartOrder, [Next]_vars, ~WriterMark, ~WriterStore,
         \A w \in Workers : ~WorkerDrop(w) /\ ~WorkerMark(w)
  PROVE  SameMarks
<1> USE DEF SameMarks, bitmaps, workerVars, writerVars, TypeOK, WorkerTypeOK, Goto
<1>1. CASE Start
  <2>1. CASE StartReader \/ StartHasher
    BY <2>1 DEF StartReader, StartHasher, FinishInv, WorkersTogether
  <2>2. CASE StartWriter
    BY <2>2 DEF StartWriter, StartOrder
  <2> QED
    BY <1>1, <2>1, <2>2 DEF Start
<1>2. CASE (\E t \in Tasks : Abort(t)) \/ SetPause(~m_pause) \/ UNCHANGED vars
  BY <1>2 DEF Abort, SetPause, vars
<1>3. CASE Reader
  BY <1>3 DEF Reader, ReaderStart, ReaderLeave, ReaderNext, ReaderAlloc,
     ReaderAllocTimeout, ReaderRead, ReaderReadFail, ReaderPush, ReaderCount,
     ReaderFinish
<1>4. ASSUME NEW v \in Workers, Worker(v) PROVE SameMarks
  BY <1>4 DEF Worker, WorkerStart, WorkerCheck, WorkerPop, WorkerDrained,
     WorkerHash, WorkerForward, WorkerExit, WorkerLast
<1>5. CASE Writer
  BY <1>5 DEF Writer, WriterCheck, WriterPop, WriterDrained, WriterDiscard,
     WriterWrite, WriterWriteFail, WriterVerdict
<1> HIDE DEF SameMarks, TypeOK, WorkerTypeOK
<1> QED
  BY <1>1, <1>2, <1>3, <1>4, <1>5 DEF Next, Threads

LEMMA SameByteSymmetric == \A a, b : SameByte(a, b) <=> SameByte(b, a)
BY DEF SameByte

\* A firm bit stays.
LEMMA FirmStays ==
  ASSUME TypeOK, FinishInv, StartOrder, [Next]_vars, NEW b \in Blocks, Firm(b)
  PROVE  Firm(b)'
<1> USE DEF Firm, TypeOK, WorkerTypeOK, Goto, LoadByte, StoreByte
<1>1. ASSUME NEW w \in Workers, WorkerDrop(w) PROVE Firm(b)'
  BY <1>1 DEF WorkerDrop, bitmaps, writerVars
<1>2. ASSUME NEW w \in Workers, WorkerMark(w) PROVE Firm(b)'
  BY <1>2 DEF WorkerMark, writerVars
<1>3. CASE WriterMark
  BY <1>3 DEF WriterMark, workerVars
<1>4. CASE WriterStore
  BY <1>4 DEF WriterStore, workerVars
<1>5. CASE SameMarks
  BY <1>5 DEF SameMarks
<1> HIDE DEF Firm, TypeOK, WorkerTypeOK
<1> QED
  BY <1>1, <1>2, <1>3, <1>4, <1>5, OtherStepsMark

\* The reader goes for a block only if that is not put away.
LEMMA ReaderGoesOn ==
  ASSUME TypeOK, FinishInv, StartOrder, [Next]_vars, NEW b \in Blocks, PutAway(b),
         readerPc' \in {"alloc", "read"}
  PROVE  m_currentIndex' # b
<1> USE DEF readerVars
<1>1. CASE ReaderNext
  <2>1. readerPc = "check" /\ ~SkipReadingBlock /\ m_currentIndex' = m_currentIndex
    BY <1>1 DEF ReaderNext
  <2>2. Frontier = m_currentIndex
    BY <2>1 DEF Frontier
  <2>3. b # m_currentIndex
    BY <2>1, <2>2, IndexTypes DEF PutAway, SkipReadingBlock, Firm
  <2> QED
    BY <2>1, <2>3
<1>2. CASE UNCHANGED m_currentIndex /\ readerPc \in {"alloc", "read"}
  BY <1>2 DEF PutAway
<1>3. CASE Reader
  BY <1>1, <1>2, <1>3 DEF Reader, ReaderStart, ReaderLeave, ReaderNext,
     ReaderAlloc, ReaderAllocTimeout, ReaderRead, ReaderReadFail, ReaderPush,
     ReaderCount, ReaderFinish
<1>4. CASE Start \/ (\E t \in Tasks : Abort(t)) \/ SetPause(~m_pause)
           \/ UNCHANGED vars
  BY <1>2, <1>4 DEF Start, StartReader, StartHasher, StartWriter, Abort, SetPause, vars
<1>5. ASSUME NEW w \in Workers, Worker(w) PROVE UNCHANGED readerVars
  BY <1>5 DEF Worker, WorkerStart, WorkerCheck, WorkerPop, WorkerDrained,
     WorkerHash, WorkerDrop, WorkerMark, WorkerForward, WorkerExit, WorkerLast
<1>6. CASE Writer
  BY <1>2, <1>6 DEF Writer, WriterCheck, WriterPop, WriterDrained,
     WriterDiscard, WriterWrite, WriterWriteFail, WriterMark, WriterStore,
     WriterVerdict
<1> QED
  BY <1>2, <1>3, <1>4, <1>5, <1>6 DEF Next, Threads

LEMMA PutAwayStays ==
  ASSUME OwnInv, [Next]_vars, NEW b \in Blocks, PutAway(b)
  PROVE  PutAway(b)'
<1> USE DEF OwnInv
<1>1. \A x \in InFlight' : x[3].index # b
  <2>1. CASE Carried
    BY <2>1 DEF Carried, PutAway
  <2>2. CASE ReaderRead
    BY <2>2, ReaderReadAdds DEF ReadBlock, ReaderRead, PutAway
  <2> QED
    BY <2>1, <2>2, BlocksMove
<1>2. b >= Frontier' => CheckpointEnabled /\ Firm(b)'
  <2>1. b >= Frontier' => b >= Frontier
    BY FrontierStep, IndexTypes
  <2> QED
    BY <2>1, FirmStays DEF PutAway
<1>3. readerPc' \in {"alloc", "read"} => m_currentIndex' # b
  BY ReaderGoesOn
<1> QED
  BY <1>1, <1>2, <1>3 DEF PutAway

\* A block that leaves is put away: it was at one place only.
LEMMA LeftIsPutAway ==
  ASSUME OwnInv, [Next]_vars, NEW x \in InFlight, Leaves(x)
  PROVE  PutAway(x[3].index)'
<1> USE DEF OwnInv
<1> DEFINE b == x[3].index
<1>1. b \in Blocks /\ b < Frontier /\ b \in Nat
  BY FlightType, IndexTypes DEF OnePlace, ConsumeBlock, Blocks
<1>2. InFlight' \subseteq InFlight /\ x \notin InFlight' /\ UNCHANGED readerVars
  <2> USE DEF TypeOK, WorkerTypeOK, queues, readerVars, workerVars, writerVars
  <2>1. CASE WriterStore \/ WriterDiscard
    <3>1. x[1] = "writer" \/ \E w \in Workers : WorkerDrop(w)
      BY DEF Leaves
    <3>2. \A w \in Workers : ~WorkerDrop(w)
      BY <2>1 DEF WorkerDrop, WriterStore, WriterDiscard
    <3> QED
      BY <2>1, <3>1, <3>2 DEF WriterStore, WriterDiscard, InFlight, WorkerHolds,
         WriterHolds
  <2>2. ASSUME NEW w \in Workers, WorkerDrop(w), x = <<"worker", w, workerBlock[w]>>
        PROVE  InFlight' \subseteq InFlight /\ x \notin InFlight' /\ UNCHANGED readerVars
    BY <2>2 DEF WorkerDrop, Goto, InFlight, WorkerHolds, WriterHolds
  <2> QED
    BY <2>1, <2>2 DEF Leaves
<1>3. \A y \in InFlight' : y[3].index # b
  BY <1>2 DEF OnePlace
<1>4. b < Frontier' /\ Frontier' \in Nat
  BY <1>1, FrontierStep
<1>5. readerPc' \in {"alloc", "read"} => m_currentIndex' # b
  BY <1>1, <1>2 DEF Frontier, readerVars
<1> QED
  BY <1>1, <1>3, <1>4, <1>5 DEF PutAway

\* A bit is set, or loaded with its byte, when it was before or when the block
\* leaves just now.
LEMMA SettledFrom ==
  ASSUME OwnInv, [Next]_vars, NEW b \in Blocks, IsSettled(b)'
  PROVE  IsSettled(b) \/ \E x \in InFlight : Leaves(x) /\ b = x[3].index
<1> USE DEF OwnInv, IsSettled
<1>1. ASSUME NEW w \in Workers, WorkerDrop(w)
      PROVE  IsSettled(b) \/ \E x \in InFlight : Leaves(x) /\ b = x[3].index
  <2> DEFINE x == <<"worker", w, workerBlock[w]>>
  <2>1. x \in InFlight /\ Leaves(x) /\ x[3].index = workerBlock[w].index
    BY <1>1 DEF WorkerDrop, InFlight, WorkerHolds, Leaves
  <2>2. IsSettled(b) \/ b = workerBlock[w].index
    BY <1>1 DEF WorkerDrop, bitmaps, writerVars, TypeOK, WorkerTypeOK, Goto, LoadByte
  <2> QED
    BY <2>1, <2>2
<1>2. ASSUME NEW w \in Workers, WorkerMark(w) PROVE IsSettled(b)
  BY <1>2 DEF WorkerMark, writerVars, TypeOK, WorkerTypeOK, Goto, StoreByte
<1>3. CASE WriterMark
  BY <1>3 DEF WriterMark, workerVars, LoadByte
<1>4. CASE WriterStore
  <2> DEFINE x == <<"writer", 0, writerBlock>>
  <2>1. x \in InFlight /\ Leaves(x) /\ x[3].index = writerBlock.index
    BY <1>4 DEF WriterStore, InFlight, WriterHolds, Leaves
  <2>2. IsSettled(b) \/ b = writerBlock.index
    BY <1>4 DEF WriterStore, workerVars, StoreByte
  <2> QED
    BY <2>1, <2>2
<1>5. CASE SameMarks
  BY <1>5 DEF SameMarks
<1> HIDE DEF IsSettled
<1> QED
  BY <1>1, <1>2, <1>3, <1>4, <1>5, OtherStepsMark

SettledInv == \A b \in Blocks : IsSettled(b) => PutAway(b)

LEMMA SettledStep == OwnInv /\ SettledInv /\ [Next]_vars => SettledInv'
<1> SUFFICES ASSUME OwnInv, SettledInv, [Next]_vars, NEW b \in Blocks, IsSettled(b)'
             PROVE  PutAway(b)'
  BY DEF SettledInv
<1>1. CASE IsSettled(b)
  BY <1>1, PutAwayStays DEF SettledInv
<1>2. ASSUME NEW x \in InFlight, Leaves(x), b = x[3].index PROVE PutAway(b)'
  BY <1>2, LeftIsPutAway
<1> QED
  BY <1>1, <1>2, SettledFrom

\* What the checkpoint calls processed is put away; a block that is written is,
\* or the writer is about to do that, or the checkpoint only called it so.
LoadedInv == \A b \in loaded.processed : PutAway(b)

WrittenInv ==
  \A b \in written \ loaded.written :
    PutAway(b) \/ (writerPc = "store" /\ writerBlock.index = b)

LEMMA LoadedStays == [Next]_vars => UNCHANGED loaded
BY DEF Next, vars, media, Start, Threads, Reader, Worker, Writer, StartReader,
  StartHasher, StartWriter, Abort, SetPause, ReaderStart, ReaderLeave,
  ReaderNext, ReaderAlloc, ReaderAllocTimeout, ReaderRead, ReaderReadFail,
  ReaderPush, ReaderCount, ReaderFinish, WorkerStart, WorkerCheck, WorkerPop,
  WorkerDrained, WorkerHash, WorkerDrop, WorkerMark, WorkerForward, WorkerExit,
  WorkerLast, WriterCheck, WriterPop, WriterDrained, WriterDiscard,
  WriterWrite, WriterWriteFail, WriterMark, WriterStore, WriterVerdict

LEMMA LoadedStep == OwnInv /\ LoadedInv /\ [Next]_vars => LoadedInv'
BY LoadedStays, PutAwayStays DEF LoadedInv, OwnInv, TypeOK, DataTypeOK, Checkpoints

LEMMA WrittenStep == OwnInv /\ WrittenInv /\ [Next]_vars => WrittenInv'
<1> SUFFICES ASSUME OwnInv, WrittenInv, [Next]_vars, NEW b \in written' \ loaded'.written
             PROVE  PutAway(b)' \/ (writerPc' = "store" /\ writerBlock'.index = b)
  BY DEF WrittenInv
<1> USE DEF OwnInv
<1>1. b \in Blocks
  BY TypeStep DEF TypeOK, DataTypeOK
<1> USE LoadedStays
<1>2. CASE WriterMark
  BY <1>1, <1>2, PutAwayStays DEF WriterMark, WrittenInv
<1>3. CASE ~WriterMark
  <2>1. b \in written
    BY <1>3 DEF Next, vars, bitmaps, Start, Threads, Reader, Worker, Writer,
      StartReader, StartHasher, StartWriter, Abort, SetPause, ReaderStart,
      ReaderLeave, ReaderNext, ReaderAlloc, ReaderAllocTimeout, ReaderRead,
      ReaderReadFail, ReaderPush, ReaderCount, ReaderFinish, WorkerStart,
      WorkerCheck, WorkerPop, WorkerDrained, WorkerHash, WorkerDrop,
      WorkerMark, WorkerForward, WorkerExit, WorkerLast, WriterCheck,
      WriterPop, WriterDrained, WriterDiscard, WriterWrite, WriterWriteFail,
      WriterStore, WriterVerdict
  <2>2. CASE PutAway(b)
    BY <1>1, <2>2, PutAwayStays
  <2>3. CASE writerPc = "store" /\ writerBlock.index = b
    <3>1. CASE WriterStore
      <4> DEFINE x == <<"writer", 0, writerBlock>>
      <4>1. x \in InFlight /\ Leaves(x) /\ x[3].index = b
        BY <2>3, <3>1 DEF InFlight, WriterHolds, Leaves
      <4> QED
        BY <4>1, LeftIsPutAway
    <3>2. CASE SameMarks
      BY <2>3, <3>2 DEF SameMarks
    <3>3. ASSUME NEW w \in Workers, WorkerDrop(w) \/ WorkerMark(w)
          PROVE  UNCHANGED <<writerPc, writerBlock>>
      BY <3>3 DEF WorkerDrop, WorkerMark, writerVars
    <3> QED
      BY <1>3, <2>3, <3>1, <3>2, <3>3, OtherStepsMark
  <2> QED
    BY <2>1, <2>2, <2>3 DEF WrittenInv
<1> QED
  BY <1>2, <1>3

-----------------------------------------------------------------------------
(* A session of its own, from its beginning or from a checkpoint.          *)

\* The threads of a new session hold nothing.
LEMMA NewThreadsHold ==
  ASSUME NewThreads
  PROVE  /\ InFlight = {} /\ StartOrder /\ OnePlace /\ FinishInv /\ Frontier = 0
         /\ \A b \in Blocks : IsSettled(b) <=> b \in processed
         /\ \A b \in processed : Firm(b)
<1>1. InFlight = {}
  BY DEF NewThreads, InFlight, WorkerHolds, WriterHolds
<1>2. Counted = {}
  BY DEF NewThreads, Counted
<1>3. RunningCount
  BY <1>2, FS_EmptySet DEF NewThreads, RunningCount
<1>4. FinishInv
  BY <1>3 DEF NewThreads, FinishInv, ReaderOrder, WorkersTogether,
              QuitForCause, WriteFinished
<1>5. \A b \in Blocks : IsSettled(b) <=> b \in processed
  BY DEF NewThreads, IsSettled
<1>6. \A b \in processed : Firm(b)
  BY DEF NewThreads, Firm
<1> QED
  BY <1>1, <1>4, <1>5, <1>6 DEF NewThreads, StartOrder, OnePlace, Frontier

PipelineInv == OwnInv /\ SettledInv /\ LoadedInv /\ WrittenInv

LEMMA PipelineInvInit == Init => PipelineInv
<1> SUFFICES ASSUME Init PROVE PipelineInv
  OBVIOUS
<1>1. NewThreads /\ TypeOK /\ processed = loaded.processed /\ written = loaded.written
  BY TypeInit DEF Init
<1>2. processed # {} => CheckpointEnabled
  BY DEF Init, CheckpointLeft, NoCheckpoint
<1>3. \A b \in processed : PutAway(b)
  BY <1>1, <1>2, NewThreadsHold DEF PutAway, NewThreads
<1> QED
  BY <1>1, <1>3, NewThreadsHold DEF PipelineInv, OwnInv, SettledInv, LoadedInv, WrittenInv

LEMMA PipelineInvStep == PipelineInv /\ [Next]_vars => PipelineInv'
BY OwnStep, SettledStep, LoadedStep, WrittenStep DEF PipelineInv

\* ExactlyOnce: from every checkpoint that CheckpointLeft admits, however the
\* threads' steps interleave, whoever fails or is aborted, and with bits of
\* processedBitmap lost to a concurrent store, no block is handed on twice at a
\* time, none that is marked as processed or was in the checkpoint, and none again
\* that this session has written.
THEOREM DeliveredOnce == Spec => []ExactlyOnce
<1>1. PipelineInv => ExactlyOnce
  <2> SUFFICES ASSUME PipelineInv, NEW x \in InFlight
               PROVE  /\ x[3].index \notin processed \cup loaded.processed
                      /\ x[3].index \in written \ loaded.written =>
                           x[1] = "writer" /\ writerPc = "store"
    BY DEF ExactlyOnce, PipelineInv, OwnInv, OnePlace
  <2>1. ~PutAway(x[3].index) /\ x[3].index \in Blocks
    BY FlightType DEF PutAway, PipelineInv, OwnInv, ConsumeBlock
  <2>2. x[3].index \notin processed \cup loaded.processed
    BY <2>1 DEF PipelineInv, SettledInv, IsSettled, LoadedInv
  <2>3. ASSUME x[3].index \in written \ loaded.written
        PROVE  x[1] = "writer" /\ writerPc = "store"
    <3>1. writerPc = "store" /\ writerBlock.index = x[3].index
      BY <2>1, <2>3 DEF PipelineInv, WrittenInv
    <3>2. <<"writer", 0, writerBlock>> \in InFlight
      BY <3>1 DEF InFlight, WriterHolds
    <3>3. x = <<"writer", 0, writerBlock>>
      BY <3>1, <3>2 DEF PipelineInv, OwnInv, OnePlace
    <3> QED
      BY <3>1, <3>3
  <2> QED
    BY <2>2, <2>3
<1> QED
  BY <1>1, PipelineInvInit, PipelineInvStep, PTL DEF Spec
=============================================================================
