----------------------- MODULE SessionPipeline_proof -----------------------
(***************************************************************************)
(* Proofs about SessionPipeline, for every size of the session, of its     *)
(* blocks, pool and queues, every number of workers and every              *)
(* configuration.                                                          *)
(***************************************************************************)
EXTENDS SessionPipeline, FiniteSetTheorems, SequenceTheorems, TLAPS

USE DEF Tasks, Queues, TaskStatus, ReaderPcs, WorkerPcs, WriterPcs,
        CounterNames, NoPtr

-----------------------------------------------------------------------------
(* Lemmas about the operators of the model.                                *)

\* The length of a block is a number.
LEMMA LengthType == \A b \in Int : Length(b) \in Int
<1>1. SessionSize \in Int /\ BlockSize \in Int
  BY SizesAssumption
<1> QED
  BY <1>1 DEF Length

\* A checksum is a checksum.
LEMMA SHA256Type == \A d \in Data : SHA256(d) \in Checksums
  BY DEF Checksums

\* The indices of blocks are numbers, those of buffers too.
LEMMA IndexTypes ==
  /\ Blocks \subseteq Int /\ Slots \subseteq Int
  /\ TotalBlocks \in Nat /\ TotalBlocks >= 1
  /\ IsFiniteSet(Blocks)
<1>1. TotalBlocks \in Nat \ {0} /\ AllocatorBlockNum \in Nat \ {0}
  BY SizesAssumption
<1>2. IsFiniteSet(0 .. TotalBlocks - 1)
  BY <1>1, FS_Interval
<1> QED
  BY <1>1, <1>2 DEF Blocks, Slots

\* The first item of a queue, and what remains.
LEMMA QueueTypes ==
  ASSUME NEW q \in Seq(ConsumeBlock)
  PROVE  /\ q # <<>> => Head(q) \in ConsumeBlock /\ Tail(q) \in Seq(ConsumeBlock)
         /\ \A block \in ConsumeBlock, name \in Queues :
              Pushed(name, q, block) \in Seq(ConsumeBlock)
<1>1. q # <<>> => Head(q) \in ConsumeBlock /\ Tail(q) \in Seq(ConsumeBlock)
  BY HeadTailProperties
<1>2. \A block \in ConsumeBlock : Append(q, block) \in Seq(ConsumeBlock)
  BY AppendProperties
<1> QED
  BY <1>1, <1>2 DEF Pushed

-----------------------------------------------------------------------------
(* Type correctness.                                                       *)

LEMMA TypeInit == Init => TypeOK
<1> SUFFICES ASSUME Init PROVE TypeOK
  OBVIOUS
<1> USE DataAssumption, IndexTypes
<1>1. PICK old \in TargetContents, attempt \in Attempts :
        /\ previousTable = LoadedPreviousTable(old)
        /\ target = TargetLeft(attempt.left, old)
        /\ loaded = attempt.loaded
  BY DEF Init
<1>2. loaded \in Checkpoints /\ attempt.left \in [Blocks -> {"old", "new", "torn"}]
  BY <1>1, AttemptsAssumption
<1>3. processed \subseteq Blocks /\ written \subseteq Blocks
  BY <1>2 DEF Init, Checkpoints
<1>4. Cardinality(processed) \in Int /\ Cardinality(written) \in Int
  <2>1. IsFiniteSet(processed) /\ IsFiniteSet(written)
    BY <1>3, IndexTypes, FS_Subset
  <2> QED
    BY <2>1, FS_CardinalityType
<1>5. SessionSize \in Int /\ BlockSize \in Int
  BY SizesAssumption
<1>6. BytesOf(processed) \in Int /\ BytesOf(written) \in Int
  BY <1>4, <1>5 DEF BytesOf
<1>7. RestoredCounter(processed, written) \in [CounterNames -> Int]
  BY <1>4, <1>5, <1>6 DEF RestoredCounter
<1>8. counter \in [CounterNames -> Int]
  BY <1>7 DEF Init, NewCounter
<1>9. source \in [Blocks -> Data]
  BY DEF Init
<1>10. target \in [Blocks -> Data \cup {Torn}]
  BY <1>1, <1>9 DEF TargetLeft
<1>11. previousTable \in [Blocks -> Checksums]
  BY <1>1 DEF LoadedPreviousTable, Checksums
<1>12. lastestTable \in [Blocks -> Checksums]
  BY <1>9 DEF Init, Checksums
<1>13. DataTypeOK
  BY <1>2, <1>3, <1>9, <1>10, <1>11, <1>12 DEF Init, NewThreads, DataTypeOK
<1>14. QueuesTypeOK
  BY EmptySeq DEF Init, NewThreads, QueuesTypeOK
<1>15. ControlTypeOK
  BY <1>8 DEF Init, NewThreads, ControlTypeOK
<1>16. ReaderTypeOK
  BY DEF Init, NewThreads, ReaderTypeOK
<1>17. WorkerTypeOK
  BY DEF Init, NewThreads, WorkerTypeOK
<1>18. WriterTypeOK
  BY DEF Init, NewThreads, WriterTypeOK
<1> QED
  BY <1>13, <1>14, <1>15, <1>16, <1>17, <1>18 DEF TypeOK

\* What an action leaves alone keeps its type.
LEMMA TypeFrame ==
  TypeOK =>
    /\ UNCHANGED <<media, lastestTable, bitmaps, buffers>> => DataTypeOK'
    /\ UNCHANGED queues => QueuesTypeOK'
    /\ UNCHANGED <<counter, control>> => ControlTypeOK'
    /\ UNCHANGED readerVars => ReaderTypeOK'
    /\ UNCHANGED workerVars => WorkerTypeOK'
    /\ UNCHANGED writerVars => WriterTypeOK'
BY DEF TypeOK, DataTypeOK, QueuesTypeOK, ControlTypeOK, ReaderTypeOK,
       WorkerTypeOK, WriterTypeOK, media, bitmaps, buffers, queues, control,
       readerVars, workerVars, writerVars

LEMMA TypeStep == TypeOK /\ [Next]_vars => TypeOK'
<1> SUFFICES ASSUME TypeOK, [Next]_vars PROVE TypeOK'
  OBVIOUS
<1> USE TypeFrame DEF TypeOK, media, bitmaps, buffers, queues, control,
        readerVars, workerVars, writerVars, SetStatus, Goto, Add, Finish
<1>1. CASE StartReader
  <2>1. ControlTypeOK'
    BY <1>1, SizesAssumption DEF StartReader, ControlTypeOK
  <2>2. ReaderTypeOK'
    BY <1>1 DEF StartReader, ReaderTypeOK
  <2> QED
    BY <1>1, <2>1, <2>2 DEF StartReader
<1>2. CASE StartHasher
  <2>1. ControlTypeOK'
    BY <1>2 DEF StartHasher, ControlTypeOK
  <2>2. WorkerTypeOK'
    BY <1>2 DEF StartHasher, WorkerTypeOK
  <2> QED
    BY <1>2, <2>1, <2>2 DEF StartHasher
<1>3. CASE StartWriter
  <2>1. ControlTypeOK'
    BY <1>3 DEF StartWriter, ControlTypeOK
  <2>2. WriterTypeOK'
    BY <1>3 DEF StartWriter, WriterTypeOK
  <2> QED
    BY <1>3, <2>1, <2>2 DEF StartWriter
<1>4. ASSUME NEW t \in Tasks, Abort(t) PROVE TypeOK'
  <2>1. ControlTypeOK'
    BY <1>4 DEF Abort, ControlTypeOK, IsTerminated
  <2> QED
    BY <1>4, <2>1 DEF Abort
<1>5. CASE SetPause(~m_pause)
  <2>1. ControlTypeOK'
    BY <1>5 DEF SetPause, ControlTypeOK
  <2> QED
    BY <1>5, <2>1 DEF SetPause
<1>6. CASE ReaderStart
  <2>1. ReaderTypeOK'
    BY <1>6 DEF ReaderStart, ReaderTypeOK
  <2> QED
    BY <1>6, <2>1 DEF ReaderStart
<1>7. CASE ReaderLeave
  <2>1. ControlTypeOK'
    BY <1>7 DEF ReaderLeave, ControlTypeOK
  <2>2. ReaderTypeOK'
    BY <1>7 DEF ReaderLeave, ReaderTypeOK
  <2> QED
    BY <1>7, <2>1, <2>2 DEF ReaderLeave
<1>8. CASE ReaderNext
  <2>1. ReaderTypeOK'
    BY <1>8, IndexTypes DEF ReaderNext, ReaderTypeOK, m_maxIndex, Blocks
  <2> QED
    BY <1>8, <2>1 DEF ReaderNext
<1>9. CASE ReaderAlloc
  <2>1. DataTypeOK'
    BY <1>9 DEF ReaderAlloc, DataTypeOK, BlockAlloc
  <2>2. ReaderTypeOK'
    BY <1>9 DEF ReaderAlloc, ReaderTypeOK, BlockAlloc
  <2> QED
    BY <1>9, <2>1, <2>2 DEF ReaderAlloc
<1>10. CASE ReaderAllocTimeout
  <2>1. ControlTypeOK'
    BY <1>10 DEF ReaderAllocTimeout, ControlTypeOK
  <2>2. ReaderTypeOK'
    BY <1>10 DEF ReaderAllocTimeout, ReaderTypeOK
  <2> QED
    BY <1>10, <2>1, <2>2 DEF ReaderAllocTimeout
<1>11. CASE ReaderRead
  <2>1. DataTypeOK'
    BY <1>11 DEF ReaderRead, DataTypeOK, ReaderTypeOK
  <2>2. ControlTypeOK'
    BY <1>11, LengthType, IndexTypes DEF ReaderRead, ControlTypeOK, ReaderTypeOK
  <2>3. ReaderTypeOK'
    BY <1>11 DEF ReaderRead, ReaderTypeOK
  <2> QED
    BY <1>11, <2>1, <2>2, <2>3 DEF ReaderRead
<1>12. CASE ReaderReadFail
  <2>1. ControlTypeOK'
    BY <1>12 DEF ReaderReadFail, ControlTypeOK
  <2>2. ReaderTypeOK'
    BY <1>12 DEF ReaderReadFail, ReaderTypeOK
  <2> QED
    BY <1>12, <2>1, <2>2 DEF ReaderReadFail
<1>13. CASE ReaderPush
  <2>1. QueuesTypeOK'
    BY <1>13, QueueTypes DEF ReaderPush, QueuesTypeOK, ReaderQueue,
       ReaderTypeOK, ConsumeBlock
  <2>2. ReaderTypeOK'
    BY <1>13 DEF ReaderPush, ReaderTypeOK
  <2> QED
    BY <1>13, <2>1, <2>2 DEF ReaderPush
<1>14. CASE ReaderCount
  <2>1. ControlTypeOK'
    BY <1>14, LengthType, IndexTypes DEF ReaderCount, ControlTypeOK,
       ReaderTypeOK
  <2>2. ReaderTypeOK'
    BY <1>14, IndexTypes DEF ReaderCount, ReaderTypeOK, Blocks
  <2> QED
    BY <1>14, <2>1, <2>2 DEF ReaderCount
<1>15. CASE ReaderFinish
  <2>1. QueuesTypeOK'
    BY <1>15 DEF ReaderFinish, QueuesTypeOK, ReaderQueue
  <2>2. ReaderTypeOK'
    BY <1>15 DEF ReaderFinish, ReaderTypeOK
  <2> QED
    BY <1>15, <2>1, <2>2 DEF ReaderFinish
<1>16. ASSUME NEW w \in Workers, WorkerStart(w) PROVE TypeOK'
  <2>1. WorkerTypeOK'
    BY <1>16 DEF WorkerStart, WorkerTypeOK
  <2> QED
    BY <1>16, <2>1 DEF WorkerStart
<1>17. ASSUME NEW w \in Workers, WorkerCheck(w) PROVE TypeOK'
  <2>1. ControlTypeOK'
    BY <1>17 DEF WorkerCheck, ControlTypeOK
  <2>2. WorkerTypeOK'
    BY <1>17 DEF WorkerCheck, WorkerTypeOK
  <2> QED
    BY <1>17, <2>1, <2>2 DEF WorkerCheck
<1>18. ASSUME NEW w \in Workers, WorkerPop(w) PROVE TypeOK'
  <2>1. QueuesTypeOK'
    BY <1>18, QueueTypes DEF WorkerPop, QueuesTypeOK
  <2>2. WorkerTypeOK'
    BY <1>18, QueueTypes DEF WorkerPop, WorkerTypeOK, QueuesTypeOK
  <2> QED
    BY <1>18, <2>1, <2>2 DEF WorkerPop
<1>19. ASSUME NEW w \in Workers, WorkerDrained(w) PROVE TypeOK'
  <2>1. ControlTypeOK'
    BY <1>19 DEF WorkerDrained, ControlTypeOK
  <2>2. WorkerTypeOK'
    BY <1>19 DEF WorkerDrained, WorkerTypeOK
  <2> QED
    BY <1>19, <2>1, <2>2 DEF WorkerDrained
<1>20. ASSUME NEW w \in Workers, WorkerHash(w) PROVE TypeOK'
  <2>1. DataTypeOK'
    BY <1>20, SHA256Type DEF WorkerHash, DataTypeOK, WorkerTypeOK, ConsumeBlock
  <2>2. ControlTypeOK'
    <3>1. Length(workerBlock[w].index) \in Int
      BY <1>20, LengthType, IndexTypes DEF WorkerHash, WorkerTypeOK,
         ConsumeBlock
    <3>2. /\ counter["blocksHashed"] + 1 \in Int
          /\ counter["bytesToWrite"] \in Int
          /\ counter["bytesToWrite"] + Length(workerBlock[w].index) \in Int
      BY <3>1 DEF ControlTypeOK
    <3>3. \E n \in Int :
            counter' = [counter EXCEPT !["blocksHashed"] = @ + 1,
                                       !["bytesToWrite"] = n]
      BY <1>20, <3>2 DEF WorkerHash
    <3> QED
      BY <1>20, <3>2, <3>3 DEF WorkerHash, ControlTypeOK
  <2>3. WorkerTypeOK'
    BY <1>20 DEF WorkerHash, WorkerTypeOK
  <2> QED
    BY <1>20, <2>1, <2>2, <2>3 DEF WorkerHash
<1>21. ASSUME NEW w \in Workers, WorkerDrop(w) PROVE TypeOK'
  <2>1. DataTypeOK'
    BY <1>21 DEF WorkerDrop, DataTypeOK, BlockFree
  <2>2. WorkerTypeOK'
    BY <1>21 DEF WorkerDrop, WorkerTypeOK, DataTypeOK, LoadByte
  <2> QED
    BY <1>21, <2>1, <2>2 DEF WorkerDrop
<1>22. ASSUME NEW w \in Workers, WorkerMark(w) PROVE TypeOK'
  <2>1. DataTypeOK'
    BY <1>22 DEF WorkerMark, DataTypeOK, StoreByte, WorkerTypeOK, ConsumeBlock
  <2>2. WorkerTypeOK'
    BY <1>22 DEF WorkerMark, WorkerTypeOK
  <2> QED
    BY <1>22, <2>1, <2>2 DEF WorkerMark
<1>23. ASSUME NEW w \in Workers, WorkerForward(w) PROVE TypeOK'
  <2>1. QueuesTypeOK'
    BY <1>23, QueueTypes DEF WorkerForward, QueuesTypeOK, WorkerTypeOK
  <2>2. WorkerTypeOK'
    BY <1>23 DEF WorkerForward, WorkerTypeOK
  <2> QED
    BY <1>23, <2>1, <2>2 DEF WorkerForward
<1>24. ASSUME NEW w \in Workers, WorkerExit(w) PROVE TypeOK'
  <2>1. WorkerTypeOK'
    BY <1>24 DEF WorkerExit, WorkerTypeOK
  <2> QED
    BY <1>24, <2>1 DEF WorkerExit
<1>25. ASSUME NEW w \in Workers, WorkerLast(w) PROVE TypeOK'
  <2>1. QueuesTypeOK'
    BY <1>25 DEF WorkerLast, QueuesTypeOK
  <2>2. WorkerTypeOK'
    BY <1>25 DEF WorkerLast, WorkerTypeOK
  <2> QED
    BY <1>25, <2>1, <2>2 DEF WorkerLast
<1>26. CASE WriterCheck
  <2>1. ControlTypeOK'
    BY <1>26 DEF WriterCheck, ControlTypeOK
  <2>2. WriterTypeOK'
    BY <1>26 DEF WriterCheck, WriterTypeOK
  <2> QED
    BY <1>26, <2>1, <2>2 DEF WriterCheck
<1>27. CASE WriterPop
  <2>1. QueuesTypeOK'
    BY <1>27, QueueTypes DEF WriterPop, QueuesTypeOK
  <2>2. WriterTypeOK'
    BY <1>27, QueueTypes DEF WriterPop, WriterTypeOK, QueuesTypeOK
  <2> QED
    BY <1>27, <2>1, <2>2 DEF WriterPop
<1>28. CASE WriterDrained
  <2>1. ControlTypeOK'
    BY <1>28 DEF WriterDrained, ControlTypeOK
  <2>2. WriterTypeOK'
    BY <1>28 DEF WriterDrained, WriterTypeOK
  <2> QED
    BY <1>28, <2>1, <2>2 DEF WriterDrained
<1>29. CASE WriterDiscard
  <2>1. DataTypeOK'
    BY <1>29 DEF WriterDiscard, DataTypeOK, BlockFree
  <2>2. ControlTypeOK'
    BY <1>29 DEF WriterDiscard, ControlTypeOK
  <2>3. WriterTypeOK'
    BY <1>29 DEF WriterDiscard, WriterTypeOK
  <2> QED
    BY <1>29, <2>1, <2>2, <2>3 DEF WriterDiscard
<1>30. CASE WriterWrite
  <2>1. DataTypeOK'
    BY <1>30 DEF WriterWrite, DataTypeOK, WriterTypeOK, ConsumeBlock
  <2>2. WriterTypeOK'
    BY <1>30 DEF WriterWrite, WriterTypeOK
  <2> QED
    BY <1>30, <2>1, <2>2 DEF WriterWrite
<1>31. CASE WriterWriteFail
  <2>1. DataTypeOK'
    BY <1>31 DEF WriterWriteFail, DataTypeOK, BlockFree, WriterTypeOK,
       ConsumeBlock
  <2>2. ControlTypeOK'
    BY <1>31 DEF WriterWriteFail, ControlTypeOK
  <2>3. WriterTypeOK'
    BY <1>31 DEF WriterWriteFail, WriterTypeOK
  <2> QED
    BY <1>31, <2>1, <2>2, <2>3 DEF WriterWriteFail
<1>32. CASE WriterMark
  <2>1. DataTypeOK'
    BY <1>32 DEF WriterMark, DataTypeOK, WriterTypeOK, ConsumeBlock
  <2>2. WriterTypeOK'
    BY <1>32 DEF WriterMark, WriterTypeOK, DataTypeOK, LoadByte
  <2> QED
    BY <1>32, <2>1, <2>2 DEF WriterMark
<1>33. CASE WriterStore
  <2>1. DataTypeOK'
    BY <1>33 DEF WriterStore, DataTypeOK, StoreByte, BlockFree,
       WriterTypeOK, ConsumeBlock
  <2>2. ControlTypeOK'
    <3>1. Length(writerBlock.index) \in Int
      BY <1>33, LengthType, IndexTypes DEF WriterStore, WriterTypeOK,
         ConsumeBlock
    <3> QED
      BY <1>33, <3>1 DEF WriterStore, ControlTypeOK
  <2>3. WriterTypeOK'
    BY <1>33 DEF WriterStore, WriterTypeOK
  <2> QED
    BY <1>33, <2>1, <2>2, <2>3 DEF WriterStore
<1>34. CASE WriterVerdict
  <2>1. ControlTypeOK'
    BY <1>34 DEF WriterVerdict, ControlTypeOK
  <2>2. WriterTypeOK'
    BY <1>34 DEF WriterVerdict, WriterTypeOK
  <2> QED
    BY <1>34, <2>1, <2>2 DEF WriterVerdict
<1>35. CASE UNCHANGED vars
  BY <1>35 DEF vars
<1> QED
  BY <1>1, <1>2, <1>3, <1>4, <1>5, <1>6, <1>7, <1>8, <1>9, <1>10, <1>11,
     <1>12, <1>13, <1>14, <1>15, <1>16, <1>17, <1>18, <1>19, <1>20, <1>21,
     <1>22, <1>23, <1>24, <1>25, <1>26, <1>27, <1>28, <1>29, <1>30, <1>31,
     <1>32, <1>33, <1>34, <1>35
  DEF Next, Start, Threads, Reader, Worker, Writer

\* Type correctness: every variable stays within its type, and no thread is
\* at a place where it works on a block without having one.
THEOREM TypeCorrect == Spec => []TypeOK
<1>1. Init => TypeOK
  BY TypeInit
<1>2. TypeOK /\ [Next]_vars => TypeOK'
  BY TypeStep
<1> QED
  BY <1>1, <1>2, PTL DEF Spec

-----------------------------------------------------------------------------
(* Nobody pushes on a queue that is finished.  The reader finishes its     *)
(* queue last of all; the write queue is finished by the worker that       *)
(* decrements m_workersRunning to zero, though other workers may not have  *)
(* incremented it yet: those find either m_abort or an exhausted queue,    *)
(* for the same reason the first ones left.                                *)

HashingOver == "hashing" \in finished /\ hashingQueue = <<>>
QuitCause == m_abort["hasher"] \/ HashingOver
Counted == {w \in Workers : workerPc[w] \notin {"idle", "start", "last", "done"}}

ReaderOrder ==
  /\ status["reader"] = "INIT" => readerPc = "idle"
  /\ ReaderQueue \in finished => readerPc = "done"

WorkersTogether ==
  /\ (status["hasher"] = "INIT" \/ ~HasherEnabled) =>
       \A w \in Workers : workerPc[w] = "idle"
  /\ (\E w \in Workers : workerPc[w] = "idle") =>
       \A w \in Workers : workerPc[w] = "idle"

RunningCount == m_workersRunning = Cardinality(Counted)

QuitForCause ==
  \A w \in Workers : workerPc[w] \in {"exit", "last", "done"} => QuitCause

WriteFinished ==
  HasherEnabled /\ "write" \in finished =>
    \A w \in Workers :
      /\ workerPc[w] \in {"start", "check", "pop", "exit", "last", "done"}
      /\ workerPc[w] \in {"start", "check"} => QuitCause
      /\ workerPc[w] = "pop" => HashingOver

FinishInv ==
  ReaderOrder /\ WorkersTogether /\ RunningCount /\ QuitForCause /\ WriteFinished

LEMMA FinishInit == Init => FinishInv
<1> SUFFICES ASSUME Init PROVE FinishInv
  OBVIOUS
<1>1. Counted = {}
  BY DEF Init, NewThreads, Counted
<1>2. RunningCount
  BY <1>1, FS_EmptySet DEF Init, NewThreads, RunningCount
<1> QED
  BY <1>2 DEF Init, NewThreads, FinishInv, ReaderOrder, WorkersTogether,
              QuitForCause, WriteFinished

\* A worker that leaves for a reason leaves the others the same reason.
LEMMA CauseStays ==
  TypeOK /\ FinishInv /\ [Next]_vars =>
    /\ HashingOver => HashingOver'
    /\ QuitCause => QuitCause'
<1> SUFFICES ASSUME TypeOK, FinishInv, [Next]_vars
             PROVE  /\ HashingOver => HashingOver'
                    /\ m_abort["hasher"] => m_abort'["hasher"]
  BY DEF QuitCause
<1>1. HashingOver => HashingOver'
  <2> USE DEF HashingOver, queues
  <2>1. CASE ReaderPush
    BY <2>1 DEF ReaderPush, FinishInv, ReaderOrder
  <2>2. CASE UNCHANGED hashingQueue /\ finished \subseteq finished'
    BY <2>2
  <2>3. ASSUME NEW w \in Workers, WorkerPop(w) PROVE HashingOver => HashingOver'
    BY <2>3 DEF WorkerPop
  <2> QED
    BY <2>1, <2>2, <2>3 DEF Next, vars, Start, Threads, Reader, Worker, Writer,
      StartReader, StartHasher, StartWriter, Abort, SetPause, ReaderStart,
      ReaderLeave, ReaderNext, ReaderAlloc, ReaderAllocTimeout, ReaderRead,
      ReaderReadFail, ReaderCount, ReaderFinish, WorkerStart, WorkerCheck,
      WorkerDrained, WorkerHash, WorkerDrop, WorkerMark, WorkerForward,
      WorkerExit, WorkerLast, WriterCheck, WriterPop, WriterDrained,
      WriterDiscard, WriterWrite, WriterWriteFail, WriterMark, WriterStore,
      WriterVerdict, Finish
<1>2. m_abort["hasher"] => m_abort'["hasher"]
  <2> USE DEF control
  <2>1. ASSUME NEW t \in Tasks, Abort(t)
        PROVE  m_abort["hasher"] => m_abort'["hasher"]
    BY <2>1 DEF Abort, TypeOK, ControlTypeOK
  <2> QED
    BY <2>1 DEF Next, vars, Start, Threads, Reader, Worker, Writer,
      StartReader, StartHasher, StartWriter, SetPause, ReaderStart,
      ReaderLeave, ReaderNext, ReaderAlloc, ReaderAllocTimeout, ReaderRead,
      ReaderReadFail, ReaderPush, ReaderCount, ReaderFinish, WorkerStart,
      WorkerCheck, WorkerPop, WorkerDrained, WorkerHash, WorkerDrop,
      WorkerMark, WorkerForward, WorkerExit, WorkerLast, WriterCheck,
      WriterPop, WriterDrained, WriterDiscard, WriterWrite, WriterWriteFail,
      WriterMark, WriterStore, WriterVerdict
<1> QED
  BY <1>1, <1>2

\* No sub-task goes back to INIT.
LEMMA StatusStays ==
  TypeOK /\ [Next]_vars => \A t \in Tasks : status'[t] = "INIT" => status[t] = "INIT"
BY DEF TypeOK, ControlTypeOK, Next, vars, control, Start, Threads, Reader,
  Worker, Writer, SetStatus, IsTerminated, StartReader, StartHasher, StartWriter,
  Abort, SetPause, ReaderStart, ReaderLeave, ReaderNext, ReaderAlloc,
  ReaderAllocTimeout, ReaderRead, ReaderReadFail, ReaderPush, ReaderCount,
  ReaderFinish, WorkerStart, WorkerCheck, WorkerPop, WorkerDrained, WorkerHash,
  WorkerDrop, WorkerMark, WorkerForward, WorkerExit, WorkerLast, WriterCheck,
  WriterPop, WriterDrained, WriterDiscard, WriterWrite, WriterWriteFail,
  WriterMark, WriterStore, WriterVerdict

\* What an action leaves alone keeps its part of the invariant.
LEMMA FinishFrame ==
  TypeOK /\ FinishInv /\ [Next]_vars =>
    /\ UNCHANGED <<readerPc, finished>> => ReaderOrder'
    /\ UNCHANGED workerPc => WorkersTogether' /\ QuitForCause'
    /\ UNCHANGED <<workerPc, m_workersRunning>> => RunningCount'
    /\ UNCHANGED <<workerPc, finished>> => WriteFinished'
<1> SUFFICES ASSUME TypeOK, FinishInv, [Next]_vars
             PROVE  /\ UNCHANGED <<readerPc, finished>> => ReaderOrder'
                    /\ UNCHANGED workerPc => WorkersTogether' /\ QuitForCause'
                    /\ UNCHANGED <<workerPc, m_workersRunning>> => RunningCount'
                    /\ UNCHANGED <<workerPc, finished>> => WriteFinished'
  OBVIOUS
<1> USE StatusStays, CauseStays DEF FinishInv
<1>1. UNCHANGED <<readerPc, finished>> => ReaderOrder'
  BY DEF ReaderOrder, ReaderQueue
<1>2. UNCHANGED workerPc => WorkersTogether' /\ QuitForCause'
  BY DEF WorkersTogether, QuitForCause
<1>3. UNCHANGED <<workerPc, m_workersRunning>> => RunningCount'
  BY DEF RunningCount, Counted
<1>4. UNCHANGED <<workerPc, finished>> => WriteFinished'
  BY DEF WriteFinished
<1> QED
  BY <1>1, <1>2, <1>3, <1>4

\* There are finitely many workers.
LEMMA CountedFinite == IsFiniteSet(Counted) /\ IsFiniteSet(Counted')
<1>1. IsFiniteSet(Workers) /\ Counted \subseteq Workers /\ Counted' \subseteq Workers
  BY ConfigAssumption DEF Counted
<1> QED
  BY <1>1, FS_Subset

LEMMA FinishStep == TypeOK /\ FinishInv /\ [Next]_vars => FinishInv'
<1> SUFFICES ASSUME TypeOK, FinishInv, [Next]_vars PROVE FinishInv'
  OBVIOUS
<1> USE FinishFrame DEF FinishInv, queues, readerVars, workerVars
<1>1. CASE StartReader
  <2>1. ReaderOrder'
    BY <1>1, StatusStays DEF StartReader, SetStatus, ReaderOrder, ReaderQueue,
       TypeOK, ControlTypeOK
  <2> QED
    BY <1>1, <2>1 DEF StartReader
<1>2. CASE StartHasher
  <2>1. \A w \in Workers : workerPc[w] = "idle"
    BY <1>2 DEF StartHasher, WorkersTogether
  <2>2. CASE UNCHANGED workerPc
    BY <1>2, <2>2 DEF StartHasher
  <2>3. CASE workerPc' = [w \in Workers |-> "start"]
    <3>1. WorkersTogether'
      BY <1>2, <2>3 DEF StartHasher, SetStatus, WorkersTogether, TypeOK, ControlTypeOK
    <3>2. Counted' = Counted
      BY <2>1, <2>3 DEF Counted
    <3>3. RunningCount'
      BY <1>2, <3>2 DEF StartHasher, RunningCount
    <3>4. QuitForCause' /\ WriteFinished'
      BY <1>2, <2>1, <2>3 DEF StartHasher, QuitForCause, WriteFinished
    <3> QED
      BY <1>2, <3>1, <3>3, <3>4 DEF StartHasher
  <2> QED
    BY <1>2, <2>2, <2>3 DEF StartHasher
<1>3. CASE StartWriter
  BY <1>3 DEF StartWriter
<1>4. ASSUME NEW t \in Tasks, Abort(t) PROVE FinishInv'
  BY <1>4 DEF Abort
<1>5. CASE SetPause(~m_pause)
  BY <1>5 DEF SetPause
<1>6. CASE ReaderStart
  <2>1. ReaderOrder'
    BY <1>6, StatusStays DEF ReaderStart, ReaderOrder, ReaderQueue
  <2> QED
    BY <1>6, <2>1 DEF ReaderStart
<1>7. CASE ReaderLeave
  <2>1. ReaderOrder'
    BY <1>7, StatusStays DEF ReaderLeave, ReaderOrder, ReaderQueue
  <2> QED
    BY <1>7, <2>1 DEF ReaderLeave
<1>8. CASE ReaderNext
  <2>1. ReaderOrder'
    BY <1>8, StatusStays DEF ReaderNext, ReaderOrder, ReaderQueue
  <2> QED
    BY <1>8, <2>1 DEF ReaderNext
<1>9. CASE ReaderAlloc
  <2>1. ReaderOrder'
    BY <1>9, StatusStays DEF ReaderAlloc, ReaderOrder, ReaderQueue
  <2> QED
    BY <1>9, <2>1 DEF ReaderAlloc
<1>10. CASE ReaderAllocTimeout
  <2>1. ReaderOrder'
    BY <1>10, StatusStays DEF ReaderAllocTimeout, ReaderOrder, ReaderQueue
  <2> QED
    BY <1>10, <2>1 DEF ReaderAllocTimeout
<1>11. CASE ReaderRead
  <2>1. ReaderOrder'
    BY <1>11, StatusStays DEF ReaderRead, ReaderOrder, ReaderQueue
  <2> QED
    BY <1>11, <2>1 DEF ReaderRead
<1>12. CASE ReaderReadFail
  <2>1. ReaderOrder'
    BY <1>12, StatusStays DEF ReaderReadFail, ReaderOrder, ReaderQueue
  <2> QED
    BY <1>12, <2>1 DEF ReaderReadFail
<1>13. CASE ReaderPush
  <2>1. ReaderOrder'
    BY <1>13, StatusStays DEF ReaderPush, ReaderOrder, ReaderQueue
  <2> QED
    BY <1>13, <2>1 DEF ReaderPush
<1>14. CASE ReaderCount
  <2>1. ReaderOrder'
    BY <1>14, StatusStays DEF ReaderCount, ReaderOrder, ReaderQueue
  <2> QED
    BY <1>14, <2>1 DEF ReaderCount
<1>15. CASE ReaderFinish
  <2>1. ReaderOrder'
    BY <1>15, StatusStays DEF ReaderFinish, ReaderOrder
  <2>2. WriteFinished'
    BY <1>15, CauseStays DEF ReaderFinish, Finish, ReaderQueue, WriteFinished
  <2> QED
    BY <1>15, <2>1, <2>2 DEF ReaderFinish
<1>16. ASSUME NEW w \in Workers, WorkerStart(w) PROVE FinishInv'
  <2> USE DEF Goto, TypeOK, WorkerTypeOK
  <2>1. WorkersTogether'
    BY <1>16, StatusStays DEF WorkerStart, WorkersTogether
  <2>2. Counted' = Counted \cup {w} /\ w \notin Counted
    BY <1>16 DEF WorkerStart, Counted
  <2>3. RunningCount'
    BY <1>16, <2>2, FS_AddElement, CountedFinite DEF WorkerStart, RunningCount
  <2>4. QuitForCause'
    BY <1>16, CauseStays DEF WorkerStart, QuitForCause, QuitCause
  <2>5. WriteFinished'
    BY <1>16, CauseStays DEF WorkerStart, WriteFinished, QuitCause
  <2> QED
    BY <1>16, <2>1, <2>3, <2>4, <2>5 DEF WorkerStart
<1>17. ASSUME NEW w \in Workers, WorkerCheck(w) PROVE FinishInv'
  <2> USE DEF Goto, TypeOK, WorkerTypeOK
  <2>1. WorkersTogether'
    BY <1>17, StatusStays DEF WorkerCheck, WorkersTogether
  <2>2. Counted' = Counted
    BY <1>17 DEF WorkerCheck, Counted
  <2>3. RunningCount'
    BY <1>17, <2>2 DEF WorkerCheck, RunningCount
  <2>4. QuitForCause'
    BY <1>17, CauseStays DEF WorkerCheck, QuitForCause, QuitCause, control
  <2>5. WriteFinished'
    BY <1>17, CauseStays DEF WorkerCheck, WriteFinished, QuitCause, control
  <2> QED
    BY <1>17, <2>1, <2>3, <2>4, <2>5 DEF WorkerCheck
<1>18. ASSUME NEW w \in Workers, WorkerPop(w) PROVE FinishInv'
  <2> USE DEF Goto, TypeOK, WorkerTypeOK
  <2>1. WorkersTogether'
    BY <1>18, StatusStays DEF WorkerPop, WorkersTogether
  <2>2. Counted' = Counted
    BY <1>18 DEF WorkerPop, Counted
  <2>3. RunningCount'
    BY <1>18, <2>2 DEF WorkerPop, RunningCount
  <2>4. QuitForCause'
    BY <1>18, CauseStays DEF WorkerPop, QuitForCause, HashingOver
  <2>5. WriteFinished'
    BY <1>18, CauseStays DEF WorkerPop, WriteFinished, HashingOver
  <2> QED
    BY <1>18, <2>1, <2>3, <2>4, <2>5 DEF WorkerPop
<1>19. ASSUME NEW w \in Workers, WorkerDrained(w) PROVE FinishInv'
  <2> USE DEF Goto, TypeOK, WorkerTypeOK
  <2>1. WorkersTogether'
    BY <1>19, StatusStays DEF WorkerDrained, WorkersTogether
  <2>2. Counted' = Counted
    BY <1>19 DEF WorkerDrained, Counted
  <2>3. RunningCount'
    BY <1>19, <2>2 DEF WorkerDrained, RunningCount
  <2>4. QuitForCause'
    BY <1>19, CauseStays DEF WorkerDrained, QuitForCause, HashingOver, QuitCause, EndOfQueue
  <2>5. WriteFinished'
    BY <1>19, CauseStays DEF WorkerDrained, WriteFinished, HashingOver, QuitCause, EndOfQueue
  <2> QED
    BY <1>19, <2>1, <2>3, <2>4, <2>5 DEF WorkerDrained
<1>20. ASSUME NEW w \in Workers, WorkerHash(w) PROVE FinishInv'
  <2> USE DEF Goto, TypeOK, WorkerTypeOK
  <2>1. WorkersTogether'
    BY <1>20, StatusStays DEF WorkerHash, WorkersTogether
  <2>2. Counted' = Counted
    BY <1>20 DEF WorkerHash, Counted
  <2>3. RunningCount'
    BY <1>20, <2>2 DEF WorkerHash, RunningCount
  <2>4. QuitForCause'
    BY <1>20, CauseStays DEF WorkerHash, QuitForCause
  <2>5. WriteFinished'
    BY <1>20, CauseStays DEF WorkerHash, WriteFinished
  <2> QED
    BY <1>20, <2>1, <2>3, <2>4, <2>5 DEF WorkerHash
<1>21. ASSUME NEW w \in Workers, WorkerDrop(w) PROVE FinishInv'
  <2> USE DEF Goto, TypeOK, WorkerTypeOK
  <2>1. WorkersTogether'
    BY <1>21, StatusStays DEF WorkerDrop, WorkersTogether
  <2>2. Counted' = Counted
    BY <1>21 DEF WorkerDrop, Counted
  <2>3. RunningCount'
    BY <1>21, <2>2 DEF WorkerDrop, RunningCount
  <2>4. QuitForCause'
    BY <1>21, CauseStays DEF WorkerDrop, QuitForCause
  <2>5. WriteFinished'
    BY <1>21, CauseStays DEF WorkerDrop, WriteFinished
  <2> QED
    BY <1>21, <2>1, <2>3, <2>4, <2>5 DEF WorkerDrop
<1>22. ASSUME NEW w \in Workers, WorkerMark(w) PROVE FinishInv'
  <2> USE DEF Goto, TypeOK, WorkerTypeOK
  <2>1. WorkersTogether'
    BY <1>22, StatusStays DEF WorkerMark, WorkersTogether
  <2>2. Counted' = Counted
    BY <1>22 DEF WorkerMark, Counted
  <2>3. RunningCount'
    BY <1>22, <2>2 DEF WorkerMark, RunningCount
  <2>4. QuitForCause'
    BY <1>22, CauseStays DEF WorkerMark, QuitForCause
  <2>5. WriteFinished'
    BY <1>22, CauseStays DEF WorkerMark, WriteFinished
  <2> QED
    BY <1>22, <2>1, <2>3, <2>4, <2>5 DEF WorkerMark
<1>23. ASSUME NEW w \in Workers, WorkerForward(w) PROVE FinishInv'
  <2> USE DEF Goto, TypeOK, WorkerTypeOK
  <2>1. WorkersTogether'
    BY <1>23, StatusStays DEF WorkerForward, WorkersTogether
  <2>2. Counted' = Counted
    BY <1>23 DEF WorkerForward, Counted
  <2>3. RunningCount'
    BY <1>23, <2>2 DEF WorkerForward, RunningCount
  <2>4. QuitForCause'
    BY <1>23, CauseStays DEF WorkerForward, QuitForCause
  <2>5. WriteFinished'
    BY <1>23, CauseStays DEF WorkerForward, WriteFinished
  <2> QED
    BY <1>23, <2>1, <2>3, <2>4, <2>5 DEF WorkerForward
<1>24. ASSUME NEW w \in Workers, WorkerExit(w) PROVE FinishInv'
  <2> USE DEF Goto, TypeOK, WorkerTypeOK
  <2>1. WorkersTogether'
    BY <1>24, StatusStays DEF WorkerExit, WorkersTogether
  <2>2. Counted' = Counted \ {w} /\ w \in Counted
    BY <1>24 DEF WorkerExit, Counted
  <2>3. RunningCount'
    BY <1>24, <2>2, FS_RemoveElement, CountedFinite DEF WorkerExit, RunningCount
  <2>4. QuitForCause'
    BY <1>24, CauseStays DEF WorkerExit, QuitForCause
  <2>5. WriteFinished'
    BY <1>24, CauseStays DEF WorkerExit, WriteFinished
  <2> QED
    BY <1>24, <2>1, <2>3, <2>4, <2>5 DEF WorkerExit
<1>25. ASSUME NEW w \in Workers, WorkerLast(w) PROVE FinishInv'
  <2> USE DEF Goto, TypeOK, WorkerTypeOK
  <2>1. ReaderOrder'
    <3>1. HasherEnabled
      BY <1>25 DEF WorkerLast, NoWorkerLeft, WorkersTogether
    <3> QED
      BY <1>25, <3>1, StatusStays DEF WorkerLast, NoWorkerLeft, Finish, ReaderOrder, ReaderQueue
  <2>2. WorkersTogether'
    BY <1>25, StatusStays DEF WorkerLast, NoWorkerLeft, WorkersTogether
  <2>3. Counted' = Counted
    BY <1>25 DEF WorkerLast, NoWorkerLeft, Counted
  <2>4. RunningCount'
    BY <1>25, <2>3 DEF WorkerLast, NoWorkerLeft, RunningCount
  <2>5. QuitForCause'
    BY <1>25, CauseStays DEF WorkerLast, NoWorkerLeft, QuitForCause
  <2>6. WriteFinished'
    <3>1. CASE m_workersRunning = 0
      <4>1. Counted = {}
        BY <3>1, CountedFinite, FS_EmptySet DEF RunningCount
      <4>2. \A v \in Workers : workerPc[v] \in {"start", "last", "done"}
        BY <1>25, <4>1 DEF WorkerLast, NoWorkerLeft, Counted, WorkersTogether
      <4>3. QuitCause'
        BY <1>25, CauseStays DEF WorkerLast, NoWorkerLeft, QuitForCause
      <4> QED
        BY <1>25, <4>2, <4>3 DEF WorkerLast, NoWorkerLeft, WriteFinished
    <3>2. CASE m_workersRunning # 0
      BY <1>25, <3>2, CauseStays DEF WorkerLast, NoWorkerLeft, WriteFinished
    <3> QED
      BY <3>1, <3>2
  <2> QED
    BY <1>25, <2>1, <2>2, <2>4, <2>5, <2>6 DEF WorkerLast, NoWorkerLeft
<1>26. CASE WriterCheck
  BY <1>26 DEF WriterCheck
<1>27. CASE WriterPop
  BY <1>27 DEF WriterPop
<1>28. CASE WriterDrained
  BY <1>28 DEF WriterDrained
<1>29. CASE WriterDiscard
  BY <1>29 DEF WriterDiscard
<1>30. CASE WriterWrite
  BY <1>30 DEF WriterWrite
<1>31. CASE WriterWriteFail
  BY <1>31 DEF WriterWriteFail
<1>32. CASE WriterMark
  BY <1>32 DEF WriterMark
<1>33. CASE WriterStore
  BY <1>33 DEF WriterStore
<1>34. CASE WriterVerdict
  BY <1>34 DEF WriterVerdict
<1>35. CASE UNCHANGED vars
  BY <1>35 DEF vars
<1> QED
  BY <1>1, <1>2, <1>3, <1>4, <1>5, <1>6, <1>7, <1>8, <1>9, <1>10, <1>11,
     <1>12, <1>13, <1>14, <1>15, <1>16, <1>17, <1>18, <1>19, <1>20, <1>21,
     <1>22, <1>23, <1>24, <1>25, <1>26, <1>27, <1>28, <1>29, <1>30, <1>31,
     <1>32, <1>33, <1>34, <1>35
  DEF Next, Start, Threads, Reader, Worker, Writer

\* NoPushAfterFinish: whichever thread ends first and for whatever reason, no
\* block is lost because it is pushed on a queue that is finished already.
THEOREM PushBeforeFinish == Spec => []NoPushAfterFinish
<1>1. Init => TypeOK /\ FinishInv
  BY TypeInit, FinishInit
<1>2. TypeOK /\ FinishInv /\ [Next]_vars => (TypeOK /\ FinishInv)'
  BY TypeStep, FinishStep
<1>3. FinishInv => NoPushAfterFinish
  BY DEF FinishInv, ReaderOrder, WorkersTogether, WriteFinished, NoPushAfterFinish
<1> QED
  BY <1>1, <1>2, <1>3, PTL DEF Spec
=============================================================================
