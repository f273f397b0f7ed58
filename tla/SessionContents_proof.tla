----------------------- MODULE SessionContents_proof -----------------------
(***************************************************************************)
(* Proofs about what the buffers of a session, its target, its checksum    *)
(* table and its queues hold, and about what its counters say, for every   *)
(* size and configuration.                                                 *)
(***************************************************************************)
EXTENDS SessionOwnership_proof

USE DEF Tasks, Queues, TaskStatus, ReaderPcs, WorkerPcs, WriterPcs,
        CounterNames, NoPtr

-----------------------------------------------------------------------------
(* The buffers.                                                            *)

\* As long as no write failed, the blocks in flight and the reader's own one
\* are in allocated buffers, each in one of its own.
BuffersInv ==
  ~m_failed =>
    /\ \A x, y \in InFlight : x[3].ptr = y[3].ptr => x = y
    /\ \A x \in InFlight : /\ x[3].ptr \in allocTable
                           /\ pool[x[3].ptr] = source[x[3].index]
    /\ readerPc = "read" => /\ readerPtr \in allocTable
                            /\ \A x \in InFlight : x[3].ptr # readerPtr

LEMMA MediaStay == [Next]_vars => UNCHANGED <<source, previousTable, loaded>>
BY DEF Next, vars, media, Start, Threads, Reader, Worker, Writer, StartReader,
  StartHasher, StartWriter, Abort, SetPause, ReaderStart, ReaderLeave,
  ReaderNext, ReaderAlloc, ReaderAllocTimeout, ReaderRead, ReaderReadFail,
  ReaderPush, ReaderCount, ReaderFinish, WorkerStart, WorkerCheck, WorkerPop,
  WorkerDrained, WorkerHash, WorkerDrop, WorkerMark, WorkerForward, WorkerExit,
  WorkerLast, WriterCheck, WriterPop, WriterDrained, WriterDiscard,
  WriterWrite, WriterWriteFail, WriterMark, WriterStore, WriterVerdict

\* A write that failed is never forgotten.
LEMMA FailureStays == [Next]_vars /\ ~WriterWriteFail => UNCHANGED m_failed
BY DEF Next, vars, writerVars, Start, Threads, Reader, Worker, Writer,
  StartReader, StartHasher, StartWriter, Abort, SetPause, ReaderStart,
  ReaderLeave, ReaderNext, ReaderAlloc, ReaderAllocTimeout, ReaderRead,
  ReaderReadFail, ReaderPush, ReaderCount, ReaderFinish, WorkerStart,
  WorkerCheck, WorkerPop, WorkerDrained, WorkerHash, WorkerDrop, WorkerMark,
  WorkerForward, WorkerExit, WorkerLast, WriterCheck, WriterPop, WriterDrained,
  WriterDiscard, WriterWrite, WriterWriteFail, WriterMark, WriterStore,
  WriterVerdict

LEMMA NoFailureBefore == [Next]_vars /\ ~m_failed' => ~m_failed /\ ~WriterWriteFail
BY FailureStays DEF WriterWriteFail

\* The steps that neither allocate, fill nor free a buffer.
SameBuffers ==
  /\ UNCHANGED buffers
  /\ readerPc' = "read" => readerPc = "read" /\ UNCHANGED readerPtr

LEMMA OtherStepsBuffer ==
  ASSUME [Next]_vars, ~ReaderAlloc, ~ReaderRead, ~WriterStore, ~WriterDiscard,
         ~WriterWriteFail, \A w \in Workers : ~WorkerDrop(w)
  PROVE  SameBuffers
<1> USE DEF SameBuffers, buffers, readerVars
<1>1. CASE Start \/ (\E t \in Tasks : Abort(t)) \/ SetPause(~m_pause) \/ UNCHANGED vars
  BY <1>1 DEF Start, StartReader, StartHasher, StartWriter, Abort, SetPause, vars
<1>2. CASE Reader
  BY <1>2 DEF Reader, ReaderStart, ReaderLeave, ReaderNext,
     ReaderAllocTimeout, ReaderReadFail, ReaderPush, ReaderCount, ReaderFinish
<1>3. ASSUME NEW v \in Workers, Worker(v) PROVE SameBuffers
  BY <1>3 DEF Worker, WorkerStart, WorkerCheck, WorkerPop, WorkerDrained,
     WorkerHash, WorkerMark, WorkerForward, WorkerExit, WorkerLast
<1>4. CASE Writer
  BY <1>4 DEF Writer, WriterCheck, WriterPop, WriterDrained, WriterWrite,
     WriterMark, WriterVerdict
<1> HIDE DEF SameBuffers
<1> QED
  BY <1>1, <1>2, <1>3, <1>4 DEF Next, Threads

\* The buffer of a block that leaves is free, and nobody else's.
LEMMA LeavingFrees ==
  ASSUME OwnInv, WriterStore \/ WriterDiscard \/ \E w \in Workers : WorkerDrop(w)
  PROVE  \E x \in InFlight :
           /\ Leaves(x) /\ InFlight' = InFlight \ {x}
           /\ allocTable' = allocTable \ {x[3].ptr}
           /\ UNCHANGED <<pool, readerPc, readerPtr>>
<1> USE DEF OwnInv, TypeOK, WorkerTypeOK, queues, readerVars, workerVars,
        writerVars, BlockFree
<1>1. CASE WriterStore \/ WriterDiscard
  <2> DEFINE x == <<"writer", 0, writerBlock>>
  <2>1. x \in InFlight /\ Leaves(x)
    BY <1>1 DEF WriterStore, WriterDiscard, InFlight, WriterHolds, Leaves
  <2>2. InFlight' = InFlight \ {x}
    BY <1>1 DEF WriterStore, WriterDiscard, InFlight, WorkerHolds, WriterHolds
  <2>3. /\ allocTable' = allocTable \ {x[3].ptr}
        /\ UNCHANGED <<pool, readerPc, readerPtr>>
    BY <1>1 DEF WriterStore, WriterDiscard
  <2> QED
    BY <2>1, <2>2, <2>3
<1>2. ASSUME NEW w \in Workers, WorkerDrop(w)
      PROVE  \E x \in InFlight :
               /\ Leaves(x) /\ InFlight' = InFlight \ {x}
               /\ allocTable' = allocTable \ {x[3].ptr}
               /\ UNCHANGED <<pool, readerPc, readerPtr>>
  <2> DEFINE x == <<"worker", w, workerBlock[w]>>
  <2>1. x \in InFlight /\ Leaves(x)
    BY <1>2 DEF WorkerDrop, InFlight, WorkerHolds, Leaves
  <2>2. InFlight' = InFlight \ {x}
    BY <1>2 DEF WorkerDrop, Goto, InFlight, WorkerHolds, WriterHolds
  <2>3. /\ allocTable' = allocTable \ {x[3].ptr}
        /\ UNCHANGED <<pool, readerPc, readerPtr>>
    BY <1>2 DEF WorkerDrop
  <2> QED
    BY <2>1, <2>2, <2>3
<1> QED
  BY <1>1, <1>2

LEMMA BuffersStep == OwnInv /\ BuffersInv /\ [Next]_vars => BuffersInv'
<1> SUFFICES ASSUME OwnInv, BuffersInv, [Next]_vars, ~m_failed'
             PROVE  /\ \A x, y \in InFlight' : x[3].ptr = y[3].ptr => x = y
                    /\ \A x \in InFlight' : /\ x[3].ptr \in allocTable'
                                            /\ pool'[x[3].ptr] = source'[x[3].index]
                    /\ readerPc' = "read" =>
                         /\ readerPtr' \in allocTable'
                         /\ \A x \in InFlight' : x[3].ptr # readerPtr'
  BY DEF BuffersInv
<1>1. ~m_failed /\ ~WriterWriteFail /\ ~WriterDiscard
  BY NoFailureBefore DEF WriterDiscard
<1>2. source' = source
  BY MediaStay
<1>3. TypeOK /\ FinishInv /\ StartOrder
  BY DEF OwnInv
<1>4. CASE ReaderRead
  <2>1. InFlight' = InFlight \cup {ReadBlock}
    BY <1>4, ReaderReadAdds
  <2>2. /\ readerPtr \in allocTable /\ \A x \in InFlight : x[3].ptr # readerPtr
        /\ allocTable' = allocTable /\ readerPc' = "push"
        /\ pool' = [pool EXCEPT ![readerPtr] = source[m_currentIndex]]
    BY <1>1, <1>4 DEF ReaderRead, BuffersInv
  <2>3. ReadBlock[3].ptr = readerPtr /\ ReadBlock[3].index = m_currentIndex
    BY DEF ReadBlock
  <2>4. readerPtr \in Slots /\ pool \in [Slots -> Data]
    BY <1>3, <1>4 DEF ReaderRead, TypeOK, ReaderTypeOK, DataTypeOK
  <2>5. pool'[readerPtr] = source[m_currentIndex]
        /\ \A x \in InFlight : pool'[x[3].ptr] = pool[x[3].ptr]
    BY <1>3, <2>2, <2>4, FlightType DEF ConsumeBlock
  <2> QED
    BY <1>1, <1>2, <2>1, <2>2, <2>3, <2>5 DEF BuffersInv
<1>5. CASE Carried /\ SameBuffers
  <2>1. PICK f \in [InFlight' -> InFlight] :
          /\ \A x, y \in InFlight' : f[x] = f[y] => x = y
          /\ \A x \in InFlight' : f[x][3] = x[3]
    BY <1>5 DEF Carried
  <2>2. \A x, y \in InFlight' : x[3].ptr = y[3].ptr => x = y
    BY <1>1, <2>1 DEF BuffersInv
  <2>3. \A x \in InFlight' : /\ x[3].ptr \in allocTable'
                             /\ pool'[x[3].ptr] = source'[x[3].index]
    BY <1>1, <1>2, <1>5, <2>1 DEF BuffersInv, SameBuffers, buffers
  <2>4. readerPc' = "read" => /\ readerPtr' \in allocTable'
                              /\ \A x \in InFlight' : x[3].ptr # readerPtr'
    BY <1>1, <1>5, <2>1 DEF BuffersInv, SameBuffers, buffers
  <2> QED
    BY <2>2, <2>3, <2>4
<1>6. CASE ReaderAlloc
  <2>1. UNCHANGED <<hashingQueue, writeQueue, workerPc, workerBlock, writerPc, writerBlock>>
        /\ readerPc' = "read" /\ readerPc = "alloc"
    BY <1>6 DEF ReaderAlloc, queues, workerVars, writerVars
  <2>2. InFlight' = InFlight
    BY <2>1 DEF InFlight, WorkerHolds, WriterHolds
  <2>3. /\ readerPtr' \in Slots \ allocTable
        /\ allocTable' = allocTable \cup {readerPtr'} /\ pool' = pool
    BY <1>6 DEF ReaderAlloc, BlockAlloc
  <2> QED
    BY <1>1, <1>2, <2>2, <2>3 DEF BuffersInv
<1>7. CASE WriterStore \/ \E w \in Workers : WorkerDrop(w)
  <2>1. PICK x \in InFlight :
           /\ InFlight' = InFlight \ {x}
           /\ allocTable' = allocTable \ {x[3].ptr}
           /\ UNCHANGED <<pool, readerPc, readerPtr>>
    BY <1>7, LeavingFrees
  <2> QED
    BY <1>1, <1>2, <2>1 DEF BuffersInv
<1> QED
  BY <1>1, <1>3, <1>4, <1>5, <1>6, <1>7, OtherStepsBuffer, BlocksMove

LEMMA BuffersInit == NewThreads => BuffersInv
BY NewThreadsHold DEF BuffersInv, NewThreads

\* BuffersIntact: whatever the order in which the reader allocates buffers and
\* the workers and the writer free them, nobody gets a buffer that is in use.
THEOREM BuffersAreIntact == Spec => []BuffersIntact
<1>1. Init => OwnInv /\ BuffersInv
  BY PipelineInvInit, BuffersInit DEF PipelineInv, Init
<1>2. OwnInv /\ BuffersInv /\ [Next]_vars => (OwnInv /\ BuffersInv)'
  BY OwnStep, BuffersStep
<1>3. BuffersInv => BuffersIntact
  BY DEF BuffersInv, BuffersIntact
<1> QED
  BY <1>1, <1>2, <1>3, PTL DEF Spec

-----------------------------------------------------------------------------
(* The target.                                                             *)

Copied(b) == target[b] = source[b]

\* The block need not be written: it is as it was when the previous copy was
\* made, or zeros that are skipped.
NeedsNoWrite(b) ==
  previousTable[b] = SHA256(source[b]) \/ (SkipEmptyBlock /\ source[b] = ZeroData)

\* A worker drops a block because of its checksum in the previous copy.
DroppedInv ==
  ~m_failed => \A w \in Workers : workerPc[w] = "drop" =>
                 previousTable[workerBlock[w].index] = SHA256(source[workerBlock[w].index])

CopyInv ==
  ~m_failed =>
    /\ \A b \in Blocks : NeedsNoWrite(b) \/ IsSettled(b) => Copied(b)
    /\ writerPc \in {"mark", "store"} => Copied(writerBlock.index)

\* What a thread that holds a block finds in its buffer.
LEMMA HeldContents ==
  ASSUME TypeOK, BuffersInv, ~m_failed
  PROVE  /\ \A w \in Workers : WorkerHolds(w) =>
              /\ workerBlock[w].index \in Blocks
              /\ pool[workerBlock[w].ptr] = source[workerBlock[w].index]
         /\ WriterHolds => /\ writerBlock.index \in Blocks
                           /\ pool[writerBlock.ptr] = source[writerBlock.index]
<1>1. \A w \in Workers : WorkerHolds(w) => <<"worker", w, workerBlock[w]>> \in InFlight
  BY DEF InFlight
<1>2. WriterHolds => <<"writer", 0, writerBlock>> \in InFlight
  BY DEF InFlight
<1> QED
  BY <1>1, <1>2, FlightType DEF BuffersInv, ConsumeBlock

LEMMA DroppedStep ==
  OwnInv /\ BuffersInv /\ DroppedInv /\ [Next]_vars => DroppedInv'
<1> SUFFICES ASSUME OwnInv, BuffersInv, DroppedInv, [Next]_vars, ~m_failed',
                    NEW w \in Workers, workerPc'[w] = "drop"
             PROVE  previousTable'[workerBlock'[w].index] =
                      SHA256(source'[workerBlock'[w].index])
  BY DEF DroppedInv
<1> USE DEF OwnInv, TypeOK, WorkerTypeOK, workerVars, Goto
<1>1. ~m_failed /\ UNCHANGED <<source, previousTable>>
  BY NoFailureBefore, MediaStay
<1>2. CASE workerPc[w] = "drop" /\ UNCHANGED workerBlock[w]
  BY <1>1, <1>2 DEF DroppedInv
<1>3. ASSUME NEW v \in Workers, WorkerHash(v)
      PROVE  \/ workerPc[w] = "drop" /\ UNCHANGED workerBlock[w]
             \/ previousTable[workerBlock[w].index] = SHA256(source[workerBlock[w].index])
                /\ UNCHANGED workerBlock[w]
  <2>1. CASE v # w
    BY <1>3, <2>1 DEF WorkerHash
  <2>2. CASE v = w
    BY <1>1, <1>3, <2>2, HeldContents DEF WorkerHash, WorkerHolds
  <2> QED
    BY <2>1, <2>2
<1>4. ASSUME NEW v \in Workers, Worker(v), ~WorkerHash(v)
      PROVE  workerPc[w] = "drop" /\ UNCHANGED workerBlock[w]
  BY <1>4 DEF Worker, WorkerStart, WorkerCheck, WorkerPop, WorkerDrained,
     WorkerDrop, WorkerMark, WorkerForward, WorkerExit, WorkerLast
<1>5. CASE Start \/ (\E t \in Tasks : Abort(t)) \/ SetPause(~m_pause) \/ UNCHANGED vars
  BY <1>2, <1>5 DEF Start, StartReader, StartHasher, StartWriter, Abort, SetPause, vars
<1>6. CASE Reader
  BY <1>2, <1>6 DEF Reader, ReaderStart, ReaderLeave, ReaderNext, ReaderAlloc,
     ReaderAllocTimeout, ReaderRead, ReaderReadFail, ReaderPush, ReaderCount,
     ReaderFinish
<1>7. CASE Writer
  BY <1>2, <1>7 DEF Writer, WriterCheck, WriterPop, WriterDrained,
     WriterDiscard, WriterWrite, WriterWriteFail, WriterMark, WriterStore,
     WriterVerdict
<1> HIDE DEF OwnInv, TypeOK, WorkerTypeOK
<1> QED
  BY <1>1, <1>2, <1>3, <1>4, <1>5, <1>6, <1>7 DEF Next, Threads

\* Only the writer writes, and it writes what the source has.
LEMMA CopiedStays ==
  ASSUME OwnInv, BuffersInv, [Next]_vars, ~m_failed', NEW b \in Blocks, Copied(b)
  PROVE  Copied(b)'
<1> USE DEF OwnInv, Copied
<1>1. ~m_failed /\ ~WriterWriteFail /\ source' = source
  BY NoFailureBefore, MediaStay
<1>2. CASE WriterWrite
  <2>1. pool[writerBlock.ptr] = source[writerBlock.index]
    BY <1>1, <1>2, HeldContents DEF WriterWrite, WriterHolds
  <2> QED
    BY <1>1, <1>2, <2>1 DEF WriterWrite, TypeOK, DataTypeOK
<1>3. CASE target' = target
  BY <1>1, <1>3
<1>4. ~WriterWrite => target' = target
  BY <1>1 DEF Next, vars, media, Start, Threads, Reader, Worker, Writer,
    StartReader, StartHasher, StartWriter, Abort, SetPause, ReaderStart,
    ReaderLeave, ReaderNext, ReaderAlloc, ReaderAllocTimeout, ReaderRead,
    ReaderReadFail, ReaderPush, ReaderCount, ReaderFinish, WorkerStart,
    WorkerCheck, WorkerPop, WorkerDrained, WorkerHash, WorkerDrop, WorkerMark,
    WorkerForward, WorkerExit, WorkerLast, WriterCheck, WriterPop,
    WriterDrained, WriterDiscard, WriterMark, WriterStore, WriterVerdict
<1> QED
  BY <1>2, <1>3, <1>4

\* A block leaves when it is copied, if no write failed.
LEMMA LeavesCopied ==
  ASSUME OwnInv, DroppedInv, CopyInv, [Next]_vars, ~m_failed',
         NEW x \in InFlight, Leaves(x)
  PROVE  Copied(x[3].index) /\ x[3].index \in Blocks
<1>1. ~m_failed /\ ~WriterDiscard
  BY NoFailureBefore DEF WriterDiscard
<1>2. x[3].index \in Blocks
  BY FlightType DEF OwnInv, ConsumeBlock
<1>3. ASSUME NEW w \in Workers, WorkerDrop(w), x = <<"worker", w, workerBlock[w]>>
      PROVE  Copied(x[3].index)
  BY <1>1, <1>2, <1>3 DEF WorkerDrop, DroppedInv, CopyInv, NeedsNoWrite
<1>4. CASE (WriterStore \/ WriterDiscard) /\ x = <<"writer", 0, writerBlock>>
  BY <1>1, <1>2, <1>4 DEF WriterStore, CopyInv
<1>5. \/ \E w \in Workers : WorkerDrop(w) /\ x = <<"worker", w, workerBlock[w]>>
      \/ (WriterStore \/ WriterDiscard) /\ x = <<"writer", 0, writerBlock>>
  BY DEF Leaves
<1>6. Copied(x[3].index)
  <2>1. CASE \E w \in Workers : WorkerDrop(w) /\ x = <<"worker", w, workerBlock[w]>>
    <3>1. PICK w \in Workers : WorkerDrop(w) /\ x = <<"worker", w, workerBlock[w]>>
      BY <2>1
    <3> QED
      BY <3>1, <1>3
  <2> QED
    BY <2>1, <1>4, <1>5
<1> QED
  BY <1>2, <1>6

LEMMA CopyStep ==
  OwnInv /\ BuffersInv /\ DroppedInv /\ CopyInv /\ [Next]_vars => CopyInv'
<1> SUFFICES ASSUME OwnInv, BuffersInv, DroppedInv, CopyInv, [Next]_vars, ~m_failed'
             PROVE  /\ \A b \in Blocks :
                         NeedsNoWrite(b)' \/ IsSettled(b)' => Copied(b)'
                    /\ writerPc' \in {"mark", "store"} => Copied(writerBlock.index)'
  BY DEF CopyInv
<1>1. ~m_failed /\ ~WriterWriteFail /\ UNCHANGED <<source, previousTable>>
  BY NoFailureBefore, MediaStay
<1>2. ASSUME NEW b \in Blocks, NeedsNoWrite(b)' PROVE Copied(b)'
  <2>1. Copied(b)
    BY <1>1, <1>2 DEF NeedsNoWrite, CopyInv
  <2> QED
    BY <2>1, CopiedStays
<1>3. ASSUME NEW b \in Blocks, IsSettled(b)' PROVE Copied(b)'
  <2>1. Copied(b)
    BY <1>1, <1>3, SettledFrom, LeavesCopied DEF CopyInv
  <2> QED
    BY <2>1, CopiedStays
<1>4. ASSUME writerPc' \in {"mark", "store"} PROVE Copied(writerBlock.index)'
  <2>1. CASE WriterWrite
    <3>1. /\ writerBlock.index \in Blocks
          /\ pool[writerBlock.ptr] = source[writerBlock.index]
      BY <1>1, <2>1, HeldContents DEF WriterWrite, WriterHolds, OwnInv
    <3>2. CASE NeedToWrite(pool[writerBlock.ptr])
      BY <1>1, <2>1, <3>1, <3>2 DEF WriterWrite, Copied, OwnInv, TypeOK, DataTypeOK
    <3>3. CASE ~NeedToWrite(pool[writerBlock.ptr])
      <4>1. Copied(writerBlock.index)
        BY <1>1, <3>1, <3>3 DEF NeedToWrite, CopyInv, NeedsNoWrite
      <4> QED
        BY <1>1, <2>1, <3>1, <3>3, <4>1 DEF WriterWrite, Copied
    <3> QED
      BY <3>2, <3>3
  <2>2. CASE ~WriterWrite
    <3>1. writerPc \in {"mark", "store"} /\ UNCHANGED writerBlock
      <4> USE DEF writerVars
      <4>1. CASE Start
        BY <1>4, <4>1 DEF Start, StartReader, StartHasher, StartWriter
      <4>2. CASE (\E t \in Tasks : Abort(t)) \/ SetPause(~m_pause) \/ UNCHANGED vars
        BY <1>4, <4>2 DEF Abort, SetPause, vars
      <4>3. CASE Reader
        BY <1>4, <4>3 DEF Reader, ReaderStart, ReaderLeave, ReaderNext,
           ReaderAlloc, ReaderAllocTimeout, ReaderRead, ReaderReadFail,
           ReaderPush, ReaderCount, ReaderFinish
      <4>4. ASSUME NEW w \in Workers, Worker(w) PROVE UNCHANGED writerVars
        BY <4>4 DEF Worker, WorkerStart, WorkerCheck, WorkerPop, WorkerDrained,
           WorkerHash, WorkerDrop, WorkerMark, WorkerForward, WorkerExit, WorkerLast
      <4>5. CASE Writer
        BY <1>1, <1>4, <2>2, <4>5 DEF Writer, WriterCheck, WriterPop,
           WriterDrained, WriterDiscard, WriterMark, WriterStore, WriterVerdict
      <4> QED
        BY <1>4, <4>1, <4>2, <4>3, <4>4, <4>5 DEF Next, Threads
    <3>2. Copied(writerBlock.index) /\ writerBlock.index \in Blocks
      BY <1>1, <3>1 DEF CopyInv, OwnInv, TypeOK, WriterTypeOK, ConsumeBlock
    <3> QED
      BY <3>1, <3>2, CopiedStays
  <2> QED
    BY <2>1, <2>2
<1> QED
  BY <1>2, <1>3, <1>4

\* What the source has empty and the writer skips is empty on the target
\* beforehand, as it is in the new sparse file of a full backup.  Without it an
\* unwritten block keeps what it had (Finding_sparse_incremental).
SkippedIsEmpty ==
  SkipEmptyBlock =>
    \A new \in SourceContents, old \in TargetContents, b \in Blocks :
      new[b] = ZeroData => old[b] = ZeroData

LEMMA ChecksumsDiffer ==
  /\ \A c, d : SHA256(c) = SHA256(d) => c = d
  /\ \A d : SHA256(d) # NoHash
BY DEF SHA256, NoHash

LEMMA CopyInit == SkippedIsEmpty /\ Init => DroppedInv /\ CopyInv
<1> SUFFICES ASSUME SkippedIsEmpty, Init, NEW b \in Blocks, NeedsNoWrite(b) \/ IsSettled(b)
             PROVE  Copied(b)
  BY DEF Init, NewThreads, DroppedInv, CopyInv
<1>1. PICK old \in TargetContents, attempt \in Attempts :
        /\ previousTable = LoadedPreviousTable(old)
        /\ CheckpointLeft(attempt.loaded, attempt.left)
        /\ target = TargetLeft(attempt.left, old)
        /\ loaded = attempt.loaded
  BY DEF Init
<1>2. source \in SourceContents /\ NewThreads /\ processed = loaded.processed
  BY DEF Init
<1>3. attempt.left \in [Blocks -> {"old", "new", "torn"}] /\ loaded \in Checkpoints
  BY <1>1, AttemptsAssumption
<1>4. CASE IsWritten(b)
  <2>1. b \in processed
    BY <1>2, <1>4, NewThreadsHold DEF IsWritten, Changed, NeedToWrite, NeedsNoWrite
  <2>2. attempt.left[b] = "new"
    BY <1>1, <1>2, <1>4, <2>1 DEF CheckpointLeft, IsWritten
  <2> QED
    BY <1>1, <2>2 DEF TargetLeft, Copied
<1>5. CASE ~IsWritten(b)
  <2>1. target[b] = old[b]
    BY <1>1, <1>3, <1>5 DEF CheckpointLeft, TargetLeft
  <2>2. CASE previousTable[b] = SHA256(source[b])
    <3>1. previousTable[b] = SHA256(old[b])
      BY <1>1, <2>2, ChecksumsDiffer DEF LoadedPreviousTable
    <3> QED
      BY <2>1, <2>2, <3>1, ChecksumsDiffer DEF Copied
  <2>3. CASE SkipEmptyBlock /\ source[b] = ZeroData
    BY <1>2, <2>1, <2>3 DEF Copied, SkippedIsEmpty
  <2> QED
    BY <1>5, <2>2, <2>3 DEF IsWritten, Changed, NeedToWrite
<1> QED
  BY <1>4, <1>5

-----------------------------------------------------------------------------
(* The checksums.                                                          *)

Hashed(b) == HasherEnabled => HasChecksum(b)

\* Behind the hashers, and on the bitmap, there are only blocks with a checksum.
HashInv ==
  ~m_failed =>
    /\ \A b \in Blocks : IsSettled(b) => Hashed(b)
    /\ \A w \in Workers : workerPc[w] \in {"drop", "forward"} => Hashed(workerBlock[w].index)
    /\ \A i \in DOMAIN writeQueue : Hashed(writeQueue[i].index)
    /\ WriterHolds => Hashed(writerBlock.index)

\* Only WorkerHash changes the table, and it enters the checksum of the source.
LEMMA HashedStays ==
  ASSUME OwnInv, BuffersInv, [Next]_vars, ~m_failed', NEW b \in Blocks, Hashed(b)
  PROVE  Hashed(b)'
<1> USE DEF OwnInv, Hashed, HasChecksum, Hole
<1>1. ~m_failed /\ UNCHANGED <<source, loaded>>
  BY NoFailureBefore, MediaStay
<1>2. ASSUME NEW w \in Workers, WorkerHash(w) PROVE Hashed(b)'
  <2>1. pool[workerBlock[w].ptr] = source[workerBlock[w].index]
    BY <1>1, <1>2, HeldContents DEF WorkerHash, WorkerHolds
  <2> QED
    BY <1>1, <1>2, <2>1 DEF WorkerHash, TypeOK, DataTypeOK
<1>3. CASE lastestTable' = lastestTable
  BY <1>1, <1>3
<1>4. (\A w \in Workers : ~WorkerHash(w)) => lastestTable' = lastestTable
  BY DEF Next, vars, Start, Threads, Reader, Worker, Writer,
    StartReader, StartHasher, StartWriter, Abort, SetPause, ReaderStart,
    ReaderLeave, ReaderNext, ReaderAlloc, ReaderAllocTimeout, ReaderRead,
    ReaderReadFail, ReaderPush, ReaderCount, ReaderFinish, WorkerStart,
    WorkerCheck, WorkerPop, WorkerDrained, WorkerDrop, WorkerMark,
    WorkerForward, WorkerExit, WorkerLast, WriterCheck, WriterPop,
    WriterDrained, WriterDiscard, WriterWrite, WriterWriteFail, WriterMark,
    WriterStore, WriterVerdict
<1> QED
  BY <1>2, <1>3, <1>4

\* Hashed(b)' for a block that is named after the step.
HashedThen(b) ==
  \/ lastestTable'[b] = SHA256(source'[b])
  \/ b \in loaded'.processed \ loaded'.hashed /\ lastestTable'[b] = NoHash

LEMMA HashedNext ==
  ASSUME HasherEnabled, OwnInv, BuffersInv, [Next]_vars, ~m_failed', NEW b \in Blocks, Hashed(b)
  PROVE  HashedThen(b)
BY HashedStays DEF Hashed, HasChecksum, Hole, HashedThen

LEMMA LeavesHashed ==
  ASSUME OwnInv, HashInv, [Next]_vars, ~m_failed', NEW x \in InFlight, Leaves(x)
  PROVE  Hashed(x[3].index)
<1>1. ~m_failed /\ ~WriterDiscard
  BY NoFailureBefore DEF WriterDiscard
<1>2. ASSUME NEW w \in Workers, WorkerDrop(w), x = <<"worker", w, workerBlock[w]>>
      PROVE  Hashed(x[3].index)
  BY <1>1, <1>2 DEF WorkerDrop, HashInv
<1>3. CASE WriterStore /\ x = <<"writer", 0, writerBlock>>
  BY <1>1, <1>3 DEF WriterStore, WriterHolds, HashInv
<1> QED
  BY <1>1, <1>2, <1>3 DEF Leaves

\* What the workers hold after a step.
LEMMA WorkersHashed ==
  ASSUME HasherEnabled, OwnInv, BuffersInv, HashInv, [Next]_vars, ~m_failed',
         NEW w \in Workers, workerPc'[w] \in {"drop", "forward"}
  PROVE  Hashed(workerBlock[w].index)'
<1> USE DEF OwnInv, TypeOK, WorkerTypeOK, workerVars, Goto
<1>1. ~m_failed /\ source' = source
  BY NoFailureBefore, MediaStay
<1>2. CASE WorkerHash(w)
  <2>1. /\ workerBlock[w].index \in Blocks
        /\ pool[workerBlock[w].ptr] = source[workerBlock[w].index]
    BY <1>1, <1>2, HeldContents DEF WorkerHash, WorkerHolds
  <2> QED
    BY <1>1, <1>2, <2>1 DEF WorkerHash, DataTypeOK, Hashed, HasChecksum
<1>3. CASE ~WorkerHash(w)
  <2>1. workerPc[w] \in {"drop", "forward"} /\ workerBlock'[w] = workerBlock[w]
    <3>1. CASE Start \/ (\E t \in Tasks : Abort(t)) \/ SetPause(~m_pause) \/ UNCHANGED vars
      BY <3>1 DEF Start, StartReader, StartHasher, StartWriter, Abort, SetPause, vars
    <3>2. CASE Reader
      BY <3>2 DEF Reader, ReaderStart, ReaderLeave, ReaderNext, ReaderAlloc,
         ReaderAllocTimeout, ReaderRead, ReaderReadFail, ReaderPush, ReaderCount,
         ReaderFinish
    <3>3. ASSUME NEW v \in Workers, Worker(v)
          PROVE  workerPc[w] \in {"drop", "forward"} /\ workerBlock'[w] = workerBlock[w]
      BY <1>3, <3>3 DEF Worker, WorkerStart, WorkerCheck, WorkerPop, WorkerDrained,
         WorkerHash, WorkerDrop, WorkerMark, WorkerForward, WorkerExit, WorkerLast
    <3>4. CASE Writer
      BY <3>4 DEF Writer, WriterCheck, WriterPop, WriterDrained, WriterDiscard,
         WriterWrite, WriterWriteFail, WriterMark, WriterStore, WriterVerdict
    <3> QED
      BY <3>1, <3>2, <3>3, <3>4 DEF Next, Threads
  <2>2. Hashed(workerBlock[w].index) /\ workerBlock[w].index \in Blocks
    BY <1>1, <2>1 DEF HashInv, ConsumeBlock
  <2>3. HashedThen(workerBlock[w].index)
    BY <2>2, HashedNext
  <2> QED
    BY <2>1, <2>3 DEF Hashed, HasChecksum, Hole, HashedThen
<1> QED
  BY <1>2, <1>3

\* What the writer and its queue hold after a step.
LEMMA WriterHashed ==
  ASSUME HasherEnabled, OwnInv, BuffersInv, HashInv, [Next]_vars, ~m_failed'
  PROVE  /\ \A i \in DOMAIN writeQueue' : Hashed(writeQueue[i].index)'
         /\ WriterHolds' => Hashed(writerBlock.index)'
<1> DEFINE Good(i) == i \in Blocks /\ Hashed(i)
<1>1. ~m_failed /\ writeQueue \in Seq(ConsumeBlock)
  BY NoFailureBefore DEF OwnInv, TypeOK, QueuesTypeOK
<1>2. /\ \A i \in DOMAIN writeQueue : Good(writeQueue[i].index)
      /\ WriterHolds => Good(writerBlock.index)
      /\ \A w \in Workers : workerPc[w] = "forward" => Good(workerBlock[w].index)
  BY <1>1, QueueDomain DEF OwnInv, TypeOK, WorkerTypeOK, WriterTypeOK, WriterHolds,
     ConsumeBlock, HashInv
<1>3. /\ \A i \in DOMAIN writeQueue' : Good(writeQueue'[i].index)
      /\ WriterHolds' => Good(writerBlock'.index)
  <2> HIDE DEF Good
  <2>1. CASE WriterPop
    BY <1>1, <1>2, <2>1, QueueDomain DEF WriterPop, WriterHolds
  <2>2. ASSUME NEW w \in Workers, WorkerForward(w)
        PROVE  /\ \A i \in DOMAIN writeQueue' : Good(writeQueue'[i].index)
               /\ WriterHolds' => Good(writerBlock'.index)
    <3>1. workerBlock[w] \in ConsumeBlock /\ Good(workerBlock[w].index)
      BY <1>2, <2>2 DEF WorkerForward, OwnInv, TypeOK, WorkerTypeOK
    <3> QED
      BY <1>1, <1>2, <2>2, <3>1, QueueDomain DEF WorkerForward, Pushed, writerVars, WriterHolds
  <2>3. CASE UNCHANGED writeQueue /\ (WriterHolds' => WriterHolds /\ UNCHANGED writerBlock)
    BY <1>2, <2>3
  <2>4. ASSUME ~WriterPop, \A w \in Workers : ~WorkerForward(w)
        PROVE  UNCHANGED writeQueue /\ (WriterHolds' => WriterHolds /\ UNCHANGED writerBlock)
    <3> USE DEF queues, writerVars, WriterHolds
    <3>1. CASE Start \/ (\E t \in Tasks : Abort(t)) \/ SetPause(~m_pause) \/ UNCHANGED vars
      BY <3>1 DEF Start, StartReader, StartHasher, StartWriter, Abort, SetPause, vars
    <3>2. CASE Reader
      BY <3>2 DEF Reader, ReaderStart, ReaderLeave, ReaderNext, ReaderAlloc,
         ReaderAllocTimeout, ReaderRead, ReaderReadFail, ReaderPush, ReaderCount,
         ReaderFinish, ReaderQueue
    <3>3. ASSUME NEW v \in Workers, Worker(v)
          PROVE  UNCHANGED writeQueue /\ (WriterHolds' => WriterHolds /\ UNCHANGED writerBlock)
      BY <2>4, <3>3 DEF Worker, WorkerStart, WorkerCheck, WorkerPop, WorkerDrained,
         WorkerHash, WorkerDrop, WorkerMark, WorkerExit, WorkerLast
    <3>4. CASE Writer
      BY <2>4, <3>4 DEF Writer, WriterCheck, WriterDrained, WriterDiscard,
         WriterWrite, WriterWriteFail, WriterMark, WriterStore, WriterVerdict
    <3> QED
      BY <3>1, <3>2, <3>3, <3>4 DEF Next, Threads
  <2> QED
    BY <2>1, <2>2, <2>3, <2>4
<1>4. \A b : Good(b) => HashedThen(b)
  BY HashedNext
<1> QED
  BY <1>3, <1>4 DEF Hashed, HasChecksum, Hole, HashedThen

LEMMA HashStep == OwnInv /\ BuffersInv /\ HashInv /\ [Next]_vars => HashInv'
<1> SUFFICES ASSUME HasherEnabled, OwnInv, BuffersInv, HashInv, [Next]_vars, ~m_failed'
             PROVE  HashInv'
  BY DEF HashInv, Hashed
<1>1. ASSUME NEW b \in Blocks, IsSettled(b)' PROVE Hashed(b)'
  <2>1. Hashed(b)
    BY <1>1, SettledFrom, LeavesHashed, NoFailureBefore DEF HashInv
  <2> QED
    BY <2>1, HashedStays
<1> QED
  BY <1>1, WorkersHashed, WriterHashed DEF HashInv

LEMMA HashInit == Init => HashInv
<1> SUFFICES ASSUME Init PROVE HashInv
  OBVIOUS
<1>1. NewThreads
  BY DEF Init
<1>2. \A b \in Blocks : IsSettled(b) => Hashed(b)
  BY <1>1, NewThreadsHold DEF Init, Hashed, HasChecksum, Hole
<1> QED
  BY <1>1, <1>2 DEF NewThreads, HashInv, WriterHolds

ContentInv == OwnInv /\ BuffersInv /\ DroppedInv /\ CopyInv /\ HashInv

LEMMA ContentInit == SkippedIsEmpty /\ Init => ContentInv
BY PipelineInvInit, BuffersInit, CopyInit, HashInit DEF PipelineInv, Init, ContentInv

LEMMA ContentStep == ContentInv /\ [Next]_vars => ContentInv'
BY OwnStep, BuffersStep, DroppedStep, CopyStep, HashStep DEF ContentInv

\* ProcessedIsDone: as long as no write failed, what is marked as processed is
\* on the target and has its checksum (unless the checkpoint called it processed
\* and came without), although three kinds of threads set bits of the bitmap
\* without a lock, and from every checkpoint that CheckpointLeft admits.
THEOREM MarkedIsDone == SkippedIsEmpty => (Spec => []ProcessedIsDone)
<1> SUFFICES ASSUME SkippedIsEmpty PROVE Spec => []ProcessedIsDone
  OBVIOUS
<1>1. Init => ContentInv
  BY ContentInit
<1>2. ContentInv => ProcessedIsDone
  BY DEF ContentInv, OwnInv, TypeOK, DataTypeOK, CopyInv, HashInv, IsSettled,
     Copied, Hashed, ProcessedIsDone
<1> QED
  BY <1>1, <1>2, ContentStep, PTL DEF Spec

-----------------------------------------------------------------------------
(* What the reader is past.                                                *)

\* Where the reader goes over a block it has read it or found it processed.
LEMMA FrontierMoves ==
  ASSUME OwnInv, [Next]_vars, NEW b \in Blocks, b >= Frontier, b < Frontier'
  PROVE  b \in processed \/ (ReaderRead /\ b = m_currentIndex)
<1> USE DEF OwnInv
<1>1. b \in Int /\ m_currentIndex \in Int /\ m_currentIndex' \in Int
  BY IndexTypes, TypeStep DEF TypeOK, ReaderTypeOK
<1>2. /\ readerPc \in {"push", "count"} => Frontier = m_currentIndex + 1
      /\ readerPc \notin {"push", "count"} => Frontier = m_currentIndex
      /\ readerPc' \in {"push", "count"} => Frontier' = m_currentIndex' + 1
      /\ readerPc' \notin {"push", "count"} => Frontier' = m_currentIndex'
  BY DEF Frontier
<1>3. CASE ReaderStart
  <2>1. readerPc = "start" /\ readerPc' = "check" /\ m_currentIndex = 0
    BY <1>3 DEF ReaderStart, StartOrder
  <2>2. Frontier = 0 /\ Frontier' = m_currentIndex'
    BY <1>2, <2>1
  <2>3. 0 <= b /\ b < m_currentIndex'
    BY <1>1, <2>2
  <2>4. b \in 0 .. m_currentIndex' - 1
    <3>1. \A i, j \in Int : 0 <= i /\ i < j => i \in 0 .. j - 1
      OBVIOUS
    <3> QED
      BY <1>1, <2>3, <3>1
  <2>6. m_currentIndex' # 0
    BY <1>1, <2>3
  <2>5. m_currentIndex' = 0 \/ FirstIndexUnset(processed, m_currentIndex')
    BY <1>3 DEF ReaderStart
  <2> QED
    BY <2>4, <2>5, <2>6 DEF FirstIndexUnset
<1>4. CASE ReaderNext
  <2>1. /\ readerPc = "check" /\ readerPc' \in {"check", "alloc"}
        /\ \/ m_currentIndex \in processed /\ m_currentIndex' = m_currentIndex + 1
           \/ m_currentIndex' = m_currentIndex
    BY <1>4 DEF ReaderNext, SkipReadingBlock
  <2> QED
    BY <1>1, <1>2, <2>1
<1>5. CASE ReaderRead
  <2>1. readerPc = "read" /\ readerPc' = "push" /\ m_currentIndex' = m_currentIndex
    BY <1>5 DEF ReaderRead
  <2> QED
    BY <1>1, <1>2, <1>5, <2>1
<1>6. CASE Frontier' = Frontier
  BY <1>1, <1>2, <1>6
<1>7. ASSUME ~ReaderStart, ~ReaderNext, ~ReaderRead PROVE Frontier' = Frontier
  <2>1. CASE UNCHANGED <<readerPc, m_currentIndex>>
    BY <1>2, <2>1
  <2>2. CASE StartReader
    BY <1>2, <2>2 DEF StartReader, FinishInv, ReaderOrder
  <2>3. CASE ReaderCount
    BY <1>2, <2>3 DEF ReaderCount
  <2>4. CASE ReaderPush
    BY <1>2, <2>4 DEF ReaderPush
  <2>5. CASE ReaderLeave \/ ReaderAlloc \/ ReaderAllocTimeout \/ ReaderReadFail
             \/ ReaderFinish
    BY <1>2, <2>5 DEF ReaderLeave, ReaderAlloc, ReaderAllocTimeout,
       ReaderReadFail, ReaderFinish
  <2>6. (Start /\ ~StartReader) \/ (\E t \in Tasks : Abort(t)) \/ SetPause(~m_pause)
        \/ UNCHANGED vars => UNCHANGED <<readerPc, m_currentIndex>>
    BY DEF Start, StartHasher, StartWriter, Abort, SetPause, vars, readerVars
  <2>7. ASSUME NEW w \in Workers, Worker(w) PROVE UNCHANGED <<readerPc, m_currentIndex>>
    BY <2>7 DEF readerVars, Worker, WorkerStart, WorkerCheck, WorkerPop, WorkerDrained,
       WorkerHash, WorkerDrop, WorkerMark, WorkerForward, WorkerExit, WorkerLast
  <2>8. Writer => UNCHANGED <<readerPc, m_currentIndex>>
    BY DEF readerVars, Writer, WriterCheck, WriterPop, WriterDrained, WriterDiscard,
       WriterWrite, WriterWriteFail, WriterMark, WriterStore, WriterVerdict
  <2> QED
    BY <1>7, <2>1, <2>2, <2>3, <2>4, <2>5, <2>6, <2>7, <2>8 DEF Next, Threads, Reader, Start
<1> QED
  BY <1>3, <1>4, <1>5, <1>6, <1>7

\* What became of a block the reader is past after a step.
LEMMA StillCovered ==
  ASSUME OwnInv, [Next]_vars, NEW b \in Blocks, b < Frontier'
  PROVE  \/ \E x \in InFlight' : x[3].index = b
         \/ \E x \in InFlight : Leaves(x) /\ x[3].index = b
         \/ b < Frontier /\ \A x \in InFlight : x[3].index # b
         \/ b \in processed
<1>1. Kept
  BY BlocksMove DEF OwnInv
<1>2. CASE b < Frontier
  BY <1>1, <1>2 DEF Kept
<1>3. CASE b >= Frontier
  <2>1. CASE ReaderRead /\ b = m_currentIndex
    <3>1. ReadBlock \in InFlight' /\ ReadBlock[3].index = b
      BY <2>1, ReaderReadAdds DEF ReadBlock
    <3> QED
      BY <3>1
  <2> QED
    BY <1>3, <2>1, FrontierMoves
<1>4. b \in Int /\ Frontier \in Int
  BY IndexTypes, FrontierStep DEF OwnInv
<1> QED
  BY <1>2, <1>3, <1>4

\* As long as no write failed, what the reader is past is in flight or copied ...
CopiedSoFar ==
  ~m_failed => \A b \in Blocks : b < Frontier =>
                 Copied(b) \/ \E x \in InFlight : x[3].index = b

\* ... and in flight or in the checksum table.
HashedSoFar ==
  ~m_failed => \A b \in Blocks : b < Frontier =>
                 Hashed(b) \/ \E x \in InFlight : x[3].index = b

LEMMA CopiedSoFarStep ==
  OwnInv /\ BuffersInv /\ DroppedInv /\ CopyInv /\ CopiedSoFar /\ [Next]_vars => CopiedSoFar'
<1> SUFFICES ASSUME OwnInv, BuffersInv, DroppedInv, CopyInv, CopiedSoFar, [Next]_vars,
                    ~m_failed', NEW b \in Blocks, b < Frontier',
                    ~\E x \in InFlight' : x[3].index = b
             PROVE  Copied(b)'
  BY DEF CopiedSoFar
<1>1. ~m_failed
  BY NoFailureBefore
<1>2. b \in processed => Copied(b)
  BY <1>1 DEF CopyInv, IsSettled
<1>3. Copied(b)
  BY <1>1, <1>2, StillCovered, LeavesCopied DEF CopiedSoFar
<1> QED
  BY <1>3, CopiedStays

LEMMA HashedSoFarStep ==
  OwnInv /\ BuffersInv /\ HashInv /\ HashedSoFar /\ [Next]_vars => HashedSoFar'
<1> SUFFICES ASSUME OwnInv, BuffersInv, HashInv, HashedSoFar, [Next]_vars,
                    ~m_failed', NEW b \in Blocks, b < Frontier',
                    ~\E x \in InFlight' : x[3].index = b
             PROVE  Hashed(b)'
  BY DEF HashedSoFar
<1>1. ~m_failed
  BY NoFailureBefore
<1>2. b \in processed => Hashed(b)
  BY <1>1 DEF HashInv, IsSettled
<1>3. Hashed(b)
  BY <1>1, <1>2, StillCovered, LeavesHashed DEF HashedSoFar
<1> QED
  BY <1>3, HashedStays

-----------------------------------------------------------------------------
(* What the status of a sub-task says.                                     *)

ReaderVerdict ==
  /\ status["reader"] = "SUCCEED" =>
       readerPc \in {"finish", "done"} /\ m_currentIndex = TotalBlocks
  /\ status["reader"] = "FAILED" => readerPc \in {"idle", "finish", "done"}

LEMMA ReaderVerdictStep ==
  ASSUME TypeOK, FinishInv, ReaderVerdict, [Next]_vars
  PROVE  ReaderVerdict' /\ (status["reader"] = "FAILED" => status'["reader"] = "FAILED")
<1> DEFINE Goal == ReaderVerdict' /\ (status["reader"] = "FAILED" => status'["reader"] = "FAILED")
<1> SUFFICES Goal
  OBVIOUS
<1> USE DEF ReaderVerdict, TypeOK, ControlTypeOK, readerVars, control, SetStatus
<1>1. CASE Start
  BY <1>1 DEF Start, StartReader, StartHasher, StartWriter, FinishInv, ReaderOrder
<1>2. CASE (\E t \in Tasks : Abort(t)) \/ SetPause(~m_pause) \/ UNCHANGED vars
  BY <1>2 DEF Abort, SetPause, vars, IsTerminated
<1>3. CASE Reader
  <2>1. ReaderLeave => Goal
    BY IndexTypes DEF ReaderLeave, m_maxIndex, ReaderTypeOK
  <2>2. ReaderStart \/ ReaderNext \/ ReaderAlloc \/ ReaderAllocTimeout \/ ReaderRead => Goal
    BY DEF ReaderStart, ReaderNext, ReaderAlloc, ReaderAllocTimeout, ReaderRead
  <2>3. ReaderReadFail \/ ReaderPush \/ ReaderCount \/ ReaderFinish => Goal
    BY DEF ReaderReadFail, ReaderPush, ReaderCount, ReaderFinish
  <2> HIDE DEF Goal
  <2> QED
    BY <1>3, <2>1, <2>2, <2>3 DEF Reader
<1>4. ASSUME NEW v \in Workers, Worker(v) PROVE Goal
  BY <1>4 DEF Worker, WorkerStart, WorkerCheck, WorkerPop, WorkerDrained,
     WorkerHash, WorkerDrop, WorkerMark, WorkerForward, WorkerExit, WorkerLast
<1>5. CASE Writer
  BY <1>5 DEF Writer, WriterCheck, WriterPop, WriterDrained, WriterDiscard,
     WriterWrite, WriterWriteFail, WriterMark, WriterStore, WriterVerdict
<1> HIDE DEF Goal
<1> QED
  BY <1>1, <1>2, <1>3, <1>4, <1>5 DEF Next, Threads

\* Nothing comes any more, from either side.
WriteOver == "write" \in finished /\ writeQueue = <<>>

LEMMA WriteOverStays ==
  ASSUME TypeOK, FinishInv, [Next]_vars, WriteOver
  PROVE  WriteOver'
<1> USE DEF WriteOver, queues, Finish
<1>1. CASE Start \/ (\E t \in Tasks : Abort(t)) \/ SetPause(~m_pause) \/ UNCHANGED vars
  BY <1>1 DEF Start, StartReader, StartHasher, StartWriter, Abort, SetPause, vars
<1>2. CASE Reader
  BY <1>2 DEF Reader, ReaderStart, ReaderLeave, ReaderNext, ReaderAlloc,
     ReaderAllocTimeout, ReaderRead, ReaderReadFail, ReaderPush, ReaderCount,
     ReaderFinish, Pushed
<1>3. ASSUME NEW v \in Workers, Worker(v) PROVE WriteOver'
  BY <1>3 DEF Worker, WorkerStart, WorkerCheck, WorkerPop, WorkerDrained,
     WorkerHash, WorkerDrop, WorkerMark, WorkerForward, WorkerExit, WorkerLast, Pushed
<1>4. CASE Writer
  BY <1>4 DEF Writer, WriterCheck, WriterPop, WriterDrained, WriterDiscard,
     WriterWrite, WriterWriteFail, WriterMark, WriterStore, WriterVerdict
<1> HIDE DEF WriteOver
<1> QED
  BY <1>1, <1>2, <1>3, <1>4 DEF Next, Threads

HasherVerdict ==
  /\ status["hasher"] = "SUCCEED" => ~HasherEnabled \/ HashingOver
  /\ ~HasherEnabled => hashingQueue = <<>>

LEMMA HasherVerdictStep ==
  ASSUME TypeOK, FinishInv, HasherVerdict, [Next]_vars
  PROVE  HasherVerdict'
<1> USE CauseStays DEF HasherVerdict, TypeOK, ControlTypeOK, control, queues, SetStatus
<1>1. CASE Start
  BY <1>1 DEF Start, StartReader, StartHasher, StartWriter
<1>2. CASE (\E t \in Tasks : Abort(t)) \/ SetPause(~m_pause) \/ UNCHANGED vars
  BY <1>2 DEF Abort, SetPause, vars, IsTerminated
<1>3. CASE Reader
  BY <1>3 DEF Reader, ReaderStart, ReaderLeave, ReaderNext, ReaderAlloc,
     ReaderAllocTimeout, ReaderRead, ReaderReadFail, ReaderPush, ReaderCount,
     ReaderFinish, ReaderQueue
<1>4. ASSUME NEW v \in Workers, Worker(v) PROVE HasherVerdict'
  BY <1>4 DEF Worker, WorkerStart, WorkerCheck, WorkerPop, WorkerDrained,
     WorkerHash, WorkerDrop, WorkerMark, WorkerForward, WorkerExit, WorkerLast,
     EndOfQueue, HashingOver
<1>5. CASE Writer
  BY <1>5 DEF Writer, WriterCheck, WriterPop, WriterDrained, WriterDiscard,
     WriterWrite, WriterWriteFail, WriterMark, WriterStore, WriterVerdict
<1> HIDE DEF HasherVerdict
<1> QED
  BY <1>1, <1>2, <1>3, <1>4, <1>5 DEF Next, Threads

\* A failed write is counted, so that the writer's last look finds it.
WriterVerdicts ==
  /\ counter["blockesWriteFailed"] >= 0
  /\ m_failed => counter["blockesWriteFailed"] >= 1
  /\ status["writer"] = "SUCCEED" => writerPc \in {"verdict", "done"} /\ WriteOver
  /\ status["writer"] = "SUCCEED" /\ writerPc = "done" => ~m_failed

LEMMA WriterVerdictsStep ==
  ASSUME TypeOK, FinishInv, StartOrder, WriterVerdicts, [Next]_vars
  PROVE  WriterVerdicts'
<1> USE WriteOverStays DEF WriterVerdicts, TypeOK, ControlTypeOK, WriterTypeOK,
        control, writerVars, SetStatus, Add
<1>1. CASE Start
  BY <1>1 DEF Start, StartReader, StartHasher, StartWriter, StartOrder
<1>2. CASE (\E t \in Tasks : Abort(t)) \/ SetPause(~m_pause) \/ UNCHANGED vars
  BY <1>2 DEF Abort, SetPause, vars, IsTerminated
<1>3. CASE Reader
  BY <1>3 DEF Reader, ReaderStart, ReaderLeave, ReaderNext, ReaderAlloc,
     ReaderAllocTimeout, ReaderRead, ReaderReadFail, ReaderPush, ReaderCount,
     ReaderFinish
<1>4. ASSUME NEW v \in Workers, Worker(v) PROVE WriterVerdicts'
  BY <1>4 DEF Worker, WorkerStart, WorkerCheck, WorkerPop, WorkerDrained,
     WorkerHash, WorkerDrop, WorkerMark, WorkerForward, WorkerExit, WorkerLast
<1>5. CASE Writer
  <2>1. WriterDrained \/ WriterVerdict => WriterVerdicts'
    BY DEF WriterDrained, WriterVerdict, EndOfQueue, WriteOver
  <2>2. WriterDiscard \/ WriterWriteFail \/ WriterStore => WriterVerdicts'
    BY DEF WriterDiscard, WriterWriteFail, WriterStore
  <2>3. WriterCheck \/ WriterPop \/ WriterWrite \/ WriterMark => WriterVerdicts'
    BY DEF WriterCheck, WriterPop, WriterWrite, WriterMark
  <2> HIDE DEF WriterVerdicts
  <2> QED
    BY <1>5, <2>1, <2>2, <2>3 DEF Writer
<1> HIDE DEF WriterVerdicts
<1> QED
  BY <1>1, <1>2, <1>3, <1>4, <1>5 DEF Next, Threads

VerdictInv == ReaderVerdict /\ HasherVerdict /\ WriterVerdicts

LEMMA VerdictStep == OwnInv /\ VerdictInv /\ [Next]_vars => VerdictInv'
BY ReaderVerdictStep, HasherVerdictStep, WriterVerdictsStep DEF OwnInv, VerdictInv

LEMMA VerdictInit ==
  NewThreads /\ counter["blockesWriteFailed"] = 0 => VerdictInv
BY DEF NewThreads, VerdictInv, ReaderVerdict, HasherVerdict, WriterVerdicts

-----------------------------------------------------------------------------
(* Who holds the buffers.                                                  *)

\* No buffer is lost, as long as neither a read nor a write failed.
AllocInv ==
  ~m_failed =>
    \A p \in allocTable : \/ \E x \in InFlight : x[3].ptr = p
                          \/ readerPc = "read" /\ readerPtr = p
                          \/ status["reader"] = "FAILED"

LEMMA AllocStep == OwnInv /\ AllocInv /\ VerdictInv /\ [Next]_vars => AllocInv'
<1> SUFFICES ASSUME OwnInv, AllocInv, VerdictInv, [Next]_vars, ~m_failed'
             PROVE  \A p \in allocTable' : \/ \E x \in InFlight' : x[3].ptr = p
                                           \/ readerPc' = "read" /\ readerPtr' = p
                                           \/ status'["reader"] = "FAILED"
  BY DEF AllocInv
<1> SUFFICES ASSUME NEW p \in allocTable', status'["reader"] # "FAILED"
             PROVE  \/ \E x \in InFlight' : x[3].ptr = p
                    \/ readerPc' = "read" /\ readerPtr' = p
  OBVIOUS
<1>1. ~m_failed /\ ~WriterWriteFail /\ ~WriterDiscard
  BY NoFailureBefore DEF WriterDiscard
<1>2. TypeOK /\ FinishInv /\ StartOrder /\ Kept
  BY BlocksMove DEF OwnInv
<1>3. status["reader"] # "FAILED"
  BY <1>2, ReaderVerdictStep DEF VerdictInv
<1>4. p \in allocTable => \/ \E x \in InFlight : x[3].ptr = p
                          \/ readerPc = "read" /\ readerPtr = p
  BY <1>1, <1>3 DEF AllocInv
<1>5. CASE ReaderAlloc
  <2>1. /\ readerPc = "alloc" /\ readerPc' = "read"
        /\ p \in allocTable \/ p = readerPtr'
    BY <1>5 DEF ReaderAlloc, BlockAlloc
  <2>2. \A x \in InFlight : ~Leaves(x)
    BY <2>1 DEF Leaves, readerVars, WorkerDrop, WriterStore, WriterDiscard
  <2> QED
    BY <1>2, <1>4, <2>1, <2>2 DEF Kept
<1>6. CASE ReaderRead
  <2>1. InFlight' = InFlight \cup {ReadBlock} /\ ReadBlock[3].ptr = readerPtr
    BY <1>6, ReaderReadAdds DEF ReadBlock
  <2>2. p \in allocTable
    BY <1>6 DEF ReaderRead
  <2> QED
    BY <1>4, <2>1, <2>2
<1>7. CASE WriterStore \/ \E w \in Workers : WorkerDrop(w)
  <2>1. PICK x \in InFlight :
           /\ InFlight' = InFlight \ {x}
           /\ allocTable' = allocTable \ {x[3].ptr}
           /\ UNCHANGED <<pool, readerPc, readerPtr>>
    BY <1>7, LeavingFrees
  <2> QED
    BY <1>4, <2>1
<1>8. ASSUME ~ReaderAlloc, ~ReaderRead, ~WriterStore, \A w \in Workers : ~WorkerDrop(w)
      PROVE  \/ \E x \in InFlight' : x[3].ptr = p
             \/ readerPc' = "read" /\ readerPtr' = p
  <2>1. SameBuffers /\ \A x \in InFlight : ~Leaves(x)
    BY <1>1, <1>8, OtherStepsBuffer DEF Leaves
  <2>2. p \in allocTable
    BY <2>1 DEF SameBuffers, buffers
  <2>3. CASE \E x \in InFlight : x[3].ptr = p
    BY <1>2, <2>1, <2>3 DEF Kept
  <2>4. CASE readerPc = "read" /\ readerPtr = p
    <3> USE DEF readerVars
    <3>1. CASE Start \/ (\E t \in Tasks : Abort(t)) \/ SetPause(~m_pause) \/ UNCHANGED vars
      BY <1>2, <2>4, <3>1 DEF Start, StartReader, StartHasher, StartWriter, Abort,
         SetPause, vars, FinishInv, ReaderOrder
    <3>2. CASE Reader
      <4>1. ReaderReadFail
        BY <1>8, <2>4, <3>2 DEF Reader, ReaderStart, ReaderLeave, ReaderNext,
           ReaderAlloc, ReaderAllocTimeout, ReaderPush, ReaderCount, ReaderFinish
      <4> QED
        BY <1>2, <4>1 DEF ReaderReadFail, SetStatus, TypeOK, ControlTypeOK
    <3>3. ASSUME NEW v \in Workers, Worker(v) PROVE UNCHANGED readerVars
      BY <3>3 DEF Worker, WorkerStart, WorkerCheck, WorkerPop, WorkerDrained,
         WorkerHash, WorkerDrop, WorkerMark, WorkerForward, WorkerExit, WorkerLast
    <3>4. Writer => UNCHANGED readerVars
      BY DEF Writer, WriterCheck, WriterPop, WriterDrained, WriterDiscard,
         WriterWrite, WriterWriteFail, WriterMark, WriterStore, WriterVerdict
    <3> QED
      BY <2>4, <3>1, <3>2, <3>3, <3>4 DEF Next, Threads
  <2> QED
    BY <1>4, <2>2, <2>3, <2>4
<1> QED
  BY <1>5, <1>6, <1>7, <1>8

-----------------------------------------------------------------------------
(* A session that succeeds.                                                *)

\* When the three sub-tasks succeed, all has gone through the session.
LEMMA SucceededIsOver ==
  ASSUME OwnInv, VerdictInv, AllSucceeded
  PROVE  /\ ~m_failed /\ InFlight = {}
         /\ readerPc \in {"finish", "done"} /\ \A b \in Blocks : b < Frontier
<1> USE DEF OwnInv, VerdictInv, AllSucceeded
<1>1. ~m_failed /\ writerPc = "done" /\ WriteOver
  BY DEF WriterVerdicts
<1>2. readerPc \in {"finish", "done"} /\ Frontier = TotalBlocks
  BY DEF ReaderVerdict, Frontier
<1>3. hashingQueue = <<>>
  BY DEF HasherVerdict, HashingOver
<1>4. \A w \in Workers : ~WorkerHolds(w)
  BY <1>1 DEF WriteOver, FinishInv, WriteFinished, WorkersTogether, WorkerHolds
<1>5. InFlight = {}
  BY <1>1, <1>2, <1>3, <1>4 DEF InFlight, WriterHolds, WriteOver
<1>6. \A b \in Blocks : b < Frontier
  BY <1>2, IndexTypes DEF Blocks
<1> QED
  BY <1>1, <1>2, <1>5, <1>6

SessionInv ==
  ContentInv /\ CopiedSoFar /\ HashedSoFar /\ VerdictInv /\ AllocInv

LEMMA SessionInvInit == SkippedIsEmpty /\ Init => SessionInv
<1> SUFFICES ASSUME SkippedIsEmpty, Init PROVE SessionInv
  OBVIOUS
<1>1. NewThreads /\ ContentInv
  BY ContentInit DEF Init
<1>2. CopiedSoFar /\ HashedSoFar
  <2>1. \A b \in Blocks : ~(b < 0)
    BY IndexTypes DEF Blocks
  <2> QED
    BY <1>1, <2>1, NewThreadsHold DEF CopiedSoFar, HashedSoFar
<1>3. counter["blockesWriteFailed"] = 0
  BY DEF Init, NewCounter, RestoredCounter, CounterNames
<1>4. AllocInv
  BY <1>1 DEF NewThreads, AllocInv
<1> QED
  BY <1>1, <1>2, <1>3, <1>4, VerdictInit DEF SessionInv

LEMMA SessionInvStep == SessionInv /\ [Next]_vars => SessionInv'
BY ContentStep, CopiedSoFarStep, HashedSoFarStep, VerdictStep, AllocStep
   DEF SessionInv, ContentInv

\* SuccessIsComplete: when reader, hasher and writer report success, the whole
\* source is on the target and every buffer is free, however the failures, aborts
\* and pauses on the way came out; a checksum is missing only where the checkpoint
\* that was loaded (RestoreSessionCheckpoint) had none for a block it called
\* processed.
THEOREM SuccessMeansComplete == SkippedIsEmpty => (Spec => []SuccessIsComplete)
<1> SUFFICES ASSUME SkippedIsEmpty PROVE Spec => []SuccessIsComplete
  OBVIOUS
<1>1. Init => SessionInv
  BY SessionInvInit
<1>2. SessionInv => SuccessIsComplete
  <2> SUFFICES ASSUME SessionInv, AllSucceeded
               PROVE  /\ InFlight = {} /\ allocTable = {}
                      /\ target = source
                      /\ \A b \in Blocks : Hashed(b)
    BY DEF SuccessIsComplete, Hashed
  <2>1. /\ ~m_failed /\ InFlight = {}
        /\ readerPc \in {"finish", "done"} /\ \A b \in Blocks : b < Frontier
    BY SucceededIsOver DEF SessionInv, ContentInv
  <2>2. allocTable = {}
    BY <2>1 DEF SessionInv, AllocInv, AllSucceeded
  <2>3. \A b \in Blocks : Copied(b) /\ Hashed(b)
    BY <2>1 DEF SessionInv, CopiedSoFar, HashedSoFar
  <2>4. target = source
    BY <2>3 DEF SessionInv, ContentInv, OwnInv, TypeOK, DataTypeOK, Copied
  <2> QED
    BY <2>1, <2>2, <2>3, <2>4
<1> QED
  BY <1>1, <1>2, SessionInvStep, PTL DEF Spec

-----------------------------------------------------------------------------
(* Room in the queues.                                                     *)

\* There are no more blocks in flight than buffers allocated, but for the one
\* buffer that a failed write frees twice: the second time it may be another
\* block's already.
FlightCount ==
  /\ IsFiniteSet(InFlight)
  /\ Cardinality(InFlight) + (IF readerPc = "read" THEN 1 ELSE 0)
       <= Cardinality(allocTable) + (IF m_failed THEN 1 ELSE 0)

LEMMA FlightCountStep == OwnInv /\ FlightCount /\ [Next]_vars => FlightCount'
<1> SUFFICES ASSUME OwnInv, FlightCount, [Next]_vars PROVE FlightCount'
  OBVIOUS
<1> DEFINE n == Cardinality(InFlight)
           nn == Cardinality(InFlight')
           a == Cardinality(allocTable)
           aa == Cardinality(allocTable')
<1>1. TypeOK /\ TypeOK' /\ FinishInv /\ StartOrder
  BY OwnStep DEF OwnInv
<1>2. /\ IsFiniteSet(allocTable) /\ IsFiniteSet(allocTable')
      /\ a \in Nat /\ aa \in Nat /\ n \in Nat
  <2>1. IsFiniteSet(Slots)
    BY IndexTypes, SizesAssumption, FS_Interval DEF Slots
  <2> QED
    BY <1>1, <2>1, FS_Subset, FS_CardinalityType DEF TypeOK, DataTypeOK, FlightCount
<1>3. ASSUME Carried PROVE IsFiniteSet(InFlight') /\ nn <= n /\ nn \in Nat
  <2>1. PICK f \in [InFlight' -> InFlight] : \A x, y \in InFlight' : f[x] = f[y] => x = y
    BY <1>3 DEF Carried
  <2>2. f \in Injection(InFlight', InFlight)
    BY <2>1 DEF Injection, IsInjective
  <2> QED
    BY <2>2, FS_Injection, FS_CardinalityType DEF FlightCount
<1>4. m_failed' = m_failed \/ (WriterWriteFail /\ ~m_failed /\ m_failed')
  BY FailureStays DEF WriterWriteFail
<1>5. CASE ReaderRead
  <2>1. IsFiniteSet(InFlight') /\ nn <= n + 1 /\ nn \in Nat
    <3>1. InFlight' = InFlight \cup {ReadBlock}
      BY <1>5, ReaderReadAdds
    <3>2. /\ IsFiniteSet(InFlight \cup {ReadBlock})
          /\ Cardinality(InFlight \cup {ReadBlock}) \in {n, n + 1}
      BY FS_AddElement DEF FlightCount
    <3> QED
      BY <1>2, <3>1, <3>2
  <2>2. readerPc = "read" /\ readerPc' # "read" /\ aa = a /\ m_failed' = m_failed
    BY <1>5 DEF ReaderRead, writerVars
  <2> QED
    BY <1>2, <2>1, <2>2 DEF FlightCount
<1>6. CASE ReaderAlloc
  <2>1. /\ readerPc = "alloc" /\ m_failed' = m_failed
        /\ \E p \in Slots \ allocTable : allocTable' = allocTable \cup {p}
    BY <1>6 DEF ReaderAlloc, BlockAlloc, writerVars
  <2>2. aa = a + 1
    BY <1>2, <2>1, FS_AddElement
  <2>3. Carried
    BY <2>1, <1>1, <1>6, BlocksMove DEF ReaderRead, ReaderAlloc
  <2> QED
    BY <1>2, <1>3, <2>1, <2>2, <2>3 DEF FlightCount
<1>7. CASE WriterStore \/ WriterDiscard \/ \E w \in Workers : WorkerDrop(w)
  <2>1. PICK x \in InFlight :
           /\ InFlight' = InFlight \ {x}
           /\ allocTable' = allocTable \ {x[3].ptr}
           /\ UNCHANGED <<pool, readerPc, readerPtr>>
    BY <1>7, LeavingFrees
  <2>2. IsFiniteSet(InFlight') /\ nn = n - 1
    BY <2>1, FS_RemoveElement DEF FlightCount
  <2>3. aa >= a - 1
    <3>1. Cardinality(allocTable \ {x[3].ptr}) \in {a, a - 1}
      BY <1>2, FS_RemoveElement
    <3> QED
      BY <1>2, <2>1, <3>1
  <2>4. m_failed' = m_failed
    BY <1>7 DEF WriterStore, WriterDiscard, WorkerDrop, writerVars
  <2> QED
    BY <1>2, <2>1, <2>2, <2>3, <2>4 DEF FlightCount
<1>8. CASE WriterWriteFail
  <2>1. /\ ~m_failed /\ m_failed' /\ readerPc' = readerPc
        /\ allocTable' = allocTable \ {writerBlock.ptr}
    BY <1>8 DEF WriterWriteFail, BlockFree, readerVars
  <2>2. aa >= a - 1
    <3>1. Cardinality(allocTable \ {writerBlock.ptr}) \in {a, a - 1}
      BY <1>2, FS_RemoveElement
    <3> QED
      BY <1>2, <2>1, <3>1
  <2>3. Carried
    BY <1>1, <1>8, BlocksMove DEF ReaderRead, WriterWriteFail, readerVars
  <2> QED
    BY <1>2, <1>3, <2>1, <2>2, <2>3 DEF FlightCount
<1>9. ASSUME ~ReaderAlloc, ~ReaderRead, ~WriterStore, ~WriterDiscard,
             ~WriterWriteFail, \A w \in Workers : ~WorkerDrop(w)
      PROVE  FlightCount'
  <2>1. SameBuffers /\ Carried /\ m_failed' = m_failed
    BY <1>1, <1>4, <1>9, OtherStepsBuffer, BlocksMove
  <2>2. aa = a /\ (readerPc' = "read" => readerPc = "read")
    BY <2>1 DEF SameBuffers, buffers
  <2> QED
    BY <1>2, <1>3, <2>1, <2>2 DEF FlightCount
<1> QED
  BY <1>5, <1>6, <1>7, <1>8, <1>9

\* The items of a queue and one block that another place holds are all in flight.
LEMMA QueueInFlight ==
  ASSUME TypeOK, IsFiniteSet(InFlight), NEW x \in InFlight, x[1] \notin Queues
  PROVE  /\ Len(hashingQueue) + 1 <= Cardinality(InFlight)
         /\ Len(writeQueue) + 1 <= Cardinality(InFlight)
<1>1. ASSUME NEW q \in Seq(ConsumeBlock), NEW name \in Queues,
             \A i \in DOMAIN q : <<name, i, q[i]>> \in InFlight
      PROVE  Len(q) + 1 <= Cardinality(InFlight)
  <2> DEFINE f == [i \in 1 .. Len(q) + 1 |-> IF i \in 1 .. Len(q) THEN <<name, i, q[i]>> ELSE x]
  <2>1. Len(q) \in Nat /\ DOMAIN q = 1 .. Len(q)
    BY QueueDomain
  <2>2. f \in [1 .. Len(q) + 1 -> InFlight]
    BY <1>1, <2>1
  <2>3. \A i, j \in 1 .. Len(q) + 1 : f[i] = f[j] => i = j
    <3> SUFFICES ASSUME NEW i \in 1 .. Len(q) + 1, NEW j \in 1 .. Len(q) + 1, f[i] = f[j]
                 PROVE  i = j
      OBVIOUS
    <3>1. CASE i \in 1 .. Len(q) /\ j \in 1 .. Len(q)
      BY <3>1
    <3>2. CASE i \notin 1 .. Len(q) /\ j \notin 1 .. Len(q)
      BY <2>1, <3>2
    <3>3. CASE i \in 1 .. Len(q) /\ j \notin 1 .. Len(q)
      BY <3>3, <1>1
    <3>4. CASE i \notin 1 .. Len(q) /\ j \in 1 .. Len(q)
      BY <3>4, <1>1
    <3> QED
      BY <3>1, <3>2, <3>3, <3>4
  <2>4. f \in Injection(1 .. Len(q) + 1, InFlight)
    BY <2>2, <2>3 DEF Injection, IsInjective
  <2>5. Cardinality(1 .. Len(q) + 1) = Len(q) + 1
    BY <2>1, FS_Interval
  <2> QED
    BY <2>4, <2>5, FS_Injection
<1>2. /\ \A i \in DOMAIN hashingQueue : <<"hashing", i, hashingQueue[i]>> \in InFlight
      /\ \A i \in DOMAIN writeQueue : <<"write", i, writeQueue[i]>> \in InFlight
  BY DEF InFlight
<1>3. hashingQueue \in Seq(ConsumeBlock) /\ writeQueue \in Seq(ConsumeBlock)
  BY DEF TypeOK, QueuesTypeOK
<1> QED
  BY <1>1, <1>2, <1>3

\* PushNeverWaits: with no more buffers than a queue has places a push never
\* finds its queue full; with fewer, as the defaults have it, not even after a
\* failed write.
THEOREM PushFindsRoom ==
  AllocatorBlockNum <= QueueSize => (Spec => []PushNeverWaits)
<1> SUFFICES ASSUME AllocatorBlockNum <= QueueSize PROVE Spec => []PushNeverWaits
  OBVIOUS
<1>1. Init => OwnInv /\ FlightCount
  <2> SUFFICES ASSUME Init PROVE FlightCount
    BY PipelineInvInit DEF PipelineInv
  <2>1. InFlight = {} /\ allocTable = {} /\ readerPc # "read" /\ m_failed = FALSE
    BY NewThreadsHold DEF Init, NewThreads
  <2> QED
    BY <2>1, FS_EmptySet DEF FlightCount
<1>2. OwnInv /\ FlightCount /\ [Next]_vars => (OwnInv /\ FlightCount)'
  BY OwnStep, FlightCountStep
<1>3. OwnInv /\ FlightCount => PushNeverWaits
  <2> SUFFICES ASSUME OwnInv, FlightCount, ~m_failed \/ AllocatorBlockNum < QueueSize
               PROVE  PushNeverWaits
    BY DEF PushNeverWaits
  <2>1. ASSUME NEW x \in InFlight, x[1] \notin Queues
        PROVE  Len(hashingQueue) < QueueSize /\ Len(writeQueue) < QueueSize
    <3>1. Cardinality(InFlight) <= QueueSize /\ Cardinality(InFlight) \in Nat
      <4>1. IsFiniteSet(Slots) /\ Cardinality(Slots) = AllocatorBlockNum
        BY SizesAssumption, FS_Interval DEF Slots
      <4>2. Cardinality(allocTable) <= AllocatorBlockNum /\ Cardinality(allocTable) \in Nat
        BY <4>1, FS_Subset, FS_CardinalityType DEF OwnInv, TypeOK, DataTypeOK
      <4>3. Cardinality(InFlight) \in Nat
        BY FS_CardinalityType DEF FlightCount
      <4> QED
        BY <4>2, <4>3, SizesAssumption DEF FlightCount
    <3>2. /\ Len(hashingQueue) + 1 <= Cardinality(InFlight)
          /\ Len(writeQueue) + 1 <= Cardinality(InFlight)
      BY <2>1, QueueInFlight DEF OwnInv, FlightCount
    <3>3. Len(hashingQueue) \in Nat /\ Len(writeQueue) \in Nat
      BY QueueDomain DEF OwnInv, TypeOK, QueuesTypeOK
    <3> QED
      BY <3>1, <3>2, <3>3, SizesAssumption
  <2>2. readerPc = "push" => ReadBlock \in InFlight /\ ReadBlock[1] = "reader"
    BY DEF InFlight, ReadBlock
  <2>3. \A w \in Workers : workerPc[w] = "forward" =>
          <<"worker", w, workerBlock[w]>> \in InFlight
    BY DEF InFlight, WorkerHolds
  <2> QED
    BY <2>1, <2>2, <2>3 DEF PushNeverWaits, CanPush
<1> QED
  BY <1>1, <1>2, <1>3, PTL DEF Spec

-----------------------------------------------------------------------------
(* The statistics: what is announced and not done yet is what waits.       *)

\* The blocks in a queue, those that wait for a worker, and those that wait
\* for the writer or are at it.
Indices(q) == {q[i].index : i \in DOMAIN q}

ToHash ==
  Indices(hashingQueue)
  \cup {workerBlock[w].index : w \in {v \in Workers : workerPc[v] = "hash"}}

ToWrite ==
  Indices(writeQueue)
  \cup {workerBlock[w].index : w \in {v \in Workers : workerPc[v] = "forward"}}
  \cup (IF WriterHolds THEN {writerBlock.index} ELSE {})

\* The bytes of some blocks: of whole ones, less what the last one lacks.
Lacking(S) == IF m_maxIndex \in S THEN BlockSize - Length(m_maxIndex) ELSE 0
Weight(S) == Cardinality(S) * BlockSize - Lacking(S)

\* The blocks of the checkpoint that the reader has yet to skip.
Ahead == {b \in processed : b >= Frontier}

\* The reader counts a block after it has pushed it: it may be hashed, and
\* even written, before it is announced.
Uncounted(n) == IF readerPc = "count" THEN n ELSE 0

HashCount ==
  counter["blocksToHash"] + (IF HasherEnabled THEN Uncounted(1) ELSE 0)
    = counter["blocksHashed"] + Cardinality(ToHash)

WriteCount ==
  ~m_failed =>
    counter["bytesToWrite"] + (IF HasherEnabled THEN 0 ELSE Uncounted(Length(m_currentIndex)))
      = counter["bytesWritten"] + Weight(ToWrite)

\* A restart counts every block of the checkpoint as a whole one, unless all
\* are there.
ReadCount ==
  /\ counter["bytesToRead"] <= SessionSize
  /\ \/ counter["bytesRead"] >= SessionSize
     \/ counter["bytesRead"] >= (Frontier + Cardinality(Ahead)) * BlockSize

\* All blocks but the last one are whole.
LEMMA Lengths ==
  /\ m_maxIndex \in Blocks /\ m_maxIndex \in Nat
  /\ TotalBlocks = m_maxIndex + 1
  /\ \A b \in Blocks : b <= m_maxIndex /\ Length(b) \in Int /\ Length(b) >= 0
  /\ \A b \in Blocks : b # m_maxIndex => Length(b) = BlockSize
  /\ m_maxIndex * BlockSize + Length(m_maxIndex) = SessionSize
  /\ TotalBlocks * BlockSize >= SessionSize
<1> DEFINE q == SessionSize \div BlockSize
           r == SessionSize % BlockSize
<1>1. SessionSize \in Nat /\ BlockSize \in Nat \ {0} /\ TotalBlocks \in Nat \ {0}
  BY SizesAssumption
<1>2. q \in Nat /\ r \in 0 .. BlockSize - 1 /\ SessionSize = q * BlockSize + r
  BY <1>1
<1>3. TotalBlocks = IF r # 0 THEN q + 1 ELSE q
  BY <1>1, <1>2 DEF TotalBlocks
<1> HIDE DEF q, r
<1>4. m_maxIndex \in Nat /\ TotalBlocks = m_maxIndex + 1 /\ m_maxIndex <= q
      /\ m_maxIndex = (IF r # 0 THEN q ELSE q - 1)
  BY <1>1, <1>2, <1>3 DEF m_maxIndex
<1>5. m_maxIndex \in Blocks /\ \A b \in Blocks : b \in Nat /\ b <= m_maxIndex
  BY <1>4 DEF Blocks
<1>6. SessionSize - m_maxIndex * BlockSize = (IF r # 0 THEN r ELSE BlockSize)
  <2>1. CASE r # 0
    BY <1>1, <1>2, <1>4, <2>1
  <2>2. CASE r = 0
    <3>1. m_maxIndex * BlockSize = q * BlockSize - BlockSize
      BY <1>1, <1>2, <1>4, <2>2
    <3>2. q * BlockSize \in Int
      BY <1>1, <1>2
    <3> QED
      BY <1>1, <1>2, <2>2, <3>1, <3>2
  <2> QED
    BY <2>1, <2>2
<1>7. /\ Length(m_maxIndex) = (IF r # 0 THEN r ELSE BlockSize)
      /\ Length(m_maxIndex) = SessionSize - m_maxIndex * BlockSize
  BY <1>1, <1>2, <1>6 DEF Length
<1>8. ASSUME NEW b \in Blocks, b # m_maxIndex PROVE Length(b) = BlockSize
  <2>1. b \in Nat /\ q - b - 1 \in Nat
    BY <1>2, <1>4, <1>5, <1>8
  <2>2. SessionSize - b * BlockSize = (q - b - 1) * BlockSize + BlockSize + r
    BY <1>1, <1>2, <2>1
  <2>3. (q - b - 1) * BlockSize \in Nat
    BY <1>1, <2>1
  <2>4. SessionSize - b * BlockSize >= BlockSize
    BY <1>1, <1>2, <2>2, <2>3
  <2>5. SessionSize - b * BlockSize \in Int
    BY <1>1, <2>1
  <2> QED
    BY <1>1, <2>4, <2>5 DEF Length
<1>9. m_maxIndex * BlockSize \in Int
  BY <1>1, <1>4
<1>10. m_maxIndex * BlockSize + Length(m_maxIndex) = SessionSize
  BY <1>1, <1>7, <1>9
<1>11. TotalBlocks * BlockSize = m_maxIndex * BlockSize + BlockSize
  BY <1>1, <1>4
<1>12. TotalBlocks * BlockSize >= SessionSize
  BY <1>1, <1>2, <1>7, <1>9, <1>10, <1>11
<1>13. \A b \in Blocks : Length(b) \in Int /\ Length(b) >= 0
  BY <1>1, <1>2, <1>7, <1>8
<1> QED
  BY <1>4, <1>5, <1>8, <1>10, <1>12, <1>13

\* One block more is its length more.
LEMMA WeightAdds ==
  ASSUME NEW S \in SUBSET Blocks, NEW b \in Blocks \ S
  PROVE  Weight(S) \in Int /\ Weight(S \cup {b}) = Weight(S) + Length(b)
<1>1. /\ IsFiniteSet(S) /\ Cardinality(S) \in Nat
      /\ Cardinality(S \cup {b}) = Cardinality(S) + 1
  BY IndexTypes, FS_Subset, FS_AddElement, FS_CardinalityType
<1>2. BlockSize \in Int /\ Length(b) \in Int /\ Length(m_maxIndex) \in Int
  BY SizesAssumption, Lengths
<1>3. Cardinality(S \cup {b}) * BlockSize = Cardinality(S) * BlockSize + BlockSize
  BY <1>1, <1>2
<1>4. Cardinality(S) * BlockSize \in Int
  BY <1>1, <1>2
<1>5. Lacking(S) \in Int /\ Lacking(S \cup {b}) = Lacking(S) + BlockSize - Length(b)
  <2>1. CASE b = m_maxIndex
    BY <1>2, <2>1 DEF Lacking
  <2>2. CASE b # m_maxIndex
    <3>1. Length(b) = BlockSize /\ Lacking(S \cup {b}) = Lacking(S)
      BY <2>2, Lengths DEF Lacking
    <3> QED
      BY <1>2, <3>1 DEF Lacking
  <2> QED
    BY <2>1, <2>2
<1> QED
  BY <1>2, <1>3, <1>4, <1>5 DEF Weight

\* What a queue holds after a push and before a pop.
LEMMA IndicesMove ==
  ASSUME NEW q \in Seq(ConsumeBlock)
  PROVE  /\ Indices(q) \subseteq Blocks
         /\ q # <<>> => Indices(q) = Indices(Tail(q)) \cup {Head(q).index}
         /\ \A block \in ConsumeBlock :
              Indices(Append(q, block)) = Indices(q) \cup {block.index}
<1>1. Indices(q) \subseteq Blocks
  <2>1. \A i \in DOMAIN q : q[i] \in ConsumeBlock
    BY QueueDomain
  <2>2. \A i \in DOMAIN q : q[i].index \in Blocks
    BY <2>1 DEF ConsumeBlock
  <2> QED
    BY <2>2 DEF Indices
<1>2. ASSUME q # <<>> PROVE Indices(q) = Indices(Tail(q)) \cup {Head(q).index}
  <2>1. /\ 1 \in DOMAIN q /\ q[1] = Head(q)
        /\ \A i \in DOMAIN Tail(q) : i + 1 \in DOMAIN q /\ Tail(q)[i] = q[i + 1]
        /\ \A i \in DOMAIN q : i # 1 => i - 1 \in DOMAIN Tail(q) /\ Tail(q)[i - 1] = q[i]
    BY <1>2, QueueDomain
  <2>2. Indices(q) \subseteq Indices(Tail(q)) \cup {Head(q).index}
    BY <2>1 DEF Indices
  <2>3. Indices(Tail(q)) \cup {Head(q).index} \subseteq Indices(q)
    BY <2>1 DEF Indices
  <2> QED
    BY <2>2, <2>3
<1>3. ASSUME NEW block \in ConsumeBlock
      PROVE  Indices(Append(q, block)) = Indices(q) \cup {block.index}
  <2>1. /\ DOMAIN Append(q, block) = DOMAIN q \cup {Len(q) + 1}
        /\ Len(q) + 1 \notin DOMAIN q
        /\ Append(q, block)[Len(q) + 1] = block
        /\ \A i \in DOMAIN q : Append(q, block)[i] = q[i]
    BY QueueDomain
  <2> QED
    BY <2>1 DEF Indices
<1> QED
  BY <1>1, <1>2, <1>3

\* No two places hold the same block.
LEMMA HeldApart ==
  ASSUME OwnInv
  PROVE  /\ \A w \in Workers : WorkerHolds(w) =>
              /\ workerBlock[w].index \in Blocks
              /\ workerBlock[w].index \notin Indices(hashingQueue) \cup Indices(writeQueue)
              /\ \A v \in Workers : WorkerHolds(v) /\ v # w =>
                   workerBlock[v].index # workerBlock[w].index
              /\ WriterHolds => writerBlock.index # workerBlock[w].index
         /\ WriterHolds => /\ writerBlock.index \in Blocks
                           /\ writerBlock.index \notin Indices(writeQueue)
         /\ readerPc = "push" =>
              /\ m_currentIndex \in Blocks
              /\ m_currentIndex \notin Indices(hashingQueue) \cup Indices(writeQueue)
              /\ \A w \in Workers : WorkerHolds(w) => workerBlock[w].index # m_currentIndex
              /\ WriterHolds => writerBlock.index # m_currentIndex
<1>1. /\ \A i \in DOMAIN hashingQueue : <<"hashing", i, hashingQueue[i]>> \in InFlight
      /\ \A i \in DOMAIN writeQueue : <<"write", i, writeQueue[i]>> \in InFlight
      /\ \A w \in Workers : WorkerHolds(w) => <<"worker", w, workerBlock[w]>> \in InFlight
      /\ WriterHolds => <<"writer", 0, writerBlock>> \in InFlight
      /\ readerPc = "push" =>
           <<"reader", 0, [index |-> m_currentIndex, ptr |-> readerPtr]>> \in InFlight
  BY DEF InFlight
<1>2. \A x, y \in InFlight : x[3].index = y[3].index => x = y
  BY DEF OwnInv, OnePlace
<1>3. \A x \in InFlight : x[3].index \in Blocks
  BY FlightType DEF OwnInv, ConsumeBlock
<1>4. ASSUME NEW w \in Workers, WorkerHolds(w)
      PROVE  /\ workerBlock[w].index \in Blocks
             /\ workerBlock[w].index \notin Indices(hashingQueue) \cup Indices(writeQueue)
             /\ \A v \in Workers : WorkerHolds(v) /\ v # w =>
                  workerBlock[v].index # workerBlock[w].index
             /\ WriterHolds => writerBlock.index # workerBlock[w].index
  <2>1. <<"worker", w, workerBlock[w]>> \in InFlight
    BY <1>1, <1>4
  <2> QED
    BY <1>1, <1>2, <1>3, <2>1 DEF Indices
<1>5. WriterHolds => /\ writerBlock.index \in Blocks
                     /\ writerBlock.index \notin Indices(writeQueue)
  BY <1>1, <1>2, <1>3 DEF Indices
<1>6. ASSUME readerPc = "push"
      PROVE  /\ m_currentIndex \in Blocks
             /\ m_currentIndex \notin Indices(hashingQueue) \cup Indices(writeQueue)
             /\ \A w \in Workers : WorkerHolds(w) => workerBlock[w].index # m_currentIndex
             /\ WriterHolds => writerBlock.index # m_currentIndex
  <2> DEFINE x == <<"reader", 0, [index |-> m_currentIndex, ptr |-> readerPtr]>>
  <2>1. x \in InFlight /\ x[3].index = m_currentIndex /\ x[1] = "reader"
    BY <1>1, <1>6
  <2>2. m_currentIndex \in Blocks
    BY <1>3, <2>1
  <2>3. \A y \in InFlight : y[1] # "reader" => y[3].index # m_currentIndex
    BY <1>2, <2>1
  <2> HIDE DEF x
  <2>4. /\ m_currentIndex \notin Indices(hashingQueue)
        /\ m_currentIndex \notin Indices(writeQueue)
    BY <1>1, <2>3 DEF Indices
  <2>5. \A w \in Workers : WorkerHolds(w) => workerBlock[w].index # m_currentIndex
    BY <1>1, <2>3
  <2>6. WriterHolds => writerBlock.index # m_currentIndex
    BY <1>1, <2>3
  <2> QED
    BY <2>2, <2>4, <2>5, <2>6
<1> QED
  BY <1>4, <1>5, <1>6

\* What waits is a finite set of blocks.
LEMMA StageTypes ==
  ASSUME TypeOK
  PROVE  /\ ToHash \subseteq Blocks /\ ToWrite \subseteq Blocks
         /\ IsFiniteSet(ToHash) /\ Cardinality(ToHash) \in Nat
<1>1. Indices(hashingQueue) \subseteq Blocks /\ Indices(writeQueue) \subseteq Blocks
  BY IndicesMove DEF TypeOK, QueuesTypeOK
<1>2. \A w \in Workers : workerPc[w] \in {"hash", "forward"} => workerBlock[w].index \in Blocks
  BY DEF TypeOK, WorkerTypeOK, ConsumeBlock
<1>3. WriterHolds => writerBlock.index \in Blocks
  BY DEF TypeOK, WriterTypeOK, WriterHolds, ConsumeBlock
<1>4. ToHash \subseteq Blocks /\ ToWrite \subseteq Blocks
  BY <1>1, <1>2, <1>3 DEF ToHash, ToWrite
<1> QED
  BY <1>4, IndexTypes, FS_Subset, FS_CardinalityType

SameStages == ToHash' = ToHash /\ ToWrite' = ToWrite

\* The steps that neither count nor move a block from a stage to the next.
LEMMA OtherStepsWait ==
  ASSUME TypeOK, FinishInv, StartOrder, [Next]_vars, ~ReaderPush, ~WriterPop,
         ~WriterStore, ~WriterDiscard,
         \A w \in Workers : ~WorkerPop(w) /\ ~WorkerHash(w) /\ ~WorkerForward(w)
  PROVE  SameStages
<1> DEFINE Same ==
      /\ UNCHANGED <<hashingQueue, writeQueue>>
      /\ \A w \in Workers : \A pc \in {"hash", "forward"} :
           /\ workerPc'[w] = pc <=> workerPc[w] = pc
           /\ workerPc[w] = pc => workerBlock'[w] = workerBlock[w]
      /\ WriterHolds' = WriterHolds
      /\ WriterHolds => writerBlock' = writerBlock
<1> SUFFICES Same
  BY DEF SameStages, ToHash, ToWrite
<1> USE DEF WriterHolds, queues, workerVars, writerVars, TypeOK, WorkerTypeOK, Goto
<1>1. CASE Start
  <2>1. CASE StartReader \/ StartHasher
    BY <2>1 DEF StartReader, StartHasher, FinishInv, WorkersTogether
  <2>2. CASE StartWriter
    BY <2>2 DEF StartWriter, StartOrder
  <2> QED
    BY <1>1, <2>1, <2>2 DEF Start
<1>2. CASE (\E t \in Tasks : Abort(t)) \/ SetPause(~m_pause) \/ UNCHANGED vars
  BY <1>2 DEF Abort, SetPause, vars
<1>3. CASE Reader
  BY <1>3 DEF Reader, ReaderStart, ReaderLeave, ReaderNext, ReaderAlloc,
     ReaderAllocTimeout, ReaderRead, ReaderReadFail, ReaderCount, ReaderFinish
<1>4. ASSUME NEW v \in Workers, Worker(v) PROVE Same
  BY <1>4 DEF Worker, WorkerStart, WorkerCheck, WorkerDrained, WorkerDrop,
     WorkerMark, WorkerExit, WorkerLast
<1>5. CASE Writer
  BY <1>5 DEF Writer, WriterCheck, WriterDrained, WriterWrite, WriterWriteFail,
     WriterMark, WriterVerdict
<1> HIDE DEF Same, WriterHolds, TypeOK, WorkerTypeOK
<1> QED
  BY <1>1, <1>2, <1>3, <1>4, <1>5 DEF Next, Threads

\* A block that moves within its stage.
LEMMA MovesWithin ==
  ASSUME OwnInv, WriterPop \/ \E w \in Workers : WorkerPop(w) \/ WorkerForward(w)
  PROVE  SameStages
<1> USE DEF OwnInv, TypeOK, QueuesTypeOK, WorkerTypeOK, queues, workerVars,
        writerVars, readerVars, Goto, SameStages
<1>1. CASE WriterPop
  <2>1. /\ Indices(writeQueue) = Indices(writeQueue') \cup {writerBlock'.index}
        /\ ~WriterHolds /\ WriterHolds'
        /\ UNCHANGED <<hashingQueue, workerPc, workerBlock>>
    BY <1>1, IndicesMove DEF WriterPop, WriterHolds
  <2> QED
    BY <2>1 DEF ToHash, ToWrite
<1>2. ASSUME NEW w \in Workers, WorkerPop(w) PROVE SameStages
  <2>1. Indices(hashingQueue) = Indices(hashingQueue') \cup {workerBlock'[w].index}
    BY <1>2, IndicesMove DEF WorkerPop
  <2>2. /\ workerPc[w] = "pop" /\ workerPc'[w] = "hash"
        /\ \A v \in Workers \ {w} : workerPc'[v] = workerPc[v] /\ workerBlock'[v] = workerBlock[v]
        /\ UNCHANGED <<writeQueue, writerPc, writerBlock>>
    BY <1>2 DEF WorkerPop
  <2> HIDE DEF OwnInv, TypeOK, QueuesTypeOK, WorkerTypeOK
  <2>3. ToHash' = ToHash
    BY <2>1, <2>2 DEF ToHash
  <2>4. ToWrite' = ToWrite
    BY <2>2 DEF ToWrite, WriterHolds
  <2> QED
    BY <2>3, <2>4
<1>3. ASSUME NEW w \in Workers, WorkerForward(w) PROVE SameStages
  <2>1. writeQueue' = Append(writeQueue, workerBlock[w]) /\ workerBlock[w] \in ConsumeBlock
    BY <1>3 DEF WorkerForward, FinishInv, WriteFinished, WorkersTogether, Pushed
  <2>2. Indices(writeQueue') = Indices(writeQueue) \cup {workerBlock[w].index}
    BY <2>1, IndicesMove
  <2>3. /\ workerPc[w] = "forward" /\ workerPc'[w] = "check"
        /\ \A v \in Workers \ {w} : workerPc'[v] = workerPc[v] /\ workerBlock'[v] = workerBlock[v]
        /\ UNCHANGED <<hashingQueue, writerPc, writerBlock>>
    BY <1>3 DEF WorkerForward
  <2> HIDE DEF OwnInv, TypeOK, QueuesTypeOK, WorkerTypeOK
  <2>4. ToHash' = ToHash
    BY <2>3 DEF ToHash
  <2>5. ToWrite' = ToWrite
    BY <2>2, <2>3 DEF ToWrite, WriterHolds
  <2> QED
    BY <2>4, <2>5
<1> QED
  BY <1>1, <1>2, <1>3

\* The reader hands a block on.
LEMMA PushAdds ==
  ASSUME OwnInv, ReaderPush
  PROVE  /\ m_currentIndex \in Blocks \ (ToHash \cup ToWrite)
         /\ ToHash' = IF HasherEnabled THEN ToHash \cup {m_currentIndex} ELSE ToHash
         /\ ToWrite' = IF HasherEnabled THEN ToWrite ELSE ToWrite \cup {m_currentIndex}
<1> DEFINE block == [index |-> m_currentIndex, ptr |-> readerPtr]
<1>1. readerPc = "push" /\ block \in ConsumeBlock /\ ReaderQueue \notin finished
  BY DEF ReaderPush, OwnInv, TypeOK, ReaderTypeOK, ConsumeBlock, FinishInv, ReaderOrder
<1>2. m_currentIndex \in Blocks \ (ToHash \cup ToWrite)
  BY <1>1, HeldApart DEF ToHash, ToWrite, WorkerHolds
<1>3. UNCHANGED <<workerPc, workerBlock, writerPc, writerBlock>>
  BY DEF ReaderPush, workerVars, writerVars
<1>4. CASE HasherEnabled
  <2>1. hashingQueue' = Append(hashingQueue, block) /\ writeQueue' = writeQueue
    BY <1>1, <1>4 DEF ReaderPush, ReaderQueue, Pushed
  <2>2. Indices(hashingQueue') = Indices(hashingQueue) \cup {m_currentIndex}
    BY <1>1, <2>1, IndicesMove DEF OwnInv, TypeOK, QueuesTypeOK
  <2> QED
    BY <1>2, <1>3, <1>4, <2>1, <2>2 DEF ToHash, ToWrite, WriterHolds
<1>5. CASE ~HasherEnabled
  <2>1. writeQueue' = Append(writeQueue, block) /\ hashingQueue' = hashingQueue
    BY <1>1, <1>5 DEF ReaderPush, ReaderQueue, Pushed
  <2>2. Indices(writeQueue') = Indices(writeQueue) \cup {m_currentIndex}
    BY <1>1, <2>1, IndicesMove DEF OwnInv, TypeOK, QueuesTypeOK
  <2> QED
    BY <1>2, <1>3, <1>5, <2>1, <2>2 DEF ToHash, ToWrite, WriterHolds
<1> QED
  BY <1>4, <1>5

\* A worker is done with a block, and may pass it to the writer.
LEMMA HashMoves ==
  ASSUME OwnInv, NEW w \in Workers, WorkerHash(w)
  PROVE  LET b == workerBlock[w].index
         IN  /\ b \in Blocks /\ b \in ToHash /\ b \notin ToWrite
             /\ ToHash' = ToHash \ {b}
             /\ ToWrite' = IF workerPc'[w] = "forward" THEN ToWrite \cup {b} ELSE ToWrite
<1> DEFINE b == workerBlock[w].index
<1>1. /\ workerPc[w] = "hash" /\ workerPc'[w] \in {"drop", "forward"}
      /\ \A v \in Workers \ {w} : workerPc'[v] = workerPc[v]
      /\ UNCHANGED <<hashingQueue, writeQueue, workerBlock, writerPc, writerBlock>>
  BY DEF WorkerHash, OwnInv, TypeOK, WorkerTypeOK, Goto, queues, writerVars
<1>2. /\ b \in Blocks /\ b \notin Indices(hashingQueue) /\ b \notin Indices(writeQueue)
      /\ \A v \in Workers : workerPc[v] \in {"hash", "forward"} /\ v # w =>
           workerBlock[v].index # b
      /\ WriterHolds => writerBlock.index # b
  BY <1>1, HeldApart DEF WorkerHolds
<1>3. b \in ToHash /\ b \notin ToWrite
  BY <1>1, <1>2 DEF ToHash, ToWrite
<1>4. ToHash' = ToHash \ {b}
  BY <1>1, <1>2 DEF ToHash
<1>5. ToWrite' = IF workerPc'[w] = "forward" THEN ToWrite \cup {b} ELSE ToWrite
  BY <1>1, <1>2 DEF ToWrite, WriterHolds
<1> QED
  BY <1>2, <1>3, <1>4, <1>5

\* The writer is done with a block.
LEMMA StoreRemoves ==
  ASSUME OwnInv, WriterStore \/ WriterDiscard
  PROVE  /\ writerBlock.index \in Blocks /\ writerBlock.index \in ToWrite
         /\ ToWrite' = ToWrite \ {writerBlock.index} /\ ToHash' = ToHash
<1>1. /\ WriterHolds /\ ~WriterHolds'
      /\ UNCHANGED <<hashingQueue, writeQueue, workerPc, workerBlock>>
  BY DEF WriterStore, WriterDiscard, WriterHolds, queues, workerVars
<1>2. /\ writerBlock.index \in Blocks /\ writerBlock.index \notin Indices(writeQueue)
      /\ \A w \in Workers : workerPc[w] = "forward" => workerBlock[w].index # writerBlock.index
  BY <1>1, HeldApart DEF WorkerHolds
<1> QED
  BY <1>1, <1>2 DEF ToHash, ToWrite

\* The steps that leave the counts of hashed and written blocks alone.
SameCounts ==
  /\ \A n \in {"blocksToHash", "blocksHashed", "bytesToWrite", "bytesWritten"} :
       counter'[n] = counter[n]
  /\ readerPc' = "count" <=> readerPc = "count"
  /\ readerPc = "count" => UNCHANGED m_currentIndex

LEMMA OtherStepsCount ==
  ASSUME TypeOK, FinishInv, [Next]_vars, ~ReaderPush, ~ReaderCount, ~WriterStore,
         \A w \in Workers : ~WorkerHash(w)
  PROVE  SameCounts
<1> USE DEF SameCounts, TypeOK, ControlTypeOK, readerVars, Add
<1>1. CASE Start
  BY <1>1 DEF Start, StartReader, StartHasher, StartWriter, FinishInv, ReaderOrder
<1>2. CASE (\E t \in Tasks : Abort(t)) \/ SetPause(~m_pause) \/ UNCHANGED vars
  BY <1>2 DEF Abort, SetPause, vars
<1>3. CASE Reader
  BY <1>3 DEF Reader, ReaderStart, ReaderLeave, ReaderNext, ReaderAlloc,
     ReaderAllocTimeout, ReaderRead, ReaderReadFail, ReaderFinish
<1>4. ASSUME NEW v \in Workers, Worker(v) PROVE SameCounts
  BY <1>4 DEF Worker, WorkerStart, WorkerCheck, WorkerPop, WorkerDrained,
     WorkerDrop, WorkerMark, WorkerForward, WorkerExit, WorkerLast
<1>5. CASE Writer
  BY <1>5 DEF Writer, WriterCheck, WriterPop, WriterDrained, WriterDiscard,
     WriterWrite, WriterWriteFail, WriterMark, WriterVerdict
<1> HIDE DEF SameCounts, TypeOK
<1> QED
  BY <1>1, <1>2, <1>3, <1>4, <1>5 DEF Next, Threads

LEMMA StagesStep ==
  OwnInv /\ HashCount /\ WriteCount /\ [Next]_vars => HashCount' /\ WriteCount'
<1> SUFFICES ASSUME OwnInv, HashCount, WriteCount, [Next]_vars
             PROVE  HashCount' /\ WriteCount'
  OBVIOUS
<1>1. TypeOK /\ TypeOK' /\ FinishInv /\ StartOrder
  BY OwnStep DEF OwnInv
<1>2. /\ \A n \in CounterNames : counter[n] \in Int /\ counter'[n] \in Int
      /\ Cardinality(ToHash) \in Nat /\ IsFiniteSet(ToHash)
      /\ ToHash \subseteq Blocks /\ ToWrite \subseteq Blocks
  BY <1>1, StageTypes DEF TypeOK, ControlTypeOK
<1>3. ~m_failed' => ~m_failed /\ ~WriterWriteFail /\ ~WriterDiscard
  BY NoFailureBefore DEF WriterDiscard
<1>4. CASE ReaderPush
  <2> DEFINE b == m_currentIndex
  <2>1. /\ b \in Blocks \ (ToHash \cup ToWrite)
        /\ ToHash' = IF HasherEnabled THEN ToHash \cup {b} ELSE ToHash
        /\ ToWrite' = IF HasherEnabled THEN ToWrite ELSE ToWrite \cup {b}
    BY <1>4, PushAdds
  <2>2. readerPc = "push" /\ readerPc' = "count" /\ counter' = counter /\ b' = b
    BY <1>4 DEF ReaderPush
  <2>3. Length(b) \in Int /\ Length(b)' = Length(b)
    BY <2>1, <2>2, Lengths DEF Length
  <2>4. /\ Cardinality(ToHash \cup {b}) = Cardinality(ToHash) + 1
        /\ Weight(ToWrite) \in Int /\ Weight(ToWrite \cup {b}) = Weight(ToWrite) + Length(b)
    BY <1>2, <2>1, FS_AddElement, WeightAdds
  <2>5. HashCount'
    BY <1>2, <2>1, <2>2, <2>4 DEF HashCount, Uncounted
  <2>6. ASSUME ~m_failed' PROVE WriteCount'
    <3>1. Weight(ToWrite)' = Weight(ToWrite')
      BY DEF Weight, Lacking, m_maxIndex, Length
    <3> QED
      BY <1>2, <1>3, <2>1, <2>2, <2>3, <2>4, <2>6, <3>1 DEF WriteCount, Uncounted
  <2> QED
    BY <2>5, <2>6 DEF WriteCount
<1>5. CASE ReaderCount
  <2>1. /\ readerPc = "count" /\ readerPc' = "check" /\ m_currentIndex \in Blocks
        /\ SameStages
    BY <1>1, <1>5, OtherStepsWait DEF ReaderCount, ReaderPush, TypeOK, ReaderTypeOK,
       WriterPop, WriterStore, WriterDiscard, WorkerPop, WorkerHash, WorkerForward,
       readerVars
  <2>2. /\ counter'["blocksToHash"] = counter["blocksToHash"] + (IF HasherEnabled THEN 1 ELSE 0)
        /\ counter'["bytesToWrite"] = counter["bytesToWrite"]
             + (IF HasherEnabled THEN 0 ELSE Length(m_currentIndex))
        /\ counter'["blocksHashed"] = counter["blocksHashed"]
        /\ counter'["bytesWritten"] = counter["bytesWritten"]
    BY <1>1, <1>2, <1>5 DEF ReaderCount, Add, TypeOK, ControlTypeOK
  <2>3. Weight(ToWrite)' = Weight(ToWrite)
    BY <2>1 DEF SameStages, Weight, Lacking, Length, m_maxIndex
  <2>4. HashCount'
    BY <1>2, <2>1, <2>2 DEF HashCount, Uncounted, SameStages
  <2>5. WriteCount'
    BY <1>2, <1>3, <2>1, <2>2, <2>3 DEF WriteCount, Uncounted
  <2> QED
    BY <2>4, <2>5
<1>6. ASSUME NEW w \in Workers, WorkerHash(w) PROVE HashCount' /\ WriteCount'
  <2> DEFINE b == workerBlock[w].index
             isNew == workerPc'[w] = "forward"
  <2>1. /\ b \in Blocks /\ b \in ToHash /\ b \notin ToWrite
        /\ ToHash' = ToHash \ {b}
        /\ ToWrite' = IF isNew THEN ToWrite \cup {b} ELSE ToWrite
    BY <1>6, HashMoves
  <2>2. /\ counter'["blocksToHash"] = counter["blocksToHash"]
        /\ counter'["bytesToWrite"] = counter["bytesToWrite"] + (IF isNew THEN Length(b) ELSE 0)
        /\ counter'["blocksHashed"] = counter["blocksHashed"] + 1
        /\ counter'["bytesWritten"] = counter["bytesWritten"]
        /\ UNCHANGED <<readerPc, m_currentIndex, m_failed>>
    BY <1>1, <1>2, <1>6 DEF WorkerHash, TypeOK, ControlTypeOK, WorkerTypeOK, Goto,
       readerVars, writerVars
  <2>3. /\ Cardinality(ToHash \ {b}) = Cardinality(ToHash) - 1
        /\ Length(b) \in Int
        /\ Weight(ToWrite) \in Int /\ Weight(ToWrite \cup {b}) = Weight(ToWrite) + Length(b)
    <3>1. Cardinality(ToHash \ {b}) = Cardinality(ToHash) - 1
      BY <1>2, <2>1, FS_RemoveElement
    <3>2. ToWrite \in SUBSET Blocks /\ b \in Blocks \ ToWrite
      BY <1>2, <2>1
    <3> HIDE DEF b
    <3> QED
      BY <3>1, <3>2, WeightAdds, Lengths
  <2>4. Weight(ToWrite)' = Weight(ToWrite')
    BY DEF Weight, Lacking, m_maxIndex, Length
  <2>5. HashCount'
    BY <1>2, <2>1, <2>2, <2>3 DEF HashCount, Uncounted
  <2>6. WriteCount'
    <3>1. /\ Length(m_currentIndex)' = Length(m_currentIndex)
          /\ readerPc = "count" => Length(m_currentIndex) \in Int
      BY <1>1, <2>2, Lengths DEF Length, TypeOK, ReaderTypeOK
    <3> QED
      BY <1>2, <2>1, <2>2, <2>3, <2>4, <3>1 DEF WriteCount, Uncounted
  <2> QED
    BY <2>5, <2>6
<1>7. CASE WriterStore
  <2> DEFINE b == writerBlock.index
  <2>1. /\ b \in Blocks /\ b \in ToWrite
        /\ ToWrite' = ToWrite \ {b} /\ ToHash' = ToHash
    BY <1>7, StoreRemoves
  <2>2. /\ counter'["blocksToHash"] = counter["blocksToHash"]
        /\ counter'["bytesToWrite"] = counter["bytesToWrite"]
        /\ counter'["blocksHashed"] = counter["blocksHashed"]
        /\ counter'["bytesWritten"] = counter["bytesWritten"] + Length(b)
        /\ UNCHANGED <<readerPc, m_currentIndex, m_failed>>
    BY <1>1, <1>2, <1>7 DEF WriterStore, Add, TypeOK, ControlTypeOK, readerVars
  <2>3. /\ Weight(ToWrite') \in Int /\ Length(b) \in Int
        /\ Weight(ToWrite) = Weight(ToWrite') + Length(b)
    <3>1. /\ ToWrite = ToWrite' \cup {b} /\ b \in Blocks \ ToWrite'
          /\ ToWrite' \in SUBSET Blocks
      BY <1>2, <2>1
    <3> QED
      BY <1>2, <3>1, WeightAdds, Lengths
  <2>4. Weight(ToWrite)' = Weight(ToWrite')
    BY DEF Weight, Lacking, m_maxIndex, Length
  <2>5. HashCount'
    BY <1>2, <2>1, <2>2 DEF HashCount, Uncounted
  <2>6. WriteCount'
    <3>1. /\ Length(m_currentIndex)' = Length(m_currentIndex)
          /\ readerPc = "count" => Length(m_currentIndex) \in Int
      BY <1>1, <2>2, Lengths DEF Length, TypeOK, ReaderTypeOK
    <3> QED
      BY <1>2, <2>1, <2>2, <2>3, <2>4, <3>1 DEF WriteCount, Uncounted
  <2> QED
    BY <2>5, <2>6
<1>8. CASE SameCounts /\ (SameStages \/ WriterDiscard)
  <2>1. ToHash' = ToHash
    BY <1>8, StoreRemoves DEF SameStages
  <2>2. HashCount'
    BY <1>2, <1>8, <2>1 DEF HashCount, SameCounts, Uncounted
  <2>3. ASSUME ~m_failed' PROVE WriteCount'
    <3>1. Weight(ToWrite)' = Weight(ToWrite)
      BY <1>3, <1>8, <2>3 DEF SameStages, Weight, Lacking, Length, m_maxIndex
    <3>2. readerPc = "count" => Length(m_currentIndex)' = Length(m_currentIndex)
      BY <1>8 DEF SameCounts, Length
    <3> QED
      BY <1>2, <1>3, <1>8, <2>3, <3>1, <3>2 DEF WriteCount, SameCounts, Uncounted
  <2> QED
    BY <2>2, <2>3 DEF WriteCount
<1>9. ASSUME ~ReaderPush, ~ReaderCount, ~WriterStore, \A w \in Workers : ~WorkerHash(w)
      PROVE  SameCounts /\ (SameStages \/ WriterDiscard)
  <2>1. SameCounts
    BY <1>1, <1>9, OtherStepsCount
  <2> QED
    BY <1>1, <1>9, <2>1, OtherStepsWait, MovesWithin
<1> QED
  BY <1>4, <1>5, <1>6, <1>7, <1>8, <1>9

\* The blocks of the checkpoint ahead of the reader: none is lost, and none
\* is added, although bits of the bitmap are set and lost meanwhile.
LEMMA AheadStays ==
  ASSUME OwnInv, SettledInv, [Next]_vars
  PROVE  Ahead' = {b \in Ahead : b >= Frontier'}
<1>1. /\ TypeOK /\ TypeOK' /\ FinishInv /\ StartOrder
      /\ Frontier \in Nat /\ Frontier' \in Nat /\ Frontier' >= Frontier
  BY OwnStep, FrontierStep DEF OwnInv
<1>2. ASSUME NEW b \in Ahead PROVE b \in processed'
  <2>1. b \in Blocks /\ b >= Frontier /\ IsSettled(b)
    BY <1>1 DEF Ahead, IsSettled, TypeOK, DataTypeOK
  <2>2. Firm(b)
    BY <2>1 DEF SettledInv, PutAway
  <2>3. Firm(b)'
    BY <1>1, <2>1, <2>2, FirmStays
  <2> QED
    BY <2>3 DEF Firm
<1>3. ASSUME NEW b \in processed', b >= Frontier' PROVE b \in Ahead
  <2>1. b \in Blocks /\ b \in Int /\ b >= Frontier
    BY <1>1, <1>3, IndexTypes DEF TypeOK, DataTypeOK
  <2>2. IsSettled(b)'
    BY DEF IsSettled
  <2>3. \A x \in InFlight : x[3].index # b
    BY <1>1, <2>1, FlightType DEF OwnInv, OnePlace
  <2>4. IsSettled(b)
    BY <2>1, <2>2, <2>3, SettledFrom
  <2>5. Firm(b)
    BY <2>1, <2>4 DEF SettledInv, PutAway
  <2> QED
    BY <2>1, <2>5 DEF Ahead, Firm
<1> QED
  BY <1>2, <1>3 DEF Ahead

LEMMA AheadTypes ==
  ASSUME TypeOK
  PROVE  Ahead \subseteq Blocks /\ IsFiniteSet(Ahead) /\ Cardinality(Ahead) \in Nat
<1>1. Ahead \subseteq Blocks
  BY DEF Ahead, TypeOK, DataTypeOK
<1> QED
  BY <1>1, IndexTypes, FS_Subset, FS_CardinalityType

\* Numbers passed in one go, and those that remain.
LEMMA Passing ==
  ASSUME NEW A \in SUBSET Int, IsFiniteSet(A), NEW f \in Nat, NEW g \in Nat, f <= g,
         \A a \in A : a >= f,
         \A i \in Int : i >= f /\ i < g => i \in A
  PROVE  g + Cardinality({a \in A : a >= g}) = f + Cardinality(A)
<1> DEFINE P == f .. g - 1
           R == {a \in A : a >= g}
<1>1. A = P \cup R /\ P \cap R = {}
  <2>1. \A i \in Int : i \in P <=> i >= f /\ i < g
    OBVIOUS
  <2>2. P \subseteq Int
    OBVIOUS
  <2>3. \A a \in Int : a >= g <=> ~(a < g)
    OBVIOUS
  <2> HIDE DEF P
  <2> QED
    BY <2>1, <2>2, <2>3
<1>2. IsFiniteSet(P) /\ Cardinality(P) = g - f
  <2>1. g - 1 \in Int /\ f \in Int
    OBVIOUS
  <2>2. IsFiniteSet(P) /\ Cardinality(P) = IF f > g - 1 THEN 0 ELSE g - 1 - f + 1
    BY <2>1, FS_Interval
  <2> HIDE DEF P
  <2> QED
    BY <2>2
<1>3. IsFiniteSet(R) /\ Cardinality(R) \in Nat
  <2>1. R \subseteq A
    OBVIOUS
  <2> QED
    BY <2>1, FS_Subset, FS_CardinalityType
<1> HIDE DEF P, R
<1>4. Cardinality(P \cup R) = Cardinality(P) + Cardinality(R) - Cardinality(P \cap R)
  BY <1>2, <1>3, FS_Union
<1>5. Cardinality(P \cap R) = 0
  BY <1>1, FS_EmptySet
<1>6. Cardinality(A) = g - f + Cardinality(R)
  BY <1>1, <1>2, <1>3, <1>4, <1>5
<1> QED
  BY <1>3, <1>6 DEF R

\* A step that reads nothing passes over blocks of the checkpoint only.
LEMMA SkipsAhead ==
  ASSUME OwnInv, SettledInv, [Next]_vars, ~ReaderRead
  PROVE  Frontier' + Cardinality(Ahead') = Frontier + Cardinality(Ahead)
<1>1. /\ TypeOK /\ TypeOK' /\ FinishInv /\ StartOrder
      /\ Frontier \in Nat /\ Frontier' \in Nat /\ Frontier <= Frontier'
      /\ Ahead' = {a \in Ahead : a >= Frontier'}
  BY OwnStep, FrontierStep, AheadStays DEF OwnInv
<1>2. \A i \in Int : i < Frontier' => i < TotalBlocks
  <2>1. /\ m_currentIndex' \in 0 .. TotalBlocks /\ TotalBlocks \in Nat
        /\ readerPc' \in {"push", "count"} => m_currentIndex' \in 0 .. TotalBlocks - 1
    BY <1>1, IndexTypes DEF TypeOK, ReaderTypeOK, Blocks
  <2>2. /\ readerPc' \in {"push", "count"} => Frontier' = m_currentIndex' + 1
        /\ readerPc' \notin {"push", "count"} => Frontier' = m_currentIndex'
    BY DEF Frontier
  <2> QED
    BY <2>1, <2>2
<1>3. ASSUME NEW i \in Int, i >= Frontier, i < Frontier' PROVE i \in Ahead
  <2>1. i \in Blocks
    <3>1. i >= 0 /\ i < TotalBlocks /\ TotalBlocks \in Nat
      BY <1>1, <1>2, <1>3, IndexTypes
    <3> QED
      BY <3>1 DEF Blocks
  <2>2. i \in processed
    BY <1>3, <2>1, FrontierMoves
  <2> QED
    BY <1>3, <2>2 DEF Ahead
<1>4. Ahead \in SUBSET Int /\ IsFiniteSet(Ahead) /\ \A a \in Ahead : a >= Frontier
  BY <1>1, AheadTypes, IndexTypes DEF Ahead
<1> QED
  BY <1>1, <1>3, <1>4, Passing

LEMMA ReadCountStep ==
  OwnInv /\ SettledInv /\ ReadCount /\ [Next]_vars => ReadCount'
<1> SUFFICES ASSUME OwnInv, SettledInv, ReadCount, [Next]_vars PROVE ReadCount'
  OBVIOUS
<1>1. /\ TypeOK /\ TypeOK' /\ FinishInv /\ StartOrder
      /\ Frontier \in Nat /\ Frontier' \in Nat
      /\ BlockSize \in Nat /\ SessionSize \in Nat
  BY OwnStep, FrontierStep, SizesAssumption DEF OwnInv
<1>2. counter["bytesRead"] \in Int /\ counter'["bytesRead"] \in Int
  BY <1>1 DEF TypeOK, ControlTypeOK
<1>3. /\ counter'["bytesToRead"] <= SessionSize
      /\ ~ReaderRead => counter'["bytesRead"] = counter["bytesRead"]
  <2> DEFINE Same == counter'["bytesToRead"] \in {counter["bytesToRead"], SessionSize}
                     /\ (~ReaderRead => counter'["bytesRead"] = counter["bytesRead"])
  <2> SUFFICES Same
    BY <1>1 DEF ReadCount
  <2> USE <1>1 DEF TypeOK, ControlTypeOK, Add
  <2>1. CASE Start
    BY <2>1 DEF Start, StartReader, StartHasher, StartWriter
  <2>2. CASE (\E t \in Tasks : Abort(t)) \/ SetPause(~m_pause) \/ UNCHANGED vars
    BY <2>2 DEF Abort, SetPause, vars
  <2>3. CASE Reader
    BY <2>3 DEF Reader, ReaderStart, ReaderLeave, ReaderNext, ReaderAlloc,
       ReaderAllocTimeout, ReaderRead, ReaderReadFail, ReaderPush, ReaderCount,
       ReaderFinish
  <2>4. ASSUME NEW v \in Workers, Worker(v) PROVE Same
    BY <2>4 DEF Worker, WorkerStart, WorkerCheck, WorkerPop, WorkerDrained,
       WorkerHash, WorkerDrop, WorkerMark, WorkerForward, WorkerExit, WorkerLast
  <2>5. CASE Writer
    BY <2>5 DEF Writer, WriterCheck, WriterPop, WriterDrained, WriterDiscard,
       WriterWrite, WriterWriteFail, WriterMark, WriterStore, WriterVerdict
  <2> HIDE DEF Same, TypeOK
  <2> QED
    BY <2>1, <2>2, <2>3, <2>4, <2>5 DEF Next, Threads
<1>4. CASE ~ReaderRead
  <2>1. Frontier' + Cardinality(Ahead') = Frontier + Cardinality(Ahead)
    BY <1>4, SkipsAhead
  <2> QED
    BY <1>3, <1>4, <2>1 DEF ReadCount
<1>5. CASE ReaderRead
  <2> DEFINE b == m_currentIndex
             k == Cardinality(Ahead)
  <2>1. /\ b \in Blocks /\ b \in Nat /\ Frontier = b /\ Frontier' = b + 1
        /\ counter'["bytesRead"] = counter["bytesRead"] + Length(b)
    BY <1>1, <1>2, <1>5, FrontierStep, IndexTypes
       DEF ReaderRead, Add, TypeOK, ControlTypeOK, ReaderTypeOK, Blocks
  <2>2. b \notin processed
    BY <1>5, <2>1 DEF ReaderRead, SettledInv, IsSettled, PutAway
  <2>3. Ahead' = Ahead
    <3>1. \A x \in Ahead : x \in Int /\ x >= b /\ x # b
      BY <1>1, <2>1, <2>2, AheadTypes, IndexTypes DEF Ahead
    <3>2. \A x \in Ahead : x >= Frontier'
      BY <2>1, <3>1
    <3> QED
      BY <3>2, AheadStays
  <2>4. k \in Nat
    BY <1>1, AheadTypes
  <2>5. Length(b) \in Int /\ Length(b) >= 0
    BY <2>1, Lengths
  <2>6. CASE counter["bytesRead"] >= SessionSize
    BY <1>1, <1>2, <1>3, <2>1, <2>5, <2>6 DEF ReadCount
  <2>7. CASE counter["bytesRead"] >= (b + k) * BlockSize
    <3>1. CASE b = m_maxIndex
      <4>1. Ahead = {}
        <5>1. \A x \in Ahead : x \in processed /\ x \in Int /\ x >= b /\ x <= m_maxIndex
          BY <1>1, <2>1, AheadTypes, IndexTypes, Lengths DEF Ahead
        <5>2. \A x \in Ahead : x = b
          BY <2>1, <3>1, <5>1
        <5> QED
          BY <2>2, <5>1, <5>2
      <4>2. k = 0
        BY <4>1, FS_EmptySet
      <4>3. counter["bytesRead"] >= b * BlockSize
        BY <2>1, <2>7, <4>2
      <4>4. b * BlockSize + Length(b) = SessionSize /\ b * BlockSize \in Int
        BY <1>1, <2>1, <3>1, Lengths
      <4>5. counter'["bytesRead"] >= SessionSize
        BY <1>1, <1>2, <2>1, <2>5, <4>3, <4>4
      <4> QED
        BY <1>3, <4>5 DEF ReadCount
    <3>2. CASE b # m_maxIndex
      <4> HIDE DEF k
      <4>1. Length(b) = BlockSize
        BY <2>1, <3>2, Lengths
      <4>2. (b + 1 + k) * BlockSize = (b + k) * BlockSize + BlockSize
            /\ (b + k) * BlockSize \in Int
        BY <1>1, <2>1, <2>4
      <4>3. counter'["bytesRead"] >= (b + 1 + k) * BlockSize
        BY <1>1, <1>2, <2>1, <2>7, <4>1, <4>2
      <4>4. counter'["bytesRead"] >= (Frontier' + Cardinality(Ahead')) * BlockSize
        BY <2>1, <2>3, <4>3 DEF k
      <4> QED
        BY <1>3, <4>4 DEF ReadCount
    <3> QED
      BY <3>1, <3>2
  <2> QED
    BY <2>1, <2>6, <2>7 DEF ReadCount
<1> QED
  BY <1>4, <1>5

StatisticsInv ==
  /\ OwnInv /\ SettledInv /\ VerdictInv
  /\ HashCount /\ WriteCount /\ ReadCount

LEMMA StatisticsInit == Init => StatisticsInv
<1> SUFFICES ASSUME Init PROVE StatisticsInv
  OBVIOUS
<1>1. OwnInv /\ SettledInv /\ NewThreads
  BY PipelineInvInit DEF PipelineInv, Init
<1>2. /\ InFlight = {} /\ Frontier = 0
      /\ hashingQueue = <<>> /\ writeQueue = <<>> /\ readerPc = "idle" /\ writerPc = "idle"
      /\ \A w \in Workers : workerPc[w] = "idle"
  BY <1>1, NewThreadsHold DEF NewThreads
<1>3. ToHash = {} /\ ToWrite = {}
  BY <1>2 DEF ToHash, ToWrite, Indices, WriterHolds
<1>4. BlockSize \in Nat /\ SessionSize \in Nat
  BY SizesAssumption
<1>5. Cardinality(ToHash) = 0 /\ Weight(ToWrite) = 0
  BY <1>3, <1>4, FS_EmptySet DEF Weight, Lacking
<1>6. Ahead = processed /\ Cardinality(processed) \in Nat
  <2>1. processed \subseteq Blocks /\ \A b \in Blocks : b >= 0
    BY <1>1, IndexTypes DEF OwnInv, TypeOK, DataTypeOK, Blocks
  <2>2. Ahead = processed
    BY <1>2, <2>1 DEF Ahead
  <2> QED
    BY <1>1, <2>2, AheadTypes DEF OwnInv
<1>7. CASE counter = NewCounter /\ processed = {}
  <2>1. \A n \in CounterNames : counter[n] = 0
    BY <1>7 DEF NewCounter
  <2>2. Cardinality(Ahead) = 0
    BY <1>6, <1>7, FS_EmptySet
  <2>3. HashCount /\ WriteCount
    BY <1>2, <1>5, <2>1 DEF HashCount, WriteCount, Uncounted
  <2>4. ReadCount
    BY <1>2, <1>4, <2>1, <2>2 DEF ReadCount
  <2> QED
    BY <1>1, <2>1, <2>3, <2>4, VerdictInit DEF StatisticsInv
<1>8. CASE counter = RestoredCounter(processed, written)
  <2>1. /\ counter["bytesToRead"] = SessionSize
        /\ counter["bytesRead"] = BytesOf(processed)
        /\ counter["blocksToHash"] = counter["blocksHashed"]
        /\ counter["bytesToWrite"] = counter["bytesWritten"]
        /\ counter["blockesWriteFailed"] = 0
    BY <1>8 DEF RestoredCounter
  <2>2. counter["blocksHashed"] \in Int /\ counter["bytesWritten"] \in Int
    BY <1>1 DEF OwnInv, TypeOK, ControlTypeOK
  <2>3. HashCount /\ WriteCount
    BY <1>2, <1>5, <2>1, <2>2 DEF HashCount, WriteCount, Uncounted
  <2>4. ReadCount
    <3>1. (Frontier + Cardinality(Ahead)) * BlockSize = Cardinality(processed) * BlockSize
      BY <1>2, <1>6
    <3>2. Cardinality(processed) * BlockSize \in Int
      BY <1>4, <1>6
    <3> QED
      BY <1>4, <2>1, <3>1, <3>2 DEF ReadCount, BytesOf
  <2> QED
    BY <1>1, <2>1, <2>3, <2>4, VerdictInit DEF StatisticsInv
<1> QED
  BY <1>7, <1>8 DEF Init

LEMMA StatisticsStep == StatisticsInv /\ [Next]_vars => StatisticsInv'
BY OwnStep, SettledStep, VerdictStep, StagesStep, ReadCountStep DEF StatisticsInv

\* StatisticsAddUp: a session that succeeded has hashed and written all it
\* announced, although the reader announces a block after it has handed it on,
\* and has read at least the whole session, after any restart.
THEOREM StatisticsAreComplete == Spec => []StatisticsAddUp
<1>1. StatisticsInv => StatisticsAddUp
  <2> SUFFICES ASSUME StatisticsInv, AllSucceeded
               PROVE  /\ counter["blocksHashed"] = counter["blocksToHash"]
                      /\ counter["bytesWritten"] = counter["bytesToWrite"]
                      /\ counter["bytesRead"] >= counter["bytesToRead"]
    BY DEF StatisticsAddUp
  <2> USE DEF StatisticsInv
  <2>1. /\ ~m_failed /\ InFlight = {} /\ readerPc \in {"finish", "done"}
        /\ m_currentIndex = TotalBlocks
    BY SucceededIsOver DEF VerdictInv, ReaderVerdict, AllSucceeded
  <2>2. /\ \A n \in CounterNames : counter[n] \in Int
        /\ BlockSize \in Nat /\ SessionSize \in Nat
    BY SizesAssumption DEF OwnInv, TypeOK, ControlTypeOK
  <2>3. ToHash = {} /\ ToWrite = {}
    <3>1. /\ \A i \in DOMAIN hashingQueue : <<"hashing", i, hashingQueue[i]>> \in InFlight
          /\ \A i \in DOMAIN writeQueue : <<"write", i, writeQueue[i]>> \in InFlight
          /\ \A w \in Workers : WorkerHolds(w) => <<"worker", w, workerBlock[w]>> \in InFlight
          /\ WriterHolds => <<"writer", 0, writerBlock>> \in InFlight
      BY DEF InFlight
    <3> QED
      BY <2>1, <3>1 DEF ToHash, ToWrite, Indices, WorkerHolds
  <2>4. Cardinality(ToHash) = 0 /\ Weight(ToWrite) = 0
    BY <2>2, <2>3, FS_EmptySet DEF Weight, Lacking
  <2>5. counter["blocksHashed"] = counter["blocksToHash"]
    BY <2>1, <2>2, <2>4 DEF HashCount, Uncounted
  <2>6. counter["bytesWritten"] = counter["bytesToWrite"]
    BY <2>1, <2>2, <2>4 DEF WriteCount, Uncounted
  <2>7. counter["bytesRead"] >= SessionSize
    <3>1. Frontier = TotalBlocks /\ TotalBlocks \in Nat
      BY <2>1, IndexTypes DEF Frontier
    <3>2. Ahead = {}
      <4>1. \A b \in Ahead : b \in Blocks /\ b >= TotalBlocks
        BY <3>1, AheadTypes DEF OwnInv, Ahead
      <4> QED
        BY <3>1, <4>1 DEF Blocks
    <3>3. (Frontier + Cardinality(Ahead)) * BlockSize = TotalBlocks * BlockSize
      BY <3>1, <3>2, FS_EmptySet
    <3>4. TotalBlocks * BlockSize \in Int
      BY <2>2, <3>1
    <3> QED
      BY <2>2, <3>3, <3>4, Lengths DEF ReadCount
  <2> QED
    BY <2>2, <2>5, <2>6, <2>7 DEF ReadCount
<1> QED
  BY <1>1, StatisticsInit, StatisticsStep, PTL DEF Spec
=============================================================================
