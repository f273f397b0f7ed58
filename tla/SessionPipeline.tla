-------------------------- MODULE SessionPipeline --------------------------
(***************************************************************************)
(* One session of a backup or restore task: the reader thread, the hasher  *)
(* workers and the writer thread of VolumeTaskSession, and everything they *)
(* share (VolumeTaskSharedContext): the buffer pool, the two bounded       *)
(* queues, the checksum tables, the two bitmaps and the counters.          *)
(*                                                                         *)
(*   reader --hashingQueue--> hasher workers --writeQueue--> writer        *)
(*   reader --------------------------------- writeQueue--> writer         *)
(*                                     (second line: hasher disabled)      *)
(*                                                                         *)
(* A backup reads the volume and writes the copy, a restore reads the copy *)
(* and writes the volume without a hasher: "source" is what is read,       *)
(* "target" what is written.  An action is the code between two accesses   *)
(* of shared state; the operations of BlockingQueue and                    *)
(* VolumeBlockAllocator are atomic, as their mutexes make them.  Starting, *)
(* pausing and aborting the three sub-tasks is done by the task's thread.  *)
(*                                                                         *)
(* A definition Name_Variant is Name with a plausible mistake in it; no    *)
(* other definition uses it.  It is there to be put in the place of Name,  *)
(* to see that a property notices.                                         *)
(***************************************************************************)
EXTENDS Integers, Sequences, FiniteSets

CONSTANTS
  SessionSize,         \* bytes of the volume this session covers
  BlockSize,           \* bytes of one block
  Workers,             \* the hasher worker threads (hasherWorkerNum of them)
  AllocatorBlockNum,   \* buffers in the pool, DEFAULT_ALLOCATOR_BLOCK_NUM
  QueueSize,           \* capacity of each queue, DEFAULT_QUEUE_SIZE
  HasherEnabled,
  Incremental,         \* HasherForwardMode::DIFF, which only a hasher looks at
  CheckpointEnabled,
  SkipEmptyBlock,
  Data,                \* what a block can hold
  ZeroData,            \* the block of zeros
  Torn,                \* what a failed or interrupted write may leave
  SourceContents,      \* the contents the source may have
  TargetContents,      \* the contents the target may have beforehand
  Attempts,            \* what earlier attempts at the session may have left
  OpenMayFail, ReadMayFail, WriteMayFail, AllocMayTimeout

MAX_HASHER_WORKER_NUM == 32
BITS_PER_UINT8 == 8

TotalBlocks ==
  SessionSize \div BlockSize + (IF SessionSize % BlockSize # 0 THEN 1 ELSE 0)

Blocks == 0 .. TotalBlocks - 1
m_maxIndex_OnePast == TotalBlocks
m_maxIndex == TotalBlocks - 1
Slots == 0 .. AllocatorBlockNum - 1
Tasks == {"reader", "hasher", "writer"}
Queues == {"hashing", "write"}
TaskStatus ==
  {"INIT", "RUNNING", "ABORTING", "SUCCEED", "ABORTED", "FAILED"}

\* The length of a block: the last one of a session may be shorter.
Length(b) ==
  IF SessionSize - b * BlockSize < BlockSize
  THEN SessionSize - b * BlockSize
  ELSE BlockSize

\* SHA-256 without collisions.  A checksum table is created filled with zeros,
\* which are, like a checksum that was cut short, the checksum of no block.
SHA256(d) == <<"sha256", d>>
NoHash == <<"zeros">>
Checksums == {SHA256(d) : d \in Data} \cup {NoHash}

\* VolumeConsumeBlock: which block of the session, in which buffer.
ConsumeBlock == [index : Blocks, ptr : Slots]
NoBlock == [index |-> -1, ptr |-> -1]
NoPtr == -1

ASSUME SizesAssumption ==
  /\ SessionSize \in Nat \ {0}
  /\ BlockSize \in Nat \ {0}
  /\ TotalBlocks \in Nat \ {0}
  /\ AllocatorBlockNum \in Nat \ {0}
  /\ QueueSize \in Nat \ {0}

ASSUME ConfigAssumption ==
  /\ IsFiniteSet(Workers)
  /\ {HasherEnabled, Incremental, CheckpointEnabled, SkipEmptyBlock,
      OpenMayFail, ReadMayFail, WriteMayFail, AllocMayTimeout} \subseteq BOOLEAN
  /\ Incremental => HasherEnabled

ASSUME DataAssumption ==
  /\ ZeroData \in Data
  /\ Torn \notin Data
  /\ SourceContents \subseteq [Blocks -> Data]
  /\ TargetContents \subseteq [Blocks -> Data]

\* The bits set in the two bitmaps, the blocks with a checksum in the table;
\* and what the earlier attempts have made of each block of the target.
Checkpoints ==
  [processed : SUBSET Blocks, written : SUBSET Blocks, hashed : SUBSET Blocks]
NoCheckpoint == [processed |-> {}, written |-> {}, hashed |-> {}]

ASSUME AttemptsAssumption ==
  Attempts \subseteq [loaded : Checkpoints, left : [Blocks -> {"old", "new", "torn"}]]

VARIABLES
  source,            \* content of the medium that is read
  target,            \* content of the medium that is written
  previousTable,     \* checksums of the previous copy
  lastestTable,      \* checksums of this copy
  processed,         \* processedBitmap, as the set of its indices
  written,           \* writtenBitmap
  loaded,            \* the checkpoint that was loaded: for the properties only
  allocTable,        \* the buffers marked as allocated
  pool,              \* what each buffer holds
  hashingQueue, writeQueue,
  finished,          \* the queues Finish() was called on
  counter,           \* SessionCounter
  status, m_abort,   \* StatefulTask's fields of the three sub-tasks
  m_pause,
  readerPc, m_currentIndex, readerPtr,
  workerPc, workerBlock,
  workerByte,        \* the bitmap byte a worker loaded in Bitmap::Set
  m_workersRunning,
  writerPc, writerBlock, writerByte,
  m_failed           \* VolumeBlockWriter::m_failed

media == <<source, target, previousTable, loaded>>
bitmaps == <<processed, written>>
buffers == <<allocTable, pool>>
queues == <<hashingQueue, writeQueue, finished>>
control == <<status, m_abort, m_pause>>
readerVars == <<readerPc, m_currentIndex, readerPtr>>
workerVars == <<workerPc, workerBlock, workerByte, m_workersRunning>>
writerVars == <<writerPc, writerBlock, writerByte, m_failed>>
vars == <<media, lastestTable, bitmaps, buffers, queues, counter, control,
          readerVars, workerVars, writerVars>>

ReaderPcs == {"idle", "start", "check", "alloc", "read", "push", "count",
              "finish", "done"}
WorkerPcs == {"idle", "start", "check", "pop", "hash", "drop", "mark",
              "forward", "exit", "last", "done"}
WriterPcs == {"idle", "check", "pop", "write", "mark", "store", "verdict",
              "done"}
CounterNames == {"bytesToRead", "bytesRead", "blocksToHash", "blocksHashed",
                 "bytesToWrite", "bytesWritten", "blockesWriteFailed"}

-----------------------------------------------------------------------------
\* Bitmap::Set loads the byte that holds the bit and stores it with the bit
\* set, without a lock: a bit of the same byte that another thread stored in
\* between is lost.
SameByte(a, b) == a \div BITS_PER_UINT8 = b \div BITS_PER_UINT8
LoadByte(bits, b) == {x \in bits : SameByte(x, b)}
StoreByte(bits, byte, b) == {x \in bits : ~SameByte(x, b)} \cup byte \cup {b}

\* Bitmap::FirstIndexUnset: the bitmap always has a bit past the last block.
FirstIndexUnset(bits, i) ==
  i \notin bits /\ \A j \in 0 .. i - 1 : j \in bits

\* BlockAlloc takes the first free buffer, BlockFree clears its mark.
BlockAlloc_Unmarked(p) ==
  /\ p \in Slots \ allocTable
  /\ \A q \in Slots \ allocTable : p <= q
  /\ UNCHANGED allocTable

BlockAlloc(p) ==
  /\ p \in Slots \ allocTable
  /\ \A q \in Slots \ allocTable : p <= q
  /\ allocTable' = allocTable \cup {p}

BlockFree(p) == allocTable' = allocTable \ {p}

\* BlockingPush on a queue: dropped when the queue is finished, else it waits
\* for room.  BlockingPop waits for an item, and reports the end of the queue
\* when it is finished and empty.
CanPush_OnePlaceFree(name, q) == name \in finished \/ Len(q) < QueueSize - 1
CanPush(name, q) == name \in finished \/ Len(q) < QueueSize
Pushed(name, q, block) == IF name \in finished THEN q ELSE Append(q, block)
EndOfQueue_OnFinish(name, q) == name \in finished
EndOfQueue(name, q) == name \in finished /\ q = <<>>
Finish_Forgotten(name) == UNCHANGED finished
Finish(name) == finished' = finished \cup {name}

NeedToWrite_Never0(d) == d # ZeroData
NeedToWrite(d) == ~SkipEmptyBlock \/ d # ZeroData

Add(name, n) == [counter EXCEPT ![name] = @ + n]
SetStatus(task, s) == status' = [status EXCEPT ![task] = s]
IsTerminated(task) == status[task] \in {"SUCCEED", "ABORTED", "FAILED"}

-----------------------------------------------------------------------------
\* RestoreSessionCounter: what the counters say after a restart, computed from
\* the number of bits set.
BytesOf(bits) ==
  IF Cardinality(bits) = TotalBlocks
  THEN SessionSize
  ELSE Cardinality(bits) * BlockSize

RestoredCounter_Unwritten(p, w) ==
  LET hashed == IF HasherEnabled THEN Cardinality(p) ELSE 0
  IN  [bytesToRead |-> SessionSize, bytesRead |-> BytesOf(p),
       blocksToHash |-> hashed, blocksHashed |-> hashed,
       bytesToWrite |-> BytesOf(p), bytesWritten |-> BytesOf(w),
       blockesWriteFailed |-> 0]

RestoredCounter(p, w) ==
  LET hashed == IF HasherEnabled THEN Cardinality(p) ELSE 0
  IN  [bytesToRead |-> SessionSize, bytesRead |-> BytesOf(p),
       blocksToHash |-> hashed, blocksHashed |-> hashed,
       bytesToWrite |-> BytesOf(w), bytesWritten |-> BytesOf(w),
       blockesWriteFailed |-> 0]

NewCounter == [n \in CounterNames |-> 0]

\* LoadSessionPreviousCopyChecksum reads one checksum per whole block: a
\* shorter last block keeps the zeros the table was created with.
LoadedPreviousTable(old) ==
  [b \in Blocks |-> IF Incremental /\ b < SessionSize \div BlockSize
                    THEN SHA256(old[b]) ELSE NoHash]

\* InitBackupSessionContext: pool, queues, threads and flags of a new session.
NewThreads ==
  /\ allocTable = {} /\ pool = [p \in Slots |-> ZeroData]
  /\ hashingQueue = <<>> /\ writeQueue = <<>> /\ finished = {}
  /\ status = [t \in Tasks |-> "INIT"]
  /\ m_abort = [t \in Tasks |-> FALSE]
  /\ m_pause = FALSE
  /\ readerPc = "idle" /\ m_currentIndex = 0 /\ readerPtr = NoPtr
  /\ workerPc = [w \in Workers |-> "idle"]
  /\ workerBlock = [w \in Workers |-> NoBlock]
  /\ workerByte = [w \in Workers |-> {}]
  /\ m_workersRunning = 0
  /\ writerPc = "idle" /\ writerBlock = NoBlock /\ writerByte = {}
  /\ m_failed = FALSE

\* Whether the block has to go to the writer at all, and whether that writes it.
Changed(b) == previousTable[b] # SHA256(source[b])
IsWritten(b) == Changed(b) /\ NeedToWrite(source[b])

\* What RestoreSessionCheckpoint may find.  The two bitmaps and the checksums
\* come from different moments: a block may be written and not processed (the
\* snapshot copies the processed bits first, the writer sets them last, and
\* they may get lost), and each block may lack its checksum (the table is
\* flushed before the bitmap that is saved is copied, and a file that was cut
\* short is filled up with zeros).  What is processed and changed is written.
CheckpointLeft(c, left) ==
  /\ ~CheckpointEnabled => c = NoCheckpoint
  /\ ~HasherEnabled => c.hashed = {}
  /\ \A b \in c.processed : Changed(b) => b \in c.written
  /\ \A b \in c.written : Changed(b) /\ (IsWritten(b) => left[b] = "new")
  /\ \A b \in Blocks : left[b] # "old" => IsWritten(b)

TargetLeft(left, old) ==
  [b \in Blocks |-> CASE left[b] = "new" -> source[b]
                      [] left[b] = "torn" -> Torn
                      [] OTHER -> old[b]]

\* A session that starts from the beginning, or from what earlier attempts on
\* the same source, in which no write failed, have left.
Init ==
  /\ NewThreads
  /\ source \in SourceContents
  /\ \E old \in TargetContents, attempt \in Attempts :
       /\ previousTable = LoadedPreviousTable(old)
       /\ CheckpointLeft(attempt.loaded, attempt.left)
       /\ target = TargetLeft(attempt.left, old)
       /\ loaded = attempt.loaded
  /\ processed = loaded.processed /\ written = loaded.written
  /\ lastestTable = [b \in Blocks |->
                       IF b \in loaded.hashed THEN SHA256(source[b]) ELSE NoHash]
  /\ counter = IF loaded.processed \cup loaded.written = {} THEN NewCounter
               ELSE RestoredCounter(processed, written)

-----------------------------------------------------------------------------
(* What the task's thread does to the three sub-tasks.                     *)

\* StartBackupSession starts them in this order, stops at the first failure.
StartReader ==
  /\ status["reader"] = "INIT"
  /\ \/ /\ SetStatus("reader", "RUNNING")
        /\ readerPc' = "start"
        /\ counter' = [counter EXCEPT !["bytesToRead"] = SessionSize]
     \/ /\ OpenMayFail
        /\ SetStatus("reader", "FAILED")
        /\ UNCHANGED <<readerPc, counter>>
  /\ UNCHANGED <<media, lastestTable, bitmaps, buffers, queues, m_abort,
                 m_pause, m_currentIndex, readerPtr, workerVars, writerVars>>

StartHasher ==
  /\ readerPc # "idle" /\ status["hasher"] = "INIT"
  /\ IF ~HasherEnabled
     THEN SetStatus("hasher", "SUCCEED") /\ UNCHANGED workerPc
     ELSE IF Cardinality(Workers) \notin 1 .. MAX_HASHER_WORKER_NUM
     THEN SetStatus("hasher", "FAILED") /\ UNCHANGED workerPc
     ELSE /\ SetStatus("hasher", "RUNNING")
          /\ workerPc' = [w \in Workers |-> "start"]
  /\ UNCHANGED <<media, lastestTable, bitmaps, buffers, queues, counter,
                 m_abort, m_pause, readerVars, workerBlock, workerByte,
                 m_workersRunning, writerVars>>

HasherStarted ==
  IF HasherEnabled THEN \E w \in Workers : workerPc[w] # "idle"
  ELSE status["hasher"] # "INIT"

StartWriter ==
  /\ HasherStarted /\ status["writer"] = "INIT"
  /\ \/ SetStatus("writer", "RUNNING") /\ writerPc' = "check"
     \/ OpenMayFail /\ SetStatus("writer", "FAILED") /\ UNCHANGED writerPc
  /\ UNCHANGED <<media, lastestTable, bitmaps, buffers, queues, counter,
                 m_abort, m_pause, readerVars, workerVars, writerBlock,
                 writerByte, m_failed>>

\* StatefulTask::Abort of one sub-task.  (That it looks at the status and stores
\* ABORTING in two steps matters where someone waits for the status to be final:
\* for the task itself, see BackupSession.)
Abort(t) ==
  /\ m_abort' = [m_abort EXCEPT ![t] = TRUE]
  /\ SetStatus(t, IF status[t] = "INIT" THEN "ABORTED"
                  ELSE IF IsTerminated(t) THEN status[t] ELSE "ABORTING")
  /\ UNCHANGED <<media, lastestTable, bitmaps, buffers, queues, counter,
                 m_pause, readerVars, workerVars, writerVars>>

SetPause(on) ==
  /\ m_pause' = on
  /\ UNCHANGED <<media, lastestTable, bitmaps, buffers, queues, counter,
                 status, m_abort, readerVars, workerVars, writerVars>>

-----------------------------------------------------------------------------
(* VolumeBlockReader::MainThread.                                          *)

ReaderStart ==
  /\ readerPc = "start"
  /\ m_currentIndex' \in
       {i \in 0 .. TotalBlocks : IF CheckpointEnabled
                                THEN FirstIndexUnset(processed, i) ELSE i = 0}
  /\ readerPc' = "check"
  /\ UNCHANGED <<media, lastestTable, bitmaps, buffers, queues, counter,
                 control, readerPtr, workerVars, writerVars>>

\* The head of the loop: completed, aborted, paused, or the next block, which
\* is skipped when the restored bitmap has it.
ReaderLeave ==
  /\ readerPc = "check"
  /\ \/ m_currentIndex > m_maxIndex /\ SetStatus("reader", "SUCCEED")
     \/ /\ m_currentIndex <= m_maxIndex /\ m_abort["reader"]
        /\ SetStatus("reader", "ABORTED")
  /\ readerPc' = "finish"
  /\ UNCHANGED <<media, lastestTable, bitmaps, buffers, queues, counter,
                 m_abort, m_pause, m_currentIndex, readerPtr, workerVars,
                 writerVars>>

SkipReadingBlock_Never == FALSE
SkipReadingBlock == CheckpointEnabled /\ m_currentIndex \in processed

ReaderNext ==
  /\ readerPc = "check"
  /\ m_currentIndex <= m_maxIndex /\ ~m_abort["reader"] /\ ~m_pause
  /\ IF SkipReadingBlock
     THEN m_currentIndex' = m_currentIndex + 1 /\ UNCHANGED readerPc
     ELSE readerPc' = "alloc" /\ UNCHANGED m_currentIndex
  /\ UNCHANGED <<media, lastestTable, bitmaps, buffers, queues, counter,
                 control, readerPtr, workerVars, writerVars>>

\* FetchBlockBuffer polls the allocator and gives up after a minute.
ReaderAlloc ==
  /\ readerPc = "alloc"
  /\ \E p \in Slots : BlockAlloc(p) /\ readerPtr' = p
  /\ readerPc' = "read"
  /\ UNCHANGED <<media, lastestTable, bitmaps, pool, queues, counter, control,
                 m_currentIndex, workerVars, writerVars>>

ReaderAllocTimeout ==
  /\ readerPc = "alloc" /\ AllocMayTimeout /\ allocTable = Slots
  /\ SetStatus("reader", "FAILED")
  /\ readerPc' = "finish"
  /\ UNCHANGED <<media, lastestTable, bitmaps, buffers, queues, counter,
                 m_abort, m_pause, m_currentIndex, readerPtr, workerVars,
                 writerVars>>

ReaderRead ==
  /\ readerPc = "read"
  /\ pool' = [pool EXCEPT ![readerPtr] = source[m_currentIndex]]
  /\ counter' = Add("bytesRead", Length(m_currentIndex))
  /\ readerPc' = "push"
  /\ UNCHANGED <<media, lastestTable, bitmaps, allocTable, queues, control,
                 m_currentIndex, readerPtr, workerVars, writerVars>>

\* A read error leaves the loop; the buffer stays allocated.
ReaderReadFail ==
  /\ readerPc = "read" /\ ReadMayFail
  /\ SetStatus("reader", "FAILED")
  /\ readerPc' = "finish" /\ readerPtr' = NoPtr
  /\ UNCHANGED <<media, lastestTable, bitmaps, buffers, queues, counter,
                 m_abort, m_pause, m_currentIndex, workerVars, writerVars>>

\* The queue the reader feeds.
ReaderQueue == IF HasherEnabled THEN "hashing" ELSE "write"

\* BlockingPushForward; what BlockingPush returns is not looked at.
ReaderPush ==
  /\ readerPc = "push"
  /\ LET block == [index |-> m_currentIndex, ptr |-> readerPtr]
     IN  IF ReaderQueue = "hashing"
         THEN /\ CanPush("hashing", hashingQueue)
              /\ hashingQueue' = Pushed("hashing", hashingQueue, block)
              /\ UNCHANGED writeQueue
         ELSE /\ CanPush("write", writeQueue)
              /\ writeQueue' = Pushed("write", writeQueue, block)
              /\ UNCHANGED hashingQueue
  /\ readerPc' = "count" /\ readerPtr' = NoPtr
  /\ UNCHANGED <<media, lastestTable, bitmaps, buffers, finished, counter,
                 control, m_currentIndex, workerVars, writerVars>>

ReaderCount ==
  /\ readerPc = "count"
  /\ counter' = IF HasherEnabled THEN Add("blocksToHash", 1)
                ELSE Add("bytesToWrite", Length(m_currentIndex))
  /\ m_currentIndex' = m_currentIndex + 1
  /\ readerPc' = "check"
  /\ UNCHANGED <<media, lastestTable, bitmaps, buffers, queues, control,
                 readerPtr, workerVars, writerVars>>

ReaderFinish ==
  /\ readerPc = "finish"
  /\ Finish(ReaderQueue)
  /\ readerPc' = "done"
  /\ UNCHANGED <<media, lastestTable, bitmaps, buffers, hashingQueue,
                 writeQueue, counter, control, m_currentIndex, readerPtr,
                 workerVars, writerVars>>

Reader ==
  \/ ReaderStart \/ ReaderLeave \/ ReaderNext \/ ReaderAlloc
  \/ ReaderAllocTimeout \/ ReaderRead \/ ReaderReadFail \/ ReaderPush
  \/ ReaderCount \/ ReaderFinish

-----------------------------------------------------------------------------
(* VolumeBlockHasher::WorkerThread, run by every worker.                   *)

Goto(w, label) == workerPc' = [workerPc EXCEPT ![w] = label]

WorkerStart(w) ==
  /\ workerPc[w] = "start"
  /\ m_workersRunning' = m_workersRunning + 1
  /\ Goto(w, "check")
  /\ UNCHANGED <<media, lastestTable, bitmaps, buffers, queues, counter,
                 control, readerVars, workerBlock, workerByte, writerVars>>

WorkerCheck(w) ==
  /\ workerPc[w] = "check"
  /\ IF m_abort["hasher"]
     THEN SetStatus("hasher", "ABORTED") /\ Goto(w, "exit")
     ELSE Goto(w, "pop") /\ UNCHANGED status
  /\ UNCHANGED <<media, lastestTable, bitmaps, buffers, queues, counter,
                 m_abort, m_pause, readerVars, workerBlock, workerByte,
                 m_workersRunning, writerVars>>

WorkerPop(w) ==
  /\ workerPc[w] = "pop" /\ hashingQueue # <<>>
  /\ workerBlock' = [workerBlock EXCEPT ![w] = Head(hashingQueue)]
  /\ hashingQueue' = Tail(hashingQueue)
  /\ Goto(w, "hash")
  /\ UNCHANGED <<media, lastestTable, bitmaps, buffers, writeQueue, finished,
                 counter, control, readerVars, workerByte, m_workersRunning,
                 writerVars>>

WorkerDrained(w) ==
  /\ workerPc[w] = "pop" /\ EndOfQueue("hashing", hashingQueue)
  /\ SetStatus("hasher", "SUCCEED")
  /\ Goto(w, "exit")
  /\ UNCHANGED <<media, lastestTable, bitmaps, buffers, queues, counter,
                 m_abort, m_pause, readerVars, workerBlock, workerByte,
                 m_workersRunning, writerVars>>

\* ComputeSHA256 into the table, then the comparison with the previous copy.
WorkerHash(w) ==
  /\ workerPc[w] = "hash"
  /\ LET b == workerBlock[w].index
         checksum == SHA256(pool[workerBlock[w].ptr])
         unchanged == Incremental /\ checksum = previousTable[b]
     IN  /\ lastestTable' = [lastestTable EXCEPT ![b] = checksum]
         /\ counter' = [counter EXCEPT
              !["blocksHashed"] = @ + 1,
              !["bytesToWrite"] = IF unchanged THEN @ ELSE @ + Length(b)]
         /\ Goto(w, IF unchanged THEN "drop" ELSE "forward")
  /\ UNCHANGED <<media, bitmaps, buffers, queues, control, readerVars,
                 workerBlock, workerByte, m_workersRunning, writerVars>>

\* An unchanged block is freed, then Bitmap::Set: load here, store in WorkerMark.
WorkerDrop(w) ==
  /\ workerPc[w] = "drop"
  /\ BlockFree(workerBlock[w].ptr)
  /\ workerByte' = [workerByte EXCEPT ![w] = LoadByte(processed, workerBlock[w].index)]
  /\ Goto(w, "mark")
  /\ UNCHANGED <<media, lastestTable, bitmaps, pool, queues, counter, control,
                 readerVars, workerBlock, m_workersRunning, writerVars>>

WorkerMark(w) ==
  /\ workerPc[w] = "mark"
  /\ processed' = StoreByte(processed, workerByte[w], workerBlock[w].index)
  /\ workerBlock' = [workerBlock EXCEPT ![w] = NoBlock]
  /\ workerByte' = [workerByte EXCEPT ![w] = {}]
  /\ Goto(w, "check")
  /\ UNCHANGED <<media, lastestTable, written, buffers, queues, counter,
                 control, readerVars, m_workersRunning, writerVars>>

WorkerForward(w) ==
  /\ workerPc[w] = "forward" /\ CanPush("write", writeQueue)
  /\ writeQueue' = Pushed("write", writeQueue, workerBlock[w])
  /\ workerBlock' = [workerBlock EXCEPT ![w] = NoBlock]
  /\ Goto(w, "check")
  /\ UNCHANGED <<media, lastestTable, bitmaps, buffers, hashingQueue,
                 finished, counter, control, readerVars, workerByte,
                 m_workersRunning, writerVars>>

\* HandleWorkerTerminate: decrement, then look whether this was the last one.
WorkerExit(w) ==
  /\ workerPc[w] = "exit"
  /\ m_workersRunning' = m_workersRunning - 1
  /\ Goto(w, "last")
  /\ UNCHANGED <<media, lastestTable, bitmaps, buffers, queues, counter,
                 control, readerVars, workerBlock, workerByte, writerVars>>

NoWorkerLeft_OrOne == m_workersRunning <= 1
NoWorkerLeft == m_workersRunning = 0

WorkerLast(w) ==
  /\ workerPc[w] = "last"
  /\ IF NoWorkerLeft THEN Finish("write") ELSE UNCHANGED finished
  /\ Goto(w, "done")
  /\ UNCHANGED <<media, lastestTable, bitmaps, buffers, hashingQueue,
                 writeQueue, counter, control, readerVars, workerBlock,
                 workerByte, m_workersRunning, writerVars>>

Worker(w) ==
  \/ WorkerStart(w) \/ WorkerCheck(w) \/ WorkerPop(w) \/ WorkerDrained(w)
  \/ WorkerHash(w) \/ WorkerDrop(w) \/ WorkerMark(w) \/ WorkerForward(w)
  \/ WorkerExit(w) \/ WorkerLast(w)

-----------------------------------------------------------------------------
(* VolumeBlockWriter::MainThread.                                          *)

WriterCheck ==
  /\ writerPc = "check"
  /\ IF m_abort["writer"]
     THEN SetStatus("writer", "ABORTED") /\ writerPc' = "verdict"
     ELSE writerPc' = "pop" /\ UNCHANGED status
  /\ UNCHANGED <<media, lastestTable, bitmaps, buffers, queues, counter,
                 m_abort, m_pause, readerVars, workerVars, writerBlock,
                 writerByte, m_failed>>

WriterPop_Marks ==
  /\ writerPc = "pop" /\ writeQueue # <<>>
  /\ writerBlock' = Head(writeQueue) /\ writeQueue' = Tail(writeQueue)
  /\ processed' = processed \cup {Head(writeQueue).index}
  /\ writerPc' = "write"
  /\ UNCHANGED <<media, lastestTable, written, buffers, hashingQueue,
                 finished, counter, control, readerVars, workerVars,
                 writerByte, m_failed>>

WriterPop ==
  /\ writerPc = "pop" /\ writeQueue # <<>>
  /\ writerBlock' = Head(writeQueue) /\ writeQueue' = Tail(writeQueue)
  /\ writerPc' = "write"
  /\ UNCHANGED <<media, lastestTable, bitmaps, buffers, hashingQueue,
                 finished, counter, control, readerVars, workerVars,
                 writerByte, m_failed>>

WriterDrained ==
  /\ writerPc = "pop" /\ EndOfQueue("write", writeQueue)
  /\ SetStatus("writer", "SUCCEED")
  /\ writerPc' = "verdict"
  /\ UNCHANGED <<media, lastestTable, bitmaps, buffers, queues, counter,
                 m_abort, m_pause, readerVars, workerVars, writerBlock,
                 writerByte, m_failed>>

\* Once a write failed, every later block is only freed and counted.
WriterDiscard ==
  /\ writerPc = "write" /\ m_failed
  /\ BlockFree(writerBlock.ptr)
  /\ counter' = Add("blockesWriteFailed", 1)
  /\ writerPc' = "check" /\ writerBlock' = NoBlock
  /\ UNCHANGED <<media, lastestTable, bitmaps, pool, queues, control,
                 readerVars, workerVars, writerByte, m_failed>>

\* An empty block may be left out; it counts as written all the same.
WriterWrite ==
  /\ writerPc = "write" /\ ~m_failed
  /\ LET d == pool[writerBlock.ptr]
     IN  target' = IF NeedToWrite(d)
                   THEN [target EXCEPT ![writerBlock.index] = d] ELSE target
  /\ writerPc' = "mark"
  /\ UNCHANGED <<source, previousTable, loaded, lastestTable, bitmaps, buffers,
                 queues, counter, control, readerVars, workerVars,
                 writerBlock, writerByte, m_failed>>

\* A failed write frees the buffer and goes on like a successful one: both
\* bits are set and the buffer is freed a second time.
WriterWriteFail ==
  /\ writerPc = "write" /\ ~m_failed
  /\ WriteMayFail /\ NeedToWrite(pool[writerBlock.ptr])
  /\ \E d \in {target[writerBlock.index], Torn} :
       target' = [target EXCEPT ![writerBlock.index] = d]
  /\ BlockFree(writerBlock.ptr)
  /\ counter' = Add("blockesWriteFailed", 1)
  /\ m_failed' = TRUE
  /\ writerPc' = "mark"
  /\ UNCHANGED <<source, previousTable, loaded, lastestTable, bitmaps, pool, queues,
                 control, readerVars, workerVars, writerBlock, writerByte>>

\* writtenBitmap has no other writer; processedBitmap is loaded here and
\* stored in WriterStore.
WriterMark ==
  /\ writerPc = "mark"
  /\ written' = written \cup {writerBlock.index}
  /\ writerByte' = LoadByte(processed, writerBlock.index)
  /\ writerPc' = "store"
  /\ UNCHANGED <<media, lastestTable, processed, buffers, queues, counter,
                 control, readerVars, workerVars, writerBlock, m_failed>>

WriterStore ==
  /\ writerPc = "store"
  /\ processed' = StoreByte(processed, writerByte, writerBlock.index)
  /\ BlockFree(writerBlock.ptr)
  /\ counter' = Add("bytesWritten", Length(writerBlock.index))
  /\ writerPc' = "check" /\ writerBlock' = NoBlock /\ writerByte' = {}
  /\ UNCHANGED <<media, lastestTable, written, pool, queues, control,
                 readerVars, workerVars, m_failed>>

\* After the loop: SUCCEED becomes FAILED when a write failed.
WriterVerdict ==
  /\ writerPc = "verdict"
  /\ IF status["writer"] = "SUCCEED" /\ counter["blockesWriteFailed"] # 0
     THEN SetStatus("writer", "FAILED") ELSE UNCHANGED status
  /\ writerPc' = "done"
  /\ UNCHANGED <<media, lastestTable, bitmaps, buffers, queues, counter,
                 m_abort, m_pause, readerVars, workerVars, writerBlock,
                 writerByte, m_failed>>

Writer ==
  \/ WriterCheck \/ WriterPop \/ WriterDrained \/ WriterDiscard \/ WriterWrite
  \/ WriterWriteFail \/ WriterMark \/ WriterStore \/ WriterVerdict

-----------------------------------------------------------------------------
Start == StartReader \/ StartHasher \/ StartWriter

Threads == Reader \/ (\E w \in Workers : Worker(w)) \/ Writer

Next ==
  \/ Start
  \/ \E t \in Tasks : Abort(t)
  \/ SetPause(~m_pause)
  \/ Threads

Spec == Init /\ [][Next]_vars

\* The threads are scheduled fairly and the task's thread starts the sub-tasks
\* and always resumes the reader (a scope guard).  A refresh pauses the reader
\* at most once a minute while the reader looks every second, so that a pause
\* cannot hide every look: strong fairness.
Fairness ==
  /\ WF_vars(Start)
  /\ WF_vars(SetPause(FALSE) /\ m_pause)
  /\ SF_vars(Reader)
  /\ \A w \in Workers : WF_vars(Worker(w))
  /\ WF_vars(Writer)

FairSpec == Spec /\ Fairness

-----------------------------------------------------------------------------
(* Properties.                                                             *)

\* The blocks that hold a buffer, each with the place it is at.  The reader's
\* buffer is filled from "push" on.
WorkerHolds(w) == workerPc[w] \in {"hash", "drop", "forward"}
WriterHolds == writerPc \in {"write", "mark", "store"}

InFlight ==
  {<<"hashing", i, hashingQueue[i]>> : i \in DOMAIN hashingQueue}
  \cup {<<"write", i, writeQueue[i]>> : i \in DOMAIN writeQueue}
  \cup {<<"worker", w, workerBlock[w]>> : w \in {v \in Workers : WorkerHolds(v)}}
  \cup (IF WriterHolds THEN {<<"writer", 0, writerBlock>>} ELSE {})
  \cup (IF readerPc = "push"
        THEN {<<"reader", 0, [index |-> m_currentIndex, ptr |-> readerPtr]>>}
        ELSE {})

\* Every variable stays within its type, and a thread that works on a block
\* has one: its index lies in the session, its buffer in the pool.
DataTypeOK ==
  /\ source \in [Blocks -> Data]
  /\ target \in [Blocks -> Data \cup {Torn}]
  /\ previousTable \in [Blocks -> Checksums]
  /\ lastestTable \in [Blocks -> Checksums]
  /\ processed \subseteq Blocks /\ written \subseteq Blocks /\ loaded \in Checkpoints
  /\ allocTable \subseteq Slots /\ pool \in [Slots -> Data]

QueuesTypeOK ==
  /\ hashingQueue \in Seq(ConsumeBlock) /\ writeQueue \in Seq(ConsumeBlock)
  /\ finished \subseteq Queues

ControlTypeOK ==
  /\ counter \in [CounterNames -> Int]
  /\ status \in [Tasks -> TaskStatus] /\ m_abort \in [Tasks -> BOOLEAN]
  /\ m_pause \in BOOLEAN

ReaderTypeOK ==
  /\ readerPc \in ReaderPcs
  /\ m_currentIndex \in 0 .. TotalBlocks
  /\ readerPtr \in Slots \cup {NoPtr}
  /\ readerPc \in {"alloc", "read", "push", "count"} => m_currentIndex \in Blocks
  /\ readerPc \in {"read", "push"} => readerPtr \in Slots

WorkerTypeOK ==
  /\ workerPc \in [Workers -> WorkerPcs]
  /\ workerBlock \in [Workers -> ConsumeBlock \cup {NoBlock}]
  /\ workerByte \in [Workers -> SUBSET Blocks]
  /\ m_workersRunning \in Int
  /\ \A w \in Workers : workerPc[w] \in {"hash", "drop", "mark", "forward"} =>
                         workerBlock[w] \in ConsumeBlock

WriterTypeOK ==
  /\ writerPc \in WriterPcs
  /\ writerBlock \in ConsumeBlock \cup {NoBlock}
  /\ writerByte \subseteq Blocks /\ m_failed \in BOOLEAN
  /\ writerPc \in {"write", "mark", "store"} => writerBlock \in ConsumeBlock

TypeOK ==
  /\ DataTypeOK /\ QueuesTypeOK /\ ControlTypeOK
  /\ ReaderTypeOK /\ WorkerTypeOK /\ WriterTypeOK

\* As long as no write failed, no buffer is shared by two blocks, none is
\* handed out again while a block is in it, and each still holds what was
\* read for its block (BlockAlloc and BlockFree are called by three kinds of
\* threads on one pool).
BuffersIntact ==
  ~m_failed =>
    /\ \A x, y \in InFlight : x[3].ptr = y[3].ptr => x = y
    /\ \A x \in InFlight : /\ x[3].ptr \in allocTable
                           /\ pool[x[3].ptr] = source[x[3].index]

\* A block is in flight at most once, and never while its processed bit is
\* set; nothing the checkpoint calls processed is taken up again.  Nor is a
\* block in flight once its written bit was set, until the writer puts it away,
\* unless the checkpoint called it written and not processed.
ExactlyOnce ==
  /\ \A x, y \in InFlight : x[3].index = y[3].index => x = y
  /\ \A x \in InFlight :
       /\ x[3].index \notin processed \cup loaded.processed
       /\ x[3].index \in written \ loaded.written => x[1] = "writer" /\ writerPc = "store"

\* Nobody is about to push on a finished queue: BlockingPush would drop the
\* block, and neither the reader nor a worker looks at its result.
NoPushAfterFinish ==
  /\ readerPc = "push" => ReaderQueue \notin finished
  /\ \A w \in Workers : workerPc[w] = "forward" => "write" \notin finished

\* A push finds room when the pool has no more buffers than a queue has places,
\* and one less once a write failed, since the failed block's buffer is freed
\* twice: a reader or worker stuck in a push to a queue whose consumers have
\* left would keep the session's destructors waiting.
PushNeverWaits ==
  ~m_failed \/ AllocatorBlockNum < QueueSize =>
    /\ readerPc = "push" =>
         CanPush("hashing", hashingQueue) /\ CanPush("write", writeQueue)
    /\ \A w \in Workers : workerPc[w] = "forward" => CanPush("write", writeQueue)

\* A block of which the checkpoint said that it is processed, and had no
\* checksum: nobody computes it any more.
Hole(b) == b \in loaded.processed \ loaded.hashed

\* The block's checksum is in the table, if there is one to be expected.
HasChecksum(b) ==
  lastestTable[b] = SHA256(source[b]) \/ (Hole(b) /\ lastestTable[b] = NoHash)

\* As long as no write failed, a block marked as processed is on the target,
\* and its checksum in the table unless the checkpoint came without: a restart
\* skips exactly these blocks.
ProcessedIsDone ==
  ~m_failed =>
    \A b \in processed : /\ target[b] = source[b]
                         /\ HasherEnabled => HasChecksum(b)

\* When the three sub-tasks end with SUCCEED, whatever failed or was aborted
\* on the way, nothing is left in flight, no buffer leaked, the target equals
\* the source and every checksum is there that the checkpoint did not lack.
AllSucceeded ==
  (\A t \in Tasks : status[t] = "SUCCEED") /\ writerPc = "done"

SuccessIsComplete ==
  AllSucceeded => /\ InFlight = {} /\ allocTable = {}
                  /\ target = source
                  /\ HasherEnabled => \A b \in Blocks : HasChecksum(b)

\* The statistics of a session that succeeded add up: all that was announced
\* was hashed and written.
StatisticsAddUp ==
  AllSucceeded => /\ counter["blocksHashed"] = counter["blocksToHash"]
                  /\ counter["bytesWritten"] = counter["bytesToWrite"]
                  /\ counter["bytesRead"] >= counter["bytesToRead"]

\* Once started, the three threads end, whichever of them fails, times out or
\* is aborted: the destructors that join them return.
ThreadsDone ==
  /\ readerPc = "done"
  /\ HasherEnabled => \A w \in Workers : workerPc[w] = "done"
  /\ writerPc = "done"

ThreadsTerminate == writerPc = "check" ~> ThreadsDone

=============================================================================
