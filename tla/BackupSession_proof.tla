------------------------- MODULE BackupSession_proof -------------------------
(***************************************************************************)
(* Proofs about a backup or restore of one session with its checkpoints,   *)
(* crashes and restarts, for every size, configuration and number of       *)
(* restarts.                                                               *)
(***************************************************************************)
EXTENDS BackupSession, SessionContents_proof

USE DEF Tasks, Queues, TaskStatus, ReaderPcs, WorkerPcs, WriterPcs,
        CounterNames, NoPtr

-----------------------------------------------------------------------------
(* The session's steps and those of the task around it.                    *)

\* Every step of the task is one of the session, or builds its context anew.
LEMMA PipelineStep ==
  TypeOK /\ [SessionNext]_allVars => [Next]_vars \/ InitSession \/ RunAgain \/ Crash
<1> SUFFICES ASSUME TypeOK, [SessionNext]_allVars, ~InitSession, ~RunAgain, ~Crash
             PROVE  [Next]_vars
  OBVIOUS
<1>1. ASSUME NEW on \in BOOLEAN, SetPause(on) PROVE SetPause(~m_pause) \/ UNCHANGED vars
  <2>1. m_pause \in BOOLEAN
    BY DEF TypeOK, ControlTypeOK
  <2>2. CASE on = m_pause
    BY <1>1, <2>2 DEF SetPause, vars, control
  <2>3. CASE on = ~m_pause
    BY <1>1, <2>3
  <2> QED
    BY <2>1, <2>2, <2>3
<1>2. CASE SessionThreads
  BY <1>2 DEF SessionThreads, Next
<1>3. CASE StartSession
  BY <1>3 DEF StartSession, Next, Start
<1>4. CASE AbortSession
  BY <1>4 DEF AbortSession, Next
<1>5. CASE WatchEnd
  BY <1>1, <1>5 DEF WatchEnd, Next
<1>6. CASE Resume
  BY <1>1, <1>6 DEF Resume, Next
<1>7. CASE NoSession \/ Watch \/ Snap \/ FlushTable \/ FlushWriter \/ SaveCheckpoint
           \/ ClearAllCheckpoints \/ Succeed \/ Join \/ UserAbort \/ UserAbortStore
           \/ UNCHANGED allVars
  BY <1>7 DEF NoSession, Watch, Snap, FlushTable, FlushWriter, SaveCheckpoint,
     ClearAllCheckpoints, Succeed, Join, UserAbort, UserAbortStore, allVars
<1> QED
  BY <1>2, <1>3, <1>4, <1>5, <1>6, <1>7 DEF SessionNext, Main

LEMMA NewContextIsNew == NewContext => NewThreads'
BY DEF NewContext, NewThreads

-----------------------------------------------------------------------------
(* Type correctness.                                                       *)

\* A new context and well-typed data.
DataGiven ==
  /\ source \in [Blocks -> Data] /\ target \in [Blocks -> Data \cup {Torn}]
  /\ previousTable \in [Blocks -> Checksums] /\ lastestTable \in [Blocks -> Checksums]
  /\ processed \subseteq Blocks /\ written \subseteq Blocks /\ loaded \in Checkpoints
  /\ counter \in [CounterNames -> Int]

LEMMA NewContextType == NewThreads /\ DataGiven => TypeOK
<1> SUFFICES ASSUME NewThreads, DataGiven PROVE TypeOK
  OBVIOUS
<1> USE DEF NewThreads, DataGiven
<1>1. DataTypeOK
  BY DataAssumption DEF DataTypeOK
<1>2. QueuesTypeOK
  BY EmptySeq DEF QueuesTypeOK
<1>3. ControlTypeOK
  BY DEF ControlTypeOK
<1>5. WorkerTypeOK
  BY DEF WorkerTypeOK
<1>6. WriterTypeOK
  BY DEF WriterTypeOK
<1>4. ReaderTypeOK
  BY IndexTypes DEF ReaderTypeOK
<1> QED
  BY <1>1, <1>2, <1>3, <1>4, <1>5, <1>6 DEF TypeOK

LEMMA CounterTypes ==
  /\ NewCounter \in [CounterNames -> Int]
  /\ \A p, w \in SUBSET Blocks : RestoredCounter(p, w) \in [CounterNames -> Int]
<1>1. SessionSize \in Int /\ BlockSize \in Int
  BY SizesAssumption
<1>2. ASSUME NEW p \in SUBSET Blocks PROVE Cardinality(p) \in Int /\ BytesOf(p) \in Int
  <2>1. IsFiniteSet(p)
    BY IndexTypes, FS_Subset
  <2>2. Cardinality(p) \in Int
    BY <2>1, FS_CardinalityType
  <2> QED
    BY <1>1, <2>2 DEF BytesOf
<1>3. ASSUME NEW p \in SUBSET Blocks, NEW w \in SUBSET Blocks
      PROVE  RestoredCounter(p, w) \in [CounterNames -> Int]
  <2>1. /\ Cardinality(p) \in Int /\ BytesOf(p) \in Int /\ BytesOf(w) \in Int
    BY <1>2
  <2> QED
    BY <1>1, <2>1 DEF RestoredCounter
<1> QED
  BY <1>3 DEF NewCounter

LEMMA TaskTypeInit == SessionInit => TaskTypeOK
<1> SUFFICES ASSUME SessionInit PROVE TaskTypeOK
  OBVIOUS
<1>1. TypeOK
  BY TypeInit DEF SessionInit
<1>2. NoSnapshot \in Snapshots /\ NoChecksums \in [Blocks -> Checksums]
  BY DEF NoSnapshot, Snapshots, NoChecksums, Checksums
<1>3. MaxRestarts \in Nat /\ 0 \in 0 .. MaxRestarts
  BY TaskAssumption
<1> QED
  BY <1>1, <1>2, <1>3 DEF SessionInit, TaskTypeOK, Snapshots, ChecksumFile,
     CheckpointFile, FileStates, TypeOK, DataTypeOK

\* What the next attempt starts from has the right types.
LEMMA NewContextTypeStep ==
  TaskTypeOK /\ (InitSession \/ RunAgain \/ Crash) => TypeOK'
<1> SUFFICES ASSUME TaskTypeOK, InitSession \/ RunAgain \/ Crash PROVE TypeOK'
  OBVIOUS
<1> SUFFICES DataGiven'
  <2>1. NewContext
    BY DEF InitSession, RunAgain, Crash, NewTask
  <2>2. NewThreads' /\ DataGiven' => TypeOK'
    BY NewContextType, PTL
  <2> QED
    BY <2>1, <2>2, NewContextIsNew
<1>1. TypeOK /\ DataTypeOK
  BY DEF TaskTypeOK, TypeOK
<1>2. NoChecksums \in [Blocks -> Checksums]
  BY DEF NoChecksums, Checksums
<1>3. CASE InitSession
  <2>1. LoadableTables \subseteq [Blocks -> Checksums]
    BY DEF LoadableTables, TaskTypeOK, Checksums
  <2>2. lastestTable' \in [Blocks -> Checksums]
    BY <1>2, <1>3, <2>1 DEF InitSession
  <2> DEFINE shot == IF BitmapsRestored THEN checkpointFile.shot ELSE NoSnapshot
  <2>3. shot.processed \subseteq Blocks /\ shot.written \subseteq Blocks
    BY DEF TaskTypeOK, NoSnapshot, Snapshots
  <2>4. /\ processed' = shot.processed /\ written' = shot.written
        /\ counter' = RestoredCounter(shot.processed, shot.written) \/ counter' = NewCounter
        /\ UNCHANGED <<source, target, previousTable>>
    BY <1>3 DEF InitSession
  <2>6. /\ loaded'.processed = processed' /\ loaded'.written = written'
        /\ loaded'.hashed \subseteq Blocks
        /\ loaded' = [processed |-> loaded'.processed, written |-> loaded'.written,
                      hashed |-> loaded'.hashed]
    BY <1>3 DEF InitSession
  <2>5. counter' \in [CounterNames -> Int]
    BY <2>3, <2>4, CounterTypes
  <2> HIDE DEF shot
  <2>7. loaded' \in Checkpoints
    BY <2>3, <2>4, <2>6 DEF Checkpoints
  <2> QED
    BY <1>1, <2>2, <2>3, <2>4, <2>5, <2>7 DEF DataGiven, DataTypeOK
<1>4. CASE RunAgain \/ Crash
  <2>1. /\ lastestTable' = NoChecksums /\ processed' = {} /\ written' = {}
        /\ counter' = NewCounter /\ UNCHANGED <<source, previousTable>>
        /\ loaded' = NoCheckpoint
    BY <1>4 DEF RunAgain, Crash, NewTask
  <2>3. NoCheckpoint \in Checkpoints
    BY DEF NoCheckpoint, Checkpoints
  <2>2. target' \in [Blocks -> Data \cup {Torn}]
    BY <1>1, <1>4 DEF RunAgain, Crash, InterruptedWrite, DataTypeOK
  <2> QED
    BY <1>1, <1>2, <2>1, <2>2, <2>3, CounterTypes DEF DataGiven, DataTypeOK
<1> QED
  BY <1>3, <1>4

\* The variables of the task.
TaskVarsOK ==
  /\ taskStatus \in TaskStatus
  /\ taskAbort \in BOOLEAN /\ abortPending \in BOOLEAN
  /\ verdict \in {"RUNNING", "ABORTED", "FAILED"}
  /\ snapshot \in Snapshots /\ latest \in Snapshots

FilesOK ==
  /\ checksumFile \in [state : FileStates, table : [Blocks -> Checksums]]
  /\ checkpointFile \in [state : FileStates, shot : Snapshots]
  /\ durable \in [Blocks -> Data \cup {Torn}]
  /\ restarts \in 0 .. MaxRestarts

LEMMA TaskVarsStep ==
  TypeOK /\ TaskVarsOK /\ [SessionNext]_allVars => TaskVarsOK'
<1> SUFFICES ASSUME TypeOK, TaskVarsOK, [SessionNext]_allVars PROVE TaskVarsOK'
  OBVIOUS
<1> USE DEF TaskVarsOK, user, snapshots
<1>0. NoSnapshot \in Snapshots /\ processed \in SUBSET Blocks /\ written \in SUBSET Blocks
  BY DEF NoSnapshot, Snapshots, TypeOK, DataTypeOK
<1>1. CASE SessionThreads \/ UNCHANGED allVars
  BY <1>1 DEF SessionThreads, allVars, taskVars
<1>2. CASE InitSession \/ NoSession
  BY <1>2 DEF InitSession, NoSession
<1>3. CASE StartSession
  BY <1>3 DEF StartSession, AfterStart
<1>4. CASE Watch
  BY <1>4 DEF Watch
<1>5. CASE WatchEnd \/ AbortSession
  BY <1>5 DEF WatchEnd, AbortSession, MainGoto
<1>6. CASE Snap
  BY <1>0, <1>6 DEF Snap, TakeSnapshot, Snapshots
<1>7. CASE FlushTable \/ FlushWriter \/ SaveCheckpoint \/ ClearAllCheckpoints \/ Succeed
  BY <1>7 DEF FlushTable, FlushWriter, SaveCheckpoint, ClearAllCheckpoints, Succeed
<1>8. CASE Resume \/ Join
  BY <1>0, <1>8 DEF Resume, Join, MainGoto
<1>9. CASE UserAbort \/ UserAbortStore \/ RunAgain \/ Crash
  BY <1>0, <1>9 DEF UserAbort, UserAbortStore, RunAgain, Crash, NewTask, TaskTerminated
<1> HIDE DEF TaskVarsOK
<1> QED
  BY <1>1, <1>2, <1>3, <1>4, <1>5, <1>6, <1>7, <1>8, <1>9 DEF SessionNext, Main

LEMMA FilesStep ==
  TypeOK /\ TaskVarsOK /\ FilesOK /\ [SessionNext]_allVars => FilesOK'
<1> SUFFICES ASSUME TypeOK, TaskVarsOK, FilesOK, [SessionNext]_allVars PROVE FilesOK'
  OBVIOUS
<1> USE DEF FilesOK, FileStates, files, ChecksumFile, CheckpointFile
<1>0. /\ snapshot \in Snapshots /\ latest \in Snapshots /\ NoSnapshot \in Snapshots
      /\ lastestTable \in [Blocks -> Checksums]
      /\ target \in [Blocks -> Data \cup {Torn}]
  BY DEF TaskVarsOK, NoSnapshot, Snapshots, TypeOK, DataTypeOK
<1>1. CASE SessionThreads \/ UNCHANGED allVars
  BY <1>1 DEF SessionThreads, allVars
<1>2. CASE InitSession \/ NoSession \/ StartSession \/ Watch \/ WatchEnd
           \/ AbortSession \/ Snap \/ Resume \/ Succeed \/ Join
  BY <1>2 DEF InitSession, NoSession, StartSession, AfterStart, Watch, WatchEnd,
     AbortSession, MainGoto, Snap, Resume, Succeed, Join
<1>3. CASE FlushTable
  BY <1>0, <1>3 DEF FlushTable
<1>4. CASE FlushWriter \/ ClearAllCheckpoints
  BY <1>0, <1>4 DEF FlushWriter, ClearAllCheckpoints
<1>5. CASE SaveCheckpoint
  BY <1>0, <1>5 DEF SaveCheckpoint
<1>6. CASE UserAbort \/ UserAbortStore
  BY <1>6 DEF UserAbort, UserAbortStore
<1>7. CASE RunAgain \/ Crash
  BY <1>7, TaskAssumption DEF RunAgain, Crash, NewTask
<1> HIDE DEF FilesOK
<1> QED
  BY <1>1, <1>2, <1>3, <1>4, <1>5, <1>6, <1>7 DEF SessionNext, Main

LEMMA TaskTypeParts == TaskTypeOK <=> TypeOK /\ TaskVarsOK /\ FilesOK
BY DEF TaskTypeOK, TaskVarsOK, FilesOK, Snapshots

LEMMA TaskTypeStep == TaskTypeOK /\ [SessionNext]_allVars => TaskTypeOK'
<1> SUFFICES ASSUME TaskTypeOK, [SessionNext]_allVars PROVE TaskTypeOK'
  OBVIOUS
<1>1. TypeOK /\ TaskVarsOK /\ FilesOK
  BY TaskTypeParts
<1>2. TypeOK'
  BY <1>1, PipelineStep, TypeStep, NewContextTypeStep
<1>3. TypeOK' /\ TaskVarsOK' /\ FilesOK' => TaskTypeOK'
  BY TaskTypeParts, PTL
<1> QED
  BY <1>1, <1>2, <1>3, TaskVarsStep, FilesStep

\* TaskTypeOK: the variables of the task, its session and its files keep their
\* types over any number of crashes and restarts.
THEOREM TaskTypeCorrect == SessionSpec => []TaskTypeOK
BY TaskTypeInit, TaskTypeStep, PTL DEF SessionSpec

-----------------------------------------------------------------------------
(* The session, whichever attempt it belongs to.                           *)

\* Only changed blocks get past the hasher: what the writer writes is not
\* among the blocks that were fine as they are.
ChangedInv ==
  /\ \A w \in Workers : workerPc[w] = "forward" => Changed(workerBlock[w].index)
  /\ \A i \in DOMAIN writeQueue : Changed(writeQueue[i].index)
  /\ WriterHolds => Changed(writerBlock.index)

\* A full backup and a restore have no previous checksums.
NoneBefore == ~Incremental => \A b \in Blocks : previousTable[b] = NoHash

LEMMA NoneBeforeChanged == NoneBefore /\ ~Incremental => \A b \in Blocks : Changed(b)
BY ChecksumsDiffer DEF NoneBefore, Changed

LEMMA ChangedStep ==
  OwnInv /\ BuffersInv /\ ~m_failed /\ NoneBefore /\ ChangedInv /\ [Next]_vars
    => ChangedInv'
<1> SUFFICES ASSUME OwnInv, BuffersInv, ~m_failed, NoneBefore, ChangedInv, [Next]_vars
             PROVE  ChangedInv'
  OBVIOUS
<1> DEFINE Good(b) == b \in Blocks /\ Changed(b)
<1>1. writeQueue \in Seq(ConsumeBlock) /\ TypeOK
  BY DEF OwnInv, TypeOK, QueuesTypeOK
<1>2. /\ \A i \in DOMAIN writeQueue : Good(writeQueue[i].index)
      /\ WriterHolds => Good(writerBlock.index)
      /\ \A w \in Workers : workerPc[w] = "forward" => Good(workerBlock[w].index)
  BY <1>1, QueueDomain DEF TypeOK, WorkerTypeOK, WriterTypeOK, WriterHolds,
     ConsumeBlock, ChangedInv
<1>3. ~HasherEnabled => \A b \in Blocks : Good(b)
  BY NoneBeforeChanged, ConfigAssumption
<1>4. /\ \A i \in DOMAIN writeQueue' : Good(writeQueue'[i].index)
      /\ WriterHolds' => Good(writerBlock'.index)
      /\ \A w \in Workers : workerPc'[w] = "forward" => Good(workerBlock'[w].index)
  <2> DEFINE Goal == /\ \A i \in DOMAIN writeQueue' : Good(writeQueue'[i].index)
                     /\ WriterHolds' => Good(writerBlock'.index)
                     /\ \A w \in Workers : workerPc'[w] = "forward" =>
                          Good(workerBlock'[w].index)
  <2> SUFFICES Goal
    OBVIOUS
  <2> USE DEF queues, writerVars, workerVars, WriterHolds
  <2>1. CASE Start \/ (\E t \in Tasks : Abort(t)) \/ SetPause(~m_pause) \/ UNCHANGED vars
    <3> HIDE DEF Good
    <3> QED
      BY <1>2, <2>1 DEF Start, StartReader, StartHasher, StartWriter, Abort, SetPause, vars
  <2>2. CASE ReaderPush /\ ~HasherEnabled
    <3>1. m_currentIndex \in Blocks /\ readerPtr \in Slots
      BY <1>1, <2>2 DEF ReaderPush, TypeOK, ReaderTypeOK
    <3>2. Good(m_currentIndex)
      BY <1>3, <2>2, <3>1
    <3> HIDE DEF Good
    <3>3. [index |-> m_currentIndex, ptr |-> readerPtr] \in ConsumeBlock
      BY <3>1 DEF ConsumeBlock
    <3> QED
      BY <1>1, <1>2, <2>2, <3>2, <3>3, QueueDomain DEF ReaderPush, ReaderQueue, Pushed
  <2>3. CASE Reader /\ ~(ReaderPush /\ ~HasherEnabled)
    <3> HIDE DEF Good
    <3> QED
      BY <1>2, <2>3 DEF Reader, ReaderStart, ReaderLeave, ReaderNext, ReaderAlloc,
         ReaderAllocTimeout, ReaderRead, ReaderReadFail, ReaderPush, ReaderCount,
         ReaderFinish, ReaderQueue
  <2>4. ASSUME NEW w \in Workers, WorkerHash(w) PROVE Goal
    <3>1. /\ workerBlock[w].index \in Blocks
          /\ pool[workerBlock[w].ptr] = source[workerBlock[w].index]
      BY <1>1, <2>4, HeldContents DEF WorkerHash, WorkerHolds
    <3>2. workerPc'[w] = "forward" => Good(workerBlock[w].index)
      BY <1>1, <2>4, <3>1, NoneBeforeChanged DEF WorkerHash, Goto, TypeOK, WorkerTypeOK, Changed
    <3> HIDE DEF Good
    <3> QED
      BY <1>1, <1>2, <2>4, <3>2 DEF WorkerHash, Goto, TypeOK, WorkerTypeOK
  <2>5. ASSUME NEW w \in Workers, WorkerForward(w) PROVE Goal
    <3> HIDE DEF Good
    <3>1. workerBlock[w] \in ConsumeBlock /\ Good(workerBlock[w].index)
      BY <1>1, <1>2, <2>5 DEF WorkerForward, TypeOK, WorkerTypeOK
    <3> QED
      BY <1>1, <1>2, <2>5, <3>1, QueueDomain DEF WorkerForward, Pushed, Goto, TypeOK, WorkerTypeOK
  <2>6. ASSUME NEW w \in Workers, Worker(w), ~WorkerHash(w), ~WorkerForward(w) PROVE Goal
    <3> HIDE DEF Good
    <3> QED
      BY <1>1, <1>2, <2>6 DEF Worker, WorkerStart, WorkerCheck, WorkerPop, WorkerDrained,
         WorkerDrop, WorkerMark, WorkerExit, WorkerLast, Goto, TypeOK, WorkerTypeOK
  <2>7. CASE WriterPop
    <3> HIDE DEF Good
    <3> QED
      BY <1>1, <1>2, <2>7, QueueDomain DEF WriterPop
  <2>8. CASE Writer /\ ~WriterPop
    <3> HIDE DEF Good
    <3> QED
      BY <1>2, <2>8 DEF Writer, WriterCheck, WriterDrained, WriterDiscard, WriterWrite,
         WriterWriteFail, WriterMark, WriterStore, WriterVerdict
  <2> HIDE DEF Goal
  <2> QED
    BY <2>1, <2>2, <2>3, <2>4, <2>5, <2>6, <2>7, <2>8 DEF Next, Threads
<1>5. \A b : Good(b) => Changed(b)'
  BY MediaStay DEF Changed
<1> HIDE DEF Good
<1> QED
  BY <1>4, <1>5 DEF ChangedInv, Changed

\* What holds of the session in every attempt.
ContextInv ==
  /\ OwnInv /\ BuffersInv /\ SettledInv /\ DroppedInv /\ CopyInv /\ CopiedSoFar
  /\ VerdictInv /\ ~m_failed /\ counter["blockesWriteFailed"] = 0
  /\ NoneBefore /\ ChangedInv

LEMMA NoWriteFails ==
  ~WriteMayFail /\ TypeOK /\ ~m_failed /\ [Next]_vars =>
    ~m_failed' /\ counter'["blockesWriteFailed"] = counter["blockesWriteFailed"]
<1> SUFFICES ASSUME ~WriteMayFail, TypeOK, ~m_failed, [Next]_vars
             PROVE  counter'["blockesWriteFailed"] = counter["blockesWriteFailed"]
  BY FailureStays DEF WriterWriteFail
<1> USE DEF TypeOK, ControlTypeOK, Add
<1>1. CASE Start \/ (\E t \in Tasks : Abort(t)) \/ SetPause(~m_pause) \/ UNCHANGED vars
  BY <1>1 DEF Start, StartReader, StartHasher, StartWriter, Abort, SetPause, vars
<1>2. CASE Reader
  BY <1>2 DEF Reader, ReaderStart, ReaderLeave, ReaderNext, ReaderAlloc,
     ReaderAllocTimeout, ReaderRead, ReaderReadFail, ReaderPush, ReaderCount,
     ReaderFinish
<1>3. ASSUME NEW w \in Workers, Worker(w)
      PROVE  counter'["blockesWriteFailed"] = counter["blockesWriteFailed"]
  BY <1>3 DEF Worker, WorkerStart, WorkerCheck, WorkerPop, WorkerDrained,
     WorkerHash, WorkerDrop, WorkerMark, WorkerForward, WorkerExit, WorkerLast
<1>4. CASE Writer
  BY <1>4 DEF Writer, WriterCheck, WriterPop, WriterDrained, WriterDiscard,
     WriterWrite, WriterWriteFail, WriterMark, WriterStore, WriterVerdict
<1> QED
  BY <1>1, <1>2, <1>3, <1>4 DEF Next, Threads

LEMMA ContextStep == ~WriteMayFail /\ ContextInv /\ [Next]_vars => ContextInv'
<1> SUFFICES ASSUME ~WriteMayFail, ContextInv, [Next]_vars PROVE ContextInv'
  OBVIOUS
<1>1. OwnInv' /\ BuffersInv' /\ SettledInv' /\ DroppedInv' /\ CopyInv' /\ CopiedSoFar'
      /\ VerdictInv'
  BY OwnStep, BuffersStep, SettledStep, DroppedStep, CopyStep, CopiedSoFarStep,
     VerdictStep DEF ContextInv
<1>2. ~m_failed' /\ counter'["blockesWriteFailed"] = 0
  BY NoWriteFails DEF ContextInv, OwnInv
<1>3. NoneBefore' /\ ChangedInv'
  BY ChangedStep, MediaStay DEF ContextInv, NoneBefore
<1> QED
  BY <1>1, <1>2, <1>3 DEF ContextInv

\* What an attempt starts from.
FreshData ==
  /\ TypeOK /\ NoneBefore /\ counter["blockesWriteFailed"] = 0
  /\ processed # {} => CheckpointEnabled
  /\ \A b \in Blocks : NeedsNoWrite(b) \/ b \in processed => Copied(b)

LEMMA FreshContext == NewThreads /\ FreshData => ContextInv
<1> SUFFICES ASSUME NewThreads, FreshData PROVE ContextInv
  OBVIOUS
<1> USE NewThreadsHold DEF FreshData
<1>1. OwnInv
  BY DEF OwnInv
<1>2. BuffersInv /\ VerdictInv
  BY BuffersInit, VerdictInit
<1>3. SettledInv
  BY DEF SettledInv, PutAway, NewThreads
<1>4. DroppedInv /\ CopyInv
  BY DEF DroppedInv, CopyInv, NewThreads
<1>5. CopiedSoFar
  <2>1. \A b \in Blocks : ~(b < 0)
    BY IndexTypes DEF Blocks
  <2> QED
    BY <2>1 DEF CopiedSoFar
<1>6. ~m_failed /\ ChangedInv
  BY DEF NewThreads, ChangedInv, WriterHolds
<1> QED
  BY <1>1, <1>2, <1>3, <1>4, <1>5, <1>6 DEF ContextInv

-----------------------------------------------------------------------------
(* Where the task's thread is, and what its files are then.                *)

RunPcs == {"startReader", "startHasher", "startWriter", "watch", "watchEnd"}
RefreshPcs ==
  {"snapProcessed", "snapWritten", "openSnapshot", "writeSnapshot", "resume"}
FlushPcs ==
  {"flushTable", "writeTable", "flushWriter", "lastProcessed", "lastWritten",
   "openLatest", "writeLatest"}
FinalPcs == {"completed", "succeed"}
OtherPcs ==
  {"init", "abortReader", "abortHasher", "abortWriter", "join", "ended"}
MainPcs == RunPcs \cup RefreshPcs \cup FlushPcs \cup FinalPcs \cup OtherPcs

\* The reader is paused during a refresh only; a task that succeeded is over.
PlaceInv ==
  /\ mainPc \in MainPcs
  /\ m_pause => mainPc \in RefreshPcs \cup FlushPcs /\ CheckpointEnabled
  /\ mainPc \in RefreshPcs => m_pause
  /\ mainPc \in {"lastProcessed", "lastWritten", "openLatest", "writeLatest"}
       => CheckpointEnabled
  /\ mainPc = "init" => NewThreads /\ snapshot = NoSnapshot /\ latest = NoSnapshot
  /\ taskStatus = "SUCCEED" => mainPc \in {"join", "ended"}

LEMMA IdleThreads == NewThreads => ~Threads
BY DEF NewThreads, Threads, Reader, ReaderStart, ReaderLeave, ReaderNext,
  ReaderAlloc, ReaderAllocTimeout, ReaderRead, ReaderReadFail, ReaderPush,
  ReaderCount, ReaderFinish, Worker, WorkerStart, WorkerCheck, WorkerPop,
  WorkerDrained, WorkerHash, WorkerDrop, WorkerMark, WorkerForward, WorkerExit,
  WorkerLast, Writer, WriterCheck, WriterPop, WriterDrained, WriterDiscard,
  WriterWrite, WriterWriteFail, WriterMark, WriterStore, WriterVerdict

\* Pausing and aborting is the task's thread's business.
LEMMA ThreadsObey == Threads => UNCHANGED <<m_abort, m_pause>>
BY DEF Threads, control, Reader, ReaderStart, ReaderLeave, ReaderNext,
  ReaderAlloc, ReaderAllocTimeout, ReaderRead, ReaderReadFail, ReaderPush,
  ReaderCount, ReaderFinish, Worker, WorkerStart, WorkerCheck, WorkerPop,
  WorkerDrained, WorkerHash, WorkerDrop, WorkerMark, WorkerForward, WorkerExit,
  WorkerLast, Writer, WriterCheck, WriterPop, WriterDrained, WriterDiscard,
  WriterWrite, WriterWriteFail, WriterMark, WriterStore, WriterVerdict

\* The steps that leave the context of the session alone.
Looking ==
  \/ NoSession \/ Watch \/ Snap \/ FlushTable \/ FlushWriter \/ SaveCheckpoint
  \/ ClearAllCheckpoints \/ Succeed \/ Join \/ UserAbort \/ UserAbortStore

LEMMA LookingLeaves == Looking \/ UNCHANGED allVars => UNCHANGED vars
BY DEF Looking, NoSession, Watch, Snap, FlushTable, FlushWriter, SaveCheckpoint,
  ClearAllCheckpoints, Succeed, Join, UserAbort, UserAbortStore, allVars

LEMMA StepKinds ==
  [SessionNext]_allVars =>
    \/ Looking \/ UNCHANGED allVars
    \/ InitSession \/ RunAgain \/ Crash
    \/ StartSession \/ WatchEnd \/ AbortSession \/ Resume \/ SessionThreads
BY DEF SessionNext, Main, Looking

LEMMA PlaceInit == SessionInit => PlaceInv
BY DEF SessionInit, Init, NewThreads, PlaceInv, MainPcs, RunPcs, RefreshPcs,
  FlushPcs, FinalPcs, OtherPcs

LEMMA PlaceStep == TypeOK /\ PlaceInv /\ [SessionNext]_allVars => PlaceInv'
<1> SUFFICES ASSUME TypeOK, PlaceInv, [SessionNext]_allVars PROVE PlaceInv'
  OBVIOUS
<1> USE DEF PlaceInv, MainPcs, RunPcs, RefreshPcs, FlushPcs, FinalPcs, OtherPcs,
        user, snapshots, files
<1>1. CASE UNCHANGED allVars
  BY <1>1 DEF allVars, vars, taskVars, NewThreads, control, media, buffers, queues,
     readerVars, workerVars, writerVars
<1>2. CASE NoSession \/ Watch \/ Succeed \/ Join
  BY <1>2 DEF NoSession, Watch, Succeed, Join, MainGoto, vars, control
<1>3. CASE Snap
  BY <1>3 DEF Snap, TakeSnapshot, vars, control
<1>4. CASE FlushTable \/ FlushWriter
  BY <1>4 DEF FlushTable, FlushWriter, AfterFailedSave, Refreshing, vars, control
<1>5. CASE SaveCheckpoint \/ ClearAllCheckpoints
  BY <1>5 DEF SaveCheckpoint, ClearAllCheckpoints, AfterFailedSave, Refreshing, vars, control
<1>6. CASE UserAbort \/ UserAbortStore
  BY <1>6 DEF UserAbort, UserAbortStore, vars, control, NewThreads, media, buffers,
     queues, readerVars, workerVars, writerVars
<1>7. CASE InitSession
  BY <1>7 DEF InitSession, NewContext
<1>8. CASE RunAgain \/ Crash
  <2>1. NewThreads'
    BY <1>8, NewContextIsNew DEF RunAgain, Crash, NewTask
  <2> QED
    BY <1>8, <2>1 DEF RunAgain, Crash, NewTask, NewContext
<1>9. CASE StartSession
  <2>1. UNCHANGED m_pause
    BY <1>9 DEF StartSession, StartReader, StartHasher, StartWriter
  <2> QED
    BY <1>9, <2>1 DEF StartSession, AfterStart
<1>10. CASE WatchEnd
  BY <1>10 DEF WatchEnd, MainGoto, SetPause, vars, control
<1>11. CASE AbortSession
  <2>1. UNCHANGED m_pause
    BY <1>11 DEF AbortSession, Abort
  <2> QED
    BY <1>11, <2>1 DEF AbortSession, MainGoto
<1>12. CASE Resume
  BY <1>12 DEF Resume, SetPause
<1>13. CASE SessionThreads
  <2>1. UNCHANGED m_pause /\ mainPc # "init"
    BY <1>13, ThreadsObey, IdleThreads DEF SessionThreads
  <2> QED
    BY <1>13, <2>1 DEF SessionThreads, taskVars
<1> HIDE DEF PlaceInv
<1> QED
  BY <1>1, <1>2, <1>3, <1>4, <1>5, <1>6, <1>7, <1>8, <1>9, <1>10, <1>11, <1>12, <1>13,
     StepKinds DEF Looking

\* There is a checksum file before there is a checkpoint file.
FilesInv ==
  /\ checkpointFile.state # "none" => CheckpointEnabled
  /\ HasherEnabled /\ (\/ checkpointFile.state # "none"
                       \/ mainPc \in FlushPcs \ {"flushTable"}
                       \/ mainPc \in {"openSnapshot", "writeSnapshot"} \cup FinalPcs
                       \/ taskStatus = "SUCCEED")
       => checksumFile.state # "none"

LEMMA FilesInvStep ==
  TaskVarsOK /\ FilesOK /\ PlaceInv /\ FilesInv /\ [SessionNext]_allVars => FilesInv'
<1> SUFFICES ASSUME TaskVarsOK, FilesOK, PlaceInv, FilesInv, [SessionNext]_allVars PROVE FilesInv'
  OBVIOUS
<1> USE DEF FilesInv, RefreshPcs, FlushPcs, FinalPcs, user, snapshots, files,
        ChecksumFile, CheckpointFile
<1>1. CASE UNCHANGED allVars \/ SessionThreads
  BY <1>1 DEF allVars, taskVars, SessionThreads
<1>2. CASE NoSession \/ Watch \/ Succeed \/ Join
  BY <1>2 DEF NoSession, Watch, Succeed, Join, MainGoto
<1>3. CASE Snap
  BY <1>3 DEF Snap, TakeSnapshot
<1>4. CASE FlushTable \/ FlushWriter
  BY <1>4 DEF FlushTable, FlushWriter, AfterFailedSave, FilesOK, PlaceInv, Refreshing
<1>5. CASE SaveCheckpoint
  BY <1>5 DEF SaveCheckpoint, AfterFailedSave, Refreshing, FilesOK, PlaceInv
<1>6. CASE ClearAllCheckpoints
  BY <1>6 DEF ClearAllCheckpoints
<1>7. CASE UserAbort \/ UserAbortStore
  BY <1>7 DEF UserAbort, UserAbortStore
<1>8. CASE InitSession \/ RunAgain \/ Crash
  BY <1>8 DEF InitSession, RunAgain, Crash, NewTask, PlaceInv
<1>9. CASE StartSession
  BY <1>9 DEF StartSession, AfterStart
<1>10. CASE WatchEnd \/ Resume
  BY <1>10 DEF WatchEnd, MainGoto, Resume
<1>11. CASE AbortSession
  BY <1>11 DEF AbortSession, MainGoto, TaskVarsOK
<1> HIDE DEF FilesInv
<1> QED
  BY <1>1, <1>2, <1>3, <1>4, <1>5, <1>6, <1>7, <1>8, <1>9, <1>10, <1>11,
     StepKinds DEF Looking

-----------------------------------------------------------------------------
(* What the checkpoint file says is processed.                             *)

\* No thread runs: the task is about to begin, or was never begun.
Idle == NewThreads /\ mainPc \in {"init", "ended"}

\* What is in a snapshot, or in the checkpoint file, is on the target, and
\* nobody touches it any more.  While a checkpoint file is torn its contents do
\* not matter, except that they are about to be completed.
RecordedInv ==
  /\ \A b \in snapshot.processed \cup latest.processed : Copied(b) /\ PutAway(b)
  /\ checkpointFile.state = "saved" \/ mainPc \in {"writeLatest", "writeSnapshot"} =>
       \A b \in checkpointFile.shot.processed : Copied(b) /\ (Idle \/ PutAway(b))

\* An interrupted write hits neither what is put away nor what is fine as it is.
LEMMA CrashSpares ==
  ASSUME ContextInv, Crash, NEW b \in Blocks, Copied(b),
         NewThreads \/ PutAway(b) \/ NeedsNoWrite(b)
  PROVE  Copied(b)'
<1>1. source' = source /\ target' \in InterruptedWrite
  BY DEF Crash, NewTask
<1>2. CASE target' = target
  BY <1>1, <1>2 DEF Copied
<1>3. CASE target' # target
  <2>1. /\ writerPc = "write" /\ NeedToWrite(pool[writerBlock.ptr])
        /\ target' = [target EXCEPT ![writerBlock.index] = Torn]
    BY <1>1, <1>3 DEF InterruptedWrite
  <2>2. <<"writer", 0, writerBlock>> \in InFlight /\ WriterHolds
    BY <2>1 DEF InFlight, WriterHolds
  <2>3. pool[writerBlock.ptr] = source[writerBlock.index] /\ Changed(writerBlock.index)
    BY <2>2, HeldContents DEF ContextInv, OwnInv, ChangedInv
  <2>4. ~NewThreads
    BY <2>1 DEF NewThreads
  <2>5. b # writerBlock.index
    <3>1. SUFFICES ASSUME b = writerBlock.index PROVE FALSE
      OBVIOUS
    <3>2. ~PutAway(b)
      BY <2>2, <3>1 DEF PutAway
    <3>3. ~NeedsNoWrite(b)
      BY <2>1, <2>3, <3>1 DEF NeedsNoWrite, NeedToWrite, Changed
    <3> QED
      BY <2>4, <3>2, <3>3
  <2>6. target \in [Blocks -> Data \cup {Torn}]
    BY DEF ContextInv, OwnInv, TypeOK, DataTypeOK
  <2> QED
    BY <1>1, <2>1, <2>5, <2>6 DEF Copied
<1> QED
  BY <1>2, <1>3

\* The blocks marked in a new context are put away.
MarkedPutAway == CheckpointEnabled => \A b \in processed : PutAway(b)

LEMMA NewMarkedPutAway == NewThreads => MarkedPutAway
BY NewThreadsHold DEF NewThreads, MarkedPutAway, PutAway

\* A complete checkpoint file is loaded.
LEMMA SavedIsLoaded ==
  ASSUME FilesInv, InitSession, checkpointFile.state = "saved"
  PROVE  CheckpointEnabled /\ processed' = checkpointFile.shot.processed
<1>1. BitmapsRestored
  BY DEF FilesInv, BitmapsRestored, Restored, ChecksumsRestored
<1> QED
  BY <1>1 DEF InitSession, BitmapsRestored, Restored

\* What an attempt finds is fit to start from.
LEMMA NewAttempt ==
  ASSUME TaskTypeOK, ContextInv, FilesInv, RecordedInv, InitSession \/ RunAgain \/ Crash
  PROVE  ContextInv'
<1>1. TypeOK' /\ NewThreads'
  BY NewContextTypeStep, NewContextIsNew DEF InitSession, RunAgain, Crash, NewTask
<1>2. UNCHANGED <<source, previousTable>>
  BY DEF InitSession, RunAgain, Crash, NewTask, media
<1>3. NoneBefore'
  BY <1>2 DEF ContextInv, NoneBefore
<1>4. counter'["blockesWriteFailed"] = 0
  BY DEF InitSession, RunAgain, Crash, NewTask, NewCounter, RestoredCounter
<1>5. processed' # {} => CheckpointEnabled
  BY DEF InitSession, BitmapsRestored, Restored, NoSnapshot, RunAgain, Crash, NewTask
<1>6. ASSUME NEW b \in Blocks, NeedsNoWrite(b)' \/ b \in processed' PROVE Copied(b)'
  <2>1. NeedsNoWrite(b)' => NeedsNoWrite(b) /\ Copied(b)
    BY <1>2 DEF NeedsNoWrite, ContextInv, CopyInv
  <2>2. CASE InitSession
    <3>1. b \in processed' => Copied(b)
      BY <2>2 DEF InitSession, BitmapsRestored, NoSnapshot, RecordedInv
    <3> QED
      BY <1>6, <2>1, <2>2, <3>1 DEF InitSession, media, Copied
  <2>3. CASE RunAgain
    BY <1>2, <1>6, <2>1, <2>3 DEF RunAgain, NewTask, Copied
  <2>4. CASE Crash
    BY <1>6, <2>1, <2>4, CrashSpares DEF Crash, NewTask
  <2> QED
    BY <2>2, <2>3, <2>4
<1>7. FreshData'
  BY <1>1, <1>3, <1>4, <1>5, <1>6 DEF FreshData
<1>8. NewThreads' /\ FreshData' => ContextInv'
  BY FreshContext, PTL
<1> QED
  BY <1>1, <1>7, <1>8

LEMMA RecordedStep ==
  ASSUME ~WriteMayFail, TaskTypeOK, ContextInv, PlaceInv, FilesInv, RecordedInv,
         [SessionNext]_allVars
  PROVE  RecordedInv'
<1>1. TypeOK /\ FilesOK /\ TaskVarsOK
  BY TaskTypeParts
<1>2. /\ snapshot.processed \subseteq Blocks /\ latest.processed \subseteq Blocks
      /\ checkpointFile.shot.processed \subseteq Blocks
  BY <1>1 DEF TaskVarsOK, FilesOK, Snapshots
<1>3. ASSUME NEW b \in Blocks, Copied(b), PutAway(b), [Next]_vars
      PROVE  Copied(b)' /\ PutAway(b)'
  <2>1. ~m_failed'
    BY <1>3, ContextStep DEF ContextInv
  <2> QED
    BY <1>3, <2>1, CopiedStays, PutAwayStays DEF ContextInv
<1>4. ASSUME Idle, [Next]_vars, ~InitSession, ~RunAgain, ~Crash
      PROVE  Idle' /\ UNCHANGED vars
  <2>1. ~SessionThreads
    BY <1>4, IdleThreads DEF Idle, SessionThreads
  <2>2. ~StartSession /\ ~WatchEnd /\ ~AbortSession /\ ~Resume
    BY <1>4 DEF Idle, StartSession, WatchEnd, AbortSession, Resume
  <2>3. Looking \/ UNCHANGED allVars
    BY <1>4, <2>1, <2>2, StepKinds
  <2>4. UNCHANGED vars
    BY <2>3, LookingLeaves
  <2>5. NewThreads'
    BY <1>4, <2>4 DEF Idle, NewThreads, vars, media, buffers, queues, control,
       readerVars, workerVars, writerVars
  <2>6. mainPc' \in {"init", "ended"}
    BY <1>4, <2>3 DEF Idle, Looking, NoSession, Watch, Snap, TakeSnapshot, FlushTable,
       FlushWriter, SaveCheckpoint, ClearAllCheckpoints, Succeed, Join, UserAbort,
       UserAbortStore, allVars, taskVars
  <2> QED
    BY <2>4, <2>5, <2>6 DEF Idle
<1>5. ASSUME [Next]_vars, ~InitSession, ~RunAgain, ~Crash, NEW b \in Blocks,
             Copied(b), Idle \/ PutAway(b)
      PROVE  Copied(b)' /\ (Idle' \/ PutAway(b)')
  <2>1. CASE Idle
    BY <1>4, <1>5, <2>1 DEF Copied, vars, media
  <2>2. CASE PutAway(b)
    BY <1>3, <1>5, <2>2
  <2> QED
    BY <1>5, <2>1, <2>2
<1>6. CASE [Next]_vars /\ ~InitSession /\ ~RunAgain /\ ~Crash
  <2>1. ASSUME NEW b \in Blocks, b \in snapshot.processed \cup latest.processed
        PROVE  Copied(b)' /\ PutAway(b)'
    BY <1>3, <1>6, <2>1 DEF RecordedInv
  <2>2. ASSUME NEW b \in Blocks, b \in processed PROVE Copied(b)' /\ PutAway(b)'
    <3>1. Copied(b) /\ PutAway(b)
      BY <2>2 DEF ContextInv, CopyInv, SettledInv, IsSettled
    <3> QED
      BY <1>3, <1>6, <3>1
  <2>3. ASSUME NEW b \in Blocks, b \in checkpointFile.shot.processed,
               checkpointFile.state = "saved" \/ mainPc \in {"writeLatest", "writeSnapshot"}
        PROVE  Copied(b)' /\ (Idle' \/ PutAway(b)')
    BY <1>5, <1>6, <2>3 DEF RecordedInv
  <2>4. ASSUME NEW b \in snapshot'.processed \cup latest'.processed
        PROVE  Copied(b)' /\ PutAway(b)'
    <3>1. processed \subseteq Blocks
      BY <1>1 DEF TypeOK, DataTypeOK
    <3>2. b \in snapshot.processed \cup latest.processed \cup processed
      <4>1. CASE Snap
        BY <1>1, <4>1 DEF Snap, TakeSnapshot, TaskVarsOK, Snapshots
      <4>2. CASE Resume
        BY <4>2 DEF Resume, NoSnapshot
      <4>3. CASE ~Snap /\ ~Resume
        <5>1. UNCHANGED snapshots
          BY <1>6, <4>3 DEF SessionNext, Main, SessionThreads, allVars, taskVars, snapshots,
            NoSession, StartSession, AfterStart, Watch, WatchEnd, AbortSession, MainGoto,
            FlushTable, FlushWriter, SaveCheckpoint, ClearAllCheckpoints, Succeed, Join,
            UserAbort, UserAbortStore
        <5> QED
          BY <2>4, <5>1 DEF snapshots
      <4> QED
        BY <4>1, <4>2, <4>3
    <3> QED
      BY <1>2, <2>1, <2>2, <3>1, <3>2
  <2>5. ASSUME NEW b \in checkpointFile'.shot.processed,
               checkpointFile'.state = "saved" \/ mainPc' \in {"writeLatest", "writeSnapshot"}
        PROVE  Copied(b)' /\ (Idle' \/ PutAway(b)')
    <3>1. CASE SaveCheckpoint
      <4>1. \/ b \in snapshot.processed \cup latest.processed
            \/ /\ b \in checkpointFile.shot.processed
               /\ checkpointFile.state = "saved" \/ mainPc \in {"writeLatest", "writeSnapshot"}
        BY <1>1, <2>5, <3>1 DEF SaveCheckpoint, AfterFailedSave, CheckpointFile, FilesOK
      <4> QED
        BY <1>2, <2>1, <2>3, <4>1
    <3>2. CASE ClearAllCheckpoints
      BY <1>2, <2>3, <2>5, <3>2 DEF ClearAllCheckpoints, CheckpointFile, NoSnapshot
    <3>3. CASE ~SaveCheckpoint /\ ~ClearAllCheckpoints
      <4>1. UNCHANGED checkpointFile
        BY <1>6, <3>3 DEF SessionNext, Main, SessionThreads, allVars, files,
          NoSession, StartSession, AfterStart, Watch, WatchEnd, AbortSession, MainGoto,
          Snap, FlushTable, FlushWriter, Resume, Succeed, Join, UserAbort, UserAbortStore
      <4>2. mainPc' \in {"writeLatest", "writeSnapshot"} => mainPc' = mainPc
        BY <1>6, <3>3 DEF SessionNext, Main, SessionThreads, allVars, taskVars,
          NoSession, StartSession, AfterStart, Watch, WatchEnd, AbortSession, MainGoto,
          Snap, TakeSnapshot, FlushTable, AfterFailedSave, FlushWriter, Resume, Succeed,
          Join, UserAbort, UserAbortStore
      <4> QED
        BY <1>2, <2>3, <2>5, <4>1, <4>2
    <3> QED
      BY <3>1, <3>2, <3>3
  <2> QED
    BY <2>4, <2>5 DEF RecordedInv
<1>7. CASE InitSession
  <2>1. snapshot'.processed = {} /\ latest'.processed = {} /\ UNCHANGED checkpointFile
        /\ mainPc' = "startReader"
    BY <1>7 DEF InitSession, PlaceInv, snapshots, files, NoSnapshot
  <2>2. ASSUME checkpointFile.state = "saved", NEW b \in checkpointFile.shot.processed
        PROVE  Copied(b)' /\ PutAway(b)'
    <3>1. CheckpointEnabled /\ b \in processed'
      BY <1>7, <2>2, SavedIsLoaded
    <3>2. NewThreads' => MarkedPutAway'
      BY NewMarkedPutAway, PTL
    <3>3. PutAway(b)'
      BY <1>7, <3>1, <3>2, NewContextIsNew DEF InitSession, MarkedPutAway
    <3>4. Copied(b)'
      BY <1>7, <2>2 DEF RecordedInv, InitSession, media, Copied
    <3> QED
      BY <3>3, <3>4
  <2> QED
    BY <2>1, <2>2 DEF RecordedInv
<1>8. CASE RunAgain \/ Crash
  <2>1. /\ snapshot'.processed = {} /\ latest'.processed = {} /\ UNCHANGED checkpointFile
        /\ mainPc' = "init" /\ NewThreads'
    BY <1>8, NewContextIsNew DEF RunAgain, Crash, NewTask, files, NoSnapshot
  <2>2. ASSUME checkpointFile.state = "saved", NEW b \in checkpointFile.shot.processed
        PROVE  Copied(b)'
    <3>1. b \in Blocks /\ Copied(b) /\ (NewThreads \/ PutAway(b))
      BY <1>2, <2>2 DEF RecordedInv, Idle
    <3> QED
      BY <1>8, <3>1, CrashSpares DEF RunAgain, NewTask, Copied
  <2> QED
    BY <2>1, <2>2 DEF RecordedInv, Idle
<1> QED
  BY <1>1, <1>6, <1>7, <1>8, PipelineStep

-----------------------------------------------------------------------------
(* Together.                                                               *)

AttemptInv ==
  TaskTypeOK /\ ContextInv /\ PlaceInv /\ FilesInv /\ RecordedInv

LEMMA AttemptInit == SkippedIsEmpty /\ SessionInit => AttemptInv
<1> SUFFICES ASSUME SkippedIsEmpty, SessionInit PROVE AttemptInv
  OBVIOUS
<1>1. Init /\ NewThreads /\ TaskTypeOK
  BY TaskTypeInit DEF SessionInit, Init
<1>2. FreshData
  <2>1. TypeOK /\ CopyInv /\ ~m_failed /\ processed = {}
    BY <1>1, CopyInit DEF TaskTypeOK, SessionInit, NewThreads, Init, NoCheckpoint
  <2>2. NoneBefore
    BY <1>1 DEF Init, LoadedPreviousTable, NoneBefore
  <2>3. counter["blockesWriteFailed"] = 0
    BY <1>1 DEF Init, NewCounter, RestoredCounter
  <2> QED
    BY <2>1, <2>2, <2>3 DEF FreshData, CopyInv
<1>3. FilesInv /\ RecordedInv
  BY DEF SessionInit, FilesInv, RecordedInv, CheckpointFile, NoSnapshot, FlushPcs, FinalPcs
<1> QED
  BY <1>1, <1>2, <1>3, PlaceInit, FreshContext DEF AttemptInv

LEMMA AttemptStep ==
  ~WriteMayFail /\ AttemptInv /\ [SessionNext]_allVars => AttemptInv'
<1> SUFFICES ASSUME ~WriteMayFail, AttemptInv, [SessionNext]_allVars PROVE AttemptInv'
  OBVIOUS
<1>1. TypeOK /\ TaskVarsOK /\ FilesOK
  BY TaskTypeParts DEF AttemptInv
<1>2. ContextInv'
  BY <1>1, PipelineStep, ContextStep, NewAttempt DEF AttemptInv
<1>3. TaskTypeOK' /\ PlaceInv' /\ FilesInv' /\ RecordedInv'
  BY <1>1, TaskTypeStep, PlaceStep, FilesInvStep, RecordedStep DEF AttemptInv
<1> QED
  BY <1>2, <1>3 DEF AttemptInv

\* CheckpointIsSound: when no write fails, what a complete checkpoint file calls
\* processed is on the target, whatever was aborted, crashed or could not be
\* read, opened or saved, in this attempt and in those before.
THEOREM CheckpointHolds ==
  SkippedIsEmpty /\ ~WriteMayFail => (SessionSpec => []CheckpointIsSound)
<1> SUFFICES ASSUME SkippedIsEmpty, ~WriteMayFail PROVE SessionSpec => []CheckpointIsSound
  OBVIOUS
<1>1. AttemptInv => CheckpointIsSound
  BY DEF AttemptInv, RecordedInv, Copied, CheckpointIsSound
<1> QED
  BY <1>1, AttemptInit, AttemptStep, PTL DEF SessionSpec

-----------------------------------------------------------------------------
(* A task that succeeds.  Without an error of the media, the sub-tasks are *)
(* in trouble only when the task aborts them.  (With one, a task may       *)
(* succeed although its reader failed: see FailedSessionFails.)            *)

NoMediaErrors == ~ReadMayFail /\ ~WriteMayFail /\ ~AllocMayTimeout

NoTrouble ==
  \A t \in Tasks : ~m_abort[t] /\ status[t] \in {"INIT", "RUNNING", "SUCCEED"}
AllSuccessful == \A t \in Tasks : status[t] = "SUCCEED"
WorkPcs == RunPcs \cup RefreshPcs \cup FlushPcs \cup FinalPcs
AfterFlush ==
  {"lastProcessed", "lastWritten", "openLatest", "writeLatest"} \cup FinalPcs

\* At work the task has aborted nobody; at its last flush its sub-tasks were
\* successful; what they wrote is on the medium after that.
TroubleInv == mainPc \in WorkPcs \/ taskStatus = "SUCCEED" => NoTrouble

FinalInv ==
  (mainPc \in FlushPcs \cup FinalPcs /\ ~m_pause) \/ taskStatus = "SUCCEED"
    => AllSuccessful

DurableInv ==
  (mainPc \in AfterFlush /\ ~m_pause) \/ taskStatus = "SUCCEED" => durable = source

\* A checksum, in memory or in the file, is that of the source, or missing.
TableInv ==
  \A b \in Blocks : /\ lastestTable[b] \in {NoHash, SHA256(source[b])}
                    /\ checksumFile.table[b] \in {NoHash, SHA256(source[b])}

\* The threads themselves only ever report success.
LEMMA ThreadsDoWell ==
  ASSUME NoMediaErrors, TypeOK, NoTrouble, counter["blockesWriteFailed"] = 0, Threads
  PROVE  \A t \in Tasks : /\ m_abort'[t] = m_abort[t]
                          /\ status'[t] \in {status[t], "SUCCEED"}
<1> USE DEF NoMediaErrors, TypeOK, ControlTypeOK, NoTrouble, control, SetStatus
<1> DEFINE Goal == UNCHANGED m_abort /\ \A t \in Tasks : status'[t] \in {status[t], "SUCCEED"}
<1>1. Reader => Goal
  BY DEF Reader, ReaderStart, ReaderLeave, ReaderNext, ReaderAlloc,
     ReaderAllocTimeout, ReaderRead, ReaderReadFail, ReaderPush, ReaderCount,
     ReaderFinish
<1>2. ASSUME NEW w \in Workers, Worker(w) PROVE Goal
  BY <1>2 DEF Worker, WorkerStart, WorkerCheck, WorkerPop, WorkerDrained,
     WorkerHash, WorkerDrop, WorkerMark, WorkerForward, WorkerExit, WorkerLast
<1>3. Writer => Goal
  BY DEF Writer, WriterCheck, WriterPop, WriterDrained, WriterDiscard,
     WriterWrite, WriterWriteFail, WriterMark, WriterStore, WriterVerdict
<1> HIDE DEF Goal
<1>4. Goal
  BY <1>1, <1>2, <1>3 DEF Threads
<1> QED
  BY <1>4 DEF Goal

\* Sub-tasks that all report success have copied all.
LEMMA SuccessfulCopied ==
  ASSUME ContextInv, AllSuccessful
  PROVE  target = source /\ ~WriterHolds
<1> USE DEF ContextInv, OwnInv, VerdictInv, AllSuccessful
<1>1. writerPc \in {"verdict", "done"} /\ WriteOver
  BY DEF WriterVerdicts
<1>2. readerPc \in {"finish", "done"} /\ Frontier = TotalBlocks
  BY DEF ReaderVerdict, Frontier
<1>3. hashingQueue = <<>>
  BY DEF HasherVerdict, HashingOver
<1>4. \A w \in Workers : ~WorkerHolds(w)
  BY <1>1 DEF WriteOver, FinishInv, WriteFinished, WorkersTogether, WorkerHolds
<1>5. InFlight = {} /\ ~WriterHolds
  BY <1>1, <1>2, <1>3, <1>4 DEF InFlight, WriterHolds, WriteOver
<1>6. \A b \in Blocks : b < Frontier
  BY <1>2, IndexTypes DEF Blocks
<1>7. \A b \in Blocks : Copied(b)
  BY <1>5, <1>6 DEF CopiedSoFar
<1> QED
  BY <1>5, <1>7 DEF TypeOK, DataTypeOK, Copied

LEMMA TroubleStep ==
  NoMediaErrors /\ AttemptInv /\ TroubleInv /\ [SessionNext]_allVars => TroubleInv'
<1> SUFFICES ASSUME NoMediaErrors, AttemptInv, TroubleInv, [SessionNext]_allVars,
                    mainPc' \in WorkPcs \/ taskStatus' = "SUCCEED"
             PROVE  NoTrouble'
  BY DEF TroubleInv
<1>0. TypeOK /\ TaskVarsOK /\ PlaceInv /\ counter["blockesWriteFailed"] = 0
  BY TaskTypeParts DEF AttemptInv, ContextInv
<1> USE DEF WorkPcs, RunPcs, RefreshPcs, FlushPcs, FinalPcs
<1>1. CASE Looking \/ UNCHANGED allVars
  <2>1. UNCHANGED <<m_abort, status>>
    BY <1>1, LookingLeaves DEF vars, control
  <2>2. mainPc \in WorkPcs \/ taskStatus = "SUCCEED"
    BY <1>1 DEF Looking, NoSession, Watch, Snap, TakeSnapshot, FlushTable,
       FlushWriter, SaveCheckpoint, ClearAllCheckpoints, Succeed, Join, MainGoto,
       UserAbort, UserAbortStore, allVars, taskVars
  <2> QED
    BY <2>1, <2>2 DEF TroubleInv, NoTrouble
<1>2. CASE InitSession
  BY <1>2 DEF InitSession, NewContext, NoTrouble
<1>3. CASE RunAgain \/ Crash
  BY <1>3 DEF RunAgain, Crash, NewTask
<1>4. CASE StartSession
  <2>1. NoTrouble
    BY <1>4 DEF StartSession, TroubleInv
  <2>2. \A t \in Tasks : status'[t] # "FAILED"
    BY <1>0, <1>4, <2>1 DEF StartSession, AfterStart, StartReader, StartHasher,
       StartWriter, SetStatus, TypeOK, ControlTypeOK, PlaceInv, NoTrouble
  <2> QED
    BY <1>0, <1>4, <2>1, <2>2 DEF StartSession, StartReader, StartHasher,
       StartWriter, SetStatus, TypeOK, ControlTypeOK, NoTrouble
<1>5. CASE WatchEnd \/ Resume
  BY <1>5 DEF WatchEnd, Resume, SetPause, MainGoto, vars, control, TroubleInv, NoTrouble
<1>6. CASE AbortSession
  BY <1>0, <1>6 DEF AbortSession, MainGoto, TaskVarsOK, PlaceInv
<1>7. CASE SessionThreads
  <2>1. Threads /\ NoTrouble
    BY <1>7 DEF SessionThreads, taskVars, TroubleInv
  <2> QED
    BY <1>0, <2>1, ThreadsDoWell DEF NoTrouble
<1> QED
  BY <1>1, <1>2, <1>3, <1>4, <1>5, <1>6, <1>7, StepKinds

LEMMA FinalStep ==
  NoMediaErrors /\ AttemptInv /\ TroubleInv /\ FinalInv /\ [SessionNext]_allVars
    => FinalInv'
<1> SUFFICES ASSUME NoMediaErrors, AttemptInv, TroubleInv, FinalInv, [SessionNext]_allVars,
                    \/ mainPc' \in FlushPcs \cup FinalPcs /\ ~m_pause'
                    \/ taskStatus' = "SUCCEED"
             PROVE  AllSuccessful'
  BY DEF FinalInv
<1>0. TypeOK /\ TaskVarsOK /\ PlaceInv /\ counter["blockesWriteFailed"] = 0
  BY TaskTypeParts DEF AttemptInv, ContextInv
<1> USE DEF WorkPcs, RunPcs, RefreshPcs, FlushPcs, FinalPcs
<1>1. CASE Looking \/ UNCHANGED allVars
  <2>1. UNCHANGED <<m_pause, status>>
    BY <1>1, LookingLeaves DEF vars, control
  <2>2. (mainPc \in FlushPcs \cup FinalPcs /\ ~m_pause) \/ taskStatus = "SUCCEED"
    BY <1>0, <1>1, <2>1 DEF Looking, NoSession, Watch, Snap, TakeSnapshot, FlushTable,
       FlushWriter, SaveCheckpoint, ClearAllCheckpoints, Succeed, Join, MainGoto,
       UserAbort, UserAbortStore, allVars, taskVars, PlaceInv, Refreshing
  <2> QED
    BY <2>1, <2>2 DEF FinalInv, AllSuccessful
<1>2. CASE InitSession \/ RunAgain \/ Crash
  BY <1>0, <1>2 DEF InitSession, RunAgain, Crash, NewTask, PlaceInv
<1>3. CASE StartSession \/ AbortSession \/ Resume
  BY <1>0, <1>3 DEF StartSession, AfterStart, AbortSession, MainGoto, Resume,
     TaskVarsOK, PlaceInv
<1>4. CASE WatchEnd
  <2>1. IsSessionTerminated /\ UNCHANGED status /\ mainPc = "watchEnd"
    BY <1>0, <1>4 DEF WatchEnd, MainGoto, SetPause, PlaceInv, vars, control
  <2>2. NoTrouble
    BY <2>1 DEF TroubleInv
  <2> QED
    BY <2>1, <2>2 DEF IsSessionTerminated, IsTerminated, NoTrouble, AllSuccessful
<1>5. CASE SessionThreads
  <2>1. Threads /\ UNCHANGED <<m_pause, mainPc, taskStatus>>
    BY <1>5, ThreadsObey DEF SessionThreads, taskVars
  <2>2. AllSuccessful /\ NoTrouble
    BY <2>1 DEF FinalInv, TroubleInv
  <2> QED
    BY <1>0, <2>1, <2>2, ThreadsDoWell DEF AllSuccessful
<1> QED
  BY <1>1, <1>2, <1>3, <1>4, <1>5, StepKinds

LEMMA DurableStep ==
  AttemptInv /\ FinalInv /\ DurableInv /\ [SessionNext]_allVars => DurableInv'
<1> SUFFICES ASSUME AttemptInv, FinalInv, DurableInv, [SessionNext]_allVars,
                    (mainPc' \in AfterFlush /\ ~m_pause') \/ taskStatus' = "SUCCEED"
             PROVE  durable' = source'
  BY DEF DurableInv
<1>0. TaskVarsOK /\ PlaceInv /\ ContextInv
  BY TaskTypeParts DEF AttemptInv
<1> USE DEF AfterFlush, RefreshPcs, FlushPcs, FinalPcs
<1>1. CASE FlushWriter
  <2>1. /\ durable' = target /\ UNCHANGED <<source, m_pause>>
        /\ mainPc = "flushWriter" /\ taskStatus' = taskStatus
    BY <1>1 DEF FlushWriter, vars, media, control
  <2>2. AllSuccessful
    BY <1>0, <2>1 DEF FinalInv, PlaceInv
  <2> QED
    BY <1>0, <2>1, <2>2, SuccessfulCopied
<1>2. CASE (Looking \/ UNCHANGED allVars) /\ ~FlushWriter
  <2>1. UNCHANGED <<m_pause, source, durable>>
    BY <1>2, LookingLeaves DEF vars, control, media, Looking, NoSession, Watch, Snap,
       FlushTable, SaveCheckpoint, ClearAllCheckpoints, Succeed, Join, MainGoto,
       UserAbort, UserAbortStore, allVars
  <2>2. (mainPc \in AfterFlush /\ ~m_pause) \/ taskStatus = "SUCCEED"
    BY <1>0, <1>2, <2>1 DEF Looking, NoSession, Watch, Snap, TakeSnapshot, FlushTable,
       SaveCheckpoint, ClearAllCheckpoints, Succeed, Join, MainGoto, AfterFailedSave,
       UserAbort, UserAbortStore, allVars, taskVars, PlaceInv, Refreshing
  <2> QED
    BY <2>1, <2>2 DEF DurableInv
<1>3. CASE InitSession \/ RunAgain \/ Crash
  BY <1>0, <1>3 DEF InitSession, RunAgain, Crash, NewTask, PlaceInv
<1>4. CASE StartSession \/ AbortSession \/ Resume \/ WatchEnd
  BY <1>0, <1>4 DEF StartSession, AfterStart, AbortSession, MainGoto, Resume,
     WatchEnd, TaskVarsOK, PlaceInv
<1>5. CASE SessionThreads
  <2>1. /\ UNCHANGED <<m_pause, mainPc, taskStatus, durable>>
        /\ UNCHANGED source
    BY <1>5, ThreadsObey, MediaStay DEF SessionThreads, taskVars, Next
  <2> QED
    BY <2>1 DEF DurableInv
<1> QED
  BY <1>1, <1>2, <1>3, <1>4, <1>5, StepKinds

LEMMA TableStep ==
  ~WriteMayFail /\ AttemptInv /\ TableInv /\ [SessionNext]_allVars => TableInv'
<1> SUFFICES ASSUME ~WriteMayFail, AttemptInv, TableInv, [SessionNext]_allVars,
                    NEW b \in Blocks
             PROVE  /\ lastestTable'[b] \in {NoHash, SHA256(source'[b])}
                    /\ checksumFile'.table[b] \in {NoHash, SHA256(source'[b])}
  BY DEF TableInv
<1>1. TypeOK /\ TaskVarsOK /\ FilesOK /\ ContextInv
  BY TaskTypeParts DEF AttemptInv
<1>2. source' = source
  BY <1>1, PipelineStep, MediaStay DEF InitSession, RunAgain, Crash, NewTask, media
<1>3. checksumFile'.table[b] \in {lastestTable[b], checksumFile.table[b]}
  <2>1. CASE FlushTable
    BY <1>1, <2>1 DEF FlushTable, ChecksumFile, FilesOK
  <2>2. CASE ~FlushTable
    BY <2>2 DEF SessionNext, Main, SessionThreads, allVars, files, InitSession,
      NoSession, StartSession, AfterStart, Watch, WatchEnd, AbortSession, MainGoto,
      Snap, FlushWriter, SaveCheckpoint, Resume, ClearAllCheckpoints, Succeed, Join,
      UserAbort, UserAbortStore, RunAgain, Crash
  <2> QED
    BY <2>1, <2>2
<1>4. lastestTable'[b] \in {lastestTable[b], checksumFile.table[b], NoHash, SHA256(source[b])}
  <2>1. CASE InitSession
    BY <2>1 DEF InitSession, LoadableTables, NoChecksums
  <2>2. CASE RunAgain \/ Crash
    BY <2>2 DEF RunAgain, Crash, NewTask, NoChecksums
  <2>3. CASE [Next]_vars
    <3>1. ASSUME NEW w \in Workers, WorkerHash(w)
          PROVE  lastestTable'[b] \in {lastestTable[b], SHA256(source[b])}
      <4>1. pool[workerBlock[w].ptr] = source[workerBlock[w].index]
        BY <1>1, <3>1, HeldContents DEF WorkerHash, WorkerHolds, ContextInv
      <4> QED
        BY <1>1, <3>1, <4>1 DEF WorkerHash, TypeOK, DataTypeOK
    <3>2. (\A w \in Workers : ~WorkerHash(w)) => lastestTable' = lastestTable
      BY <2>3 DEF Next, vars, Start, Threads, Reader, Worker, Writer,
        StartReader, StartHasher, StartWriter, Abort, SetPause, ReaderStart,
        ReaderLeave, ReaderNext, ReaderAlloc, ReaderAllocTimeout, ReaderRead,
        ReaderReadFail, ReaderPush, ReaderCount, ReaderFinish, WorkerStart,
        WorkerCheck, WorkerPop, WorkerDrained, WorkerDrop, WorkerMark,
        WorkerForward, WorkerExit, WorkerLast, WriterCheck, WriterPop,
        WriterDrained, WriterDiscard, WriterWrite, WriterWriteFail, WriterMark,
        WriterStore, WriterVerdict
    <3> QED
      BY <3>1, <3>2
  <2> QED
    BY <1>1, <2>1, <2>2, <2>3, PipelineStep
<1> QED
  BY <1>2, <1>3, <1>4 DEF TableInv

SuccessInv ==
  AttemptInv /\ TroubleInv /\ FinalInv /\ DurableInv /\ TableInv

LEMMA SuccessInit == SkippedIsEmpty /\ SessionInit => SuccessInv
<1> SUFFICES ASSUME SkippedIsEmpty, SessionInit PROVE SuccessInv
  OBVIOUS
<1>1. processed = {} /\ Init
  BY DEF SessionInit, Init, NoCheckpoint
<1>2. TableInv
  BY <1>1 DEF SessionInit, Init, TableInv, ChecksumFile, NoChecksums
<1>3. mainPc = "init" /\ taskStatus = "RUNNING"
  BY DEF SessionInit
<1> QED
  BY <1>2, <1>3, AttemptInit DEF SuccessInv, TroubleInv, FinalInv, DurableInv,
     WorkPcs, RunPcs, RefreshPcs, FlushPcs, FinalPcs, AfterFlush

LEMMA SuccessStep ==
  NoMediaErrors /\ SuccessInv /\ [SessionNext]_allVars => SuccessInv'
BY AttemptStep, TroubleStep, FinalStep, DurableStep, TableStep
   DEF SuccessInv, NoMediaErrors

LEMMA SuccessAlways == SkippedIsEmpty /\ NoMediaErrors => (SessionSpec => []SuccessInv)
<1> SUFFICES ASSUME SkippedIsEmpty, NoMediaErrors PROVE SessionSpec => []SuccessInv
  OBVIOUS
<1> QED
  BY SuccessInit, SuccessStep, PTL DEF SessionSpec

\* SucceedIsDurable: without an error of the media, a task that says SUCCEED has
\* flushed the whole source to the target, whatever crashes, aborts and failed
\* saves came before.
THEOREM SuccessIsDurable ==
  SkippedIsEmpty /\ NoMediaErrors => (SessionSpec => []SucceedIsDurable)
<1> SUFFICES ASSUME SkippedIsEmpty, NoMediaErrors PROVE SessionSpec => []SucceedIsDurable
  OBVIOUS
<1>1. SuccessInv => SucceedIsDurable
  BY DEF SuccessInv, DurableInv, SucceedIsDurable
<1> QED
  BY <1>1, SuccessAlways, PTL

\* ChecksumsDescribeCopy: the checksum file of a task that says SUCCEED was
\* written at least once, and describes the blocks of the copy or nothing, also
\* when it was cut short by a crash and loaded by a later attempt.
THEOREM ChecksumsAreOfTheCopy ==
  SkippedIsEmpty /\ NoMediaErrors => (SessionSpec => []ChecksumsDescribeCopy)
<1> SUFFICES ASSUME SkippedIsEmpty, NoMediaErrors PROVE SessionSpec => []ChecksumsDescribeCopy
  OBVIOUS
<1>1. SuccessInv => ChecksumsDescribeCopy
  <2> SUFFICES ASSUME SuccessInv, taskStatus = "SUCCEED"
               PROVE  /\ HasherEnabled => checksumFile.state # "none"
                      /\ \A b \in Blocks : checksumFile.table[b] \in {NoHash, SHA256(target[b])}
    BY DEF ChecksumsDescribeCopy
  <2>1. target = source
    BY SuccessfulCopied DEF SuccessInv, FinalInv, AttemptInv
  <2> QED
    BY <2>1 DEF SuccessInv, TableInv, AttemptInv, FilesInv
<1> QED
  BY <1>1, SuccessAlways, PTL

-----------------------------------------------------------------------------
(* The session implements ResumableCopy.  Aborts are left out: UserAbort   *)
(* may take SUCCEED back, storing ABORTING over it (UserAbortStore).       *)

RefinementInv == SuccessInv /\ ~abortPending

LEMMA NoAbortPending ==
  ~AbortAllowed /\ ~abortPending /\ [SessionNext]_allVars => ~abortPending'
BY DEF SessionNext, Main, SessionThreads, allVars, taskVars, user, InitSession,
  NoSession, StartSession, AfterStart, Watch, WatchEnd, AbortSession, MainGoto,
  Snap, FlushTable, FlushWriter, SaveCheckpoint, Resume, ClearAllCheckpoints,
  Succeed, Join, UserAbort, UserAbortStore, RunAgain, Crash, NewTask

Recorded ==
  IF checkpointFile.state = "saved" THEN checkpointFile.shot.processed ELSE {}

LEMMA CopyInitial == SessionInit => Copy!Init
<1> SUFFICES ASSUME SessionInit PROVE Copy!Init
  OBVIOUS
<1>1. source \in [Blocks -> Data] /\ target \in [Blocks -> Data \cup {Torn}]
  BY TypeInit DEF SessionInit, TypeOK, DataTypeOK
<1> QED
  BY <1>1 DEF SessionInit, Copy!Init, CheckpointFile

\* A task that has not succeeded may write, or lose, what is not recorded ...
LEMMA CopyWorks ==
  ASSUME AttemptInv, AttemptInv', taskStatus # "SUCCEED", taskStatus' # "SUCCEED",
         UNCHANGED <<source, checkpointFile>>
  PROVE  Copy!Work
<1>1. target' \in [Blocks -> Data \cup {Torn}]
  BY DEF AttemptInv, TaskTypeOK, TypeOK, DataTypeOK
<1>2. ASSUME NEW b \in Recorded PROVE target'[b] = target[b]
  BY <1>2 DEF Recorded, AttemptInv, RecordedInv, Copied
<1> QED
  BY <1>1, <1>2 DEF Copy!Work, Recorded

\* ... record what it has done ...
LEMMA CopyRecords ==
  ASSUME AttemptInv, AttemptInv', taskStatus # "SUCCEED", taskStatus' # "SUCCEED",
         UNCHANGED <<source, target>>
  PROVE  Copy!Record
<1>1. checkpointFile'.shot.processed \subseteq Blocks
  <2>1. checkpointFile' \in [state : FileStates, shot : Snapshots]
    BY DEF AttemptInv, TaskTypeOK
  <2> QED
    BY <2>1 DEF Snapshots
<1>2. Recorded' \in SUBSET {b \in Blocks : target[b] = source[b]}
  BY <1>1 DEF Recorded, AttemptInv, RecordedInv, Copied
<1> QED
  BY <1>2 DEF Copy!Record, Recorded

\* ... and, in the end, succeed.
LEMMA CopySucceeds == SuccessInv /\ Succeed => Copy!Succeed
<1> SUFFICES ASSUME SuccessInv, Succeed PROVE Copy!Succeed
  OBVIOUS
<1>1. mainPc = "succeed" /\ taskStatus' = "SUCCEED" /\ UNCHANGED <<source, target, checkpointFile>>
  BY DEF Succeed, vars, media, files
<1>2. target = source
  BY <1>1, SuccessfulCopied DEF SuccessInv, AttemptInv, FinalInv, PlaceInv, FinalPcs,
     FlushPcs, RefreshPcs
<1> QED
  BY <1>1, <1>2 DEF Copy!Succeed

LEMMA CopyStepOrStutter ==
  ASSUME RefinementInv, SuccessInv', [SessionNext]_allVars
  PROVE  [Copy!Next]_(Copy!copyVars)
<1> DEFINE Stutter == UNCHANGED <<source, target, checkpointFile>>
                      /\ (taskStatus' = "SUCCEED" <=> taskStatus = "SUCCEED")
<1>1. Stutter => UNCHANGED Copy!copyVars
  BY DEF Copy!copyVars
<1>2. AttemptInv /\ AttemptInv' /\ TaskVarsOK /\ PlaceInv /\ ContextInv /\ ~abortPending
  BY TaskTypeParts DEF RefinementInv, SuccessInv, AttemptInv
<1>3. ASSUME taskStatus # "SUCCEED", taskStatus' # "SUCCEED", source' = source,
             target' = target \/ checkpointFile' = checkpointFile
      PROVE  [Copy!Next]_(Copy!copyVars)
  <2>1. CASE target' = target
    BY <1>2, <1>3, <2>1, CopyRecords DEF Copy!Next
  <2>2. CASE checkpointFile' = checkpointFile
    BY <1>2, <1>3, <2>2, CopyWorks DEF Copy!Next
  <2> QED
    BY <1>3, <2>1, <2>2
<1>4. CASE Succeed
  BY <1>4, CopySucceeds DEF RefinementInv, Copy!Next
<1>5. CASE (Looking \/ UNCHANGED allVars) /\ ~Succeed
  <2>1. UNCHANGED <<source, target>>
    BY <1>5, LookingLeaves DEF vars, media
  <2>2. taskStatus' = "SUCCEED" <=> taskStatus = "SUCCEED"
    BY <1>2, <1>5 DEF Looking, NoSession, Watch, Snap, FlushTable, FlushWriter,
       SaveCheckpoint, ClearAllCheckpoints, Join, MainGoto, UserAbort,
       UserAbortStore, allVars, taskVars, PlaceInv
  <2>3. taskStatus = "SUCCEED" => UNCHANGED checkpointFile
    BY <1>2, <1>5 DEF Looking, NoSession, Watch, Snap, FlushTable, FlushWriter,
       SaveCheckpoint, ClearAllCheckpoints, Join, MainGoto, UserAbort,
       UserAbortStore, allVars, files, PlaceInv
  <2> QED
    BY <1>1, <1>3, <2>1, <2>2, <2>3
<1>6. CASE InitSession
  <2>1. UNCHANGED <<source, target, checkpointFile, taskStatus>>
    BY <1>6 DEF InitSession, media, files
  <2> QED
    BY <1>1, <2>1
<1>7. CASE RunAgain \/ Crash
  <2>1. /\ taskStatus # "SUCCEED" /\ taskStatus' # "SUCCEED"
        /\ source' = source /\ checkpointFile' = checkpointFile
    BY <1>7 DEF RunAgain, Crash, NewTask, files
  <2> QED
    BY <1>3, <2>1
<1>8. CASE StartSession \/ WatchEnd \/ AbortSession \/ Resume
  <2>1. UNCHANGED <<source, target, checkpointFile>>
    BY <1>8 DEF StartSession, StartReader, StartHasher, StartWriter, AfterStart, WatchEnd,
       AbortSession, Abort, MainGoto, Resume, SetPause, vars, media, files
  <2>2. taskStatus' = "SUCCEED" <=> taskStatus = "SUCCEED"
    BY <1>2, <1>8 DEF StartSession, AfterStart, WatchEnd, AbortSession, MainGoto, Resume,
       PlaceInv, TaskVarsOK
  <2> QED
    BY <1>1, <2>1, <2>2
<1>9. CASE SessionThreads
  <2>1. source' = source /\ checkpointFile' = checkpointFile /\ taskStatus' = taskStatus
    BY <1>9, MediaStay DEF SessionThreads, taskVars, files, Next
  <2>2. taskStatus = "SUCCEED" => target' = target
    <3>1. taskStatus = "SUCCEED" => ~WriterHolds
      BY <1>2, SuccessfulCopied DEF RefinementInv, SuccessInv, FinalInv
    <3>2. Threads /\ ~WriterHolds => target' = target
      BY DEF WriterHolds, Threads, media, Reader, Worker, Writer, ReaderStart, ReaderLeave,
        ReaderNext, ReaderAlloc, ReaderAllocTimeout, ReaderRead, ReaderReadFail,
        ReaderPush, ReaderCount, ReaderFinish, WorkerStart, WorkerCheck, WorkerPop,
        WorkerDrained, WorkerHash, WorkerDrop, WorkerMark, WorkerForward, WorkerExit,
        WorkerLast, WriterCheck, WriterPop, WriterDrained, WriterDiscard,
        WriterWrite, WriterWriteFail, WriterMark, WriterStore, WriterVerdict
    <3> QED
      BY <1>9, <3>1, <3>2 DEF SessionThreads
  <2> QED
    BY <1>1, <1>3, <2>1, <2>2
<1> HIDE DEF Stutter
<1> QED
  BY <1>4, <1>5, <1>6, <1>7, <1>8, <1>9, StepKinds

\* CopySpec: the backup or restore of a session with its checkpoints, crashes
\* and restarts implements a copy that never touches what it has recorded, and
\* reports success when the target equals the source.
THEOREM SessionImplementsCopy ==
  SkippedIsEmpty /\ NoMediaErrors /\ ~AbortAllowed => (SessionSpec => CopySpec)
<1> SUFFICES ASSUME SkippedIsEmpty, NoMediaErrors, ~AbortAllowed
             PROVE  SessionSpec => CopySpec
  OBVIOUS
<1>1. SessionInit => RefinementInv
  BY SuccessInit DEF RefinementInv, SessionInit
<1>2. RefinementInv /\ [SessionNext]_allVars => RefinementInv'
  BY SuccessStep, NoAbortPending DEF RefinementInv
<1>3. RefinementInv /\ RefinementInv' /\ [SessionNext]_allVars => [Copy!Next]_(Copy!copyVars)
  BY CopyStepOrStutter DEF RefinementInv
<1> QED
  BY <1>1, <1>2, <1>3, CopyInitial, PTL DEF SessionSpec, CopySpec, Copy!Spec
=============================================================================
