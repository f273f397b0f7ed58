--------------------------- MODULE BackupSession ---------------------------
(***************************************************************************)
(* A backup of one session as the task's own thread runs it                *)
(* (VolumeBackupTask::ThreadFunc and WaitSessionTerminate with             *)
(* VolumeTaskCheckpointTrait): set the session up, from its checkpoint if  *)
(* there is one, start the three sub-tasks, watch them, refresh the        *)
(* checkpoint while they run, and write checksums and bitmap at the end.   *)
(* The user may abort, the process may crash at any moment; the user then  *)
(* runs the same backup again.                                             *)
(*                                                                         *)
(* What survives the process: the target, the checksum file, the           *)
(* checkpoint file.  With HasherEnabled FALSE this is the loop of          *)
(* VolumeRestoreTask, which does the same without checksums.               *)
(*                                                                         *)
(* A definition Name_Variant is Name with a plausible mistake in it (see   *)
(* SessionPipeline).                                                       *)
(***************************************************************************)
EXTENDS SessionPipeline

CONSTANTS
  ClearCheckpointsOnSucceed,
  MaxRestarts,         \* bounds how often the backup is run again
  AbortAllowed,        \* the user may call Abort
  CrashAllowed,        \* the process may be killed
  SaveMayFail          \* writing a checksum or checkpoint file may fail

ASSUME TaskAssumption ==
  /\ {ClearCheckpointsOnSucceed, AbortAllowed, CrashAllowed,
      SaveMayFail} \subseteq BOOLEAN
  /\ MaxRestarts \in Nat

VARIABLES
  mainPc,          \* where the task's thread is
  taskStatus,      \* m_status of the VolumeBackupTask
  taskAbort,       \* m_abort of the VolumeBackupTask
  abortPending,    \* Abort found the task running, and is about to say ABORTING
  verdict,         \* the status ThreadFunc is about to set after an abort
  snapshot,        \* RefreshSessionCheckpoint's CheckpointSnapshot
  latest,          \* FlushSessionBitmap's CheckpointSnapshot
  checksumFile,    \* lastestChecksumBinPath
  checkpointFile,  \* checkpointFilePath
  durable,         \* what of the target is on the medium, not only in the cache
  restarts

taskVars == <<mainPc, taskStatus, taskAbort, abortPending, verdict, snapshot, latest>>
user == <<taskAbort, abortPending>>
snapshots == <<snapshot, latest>>
files == <<checksumFile, checkpointFile>>
allVars == <<vars, taskVars, files, durable, restarts>>

\* A file is missing, complete, or was truncated and not yet written.
FileStates == {"none", "torn", "saved"}
Snapshots == [processed : SUBSET Blocks, written : SUBSET Blocks]
NoSnapshot == [processed |-> {}, written |-> {}]
NoChecksums == [b \in Blocks |-> NoHash]
ChecksumFile(state, table) == [state |-> state, table |-> table]
CheckpointFile(state, shot) == [state |-> state, shot |-> shot]

SessionInit ==
  /\ Init /\ loaded = NoCheckpoint
  /\ mainPc = "init" /\ taskStatus = "RUNNING" /\ taskAbort = FALSE
  /\ abortPending = FALSE
  /\ verdict = "RUNNING" /\ snapshot = NoSnapshot /\ latest = NoSnapshot
  /\ checksumFile = ChecksumFile("none", NoChecksums)
  /\ checkpointFile = CheckpointFile("none", NoSnapshot)
  /\ durable = target
  /\ restarts = 0

-----------------------------------------------------------------------------
(* Setting the session up.                                                 *)

\* ReadBinaryBuffer fills up a short file with zeros.
LoadableTables ==
  IF checksumFile.state = "torn"
  THEN {[b \in Blocks |-> IF b < k THEN checksumFile.table[b] ELSE NoHash] :
          k \in 0 .. TotalBlocks}
  ELSE {checksumFile.table}

\* RestoreSessionCheckpoint: the checksums first, then the bitmaps (a torn
\* checkpoint file has the wrong size), then the counters.  Running it twice,
\* as ThreadFunc does, changes nothing more.
Restored == CheckpointEnabled /\ checkpointFile.state # "none"
ChecksumsRestored == Restored /\ HasherEnabled /\ checksumFile.state # "none"
BitmapsRestored ==
  /\ Restored /\ checkpointFile.state = "saved"
  /\ HasherEnabled => ChecksumsRestored

\* A session's context is built anew: pool, queues, threads and flags.
NewContext ==
  /\ allocTable' = {} /\ pool' = [p \in Slots |-> ZeroData]
  /\ hashingQueue' = <<>> /\ writeQueue' = <<>> /\ finished' = {}
  /\ status' = [t \in Tasks |-> "INIT"]
  /\ m_abort' = [t \in Tasks |-> FALSE]
  /\ m_pause' = FALSE
  /\ readerPc' = "idle" /\ m_currentIndex' = 0 /\ readerPtr' = NoPtr
  /\ workerPc' = [w \in Workers |-> "idle"]
  /\ workerBlock' = [w \in Workers |-> NoBlock]
  /\ workerByte' = [w \in Workers |-> {}]
  /\ m_workersRunning' = 0
  /\ writerPc' = "idle" /\ writerBlock' = NoBlock /\ writerByte' = {}
  /\ m_failed' = FALSE

\* ThreadFunc looks at m_abort, builds the context and restores what an
\* earlier attempt left.
InitSession ==
  /\ mainPc = "init" /\ ~taskAbort
  /\ LET shot == IF BitmapsRestored THEN checkpointFile.shot ELSE NoSnapshot
     IN  /\ processed' = shot.processed /\ written' = shot.written
         /\ counter' = IF BitmapsRestored
                       THEN RestoredCounter(shot.processed, shot.written)
                       ELSE NewCounter
  /\ lastestTable' \in IF ChecksumsRestored THEN LoadableTables ELSE {NoChecksums}
  /\ loaded' = [processed |-> processed', written |-> written',
                hashed |-> {b \in Blocks : lastestTable'[b] # NoHash}]
  /\ NewContext
  /\ mainPc' = "startReader"
  /\ UNCHANGED <<source, target, previousTable, taskStatus, user, verdict, snapshots, files,
                 durable, restarts>>

NoSession ==
  /\ mainPc = "init"
  /\ \/ taskAbort /\ taskStatus' = "ABORTED"
     \/ ~taskAbort /\ OpenMayFail /\ taskStatus' = "FAILED"
  /\ mainPc' = "ended"
  /\ UNCHANGED <<vars, user, verdict, snapshots, files, durable, restarts>>

\* A reader, hasher or writer that cannot be started ends the task.
AfterStart(t, label) ==
  /\ IF status'[t] = "FAILED"
     THEN mainPc' = "abortReader" /\ verdict' = "FAILED"
     ELSE mainPc' = label /\ UNCHANGED verdict
  /\ UNCHANGED <<taskStatus, user, snapshots, files, durable, restarts>>

StartSession ==
  \/ mainPc = "startReader" /\ StartReader /\ AfterStart("reader", "startHasher")
  \/ mainPc = "startHasher" /\ StartHasher /\ AfterStart("hasher", "startWriter")
  \/ mainPc = "startWriter" /\ StartWriter /\ AfterStart("writer", "watch")

-----------------------------------------------------------------------------
(* WaitSessionTerminate.                                                   *)

IsSessionFailed == \E t \in Tasks : status[t] = "FAILED"
IsSessionTerminated_NoWriter == \A t \in Tasks \ {"writer"} : IsTerminated(t)
IsSessionTerminated == \A t \in Tasks : IsTerminated(t)

MainGoto(label) ==
  /\ mainPc' = label
  /\ UNCHANGED <<taskStatus, user, verdict, snapshots, files, durable, restarts>>

\* Abort and failure first ...
Watch ==
  /\ mainPc = "watch"
  /\ UNCHANGED <<vars, user, snapshots, files, durable, restarts>>
  /\ IF taskAbort
     THEN mainPc' = "abortReader" /\ verdict' = "ABORTED" /\ UNCHANGED taskStatus
     ELSE IF IsSessionFailed
     THEN mainPc' = "join" /\ taskStatus' = "FAILED" /\ UNCHANGED verdict
     ELSE mainPc' = "watchEnd" /\ UNCHANGED <<taskStatus, verdict>>

\* ... then, with the sub-tasks running on in between, termination; then the
\* checkpoint, once a minute.
WatchEnd ==
  /\ mainPc = "watchEnd"
  /\ IF IsSessionTerminated
     THEN MainGoto("flushTable") /\ UNCHANGED vars
     ELSE \/ MainGoto("watch") /\ UNCHANGED vars
          \/ CheckpointEnabled /\ SetPause(TRUE) /\ MainGoto("snapProcessed")

\* VolumeTaskSession::Abort, the sub-tasks one after the other.
AbortSession ==
  \/ mainPc = "abortReader" /\ Abort("reader") /\ MainGoto("abortHasher")
  \/ mainPc = "abortHasher" /\ Abort("hasher") /\ MainGoto("abortWriter")
  \/ /\ mainPc = "abortWriter" /\ Abort("writer")
     /\ mainPc' = "join" /\ taskStatus' = verdict
     /\ UNCHANGED <<user, verdict, snapshots, files, durable, restarts>>

-----------------------------------------------------------------------------
(* RefreshSessionCheckpoint, and the end of WaitSessionTerminate.  Both    *)
(* flush the checksums, the target and the bitmaps; a refresh, during      *)
(* which the reader is paused, goes on to save its own snapshot, and stops *)
(* at the first error.                                                     *)

Refreshing == m_pause

\* TakeSessionCheckpointSnapshot copies one bitmap after the other.
TakeSnapshot ==
  \/ /\ mainPc = "snapProcessed" /\ mainPc' = "snapWritten"
     /\ snapshot' = [snapshot EXCEPT !.processed = processed] /\ UNCHANGED latest
  \/ /\ mainPc = "snapWritten" /\ mainPc' = "flushTable"
     /\ snapshot' = [snapshot EXCEPT !.written = written] /\ UNCHANGED latest
  \/ /\ mainPc = "lastProcessed" /\ mainPc' = "lastWritten"
     /\ latest' = [latest EXCEPT !.processed = processed] /\ UNCHANGED snapshot
  \/ /\ mainPc = "lastWritten" /\ mainPc' = "openLatest"
     /\ latest' = [latest EXCEPT !.written = written] /\ UNCHANGED snapshot

Snap ==
  /\ TakeSnapshot
  /\ UNCHANGED <<vars, taskStatus, user, verdict, files, durable, restarts>>

\* FlushSessionLatestHashingTable: WriteBinaryBuffer truncates, then writes.
AfterFailedSave(next) == IF Refreshing THEN "resume" ELSE next

FlushTable ==
  /\ UNCHANGED <<vars, taskStatus, user, verdict, snapshots, checkpointFile, durable, restarts>>
  /\ \/ /\ mainPc = "flushTable" /\ ~HasherEnabled
        /\ mainPc' = "flushWriter" /\ UNCHANGED checksumFile
     \/ /\ mainPc = "flushTable" /\ HasherEnabled
        /\ checksumFile' = ChecksumFile("torn", lastestTable)
        /\ mainPc' = "writeTable"
     \/ /\ mainPc = "writeTable"
        /\ checksumFile' = [checksumFile EXCEPT !.state = "saved"]
        /\ mainPc' = "flushWriter"
     \/ /\ mainPc = "writeTable" /\ SaveMayFail
        /\ mainPc' = AfterFailedSave("flushWriter") /\ UNCHANGED checksumFile

\* FlushSessionWriter: fsync of the target.
FlushWriter_NoSync ==
  /\ mainPc = "flushWriter"
  /\ mainPc' = IF CheckpointEnabled THEN "lastProcessed" ELSE "completed"
  /\ UNCHANGED <<vars, taskStatus, user, verdict, snapshots, files, durable, restarts>>

FlushWriter ==
  /\ mainPc = "flushWriter"
  /\ durable' = target
  /\ mainPc' = IF CheckpointEnabled THEN "lastProcessed" ELSE "completed"
  /\ UNCHANGED <<vars, taskStatus, user, verdict, snapshots, files, restarts>>

\* The checkpoint file is written by FlushSessionBitmap from a snapshot of its
\* own, and after that by RefreshSessionCheckpoint from the first snapshot.
SaveCheckpoint ==
  /\ UNCHANGED <<vars, taskStatus, user, verdict, snapshots, checksumFile, durable, restarts>>
  /\ \/ /\ mainPc = "openLatest" /\ mainPc' = "writeLatest"
        /\ checkpointFile' = CheckpointFile("torn", latest)
     \/ /\ mainPc = "writeLatest"
        /\ mainPc' = IF Refreshing THEN "openSnapshot" ELSE "completed"
        /\ checkpointFile' = [checkpointFile EXCEPT !.state = "saved"]
     \/ /\ mainPc = "writeLatest" /\ SaveMayFail
        /\ mainPc' = AfterFailedSave("completed") /\ UNCHANGED checkpointFile
     \/ /\ mainPc = "openSnapshot" /\ mainPc' = "writeSnapshot"
        /\ checkpointFile' = CheckpointFile("torn", snapshot)
     \/ /\ mainPc = "writeSnapshot" /\ mainPc' = "resume"
        /\ checkpointFile' = [checkpointFile EXCEPT !.state = "saved"]
     \/ /\ mainPc = "writeSnapshot" /\ SaveMayFail
        /\ mainPc' = "resume" /\ UNCHANGED checkpointFile

Resume_StillPaused ==
  /\ mainPc = "resume" /\ SetPause(TRUE)
  /\ mainPc' = "watch" /\ snapshot' = NoSnapshot /\ latest' = NoSnapshot
  /\ UNCHANGED <<taskStatus, user, verdict, files, durable, restarts>>

Resume ==
  /\ mainPc = "resume" /\ SetPause(FALSE)
  /\ mainPc' = "watch" /\ snapshot' = NoSnapshot /\ latest' = NoSnapshot
  /\ UNCHANGED <<taskStatus, user, verdict, files, durable, restarts>>

\* Back in ThreadFunc: ClearAllCheckpoints, then SUCCEED.
ClearAllCheckpoints ==
  /\ mainPc = "completed"
  /\ checkpointFile' = IF CheckpointEnabled /\ ClearCheckpointsOnSucceed
                       THEN CheckpointFile("none", NoSnapshot) ELSE checkpointFile
  /\ mainPc' = "succeed"
  /\ UNCHANGED <<vars, taskStatus, user, verdict, snapshots, checksumFile, durable, restarts>>

Succeed ==
  /\ mainPc = "succeed" /\ taskStatus' = "SUCCEED" /\ mainPc' = "join"
  /\ UNCHANGED <<vars, user, verdict, snapshots, files, durable, restarts>>

\* The session is destroyed: its destructors join the threads that were
\* started.
ThreadsJoined ==
  /\ readerPc \in {"idle", "done"} /\ writerPc \in {"idle", "done"}
  /\ \A w \in Workers : workerPc[w] \in {"idle", "done"}

Join ==
  /\ mainPc = "join" /\ ThreadsJoined
  /\ MainGoto("ended") /\ UNCHANGED vars

-----------------------------------------------------------------------------
(* The user, and crashes.                                                  *)

\* StatefulTask::Abort of the task itself: without a lock, it looks whether the
\* task is terminated, and stores ABORTING only after that.
TaskTerminated == taskStatus \in {"SUCCEED", "ABORTED", "FAILED"}

UserAbort ==
  /\ AbortAllowed /\ ~taskAbort /\ mainPc # "ended"
  /\ taskAbort' = TRUE
  /\ abortPending' = ~TaskTerminated
  /\ UNCHANGED <<vars, mainPc, taskStatus, verdict, snapshots, files, durable, restarts>>

UserAbortStore ==
  /\ abortPending /\ abortPending' = FALSE
  /\ taskStatus' = "ABORTING"
  /\ UNCHANGED <<vars, mainPc, taskAbort, verdict, snapshots, files, durable, restarts>>

\* The same backup is run again by a new task.
NewTask ==
  /\ restarts < MaxRestarts /\ restarts' = restarts + 1
  /\ mainPc' = "init" /\ taskStatus' = "RUNNING" /\ taskAbort' = FALSE
  /\ abortPending' = FALSE
  /\ verdict' = "RUNNING" /\ snapshot' = NoSnapshot /\ latest' = NoSnapshot
  /\ NewContext
  /\ lastestTable' = NoChecksums /\ processed' = {} /\ written' = {}
  /\ loaded' = NoCheckpoint
  /\ counter' = NewCounter
  /\ UNCHANGED <<source, previousTable>>

RunAgain ==
  /\ mainPc = "ended" /\ ~abortPending /\ taskStatus # "SUCCEED"
  /\ NewTask
  /\ UNCHANGED <<target, files, durable>>

\* A killed process leaves what it wrote in the system's cache; a write under
\* way may be cut short.
InterruptedWrite ==
  IF writerPc = "write" /\ ~m_failed /\ NeedToWrite(pool[writerBlock.ptr])
  THEN {target, [target EXCEPT ![writerBlock.index] = Torn]}
  ELSE {target}

Crash ==
  /\ CrashAllowed /\ mainPc # "ended" /\ taskStatus # "SUCCEED"
  /\ NewTask
  /\ target' \in InterruptedWrite
  /\ UNCHANGED <<files, durable>>

-----------------------------------------------------------------------------
Main ==
  \/ InitSession \/ NoSession \/ StartSession \/ Watch \/ WatchEnd \/ AbortSession \/ Snap
  \/ FlushTable \/ FlushWriter \/ SaveCheckpoint \/ Resume
  \/ ClearAllCheckpoints \/ Succeed \/ Join

SessionThreads == Threads /\ UNCHANGED <<taskVars, files, durable, restarts>>

SessionNext ==
  \/ Main \/ SessionThreads
  \/ UserAbort \/ UserAbortStore \/ RunAgain \/ Crash

SessionSpec == SessionInit /\ [][SessionNext]_allVars

\* The task's thread and the session's threads are scheduled fairly; a pause
\* cannot hide every look of the reader (see SessionPipeline).  The user and
\* the machine owe nothing.
FairSessionSpec ==
  /\ SessionSpec
  /\ WF_allVars(Main)
  /\ SF_allVars(Reader /\ SessionThreads)
  /\ \A w \in Workers : WF_allVars(Worker(w) /\ SessionThreads)
  /\ WF_allVars(Writer /\ SessionThreads)

-----------------------------------------------------------------------------
(* Properties.                                                             *)

\* The task's own variables stay within their types (those of the session are
\* SessionPipeline's TypeOK).
TaskTypeOK ==
  /\ TypeOK
  /\ taskStatus \in TaskStatus
  /\ taskAbort \in BOOLEAN /\ abortPending \in BOOLEAN
  /\ verdict \in {"RUNNING", "ABORTED", "FAILED"}
  /\ snapshot \in Snapshots /\ latest \in Snapshots
  /\ checksumFile \in [state : FileStates, table : [Blocks -> Checksums]]
  /\ checkpointFile \in [state : FileStates, shot : Snapshots]
  /\ durable \in [Blocks -> Data \cup {Torn}]
  /\ restarts \in 0 .. MaxRestarts

\* The session, with its crashes and restarts, implements ResumableCopy: what
\* a complete checkpoint file calls processed is on the target, no later
\* attempt writes there again, and SUCCEED means that the target equals the
\* source.
Copy == INSTANCE ResumableCopy WITH
  Blocks <- Blocks,
  Contents <- Data \cup {Torn},
  recorded <- IF checkpointFile.state = "saved"
              THEN checkpointFile.shot.processed ELSE {},
  succeeded <- taskStatus = "SUCCEED"

CopySpec == Copy!Spec

\* What a complete checkpoint file calls processed is on the target ("block data
\* that have been written", says VolumeTaskCheckpointTrait's comment): a later
\* attempt, which skips these blocks, loses nothing.
CheckpointIsSound ==
  checkpointFile.state = "saved" =>
    \A b \in checkpointFile.shot.processed : target[b] = source[b]

\* After SUCCEED every checksum in the file is that of the copy's block, or
\* missing, which makes the next incremental backup write the block again; a
\* checksum of something else would make it keep a stale block.
ChecksumsDescribeCopy ==
  taskStatus = "SUCCEED" =>
    /\ HasherEnabled => checksumFile.state # "none"
    /\ \A b \in Blocks : checksumFile.table[b] \in {NoHash, SHA256(target[b])}

\* After SUCCEED, what was flushed is all there is: a power loss right after
\* it takes nothing away.
SucceedIsDurable ==
  taskStatus = "SUCCEED" => durable = source

\* DataReaderReadFail's expectation: a task one of whose sub-tasks failed does
\* not end with SUCCEED.
FailedSessionFails ==
  taskStatus = "SUCCEED" => ~IsSessionFailed

\* A task's thread always ends: failed, aborted or done, it gets to the end
\* of ThreadFunc, and the destructors that join the threads return.
TaskEnds == <>(mainPc = "ended")

=============================================================================
