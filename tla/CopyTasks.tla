----------------------------- MODULE CopyTasks -----------------------------
(***************************************************************************)
(* Tasks on one copy, one after the other: a full backup, incremental      *)
(* backups that write into the same data files, restores of the copy to    *)
(* another volume, with and without zero copy (VolumeBackupTask,           *)
(* VolumeRestoreTask, VolumeZeroCopyRestoreTask and the resource manager   *)
(* they own).  A task may fail, be aborted or crash anywhere; it is run    *)
(* again until it succeeds.                                                *)
(*                                                                         *)
(* How the threads of one session work together is BackupSession's         *)
(* subject; here a session is read, compared, written, its checksums are   *)
(* saved and then its bitmap.  A SHA-256 sum is the contents it is of.     *)
(* A read or write that fails need not end in FAILED: a failed write sets  *)
(* its bits, which a refresh records, and a failure between the looks of   *)
(* WaitSessionTerminate is never seen.  The variable spoilt notes for the  *)
(* properties in which sessions this has happened.                         *)
(*                                                                         *)
(* The user backs the same snapshot up again until that has succeeded, and *)
(* resumes a restore only if nothing has written to the copy or the volume *)
(* since; a restore that is not resumed is to an empty volume.             *)
(***************************************************************************)
EXTENDS CopyResource

CONSTANTS
  NoFile,        \* a checksum file that does not exist
  NoHash         \* one that says nothing about the session

ASSUME ChecksumAssumption ==
  /\ NoFile # NoHash
  /\ {NoFile, NoHash} \cap (Contents \cup {Blank, Torn, Absent}) = {}

VARIABLES
  volume,         \* the snapshot that is backed up
  target,         \* the volume that is restored to
  backupType,     \* FULL or FOREVER_INC, for this snapshot
  meta,           \* the meta file of this copy, and ...
  checksums,      \* ... lastestChecksumBinPath of each session
  prevMeta,       \* those of prevCopyMetaDirPath
  prevChecksums,
  checkpoint,     \* writer bitmap files of each session, for backup and restore
  session,        \* m_sessionQueue: the next session
  recorded,       \* the checkpoint of this session says it is done
  failing,        \* a read or write of this session has failed
  complete,       \* the backup of this snapshot has reported SUCCEED
  restored,       \* the last restore has, and no backup has started since
  spoilt          \* sessions where a call failed since they were written in full

metaFiles == <<meta, checksums, prevMeta, prevChecksums>>
taskLocals == <<session, recorded, failing>>
results == <<complete, restored, spoilt>>
tasksVars == <<resourceVars, volume, target, backupType, metaFiles, checkpoint,
               taskLocals, results>>

IsBackup == kind \in {"full", "inc"}
Stored == Contents \cup {Blank, Torn, Absent}
Bitmaps == {"none", "empty", "done"}
NoCheckpoints == [s \in Sessions |-> "none"]
NoChecksums == [s \in Sessions |-> NoFile]

ResourceUnchanged == UNCHANGED <<dataFiles, copy, attached, partitioned, fragment>>
UserUnchanged == UNCHANGED <<volume, backupType, results>>
UserWaits == UNCHANGED <<volume, backupType, complete, restored>>
TaskDies == session' = 0 /\ recorded' = FALSE /\ failing' = "no"

TasksInit ==
  /\ layout \in Layouts
  /\ dataFiles = {} /\ copy = [s \in Sessions |-> Absent]
  /\ attached = FALSE /\ partitioned = FALSE
  /\ kind = "full" /\ pc = "idle" /\ fragment = 0 /\ faults = 0
  /\ volume \in [Sessions -> Contents] /\ target = [s \in Sessions |-> Blank]
  /\ backupType = "full"
  /\ meta = "none" /\ checksums = NoChecksums
  /\ prevMeta = "none" /\ prevChecksums = NoChecksums
  /\ checkpoint = [t \in {"backup", "restore"} |-> NoCheckpoints]
  /\ session = 0 /\ recorded = FALSE /\ failing = "no"
  /\ complete = FALSE /\ restored = FALSE
  /\ spoilt = [t \in {"backup", "restore"} |-> {}]

-----------------------------------------------------------------------------
(* The user.                                                               *)

StartTask(k) ==
  /\ pc = "idle" /\ pc' = "prepare" /\ kind' = k
  /\ UNCHANGED taskLocals /\ NoFault /\ ResourceUnchanged
  /\ UNCHANGED <<layout, volume, backupType, metaFiles>>

\* What an earlier restore has left is not resumed any more: the user takes its
\* checkpoint away, or forgets what the restore should have removed itself.
LeftOver ==
  {s \in Sessions : checkpoint["restore"][s] = "done" /\ (restored \/ s \in spoilt["restore"])}

ForgetRestore ==
  /\ \E kept \in {{}, LeftOver} :
       /\ checkpoint' = [checkpoint EXCEPT !["restore"] =
                           [s \in Sessions |-> IF s \in kept THEN "done" ELSE "none"]]
       /\ spoilt' = [spoilt EXCEPT !["restore"] = kept]
  /\ target' = [s \in Sessions |-> Blank]

\* BuildBackupTask and Start.
StartBackup ==
  /\ ~complete /\ StartTask(backupType)
  /\ restored' = FALSE /\ UNCHANGED complete
  /\ ForgetRestore

\* BuildRestoreTask: a copy is known by its meta file, zero copy is for images.
CanRestore(k) == meta = "saved" /\ (k = "zerocopy" => layout.format = "IMAGE")

StartRestore ==
  /\ \E k \in {"restore", "zerocopy"} :
       /\ CanRestore(k) /\ StartTask(k)
       /\ \/ ForgetRestore
          \/ k = "restore" /\ UNCHANGED <<checkpoint, target, spoilt>>
  /\ restored' = FALSE /\ UNCHANGED complete

\* The next snapshot: the backup gets a meta directory of its own, and, if it
\* is incremental, that of the backup before.
NextSnapshot ==
  /\ pc = "idle" /\ complete /\ complete' = FALSE
  /\ volume' \in [Sessions -> Contents]
  /\ backupType' \in {"full", "inc"}
  /\ IF backupType' = "inc" THEN prevMeta' = meta /\ prevChecksums' = checksums
     ELSE prevMeta' = "none" /\ prevChecksums' = NoChecksums
  /\ meta' = "none" /\ checksums' = NoChecksums
  /\ NoFault /\ ResourceUnchanged
  /\ UNCHANGED <<layout, kind, pc, target, checkpoint, taskLocals, restored, spoilt>>

-----------------------------------------------------------------------------
(* The rest of Prepare.                                                    *)

\* ValidateIncrementBackup: there is a copy to build on, and its meta data
\* names the same block size; a full backup needs neither.
ValidIncrement == prevMeta = "saved" /\ layout.blockSize = layout.recordedBlockSize

Validate ==
  /\ pc = "prepared" /\ NoFault
  /\ \/ ~IsBackup /\ Goto("session")
     \/ kind = "inc" /\ ~ValidIncrement /\ Goto("failed")
     \/ IsBackup /\ (kind = "inc" => ValidIncrement) /\ Goto("saveMeta")
  /\ ResourceUnchanged /\ UserUnchanged
  /\ UNCHANGED <<target, metaFiles, checkpoint, taskLocals>>

\* SaveVolumeCopyMeta truncates, which may fail, then writes: JsonSerialize does
\* not look whether it could.
SaveMeta ==
  /\ \/ pc = "saveMeta" /\ meta' = "torn" /\ NoFault /\ Goto("writeMeta")
     \/ pc = "writeMeta" /\ meta' = "saved" /\ NoFault /\ Goto("session")
     \/ pc = "writeMeta" /\ UNCHANGED meta /\ Fault /\ Goto("session")
     \/ pc = "saveMeta" /\ UNCHANGED meta /\ Fault /\ Goto("failed")
  /\ ResourceUnchanged /\ UserUnchanged
  /\ UNCHANGED <<target, checksums, prevMeta, prevChecksums, checkpoint, taskLocals>>

-----------------------------------------------------------------------------
(* ThreadFunc, session by session.                                         *)

CheckpointDir_Shared == "backup"
CheckpointDir == IF IsBackup THEN "backup" ELSE "restore"
Reached(bitmap) ==
  checkpoint' = [checkpoint EXCEPT ![CheckpointDir][session] = bitmap]

\* LoadSessionPreviousCopyChecksum reads the sums of whole blocks; a session
\* shorter than a block has none, and reading nothing counts as a failure.
HasPreviousChecksums ==
  /\ prevChecksums[session] # NoFile
  /\ SessionLength(session) \div layout.blockSize > 0

CanOpenSession ==
  CanOpenCopy(session) /\ (kind = "inc" => HasPreviousChecksums)

\* RestoreSessionCheckpoint: the bitmap counts only with its checksums.
IsRecorded ==
  /\ kind # "zerocopy" /\ checkpoint[CheckpointDir][session] = "done"
  /\ IsBackup => checksums[session] # NoFile

OpenSession ==
  /\ pc = "session" /\ session \in Sessions /\ NoFault
  /\ IF CanOpenSession
     THEN OpenCopy(session) /\ recorded' = IsRecorded /\ Goto("copy")
     ELSE UNCHANGED <<attached, recorded>> /\ Goto("failed")
  /\ UNCHANGED <<dataFiles, copy, partitioned, fragment, session, failing>>
  /\ UserUnchanged /\ UNCHANGED <<target, metaFiles, checkpoint>>

\* RefreshSessionCheckpoint before the session is done: its checksum may
\* already be there, the block is not, but counts as done if its write failed;
\* the bitmap follows the checksums.
Refresh ==
  /\ pc = "copy" /\ ~recorded /\ kind # "zerocopy" /\ NoFault
  /\ IF IsBackup
     THEN \E h \in {NoHash, volume[session]} :
            checksums' = [checksums EXCEPT ![session] = h]
     ELSE UNCHANGED checksums
  /\ \/ Reached("empty") \/ UNCHANGED checkpoint
     \/ failing = "write" /\ Reached("done")
  /\ ResourceUnchanged /\ UserUnchanged
  /\ UNCHANGED <<layout, kind, pc, target, meta, prevMeta, prevChecksums, taskLocals>>

\* An incremental backup writes what differs from the copy before.
NeedToWrite_WhateverItWas == ~recorded
NeedToWrite == ~recorded /\ ~(kind = "inc" /\ prevChecksums[session] = volume[session])

\* A write behind the end of the file leaves a hole before it.
Hole(s) == copy[s] = Absent /\ s < session /\ CopyDataFile(s) = CopyDataFile(session)
Write(content) ==
  [s \in Sessions |->
     IF s = session THEN content ELSE IF Hole(s) THEN Blank ELSE copy[s]]

BackupSession ==
  /\ pc = "copy" /\ IsBackup /\ failing = "no" /\ NoFault
  /\ copy' = IF NeedToWrite THEN Write(volume[session]) ELSE copy
  /\ Goto("saveTable")
  /\ UNCHANGED <<dataFiles, attached, partitioned, fragment, target, metaFiles,
                 checkpoint, taskLocals>> /\ UserUnchanged

\* The checksums of a session in which a read or write failed may be missing.
Sums == IF failing = "no" THEN {volume[session]} ELSE {NoHash, volume[session]}

\* FlushSessionLatestHashingTable; whether the file that was truncated could
\* be written nobody asks.
SaveTable ==
  /\ pc = "saveTable" /\ Goto("saveBitmap")
  /\ \/ NoFault /\ recorded /\ UNCHANGED checksums
     \/ NoFault /\ ~recorded
        /\ \E h \in Sums : checksums' = [checksums EXCEPT ![session] = h]
     \/ Fault /\ checksums' = [checksums EXCEPT ![session] = NoHash]
  /\ ResourceUnchanged /\ UserUnchanged
  /\ UNCHANGED <<target, meta, prevMeta, prevChecksums, checkpoint, taskLocals>>

RestoreSession_ShortRead ==
  /\ pc = "copy" /\ kind = "restore" /\ failing = "no" /\ NoFault
  /\ target' = IF recorded THEN target ELSE [target EXCEPT ![session] = copy[session]]
  /\ Goto("saveBitmap")
  /\ ResourceUnchanged /\ UserUnchanged
  /\ UNCHANGED <<metaFiles, checkpoint, taskLocals>>

\* A restore cannot read where the copy ends too early: see ReadFails.
RestoreSession ==
  /\ pc = "copy" /\ kind = "restore" /\ failing = "no" /\ NoFault
  /\ recorded \/ copy[session] # Absent
  /\ target' = IF recorded THEN target ELSE [target EXCEPT ![session] = copy[session]]
  /\ Goto("saveBitmap")
  /\ ResourceUnchanged /\ UserUnchanged
  /\ UNCHANGED <<metaFiles, checkpoint, taskLocals>>

\* FlushSessionBitmap; whether it succeeds nobody asks.  A block that could not
\* be read has no bit, one that could not be written has.
SaveBitmap ==
  /\ pc = "saveBitmap" /\ Goto("session") /\ session' = session + 1 /\ failing' = "no"
  /\ \/ NoFault /\ failing # "read" /\ Reached("done")
     \/ NoFault /\ failing # "no" /\ Reached("empty")
     \/ Fault /\ UNCHANGED checkpoint
  /\ spoilt' = IF NeedToWrite /\ failing = "no"
               THEN [spoilt EXCEPT ![CheckpointDir] = @ \ {session}] ELSE spoilt
  /\ ResourceUnchanged /\ UserWaits
  /\ UNCHANGED <<target, metaFiles, recorded>>

\* PerformZeroCopyRestore: sendfile reads at the session's offset and writes
\* where the writer, opened anew for the session, stands: at the beginning.
ZeroCopyPlace == 0

ZeroCopySession ==
  /\ pc = "copy" /\ kind = "zerocopy" /\ copy[session] # Absent /\ NoFault
  /\ target' = [target EXCEPT ![ZeroCopyPlace] = copy[session]]
  /\ session' = session + 1 /\ Goto("session")
  /\ ResourceUnchanged /\ UserUnchanged /\ UNCHANGED <<metaFiles, checkpoint, recorded, failing>>

\* At the end of the file sendfile copies nothing and says so; the loop goes
\* on as before.
Spinning == pc = "copy" /\ kind = "zerocopy" /\ copy[session] = Absent
ZeroCopySpin == Spinning /\ UNCHANGED tasksVars

\* ClearAllCheckpoints, one file after the other, and SUCCEED; whether RemoveFile
\* removed the file nobody asks.
Spoil == spoilt' = [spoilt EXCEPT ![CheckpointDir] = @ \cup {session}]

ClearNext ==
  /\ pc = "clear"
  /\ IF session + 1 \in Sessions THEN session' = session + 1 /\ Goto("clear")
     ELSE UNCHANGED session /\ Goto("succeed")
  /\ ResourceUnchanged /\ UserWaits /\ UNCHANGED <<target, metaFiles, recorded, failing>>

ClearAllCheckpoints_Kept ==
  ClearNext /\ NoFault /\ UNCHANGED <<checkpoint, spoilt>>

ClearAllCheckpoints ==
  /\ ClearNext
  /\ \/ NoFault /\ Reached("none") /\ UNCHANGED spoilt
     \/ Fault /\ UNCHANGED checkpoint /\ IF IsBackup THEN Spoil ELSE UNCHANGED spoilt

QueueEmpty ==
  /\ pc = "session" /\ session \notin Sessions /\ NoFault
  /\ IF kind = "zerocopy" THEN Goto("succeed") /\ UNCHANGED session
     ELSE Goto("clear") /\ session' = 0
  /\ ResourceUnchanged /\ UserUnchanged
  /\ UNCHANGED <<target, metaFiles, checkpoint, recorded, failing>>

Succeed ==
  /\ pc = "succeed" /\ NoFault /\ Goto("succeeded")
  /\ complete' = (complete \/ IsBackup) /\ restored' = ~IsBackup
  /\ ResourceUnchanged /\ UNCHANGED <<volume, backupType, spoilt, target, metaFiles, checkpoint, taskLocals>>

-----------------------------------------------------------------------------
(* What goes wrong.                                                        *)

\* Of what is being written only a part gets there.
PartlyWritten ==
  /\ pc = "copy" /\ NeedToWrite
  /\ IF IsBackup THEN copy' = Write(Torn) /\ UNCHANGED target
     ELSE /\ target' = [target EXCEPT ![IF kind = "zerocopy" THEN ZeroCopyPlace ELSE session] = Torn]
          /\ UNCHANGED copy

\* The reader or the writer of a session fails, while the task does not know.
SubtaskFails ==
  /\ pc = "copy" /\ kind # "zerocopy" /\ ~recorded /\ failing = "no"
  /\ UNCHANGED <<layout, kind, pc, dataFiles, attached, partitioned, fragment, metaFiles,
                 checkpoint, session, recorded>>
  /\ UserWaits

ReadFails ==
  /\ SubtaskFails /\ failing' = "read"
  /\ IF kind = "restore" /\ copy[session] = Absent THEN NoFault ELSE Fault
  /\ IF NeedToWrite THEN Spoil ELSE UNCHANGED spoilt
  /\ UNCHANGED <<copy, target>>

WriteFails ==
  /\ SubtaskFails /\ failing' = "write" /\ Fault
  /\ NeedToWrite /\ Spoil
  /\ PartlyWritten \/ UNCHANGED <<copy, target>>

\* WaitSessionTerminate asks IsFailed, then IsTerminated: it sees a failure in
\* time and says FAILED (which it also does for a session that cannot be set up,
\* and ABORTED when the user aborts), or takes the session for done.
SessionFails ==
  /\ pc \in {"session", "copy"} /\ Goto("failed")
  /\ IF failing = "no" THEN Fault ELSE NoFault
  /\ PartlyWritten \/ UNCHANGED <<copy, target>>
  /\ UNCHANGED <<dataFiles, attached, partitioned, fragment>>
  /\ UserUnchanged /\ UNCHANGED <<metaFiles, checkpoint, taskLocals>>

FailureMissed ==
  /\ pc = "copy" /\ failing # "no" /\ NoFault
  /\ Goto(IF IsBackup THEN "saveTable" ELSE "saveBitmap")
  /\ ResourceUnchanged /\ UserUnchanged
  /\ UNCHANGED <<target, metaFiles, checkpoint, taskLocals>>

\* A crash tears what is being written, and may leave a file that has been
\* created but not brought to its size.
HalfCreated ==
  IF pc = "create" /\ ~VirtualDisk /\ MayCreate(FilesToCreate[fragment])
  THEN {FilesToCreate[fragment]} ELSE {}

Crash ==
  /\ pc # "idle" /\ Fault /\ Goto("idle")
  /\ \/ UNCHANGED <<dataFiles, copy, target>>
     \/ /\ HalfCreated # {} /\ UNCHANGED target
        /\ dataFiles' = dataFiles \cup HalfCreated
        /\ copy' = EmptyFile(FilesToCreate[fragment], Absent)
     \/ PartlyWritten /\ UNCHANGED dataFiles
  /\ fragment' = 0 /\ TaskDies
  /\ UserUnchanged /\ UNCHANGED <<attached, partitioned, metaFiles, checkpoint>>

-----------------------------------------------------------------------------
\* What the resource manager does it does alone; its destructor ends the task.
ManagerAlone ==
  /\ UserUnchanged /\ UNCHANGED <<target, metaFiles, checkpoint>>
  /\ IF pc' = "idle" THEN TaskDies ELSE UNCHANGED taskLocals

Task ==
  \/ ManageResource /\ ManagerAlone
  \/ Validate \/ SaveMeta
  \/ OpenSession \/ Refresh \/ BackupSession \/ SaveTable \/ RestoreSession \/ SaveBitmap
  \/ ZeroCopySession \/ ZeroCopySpin
  \/ QueueEmpty \/ ClearAllCheckpoints \/ Succeed
  \/ ReadFails \/ WriteFails \/ SessionFails \/ FailureMissed

TasksNext == Task \/ StartBackup \/ StartRestore \/ NextSnapshot \/ Crash

TasksSpec == TasksInit /\ [][TasksNext]_tasksVars

\* A task goes on to its end; refreshing its checkpoint, which it does once a
\* minute, does not keep a session from being copied.  A user whose backup has
\* not succeeded keeps trying.
FairTasksSpec ==
  /\ TasksSpec
  /\ WF_tasksVars(Task /\ ~Refresh)
  /\ SF_tasksVars(StartBackup)

-----------------------------------------------------------------------------
(* Properties.                                                             *)

\* The variables stay within their types.
TasksTypeOK ==
  /\ dataFiles \subseteq Sessions /\ copy \in [Sessions -> Stored]
  /\ {attached, partitioned, recorded, complete, restored} \subseteq BOOLEAN
  /\ kind \in {"full", "inc", "restore", "zerocopy"} /\ backupType \in {"full", "inc"}
  /\ faults \in 0 .. layout.maxFaults /\ fragment \in 0 .. SessionCount
  /\ volume \in [Sessions -> Contents] /\ target \in [Sessions -> Stored \ {Absent}]
  /\ {meta, prevMeta} \subseteq {"none", "torn", "saved"}
  /\ {checksums, prevChecksums} \subseteq [Sessions -> Contents \cup {NoFile, NoHash}]
  /\ checkpoint \in [{"backup", "restore"} -> [Sessions -> Bitmaps]]
  /\ session \in 0 .. SessionCount /\ failing \in {"no", "read", "write"}
  /\ spoilt \in [{"backup", "restore"} -> SUBSET Sessions]

\* Full and incremental backups, failed, crashed and run again, restored from in
\* between, implement CopyChain: SUCCEED means that the copy is the snapshot
\* except in sessions where a call failed, at most one for each such call, and
\* no incremental backup touches what has not changed since the last.
Chain == INSTANCE CopyChain
  WITH base <- prevChecksums, lost <- spoilt["backup"], failures <- faults

ChainSpec == Chain!Spec

\* What a checkpoint that is left says of a session holds for the snapshot and
\* the copy of now, not for those of an earlier task: an attempt that starts
\* from it (RestoreSessionCheckpoint) skips nothing that is missing, except
\* where a call failed since the session was last written in full.
CheckpointHolds ==
  /\ \A s \in Sessions \ spoilt["backup"] :
       checkpoint["backup"][s] = "done" => copy[s] = volume[s]
  /\ \A s \in Sessions \ spoilt["restore"] :
       checkpoint["restore"][s] = "done" => target[s] = copy[s]

\* A restore that reports SUCCEED has made the volume what the copy is, except in
\* sessions where a call failed; one with zero copy only if the copy is one
\* session.
RestoredIsCopy ==
  restored => \/ \A s \in Sessions \ spoilt["restore"] : target[s] = copy[s]
              \/ kind = "zerocopy" /\ SessionCount > 1

\* The backups that do not succeed however often they are run: fragments,
\* which are created under one name; an incremental backup with a block size
\* of its own, or with a last session shorter than a block, or after a backup
\* whose meta data could not be written, which nobody noticed.
NeverSucceeds ==
  \/ layout.format = "BIN" /\ SessionCount > 1
  \/ /\ backupType = "inc"
     /\ \/ layout.blockSize # layout.recordedBlockSize
        \/ prevMeta = "torn"
        \/ \E s \in Sessions : SessionLength(s) < layout.blockSize

\* "the crash-restart scenario" of PrepareCopyResource: wherever a backup was
\* interrupted, running it again ends with SUCCEED (unless the user waits for
\* a zero-copy restore of a copy that is too short).
BackupCompletes ==
  (pc = "idle" /\ ~complete) ~> (complete \/ NeverSucceeds \/ Spinning)
=============================================================================
