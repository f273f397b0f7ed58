--------------------------- MODULE CopyTasks_proof ---------------------------
(***************************************************************************)
(* Proofs about CopyTasks, for every set of layouts and contents and any   *)
(* number of faults: backups and restores of one copy, crashed and run     *)
(* again, implement CopyChain, and no checkpoint misleads a later task.    *)
(***************************************************************************)
EXTENDS CopyTasks, TLAPS

-----------------------------------------------------------------------------
(* The invariant.                                                          *)

\* A session is on the copy, or on the volume that is restored to, as far as a
\* failing call has not cost it.
InCopy(s) == s \in spoilt["backup"] \/ copy[s] = volume[s]
InTarget(s) == s \in spoilt["restore"] \/ target[s] = copy[s]

\* Where a task is.
Early == {"idle", "prepare", "create", "attach", "initDisk", "layoutDisk", "prepared",
          "saveMeta", "writeMeta"}
Copying == {"copy", "saveTable", "saveBitmap"}
Late == {"clear", "succeed", "succeeded", "failed"}

ProgramInv ==
  /\ layout \in Layouts
  /\ pc \in Early \cup {"session"} \cup Copying \cup Late
  /\ pc \in Early => session = 0
  /\ pc \in Copying \cup {"clear"} => session \in Sessions
  /\ pc \in {"idle", "prepare"} => fragment = 0
  /\ pc = "create" => fragment \in DOMAIN FilesToCreate /\ kind = "full"
  /\ pc \in {"saveMeta", "writeMeta", "saveTable"} => IsBackup
  /\ pc \in {"saveBitmap", "clear"} => kind # "zerocopy"
  /\ pc # "idle" /\ IsBackup => kind = backupType /\ (pc # "succeeded" => ~complete)
  /\ restored => pc \in {"idle", "succeeded"} /\ ~IsBackup

\* A failure the task has not seen yet is one of the session it is at, which is
\* then not recorded, and given up unless it needed no writing.
FailureInv ==
  /\ failing # "no" => kind # "zerocopy" /\ pc \in Copying \cup {"failed"}
  /\ failing # "no" /\ pc \in Copying =>
       ~recorded /\ (NeedToWrite => session \in spoilt[CheckpointDir])
  /\ failing = "write" /\ pc \in Copying => session \in spoilt[CheckpointDir]

\* A file that is missing holds nothing, one that is being created nothing yet.
FileInv ==
  /\ dataFiles \subseteq {0}
  /\ \A s \in Sessions : CopyDataFile(s) \notin dataFiles => copy[s] = Absent
  /\ pc = "create" =>
       \A s \in Sessions : CopyDataFile(s) = 0 => copy[s] \in {Blank, Absent}
  /\ pc = "copy" /\ IsBackup => CopyDataFile(session) \in dataFiles

\* A checksum is that of the snapshot or says nothing, and where the one of the
\* backup before is that of this snapshot too, the copy has it already.
ChecksumInv ==
  /\ \A s \in Sessions : checksums[s] \in Contents => checksums[s] = volume[s]
  /\ backupType = "full" => \A s \in Sessions : prevChecksums[s] = NoFile
  /\ \A s \in Sessions : prevChecksums[s] = volume[s] => InCopy(s)

\* The sessions a backup has passed are copied; one it has just written is in
\* full, whatever failed there before.
BackupInv ==
  /\ IsBackup /\ pc \in {"session"} \cup Copying =>
       \A s \in Sessions : s < session => InCopy(s)
  /\ IsBackup /\ pc \in {"saveTable", "saveBitmap"} =>
       InCopy(session) /\ (NeedToWrite /\ failing = "no" => copy[session] = volume[session])
  /\ complete \/ (IsBackup /\ pc \in {"clear", "succeed"}) => \A s \in Sessions : InCopy(s)

\* What the checkpoint of a backup names is copied and has a checksum file, so
\* that a restart believes it; none is left when the backup has succeeded.
RecordInv ==
  /\ \A s \in Sessions \ spoilt["backup"] :
       checkpoint["backup"][s] = "done" => copy[s] = volume[s] /\ checksums[s] # NoFile
  /\ IsBackup /\ pc = "copy" /\ session \notin spoilt["backup"] =>
       (recorded <=> checkpoint["backup"][session] = "done")
  /\ IsBackup /\ pc \in {"copy", "saveTable"} /\ recorded => checksums[session] # NoFile
  /\ IsBackup /\ pc = "saveBitmap" => checksums[session] # NoFile
  /\ IsBackup /\ pc = "clear" =>
       \A s \in Sessions \ spoilt["backup"] : s < session => checkpoint["backup"][s] # "done"
  /\ complete \/ (IsBackup /\ pc = "succeed") =>
       \A s \in Sessions \ spoilt["backup"] : checkpoint["backup"][s] # "done"

\* The same for restores, whose checkpoint no other task leaves behind.
Faithful == kind = "restore" \/ (kind = "zerocopy" /\ SessionCount = 1)

RestoreInv ==
  /\ \A s \in Sessions \ spoilt["restore"] :
       checkpoint["restore"][s] = "done" => target[s] = copy[s]
  /\ kind = "restore" /\ pc = "copy" /\ session \notin spoilt["restore"] =>
       (recorded <=> checkpoint["restore"][session] = "done")
  /\ pc # "idle" /\ kind # "restore" =>
       \A s \in Sessions \ spoilt["restore"] : checkpoint["restore"][s] # "done"
  /\ Faithful /\ pc \in {"session"} \cup Copying =>
       \A s \in Sessions : s < session => InTarget(s)
  /\ Faithful /\ pc = "saveBitmap" =>
       InTarget(session) /\ (~recorded /\ failing = "no" => target[session] = copy[session])
  /\ Faithful /\ (pc \in {"clear", "succeed"} \/ restored) => \A s \in Sessions : InTarget(s)

TasksInv ==
  /\ TasksTypeOK /\ ProgramInv /\ FailureInv /\ FileInv
  /\ ChecksumInv /\ BackupInv /\ RecordInv /\ RestoreInv

USE DEF InCopy, InTarget, ResourceUnchanged, UserUnchanged, UserWaits, metaFiles, taskLocals,
  results

-----------------------------------------------------------------------------
(* Sessions, files and contents.                                           *)

\* A volume has at least one session.
LEMMA SessionsAre ==
  ASSUME layout \in Layouts
  PROVE  SessionCount \in Nat \ {0} /\ Sessions = 0 .. SessionCount - 1
<1> DEFINE v == layout.volumeSize
           k == layout.sessionSize
<1>1. v \in Nat \ {0} /\ k \in Nat \ {0}
  BY ResourceAssumption
<1>2. SessionCount = (v + k - 1) \div k
  BY DEF SessionCount
<1> HIDE DEF v, k
<1>3. (v + k - 1) \div k \in Nat \ {0}
  BY <1>1
<1> QED
  BY <1>2, <1>3 DEF Sessions

\* The files to create are one, under one or several numbers.
LEMMA FilesAre ==
  ASSUME layout \in Layouts
  PROVE  /\ 0 \in DOMAIN FilesToCreate /\ DOMAIN FilesToCreate \subseteq Sessions
         /\ \A i \in DOMAIN FilesToCreate : FilesToCreate[i] = 0
BY SessionsAre DEF FilesToCreate, SplitFragment, CopyDataFile

\* What depends on the layout alone never changes.
LEMMA SameLayout ==
  ASSUME layout' = layout
  PROVE  /\ SessionCount' = SessionCount /\ Sessions' = Sessions
         /\ FilesToCreate' = FilesToCreate /\ VirtualDisk' = VirtualDisk
         /\ \A s : CopyDataFile(s)' = CopyDataFile(s)
BY DEF SessionCount, Sessions, FilesToCreate, SplitFragment, VirtualDisk, CopyDataFile

\* Contents of a volume, and what marks their absence.
LEMMA Distinct ==
  /\ Blank \notin Contents /\ Torn \notin Contents /\ Absent \notin Contents
  /\ Blank # Torn /\ Blank # Absent /\ Torn # Absent
  /\ NoFile \notin Contents /\ NoHash \notin Contents /\ NoFile # NoHash
BY ResourceAssumption, ChecksumAssumption

\* Write changes its session, and fills the holes before it in its file.
LEMMA WriteEffect ==
  ASSUME copy \in [Sessions -> Stored], session \in Sessions, NEW content \in Stored
  PROVE  /\ Write(content) \in [Sessions -> Stored]
         /\ Write(content)[session] = content
         /\ \A s \in Sessions \ {session} :
              \/ Write(content)[s] = copy[s]
              \/ /\ copy[s] = Absent /\ Write(content)[s] = Blank
                 /\ CopyDataFile(s) = CopyDataFile(session)
<1>1. \A s \in Sessions :
        Write(content)[s] = IF s = session THEN content ELSE IF Hole(s) THEN Blank ELSE copy[s]
  BY DEF Write
<1>2. Write(content) \in [Sessions -> Stored]
  BY DEF Write, Stored
<1> QED
  BY <1>1, <1>2 DEF Hole

\* A file that is created has the same in all its sessions.
LEMMA EmptyFileEffect ==
  ASSUME copy \in [Sessions -> Stored], NEW f, NEW content \in Stored
  PROVE  /\ EmptyFile(f, content) \in [Sessions -> Stored]
         /\ \A s \in Sessions :
              EmptyFile(f, content)[s] = IF CopyDataFile(s) = f THEN content ELSE copy[s]
BY DEF EmptyFile, SessionsIn, Stored

\* A checkpoint file is written for one session of the tasks of one kind.
LEMMA ReachedEffect ==
  ASSUME checkpoint \in [{"backup", "restore"} -> [Sessions -> Bitmaps]],
         NEW bitmap \in Bitmaps, Reached(bitmap)
  PROVE  /\ checkpoint' \in [{"backup", "restore"} -> [Sessions -> Bitmaps]]
         /\ \A s \in Sessions : \A t \in {"backup", "restore"} :
              checkpoint'[t][s] =
                IF t = CheckpointDir /\ s = session THEN bitmap ELSE checkpoint[t][s]
BY DEF Reached, Bitmaps, CheckpointDir

\* Faults are counted up to their bound.
LEMMA FaultCounted == TasksInv /\ Fault => faults' \in 0 .. layout.maxFaults
BY ResourceAssumption DEF Fault, TasksInv, TasksTypeOK, ProgramInv

-----------------------------------------------------------------------------
(* The resource manager.                                                   *)

\* PrepareCopyResource decides to create only what is missing.
LEMMA PrepareStep == TasksInv /\ PrepareCopyResource /\ ManagerAlone => TasksInv'
<1> SUFFICES ASSUME TasksInv, PrepareCopyResource /\ ManagerAlone PROVE TasksInv'
  OBVIOUS
<1>1. layout' = layout
  BY DEF PrepareCopyResource, Goto
<1>2. pc' = "create" => 0 \notin dataFiles
  BY FilesAre DEF TasksInv, ProgramInv, PrepareCopyResource, ResourceExists, Goto
<1>3. TasksTypeOK'
  BY SameLayout
  DEF TasksInv, TasksTypeOK, PrepareCopyResource, ManagerAlone, Goto, NoFault
<1>4. ProgramInv' /\ FailureInv'
  BY SameLayout, FilesAre
  DEF TasksInv, FailureInv, ProgramInv, Early, Copying, Late, IsBackup,
      PrepareCopyResource, ManagerAlone, Goto
<1>5. FileInv'
  BY SameLayout, <1>2 DEF TasksInv, FileInv, PrepareCopyResource, Goto
<1>6. ChecksumInv' /\ BackupInv'
  BY SameLayout
  DEF TasksInv, ChecksumInv, BackupInv, Copying, PrepareCopyResource, ManagerAlone, Goto
<1>7. RecordInv' /\ RestoreInv'
  BY SameLayout
  DEF TasksInv, ProgramInv, RecordInv, RestoreInv, Copying, PrepareCopyResource,
      ManagerAlone, Goto
<1> QED
  BY <1>3, <1>4, <1>5, <1>6, <1>7 DEF TasksInv

\* Creating a file empties only what held nothing: nothing that a checkpoint or
\* a checksum speaks of.
LEMMA CreateStep == TasksInv /\ CreateBackupCopyResource /\ ManagerAlone => TasksInv'
<1> SUFFICES ASSUME TasksInv, CreateBackupCopyResource /\ ManagerAlone PROVE TasksInv'
  OBVIOUS
<1>1. layout' = layout
  BY DEF CreateBackupCopyResource, TruncateCreateFile, CreateRefused, CreateVirtualDiskFile,
     Fails, Goto
<1>2. \/ UNCHANGED <<dataFiles, copy>>
      \/ /\ dataFiles' = dataFiles \cup {0}
         /\ \E c \in {Blank, Absent} : copy' = EmptyFile(0, c)
  BY FilesAre
  DEF TasksInv, ProgramInv, FileInv, CreateBackupCopyResource, TruncateCreateFile,
      CreateRefused, CreateVirtualDiskFile, Fails
<1>3. copy' \in [Sessions -> Stored]
  BY <1>2, EmptyFileEffect DEF TasksInv, TasksTypeOK, Stored
<1>4. \A s \in Sessions :
        \/ copy'[s] = copy[s]
        \/ /\ CopyDataFile(s) = 0 /\ 0 \in dataFiles'
           /\ copy[s] \in {Blank, Absent} /\ copy'[s] \in {Blank, Absent}
  BY <1>2, EmptyFileEffect
  DEF TasksInv, TasksTypeOK, FileInv, Stored, CreateBackupCopyResource
<1>5. fragment' \in 0 .. SessionCount /\ (pc' = "create" => fragment' \in DOMAIN FilesToCreate)
  BY FilesAre, SessionsAre
  DEF TasksInv, ProgramInv, CreateBackupCopyResource, TruncateCreateFile, CreateRefused,
      CreateVirtualDiskFile, Fails, Goto
<1>6. /\ UNCHANGED <<attached, kind, volume, target, backupType, metaFiles, checkpoint,
                     taskLocals, results>>
      /\ partitioned' \in BOOLEAN
  BY DEF TasksInv, TasksTypeOK, CreateBackupCopyResource, ManagerAlone, TruncateCreateFile,
         CreateRefused, CreateVirtualDiskFile, Fails, Goto
<1>7. faults' \in 0 .. layout.maxFaults
  BY FaultCounted
  DEF TasksInv, TasksTypeOK, CreateBackupCopyResource, TruncateCreateFile, CreateRefused,
      CreateVirtualDiskFile, NoFault
<1>8. dataFiles \subseteq dataFiles' /\ dataFiles' \subseteq {0}
  BY <1>2 DEF TasksInv, FileInv
<1>9. TasksTypeOK'
  BY <1>1, SameLayout, <1>3, <1>5, <1>6, <1>7, <1>8, SessionsAre
  DEF TasksInv, TasksTypeOK, ProgramInv
<1>10. ProgramInv' /\ FailureInv'
  BY SameLayout
  DEF TasksInv, FailureInv, ProgramInv, Early, Copying, Late, IsBackup,
      CreateBackupCopyResource, ManagerAlone, TruncateCreateFile, CreateRefused,
      CreateVirtualDiskFile, Fails, Goto
<1>11. FileInv'
  BY SameLayout, <1>4, <1>8, FilesAre
  DEF TasksInv, FileInv, CreateBackupCopyResource, ManagerAlone, TruncateCreateFile,
      CreateRefused, CreateVirtualDiskFile, Fails, Goto
<1>12. ChecksumInv'
  BY <1>1, SameLayout, <1>4, Distinct
  DEF TasksInv, TasksTypeOK, ChecksumInv, ManagerAlone
<1>13. BackupInv'
  BY DEF TasksInv, ProgramInv, BackupInv, Copying, IsBackup, CreateBackupCopyResource,
         ManagerAlone, TruncateCreateFile, CreateRefused, CreateVirtualDiskFile, Fails, Goto
<1>14. RecordInv'
  BY SameLayout, <1>4, Distinct
  DEF TasksInv, TasksTypeOK, RecordInv, CreateBackupCopyResource, ManagerAlone,
      TruncateCreateFile, CreateRefused, CreateVirtualDiskFile, Fails, Goto
<1>15. RestoreInv'
  BY SameLayout
  DEF TasksInv, ProgramInv, RestoreInv, Faithful, CreateBackupCopyResource, ManagerAlone,
      TruncateCreateFile, CreateRefused, CreateVirtualDiskFile, Fails, Goto
<1> QED
  BY <1>9, <1>10, <1>11, <1>12, <1>13, <1>14, <1>15 DEF TasksInv

\* Attaching and partitioning touch no data.
LEMMA AttachStep == TasksInv /\ AttachCopyResource /\ ManagerAlone => TasksInv'
<1> SUFFICES ASSUME TasksInv, AttachCopyResource /\ ManagerAlone PROVE TasksInv'
  OBVIOUS
<1>1. layout' = layout
  BY DEF AttachCopyResource, Goto
<1>2. TasksTypeOK'
  BY SameLayout, FaultCounted
  DEF TasksInv, TasksTypeOK, AttachCopyResource, ManagerAlone, AttachVirtualDisk,
      AfterAttach, Goto, NoFault
<1>3. ProgramInv' /\ FailureInv'
  BY DEF TasksInv, FailureInv, ProgramInv, Early, Copying, Late, IsBackup,
         AttachCopyResource, ManagerAlone, AfterAttach, Goto
<1>4. FileInv' /\ ChecksumInv'
  BY SameLayout
  DEF TasksInv, FileInv, ChecksumInv, AttachCopyResource, ManagerAlone, AttachVirtualDisk,
      AfterAttach, Goto, NoFault
<1>5. BackupInv' /\ RecordInv' /\ RestoreInv'
  BY SameLayout
  DEF TasksInv, ProgramInv, BackupInv, RecordInv, RestoreInv, Copying, AttachCopyResource,
      ManagerAlone, AfterAttach, Goto
<1> QED
  BY <1>2, <1>3, <1>4, <1>5 DEF TasksInv

\* ... and so does writing the partition table.
LEMMA InitDiskStep == TasksInv /\ InitBackupCopyResource /\ ManagerAlone => TasksInv'
<1> SUFFICES ASSUME TasksInv, InitBackupCopyResource /\ ManagerAlone PROVE TasksInv'
  OBVIOUS
<1>1. layout' = layout
  BY DEF InitBackupCopyResource, Goto
<1>2. TasksTypeOK'
  BY SameLayout, FaultCounted
  DEF TasksInv, TasksTypeOK, InitBackupCopyResource, ManagerAlone, Goto, NoFault
<1>3. ProgramInv' /\ FailureInv'
  BY DEF TasksInv, FailureInv, ProgramInv, Early, Copying, Late, IsBackup,
         InitBackupCopyResource, ManagerAlone, Goto
<1>4. FileInv' /\ ChecksumInv'
  BY SameLayout
  DEF TasksInv, FileInv, ChecksumInv, InitBackupCopyResource, ManagerAlone, Goto
<1>5. BackupInv' /\ RecordInv' /\ RestoreInv'
  BY SameLayout
  DEF TasksInv, ProgramInv, BackupInv, RecordInv, RestoreInv, Copying,
      InitBackupCopyResource, ManagerAlone, Goto
<1> QED
  BY <1>2, <1>3, <1>4, <1>5 DEF TasksInv

\* The end of a task.
LEMMA DetachStep == TasksInv /\ DetachCopyResource /\ ManagerAlone => TasksInv'
<1> SUFFICES ASSUME TasksInv, DetachCopyResource /\ ManagerAlone PROVE TasksInv'
  OBVIOUS
<1>1. layout' = layout
  BY DEF DetachCopyResource, Goto
<1>2. /\ session' = 0 /\ recorded' = FALSE /\ failing' = "no"
      /\ fragment' = 0 /\ 0 \in 0 .. SessionCount
  BY SessionsAre DEF TasksInv, ProgramInv, DetachCopyResource, ManagerAlone, TaskDies, Goto
<1>3. TasksTypeOK'
  BY SameLayout, FaultCounted, <1>2
  DEF TasksInv, TasksTypeOK, DetachCopyResource, ManagerAlone, Goto, NoFault
<1>4. ProgramInv' /\ FailureInv'
  BY <1>2
  DEF TasksInv, FailureInv, ProgramInv, Early, Copying, IsBackup, DetachCopyResource,
      ManagerAlone, Goto
<1>5. FileInv' /\ ChecksumInv'
  BY SameLayout
  DEF TasksInv, FileInv, ChecksumInv, DetachCopyResource, ManagerAlone, Goto
<1>6. BackupInv' /\ RecordInv' /\ RestoreInv'
  BY SameLayout
  DEF TasksInv, BackupInv, RecordInv, RestoreInv, Copying, Faithful, DetachCopyResource,
      ManagerAlone, Goto
<1> QED
  BY <1>3, <1>4, <1>5, <1>6 DEF TasksInv

-----------------------------------------------------------------------------
(* Prepare and the end of ThreadFunc.                                      *)

\* A task begins with its first session: none is behind it yet.
LEMMA ValidateStep == TasksInv /\ Validate => TasksInv'
<1> SUFFICES ASSUME TasksInv, Validate PROVE TasksInv'
  OBVIOUS
<1>1. layout' = layout
  BY DEF Validate, Goto
<1>2. session = 0 /\ session' = 0 /\ \A s \in Sessions : ~(s < 0)
  BY SessionsAre DEF TasksInv, ProgramInv, Early, Validate
<1>3. TasksTypeOK'
  BY SameLayout
  DEF TasksInv, TasksTypeOK, Copying, Validate, Goto, NoFault
<1>4. ProgramInv' /\ FailureInv'
  BY DEF TasksInv, FailureInv, ProgramInv, Early, Copying, Late, IsBackup, Validate, Goto
<1>5. FileInv' /\ ChecksumInv'
  BY SameLayout
  DEF TasksInv, FileInv, ChecksumInv, Validate, Goto
<1>6. BackupInv'
  BY SameLayout, <1>2
  DEF TasksInv, BackupInv, Validate, Goto
<1>7. RecordInv'
  BY SameLayout
  DEF TasksInv, RecordInv, Validate, Goto
<1>8. RestoreInv'
  BY SameLayout, <1>2
  DEF TasksInv, ProgramInv, RestoreInv, Validate, Goto
<1> QED
  BY <1>3, <1>4, <1>5, <1>6, <1>7, <1>8 DEF TasksInv

\* ... also after it has saved its meta data.
LEMMA SaveMetaStep == TasksInv /\ SaveMeta => TasksInv'
<1> SUFFICES ASSUME TasksInv, SaveMeta PROVE TasksInv'
  OBVIOUS
<1>1. layout' = layout
  BY DEF SaveMeta, Goto
<1>2. session = 0 /\ session' = 0 /\ \A s \in Sessions : ~(s < 0)
  BY SessionsAre DEF TasksInv, ProgramInv, Early, SaveMeta
<1>3. TasksTypeOK'
  BY SameLayout, FaultCounted
  DEF TasksInv, TasksTypeOK, SaveMeta, Goto, NoFault
<1>4. ProgramInv' /\ FailureInv'
  BY DEF TasksInv, FailureInv, ProgramInv, Early, Copying, Late, IsBackup, SaveMeta, Goto
<1>5. FileInv' /\ ChecksumInv'
  BY SameLayout
  DEF TasksInv, FileInv, ChecksumInv, SaveMeta, Goto
<1>6. BackupInv'
  BY SameLayout, <1>2
  DEF TasksInv, ProgramInv, BackupInv, SaveMeta, Goto
<1>7. RecordInv'
  BY SameLayout
  DEF TasksInv, RecordInv, SaveMeta, Goto
<1>8. RestoreInv'
  BY SameLayout DEF TasksInv, TasksTypeOK, ProgramInv, RestoreInv, Faithful, SaveMeta, Goto
<1> QED
  BY <1>3, <1>4, <1>5, <1>6, <1>7, <1>8 DEF TasksInv

\* No session left means that all of them are behind the task.
LEMMA QueueEmptyStep == TasksInv /\ QueueEmpty => TasksInv'
<1> SUFFICES ASSUME TasksInv, QueueEmpty PROVE TasksInv'
  OBVIOUS
<1>1. layout' = layout
  BY DEF QueueEmpty, Goto
<1>2. TasksTypeOK'
  BY <1>1, SameLayout, SessionsAre
  DEF TasksInv, TasksTypeOK, ProgramInv, Copying, QueueEmpty, Goto, NoFault
<1>3. ProgramInv' /\ FailureInv'
  BY SameLayout, SessionsAre
  DEF TasksInv, FailureInv, ProgramInv, Early, Copying, Late, IsBackup, QueueEmpty, Goto
<1>4. FileInv' /\ ChecksumInv'
  BY SameLayout
  DEF TasksInv, FileInv, ChecksumInv, QueueEmpty, Goto
<1>5. /\ UNCHANGED <<layout, copy, volume, target, kind, complete, restored, spoilt>>
      /\ checkpoint' = checkpoint
      /\ pc # "idle" /\ pc' \in {"clear", "succeed"}
  BY DEF QueueEmpty, Goto
<1>6. \A s \in Sessions : s < session
  BY SessionsAre DEF TasksInv, TasksTypeOK, ProgramInv, QueueEmpty
<1>7. BackupInv'
  <2>1. IsBackup => \A s \in Sessions : InCopy(s)
    BY <1>6 DEF TasksInv, TasksTypeOK, BackupInv, QueueEmpty
  <2> QED
    BY <1>5, <2>1, SameLayout DEF TasksInv, BackupInv, Copying, IsBackup
<1>8. RecordInv'
  BY SameLayout, SessionsAre
  DEF TasksInv, ProgramInv, RecordInv, IsBackup, QueueEmpty, Goto
<1>9. RestoreInv'
  <2>1. Faithful => \A s \in Sessions : InTarget(s)
    BY <1>6 DEF TasksInv, TasksTypeOK, RestoreInv, QueueEmpty
  <2> QED
    BY <1>5, <2>1, SameLayout
    DEF TasksInv, TasksTypeOK, RestoreInv, Faithful, Copying
<1> QED
  BY <1>2, <1>3, <1>4, <1>7, <1>8, <1>9 DEF TasksInv

\* Checkpoints are removed in the order of the sessions; one that stays behind is
\* that of a session a call has failed in.
LEMMA ClearStep == TasksInv /\ ClearAllCheckpoints => TasksInv'
<1> SUFFICES ASSUME TasksInv, ClearAllCheckpoints PROVE TasksInv'
  OBVIOUS
<1> USE DEF ClearNext
<1>1. layout' = layout
  BY DEF ClearAllCheckpoints, Goto
<1>2. checkpoint' \in [{"backup", "restore"} -> [Sessions -> Bitmaps]]
  BY ReachedEffect DEF TasksInv, TasksTypeOK, Bitmaps, ClearAllCheckpoints
<1>3. \A s \in Sessions : \A t \in {"backup", "restore"} :
        \/ checkpoint'[t][s] = checkpoint[t][s]
        \/ t = CheckpointDir /\ s = session /\ checkpoint'[t][s] = "none"
  BY ReachedEffect DEF TasksInv, TasksTypeOK, Bitmaps, ClearAllCheckpoints
<1>4. \A s \in Sessions :
        s < session + 1 \/ session + 1 \notin Sessions => s < session \/ s = session
  BY SessionsAre DEF TasksInv, ProgramInv, ClearAllCheckpoints
<1>5. session \in Sessions
  BY DEF TasksInv, ProgramInv, ClearAllCheckpoints
<1>6. /\ spoilt' \in [{"backup", "restore"} -> SUBSET Sessions]
      /\ spoilt'["restore"] = spoilt["restore"] /\ spoilt["backup"] \subseteq spoilt'["backup"]
      /\ IsBackup => session \in spoilt'["backup"] \/ checkpoint'["backup"][session] = "none"
  <2>1. CASE Reached("none") /\ UNCHANGED spoilt
    BY <1>5, <2>1, ReachedEffect DEF TasksInv, TasksTypeOK, Bitmaps, CheckpointDir
  <2>2. CASE UNCHANGED checkpoint /\ IF IsBackup THEN Spoil ELSE UNCHANGED spoilt
    BY <1>5, <2>2 DEF TasksInv, TasksTypeOK, Spoil, CheckpointDir
  <2> QED
    BY <2>1, <2>2 DEF ClearAllCheckpoints
<1>7. TasksTypeOK'
  BY <1>1, SameLayout, <1>2, <1>6, SessionsAre, FaultCounted
  DEF TasksInv, TasksTypeOK, ProgramInv, ClearAllCheckpoints, Goto, NoFault
<1>8. ProgramInv' /\ FailureInv'
  BY SameLayout
  DEF TasksInv, FailureInv, ProgramInv, Early, Copying, Late, IsBackup,
      ClearAllCheckpoints, Goto
<1>9. FileInv'
  BY SameLayout DEF TasksInv, FileInv, ClearAllCheckpoints, Goto
<1>10. ChecksumInv'
  BY <1>1, SameLayout, <1>6 DEF TasksInv, ChecksumInv, ClearAllCheckpoints
<1>11. BackupInv'
  BY SameLayout, <1>6
  DEF TasksInv, BackupInv, Copying, IsBackup, ClearAllCheckpoints, Goto
<1>12. RecordInv'
  BY SameLayout, <1>3, <1>4, <1>6
  DEF TasksInv, ProgramInv, RecordInv, IsBackup, ClearAllCheckpoints, CheckpointDir, Goto
<1>13. RestoreInv'
  BY SameLayout, <1>3, <1>6
  DEF TasksInv, RestoreInv, Copying, Faithful, ClearAllCheckpoints, Goto
<1> QED
  BY <1>7, <1>8, <1>9, <1>10, <1>11, <1>12, <1>13 DEF TasksInv

\* SUCCEED is said when everything is behind the task.
LEMMA SucceedStep == TasksInv /\ Succeed => TasksInv'
<1> SUFFICES ASSUME TasksInv, Succeed PROVE TasksInv'
  OBVIOUS
<1>1. layout' = layout
  BY DEF Succeed, Goto
<1>2. TasksTypeOK'
  BY SameLayout
  DEF TasksInv, TasksTypeOK, Copying, Succeed, Goto, NoFault
<1>3. ProgramInv' /\ FailureInv'
  BY DEF TasksInv, FailureInv, ProgramInv, Early, Copying, Late, IsBackup, Succeed, Goto
<1>4. FileInv' /\ ChecksumInv'
  BY SameLayout
  DEF TasksInv, FileInv, ChecksumInv, Succeed, Goto
<1>5. BackupInv'
  BY SameLayout DEF TasksInv, BackupInv, Copying, Succeed, Goto
<1>6. RecordInv'
  BY SameLayout DEF TasksInv, RecordInv, Succeed, Goto
<1>7. RestoreInv'
  BY SameLayout DEF TasksInv, RestoreInv, Faithful, Succeed, Goto
<1> QED
  BY <1>2, <1>3, <1>4, <1>5, <1>6, <1>7 DEF TasksInv

-----------------------------------------------------------------------------
(* What goes wrong in a session.                                           *)

\* Only what is being written is damaged: nothing that a checkpoint or the
\* checksums of the backup before speak of.
LEMMA Damage ==
  ASSUME TasksInv, PartlyWritten \/ UNCHANGED <<copy, target>>
  PROVE  /\ copy' \in [Sessions -> Stored] /\ target' \in [Sessions -> Stored \ {Absent}]
         /\ \A s \in Sessions : copy'[s] # copy[s] => CopyDataFile(s) \in dataFiles
         /\ \A s \in Sessions :
              copy'[s] # copy[s] /\ copy[s] \in Contents =>
                IsBackup /\ pc = "copy" /\ NeedToWrite /\ s = session
         /\ copy' # copy => IsBackup /\ pc = "copy" /\ ~complete /\ ~restored /\ target' = target
         /\ target' # target => ~IsBackup /\ pc = "copy" /\ ~recorded /\ ~restored /\ copy' = copy
         /\ kind = "restore" => \A s \in Sessions : s # session => target'[s] = target[s]
<1>1. CASE UNCHANGED <<copy, target>>
  BY <1>1 DEF TasksInv, TasksTypeOK
<1>2. CASE PartlyWritten /\ IsBackup
  <2>1. copy' = Write(Torn) /\ target' = target /\ pc = "copy" /\ NeedToWrite
    BY <1>2 DEF PartlyWritten
  <2>2. session \in Sessions /\ ~complete /\ ~restored
    BY <1>2, <2>1 DEF TasksInv, ProgramInv, Copying
  <2>3. CopyDataFile(session) \in dataFiles
    BY <1>2, <2>1 DEF TasksInv, FileInv
  <2>4. kind # "restore"
    BY <1>2 DEF IsBackup
  <2>5. /\ copy' \in [Sessions -> Stored]
        /\ \A s \in Sessions \ {session} :
             \/ copy'[s] = copy[s]
             \/ copy[s] = Absent /\ CopyDataFile(s) = CopyDataFile(session)
    BY <2>1, <2>2, WriteEffect DEF TasksInv, TasksTypeOK, Stored
  <2> QED
    BY <1>2, <2>1, <2>2, <2>3, <2>4, <2>5, Distinct DEF TasksInv, TasksTypeOK
<1>3. CASE PartlyWritten /\ ~IsBackup
  <2>1. /\ copy' = copy /\ pc = "copy" /\ ~recorded
        /\ target' = [target EXCEPT ![IF kind = "zerocopy" THEN ZeroCopyPlace ELSE session] = Torn]
    BY <1>3 DEF PartlyWritten, NeedToWrite
  <2>2. session \in Sessions /\ ~restored
    BY <2>1 DEF TasksInv, ProgramInv, Copying
  <2> QED
    BY <1>3, <2>1, <2>2, Distinct DEF TasksInv, TasksTypeOK, Stored
<1> QED
  BY <1>1, <1>2, <1>3

\* A full backup knows no snapshot before, whose checksums could be equal.
LEMMA NoBase ==
  ASSUME TasksInv, kind = "full", pc # "idle", NEW s \in Sessions
  PROVE  prevChecksums[s] # volume[s]
BY Distinct DEF TasksInv, TasksTypeOK, ProgramInv, ChecksumInv, IsBackup

\* What needs writing differs from the snapshot before.
LEMMA Differs ==
  ASSUME TasksInv, IsBackup, pc = "copy", NeedToWrite
  PROVE  prevChecksums[session] # volume[session]
BY NoBase DEF TasksInv, ProgramInv, Copying, IsBackup, NeedToWrite

\* A session that is seen to fail is not recorded.
LEMMA SessionFailsStep == TasksInv /\ SessionFails => TasksInv'
<1> SUFFICES ASSUME TasksInv, SessionFails PROVE TasksInv'
  OBVIOUS
<1>1. layout' = layout /\ kind' = kind /\ pc' = "failed" /\ pc \in {"session", "copy"}
  BY DEF SessionFails, Goto
<1>2. PartlyWritten \/ UNCHANGED <<copy, target>>
  BY DEF SessionFails
<1>3. /\ copy' \in [Sessions -> Stored] /\ target' \in [Sessions -> Stored \ {Absent}]
      /\ \A s \in Sessions : copy'[s] # copy[s] => CopyDataFile(s) \in dataFiles
      /\ \A s \in Sessions :
           copy'[s] # copy[s] /\ copy[s] \in Contents =>
             IsBackup /\ pc = "copy" /\ NeedToWrite /\ s = session
      /\ copy' # copy => IsBackup /\ pc = "copy" /\ ~complete /\ ~restored /\ target' = target
      /\ target' # target => ~IsBackup /\ pc = "copy" /\ ~recorded /\ ~restored /\ copy' = copy
      /\ kind = "restore" => \A s \in Sessions : s # session => target'[s] = target[s]
  BY <1>2, Damage
<1>4. TasksTypeOK'
  BY <1>1, SameLayout, <1>3, FaultCounted DEF TasksInv, TasksTypeOK, SessionFails, NoFault
<1>5. ProgramInv' /\ FailureInv'
  BY <1>1
  DEF TasksInv, FailureInv, ProgramInv, Early, Copying, Late, IsBackup, SessionFails
<1>6. FileInv'
  BY <1>1, SameLayout, <1>3 DEF TasksInv, FileInv, SessionFails
<1>7. ChecksumInv'
  BY <1>1, SameLayout, <1>3, Differs DEF TasksInv, TasksTypeOK, ChecksumInv, SessionFails
<1>8. BackupInv'
  BY <1>1, SameLayout, <1>3 DEF TasksInv, BackupInv, Copying, SessionFails
<1>9. RecordInv'
  BY <1>1, SameLayout, <1>3 DEF TasksInv, TasksTypeOK, RecordInv, NeedToWrite, SessionFails
<1>10. RestoreInv'
  BY <1>1, SameLayout, <1>3
  DEF TasksInv, TasksTypeOK, ProgramInv, RestoreInv, Copying, Faithful, SessionFails
<1> QED
  BY <1>4, <1>5, <1>6, <1>7, <1>8, <1>9, <1>10 DEF TasksInv

\* A read or write that fails costs its session, if that needs writing.
LEMMA SubtaskFailsStep == TasksInv /\ (ReadFails \/ WriteFails) => TasksInv'
<1> SUFFICES ASSUME TasksInv, ReadFails \/ WriteFails PROVE TasksInv'
  OBVIOUS
<1>1. /\ UNCHANGED <<layout, kind, pc, dataFiles, attached, partitioned, metaFiles, checkpoint,
                     session, recorded, volume, backupType, complete, restored>>
      /\ fragment' = fragment
      /\ pc = "copy" /\ kind # "zerocopy" /\ ~recorded /\ failing' \in {"read", "write"}
  BY DEF ReadFails, WriteFails, SubtaskFails
<1>2. PartlyWritten \/ UNCHANGED <<copy, target>>
  BY DEF ReadFails, WriteFails
<1>3. /\ copy' \in [Sessions -> Stored] /\ target' \in [Sessions -> Stored \ {Absent}]
      /\ \A s \in Sessions : copy'[s] # copy[s] => CopyDataFile(s) \in dataFiles
      /\ \A s \in Sessions :
           copy'[s] # copy[s] /\ copy[s] \in Contents =>
             IsBackup /\ pc = "copy" /\ NeedToWrite /\ s = session
      /\ copy' # copy => IsBackup /\ pc = "copy" /\ ~complete /\ ~restored /\ target' = target
      /\ target' # target => ~IsBackup /\ pc = "copy" /\ ~recorded /\ ~restored /\ copy' = copy
      /\ kind = "restore" => \A s \in Sessions : s # session => target'[s] = target[s]
  BY <1>2, Damage
<1>4. session \in Sessions
  BY <1>1 DEF TasksInv, ProgramInv, Copying
<1>5. \/ Spoil
      \/ UNCHANGED spoilt /\ ~NeedToWrite /\ failing' = "read"
  BY DEF ReadFails, WriteFails
<1>6. /\ spoilt' \in [{"backup", "restore"} -> SUBSET Sessions]
      /\ \A t \in {"backup", "restore"} : spoilt[t] \subseteq spoilt'[t]
      /\ \A t \in {"backup", "restore"} : t # CheckpointDir => spoilt'[t] = spoilt[t]
      /\ session \in spoilt'[CheckpointDir] \/ (~NeedToWrite /\ failing' = "read")
      /\ CheckpointDir \in {"backup", "restore"}
  BY <1>4, <1>5 DEF TasksInv, TasksTypeOK, Spoil, CheckpointDir
<1>7. NeedToWrite' = NeedToWrite /\ CheckpointDir' = CheckpointDir /\ IsBackup' = IsBackup
  BY <1>1 DEF NeedToWrite, CheckpointDir, IsBackup
<1>8. TasksTypeOK'
  BY <1>1, SameLayout, <1>3, <1>6, FaultCounted
  DEF TasksInv, TasksTypeOK, ReadFails, WriteFails, NoFault
<1>9. ProgramInv' /\ FailureInv'
  BY <1>1, SameLayout, <1>6, <1>7 DEF TasksInv, FailureInv, ProgramInv, Copying, IsBackup
<1>10. FileInv'
  BY <1>1, SameLayout, <1>3, <1>7 DEF TasksInv, FileInv
<1>11. ChecksumInv'
  BY <1>1, SameLayout, <1>3, <1>6, Differs DEF TasksInv, TasksTypeOK, ChecksumInv
<1>12. BackupInv'
  BY <1>1, SameLayout, <1>3, <1>6, <1>7 DEF TasksInv, TasksTypeOK, BackupInv
<1>13. RecordInv'
  BY <1>1, SameLayout, <1>3, <1>6, <1>7 DEF TasksInv, TasksTypeOK, RecordInv, NeedToWrite
<1>14. RestoreInv'
  BY <1>1, SameLayout, <1>3, <1>6, <1>7
  DEF TasksInv, TasksTypeOK, ProgramInv, RestoreInv, Faithful, IsBackup, CheckpointDir
<1> QED
  BY <1>8, <1>9, <1>10, <1>11, <1>12, <1>13, <1>14 DEF TasksInv

\* ... and one that is missed, too.
LEMMA FailureMissedStep == TasksInv /\ FailureMissed => TasksInv'
<1> SUFFICES ASSUME TasksInv, FailureMissed PROVE TasksInv'
  OBVIOUS
<1>1. /\ layout' = layout /\ kind' = kind /\ pc = "copy"
      /\ pc' = IF IsBackup THEN "saveTable" ELSE "saveBitmap"
      /\ failing # "no" /\ kind # "zerocopy" /\ ~recorded /\ failing' = failing
      /\ NeedToWrite => session \in spoilt[CheckpointDir]
  BY DEF TasksInv, FailureInv, FailureMissed, Goto, Copying
<1>2. NeedToWrite' = NeedToWrite /\ CheckpointDir' = CheckpointDir /\ IsBackup' = IsBackup
  BY <1>1 DEF NeedToWrite, CheckpointDir, IsBackup, FailureMissed
<1>3. IsBackup => InCopy(session)
  BY <1>1
  DEF TasksInv, TasksTypeOK, ProgramInv, Copying, ChecksumInv, NeedToWrite, CheckpointDir
<1>4. ~IsBackup => session \in spoilt["restore"]
  BY <1>1 DEF NeedToWrite, CheckpointDir, IsBackup
<1>5. TasksTypeOK'
  BY <1>1, SameLayout DEF TasksInv, TasksTypeOK, FailureMissed, NoFault
<1>6. ProgramInv' /\ FailureInv'
  BY <1>1, <1>2, SameLayout
  DEF TasksInv, FailureInv, ProgramInv, Early, Copying, IsBackup, FailureMissed
<1>7. FileInv' /\ ChecksumInv'
  BY <1>1, SameLayout DEF TasksInv, FileInv, ChecksumInv, FailureMissed
<1>8. BackupInv' /\ RecordInv'
  BY <1>1, <1>2, <1>3, SameLayout DEF TasksInv, BackupInv, RecordInv, Copying, FailureMissed
<1>9. RestoreInv'
  BY <1>1, <1>4, SameLayout
  DEF TasksInv, RestoreInv, Copying, Faithful, IsBackup, FailureMissed
<1> QED
  BY <1>5, <1>6, <1>7, <1>8, <1>9 DEF TasksInv

-----------------------------------------------------------------------------
(* A session.                                                              *)

\* What is taken for recorded is what the checkpoint names.
LEMMA OpenSessionStep == TasksInv /\ OpenSession => TasksInv'
<1> SUFFICES ASSUME TasksInv, OpenSession PROVE TasksInv'
  OBVIOUS
<1>1. layout' = layout
  BY DEF OpenSession, Goto
<1>2. TasksTypeOK'
  BY SameLayout
  DEF TasksInv, TasksTypeOK, OpenSession, OpenCopy, IsRecorded, Goto, NoFault
<1>3. ProgramInv' /\ FailureInv'
  BY SameLayout
  DEF TasksInv, FailureInv, ProgramInv, Early, Copying, Late, IsBackup, OpenSession, Goto
<1>4. FileInv' /\ ChecksumInv'
  BY SameLayout
  DEF TasksInv, FileInv, ChecksumInv, IsBackup, OpenSession, CanOpenSession, CanOpenCopy,
      Goto
<1>5. BackupInv'
  BY SameLayout DEF TasksInv, BackupInv, IsBackup, OpenSession, Goto
<1>6. RecordInv'
  BY SameLayout
  DEF TasksInv, RecordInv, IsBackup, OpenSession, IsRecorded, CheckpointDir, Goto
<1>7. RestoreInv'
  BY SameLayout
  DEF TasksInv, TasksTypeOK, ProgramInv, RestoreInv, Faithful, OpenSession, IsRecorded,
      CheckpointDir, Goto
<1> QED
  BY <1>2, <1>3, <1>4, <1>5, <1>6, <1>7 DEF TasksInv

\* A refresh records nothing as done before the session is, unless it could not be
\* written.
LEMMA RefreshStep == TasksInv /\ Refresh => TasksInv'
<1> SUFFICES ASSUME TasksInv, Refresh PROVE TasksInv'
  OBVIOUS
<1>1. layout' = layout
  BY DEF Refresh
<1>2. checksums' \in [Sessions -> Contents \cup {NoFile, NoHash}]
  BY DEF TasksInv, TasksTypeOK, Refresh
<1>3. \A s \in Sessions :
        \/ checksums'[s] = checksums[s]
        \/ s = session /\ checksums'[s] \in {NoHash, volume[s]}
  BY DEF TasksInv, TasksTypeOK, Refresh
<1>4. checkpoint' \in [{"backup", "restore"} -> [Sessions -> Bitmaps]]
  BY ReachedEffect DEF TasksInv, TasksTypeOK, Bitmaps, Refresh
<1>5. \A s \in Sessions : \A t \in {"backup", "restore"} :
        \/ checkpoint'[t][s] = checkpoint[t][s]
        \/ s = session /\ checkpoint'[t][s] = "empty"
        \/ s \in spoilt[t]
  <2>1. CASE UNCHANGED checkpoint
    BY <2>1
  <2>2. CASE Reached("empty")
    BY <2>2, ReachedEffect DEF TasksInv, TasksTypeOK, Bitmaps
  <2>3. CASE failing = "write" /\ Reached("done")
    <3>1. session \in spoilt[CheckpointDir]
      BY <2>3 DEF TasksInv, FailureInv, Copying, Refresh
    <3> QED
      BY <2>3, <3>1, ReachedEffect DEF TasksInv, TasksTypeOK, Bitmaps
  <2> QED
    BY <2>1, <2>2, <2>3 DEF Refresh
<1>6. TasksTypeOK'
  BY SameLayout, <1>4
  DEF TasksInv, TasksTypeOK, Copying, Refresh, NoFault
<1>7. ProgramInv' /\ FailureInv'
  BY SameLayout
  DEF TasksInv, FailureInv, ProgramInv, IsBackup, NeedToWrite, CheckpointDir, Refresh
<1>8. FileInv' /\ BackupInv'
  BY SameLayout
  DEF TasksInv, FileInv, BackupInv, IsBackup, Refresh
<1>9. ChecksumInv'
  BY SameLayout, <1>3, Distinct
  DEF TasksInv, ChecksumInv, Refresh
<1>10. RecordInv'
  BY SameLayout, <1>3, <1>5
  DEF TasksInv, ProgramInv, RecordInv, IsBackup, Copying, Refresh
<1>11. RestoreInv'
  BY SameLayout, <1>5
  DEF TasksInv, ProgramInv, RestoreInv, Copying, Faithful, Refresh
<1> QED
  BY <1>6, <1>7, <1>8, <1>9, <1>10, <1>11 DEF TasksInv

\* A session that is written, or that needs no writing, is copied; of the others
\* only holes are filled.
LEMMA BackupSessionStep == TasksInv /\ BackupSession => TasksInv'
<1> SUFFICES ASSUME TasksInv, BackupSession PROVE TasksInv'
  OBVIOUS
<1>1. layout' = layout
  BY DEF BackupSession, Goto
<1>2. /\ copy' \in [Sessions -> Stored]
      /\ session \in spoilt["backup"] \/ copy'[session] = volume[session]
      /\ NeedToWrite => copy'[session] = volume[session]
  <2>1. session \in Sessions
    BY DEF TasksInv, ProgramInv, Copying, BackupSession
  <2>2. CASE NeedToWrite
    BY <2>1, <2>2, WriteEffect DEF TasksInv, TasksTypeOK, BackupSession, Stored
  <2>3. CASE ~NeedToWrite
    BY <2>1, <2>3
    DEF TasksInv, TasksTypeOK, BackupSession, NeedToWrite, RecordInv, ChecksumInv
  <2> QED
    BY <2>2, <2>3
<1>3. \A s \in Sessions :
        copy[s] \in Contents /\ copy'[s] # copy[s] => s = session /\ copy'[s] = volume[s]
  BY WriteEffect, Distinct
  DEF TasksInv, TasksTypeOK, ProgramInv, Copying, BackupSession, Stored
<1>4. \A s \in Sessions : copy'[s] # copy[s] => CopyDataFile(s) \in dataFiles
  BY WriteEffect
  DEF TasksInv, TasksTypeOK, ProgramInv, Copying, FileInv, BackupSession, Stored
<1>5. TasksTypeOK'
  BY SameLayout, <1>2
  DEF TasksInv, TasksTypeOK, Copying, BackupSession, Goto, NoFault
<1>6. ProgramInv' /\ FailureInv'
  BY SameLayout
  DEF TasksInv, FailureInv, ProgramInv, Early, Copying, IsBackup, BackupSession, Goto
<1>7. FileInv'
  BY SameLayout, <1>4
  DEF TasksInv, FileInv, IsBackup, BackupSession, Goto, NoFault
<1>8. ChecksumInv'
  BY <1>1, SameLayout, <1>3
  DEF TasksInv, TasksTypeOK, ChecksumInv, BackupSession
<1>9. BackupInv'
  BY SameLayout, <1>2, <1>3
  DEF TasksInv, TasksTypeOK, ProgramInv, BackupInv, Copying, NeedToWrite, BackupSession, Goto
<1>10. RecordInv'
  BY SameLayout, <1>3
  DEF TasksInv, TasksTypeOK, RecordInv, BackupSession, Goto
<1>11. RestoreInv'
  BY SameLayout
  DEF TasksInv, TasksTypeOK, ProgramInv, RestoreInv, Faithful, BackupSession, Goto
<1> QED
  BY <1>5, <1>6, <1>7, <1>8, <1>9, <1>10, <1>11 DEF TasksInv

\* The checksums are those of the snapshot, or none.
LEMMA SaveTableStep == TasksInv /\ SaveTable => TasksInv'
<1> SUFFICES ASSUME TasksInv, SaveTable PROVE TasksInv'
  OBVIOUS
<1>1. layout' = layout
  BY DEF SaveTable, Goto
<1>2. checksums' \in [Sessions -> Contents \cup {NoFile, NoHash}]
  BY DEF TasksInv, TasksTypeOK, ProgramInv, Copying, SaveTable, Sums
<1>3. \A s \in Sessions :
        \/ checksums'[s] = checksums[s]
        \/ s = session /\ checksums'[s] \in {NoHash, volume[s]}
  BY DEF TasksInv, TasksTypeOK, SaveTable, Sums
<1>4. ~recorded => checksums'[session] \in {NoHash, volume[session]}
  BY DEF TasksInv, TasksTypeOK, ProgramInv, Copying, SaveTable, Sums
<1>5. TasksTypeOK'
  BY SameLayout, <1>2, FaultCounted
  DEF TasksInv, TasksTypeOK, SaveTable, Goto, NoFault
<1>6. ProgramInv' /\ FailureInv'
  BY SameLayout
  DEF TasksInv, FailureInv, TasksTypeOK, ProgramInv, Early, Copying, IsBackup, NeedToWrite,
      CheckpointDir, SaveTable, Goto
<1>7. FileInv' /\ BackupInv'
  BY SameLayout
  DEF TasksInv, ProgramInv, FileInv, BackupInv, Copying, IsBackup, NeedToWrite, SaveTable, Goto
<1>8. ChecksumInv'
  BY <1>1, SameLayout, <1>3, Distinct
  DEF TasksInv, ChecksumInv, SaveTable
<1>9. RecordInv'
  BY SameLayout, <1>3, <1>4, Distinct
  DEF TasksInv, TasksTypeOK, ProgramInv, RecordInv, Copying, IsBackup, SaveTable, Goto
<1>10. RestoreInv'
  BY SameLayout
  DEF TasksInv, TasksTypeOK, ProgramInv, RestoreInv, Copying, Faithful, IsBackup, SaveTable,
      Goto
<1> QED
  BY <1>5, <1>6, <1>7, <1>8, <1>9, <1>10 DEF TasksInv

\* A restored session is what the copy has.
LEMMA RestoreSessionStep == TasksInv /\ RestoreSession => TasksInv'
<1> SUFFICES ASSUME TasksInv, RestoreSession PROVE TasksInv'
  OBVIOUS
<1>1. layout' = layout
  BY DEF RestoreSession, Goto
<1>2. target' \in [Sessions -> Stored \ {Absent}]
  BY DEF TasksInv, TasksTypeOK, RestoreSession
<1>3. \A s \in Sessions : target'[s] = target[s] \/ (s = session /\ target'[s] = copy[s])
  BY DEF TasksInv, TasksTypeOK, RestoreSession
<1>4. TasksTypeOK'
  BY SameLayout
  DEF TasksInv, TasksTypeOK, Copying, RestoreSession, Goto, NoFault
<1>5. ProgramInv' /\ FailureInv'
  BY SameLayout
  DEF TasksInv, FailureInv, ProgramInv, Early, Copying, Late, IsBackup, RestoreSession, Goto
<1>6. FileInv' /\ ChecksumInv'
  BY SameLayout
  DEF TasksInv, FileInv, ChecksumInv, RestoreSession, Goto, NoFault
<1>7. BackupInv' /\ RecordInv'
  BY SameLayout
  DEF TasksInv, BackupInv, RecordInv, IsBackup, RestoreSession, Goto
<1>8. RestoreInv'
  BY SameLayout
  DEF TasksInv, TasksTypeOK, ProgramInv, RestoreInv, Copying, Faithful, RestoreSession, Goto
<1> QED
  BY <1>4, <1>5, <1>6, <1>7, <1>8 DEF TasksInv

\* The bitmap is saved when its session is done; one that was written in full is
\* no longer one where a call has failed.
LEMMA SaveBitmapStep == TasksInv /\ SaveBitmap => TasksInv'
<1> SUFFICES ASSUME TasksInv, SaveBitmap PROVE TasksInv'
  OBVIOUS
<1>1. /\ layout' = layout /\ pc = "saveBitmap" /\ pc' = "session" /\ kind' = kind
      /\ session \in Sessions /\ kind # "zerocopy"
  BY DEF TasksInv, ProgramInv, Copying, SaveBitmap, Goto
<1>2. checkpoint' \in [{"backup", "restore"} -> [Sessions -> Bitmaps]]
  BY ReachedEffect DEF TasksInv, TasksTypeOK, Bitmaps, SaveBitmap
<1>3. \A s \in Sessions : \A t \in {"backup", "restore"} :
        checkpoint'[t][s] = checkpoint[t][s] \/ (t = CheckpointDir /\ s = session)
  BY ReachedEffect DEF TasksInv, TasksTypeOK, Bitmaps, SaveBitmap
<1>4. \A s \in Sessions : s < session + 1 => s < session \/ s = session
  BY <1>1, SessionsAre DEF TasksInv, ProgramInv
<1>5. /\ spoilt' \in [{"backup", "restore"} -> SUBSET Sessions]
      /\ \A t \in {"backup", "restore"} : \A s \in spoilt[t] \ spoilt'[t] :
           t = CheckpointDir /\ s = session /\ NeedToWrite /\ failing = "no"
  BY <1>1 DEF TasksInv, TasksTypeOK, SaveBitmap, CheckpointDir
<1>6. IsBackup => session \in spoilt'["backup"] \/ copy[session] = volume[session]
  BY <1>1, <1>5 DEF TasksInv, BackupInv, Copying
<1>7. kind = "restore" => session \in spoilt'["restore"] \/ target[session] = copy[session]
  BY <1>1, <1>5 DEF TasksInv, RestoreInv, Faithful, NeedToWrite
<1>8. TasksTypeOK'
  <2>1. session' \in 0 .. SessionCount /\ failing' = "no"
    BY <1>1, SessionsAre DEF TasksInv, ProgramInv, SaveBitmap
  <2>2. faults' \in 0 .. layout.maxFaults
    BY FaultCounted DEF TasksInv, TasksTypeOK, SaveBitmap, NoFault
  <2> QED
    BY <1>1, SameLayout, <1>2, <1>5, <2>1, <2>2 DEF TasksInv, TasksTypeOK, SaveBitmap
<1>9. ProgramInv' /\ FailureInv'
  BY <1>1 DEF TasksInv, FailureInv, ProgramInv, Early, Copying, IsBackup, SaveBitmap
<1>10. FileInv'
  BY <1>1, SameLayout DEF TasksInv, FileInv, SaveBitmap
<1>11. \A s \in Sessions : InCopy(s) => InCopy(s)'
  BY <1>1, <1>5, <1>6 DEF CheckpointDir, SaveBitmap
<1>12. \A s \in Sessions : InTarget(s) => InTarget(s)'
  BY <1>1, <1>5, <1>7 DEF TasksInv, TasksTypeOK, CheckpointDir, IsBackup, SaveBitmap
<1>13. ChecksumInv'
  BY <1>1, SameLayout, <1>11 DEF TasksInv, ChecksumInv, SaveBitmap
<1>14. BackupInv'
  BY <1>1, SameLayout, <1>4, <1>6, <1>11
  DEF TasksInv, BackupInv, Copying, IsBackup, SaveBitmap
<1>15. RecordInv'
  BY <1>1, SameLayout, <1>3, <1>5, <1>6
  DEF TasksInv, ProgramInv, RecordInv, IsBackup, CheckpointDir, SaveBitmap
<1>16. RestoreInv'
  BY <1>1, SameLayout, <1>3, <1>4, <1>5, <1>7, <1>12
  DEF TasksInv, TasksTypeOK, ProgramInv, RestoreInv, Copying, Faithful, IsBackup,
      CheckpointDir, SaveBitmap
<1> QED
  BY <1>8, <1>9, <1>10, <1>13, <1>14, <1>15, <1>16 DEF TasksInv

\* Where there is one session, its place is the beginning.
LEMMA ZeroCopySessionStep == TasksInv /\ ZeroCopySession => TasksInv'
<1> SUFFICES ASSUME TasksInv, ZeroCopySession PROVE TasksInv'
  OBVIOUS
<1>1. layout' = layout
  BY DEF ZeroCopySession, Goto
<1>2. target' \in [Sessions -> Stored \ {Absent}]
  BY DEF TasksInv, TasksTypeOK, ProgramInv, Copying, ZeroCopySession
<1>3. SessionCount = 1 => \A s \in Sessions : target'[s] = copy[s]
  BY SessionsAre
  DEF TasksInv, TasksTypeOK, ProgramInv, Copying, ZeroCopySession, ZeroCopyPlace
<1>4. TasksTypeOK'
  BY SameLayout, <1>2, SessionsAre
  DEF TasksInv, TasksTypeOK, ProgramInv, Copying, ZeroCopySession, Goto, NoFault
<1>5. ProgramInv' /\ FailureInv'
  BY DEF TasksInv, FailureInv, ProgramInv, Early, Copying, IsBackup, ZeroCopySession, Goto
<1>6. FileInv' /\ ChecksumInv'
  BY SameLayout
  DEF TasksInv, FileInv, ChecksumInv, ZeroCopySession, Goto
<1>7. BackupInv' /\ RecordInv'
  BY SameLayout
  DEF TasksInv, BackupInv, RecordInv, IsBackup, ZeroCopySession, Goto
<1>8. RestoreInv'
  BY SameLayout, <1>3
  DEF TasksInv, TasksTypeOK, RestoreInv, Faithful, ZeroCopySession, ZeroCopyPlace, Goto
<1> QED
  BY <1>4, <1>5, <1>6, <1>7, <1>8 DEF TasksInv

-----------------------------------------------------------------------------
(* The user, and crashes.                                                  *)

\* What is left of a restore that is not resumed is known to be wrong.
LEMMA ForgetEffect ==
  ASSUME TasksInv, ForgetRestore
  PROVE  /\ checkpoint' \in [{"backup", "restore"} -> [Sessions -> Bitmaps]]
         /\ target' \in [Sessions -> Stored \ {Absent}]
         /\ spoilt' \in [{"backup", "restore"} -> SUBSET Sessions]
         /\ checkpoint'["backup"] = checkpoint["backup"] /\ spoilt'["backup"] = spoilt["backup"]
         /\ \A s \in Sessions \ spoilt'["restore"] : checkpoint'["restore"][s] # "done"
<1>1. PICK kept \in SUBSET Sessions :
        /\ checkpoint' = [checkpoint EXCEPT !["restore"] =
                            [s \in Sessions |-> IF s \in kept THEN "done" ELSE "none"]]
        /\ spoilt' = [spoilt EXCEPT !["restore"] = kept]
  BY DEF ForgetRestore, LeftOver
<1>2. target' \in [Sessions -> Stored \ {Absent}]
  BY Distinct DEF ForgetRestore, Stored
<1>3. checkpoint' \in [{"backup", "restore"} -> [Sessions -> Bitmaps]]
  BY <1>1 DEF TasksInv, TasksTypeOK, Bitmaps
<1> QED
  BY <1>1, <1>2, <1>3 DEF TasksInv, TasksTypeOK

\* A backup leaves no restore that could be resumed.
LEMMA StartBackupStep == TasksInv /\ StartBackup => TasksInv'
<1> SUFFICES ASSUME TasksInv, StartBackup PROVE TasksInv'
  OBVIOUS
<1>1. layout' = layout
  BY DEF StartBackup, StartTask
<1>2. /\ checkpoint' \in [{"backup", "restore"} -> [Sessions -> Bitmaps]]
      /\ target' \in [Sessions -> Stored \ {Absent}]
      /\ spoilt' \in [{"backup", "restore"} -> SUBSET Sessions]
      /\ checkpoint'["backup"] = checkpoint["backup"] /\ spoilt'["backup"] = spoilt["backup"]
      /\ \A s \in Sessions \ spoilt'["restore"] : checkpoint'["restore"][s] # "done"
  BY ForgetEffect DEF StartBackup
<1>3. TasksTypeOK'
  BY SameLayout, <1>2 DEF TasksInv, TasksTypeOK, StartBackup, StartTask, NoFault
<1>4. ProgramInv' /\ FailureInv'
  BY DEF TasksInv, FailureInv, ProgramInv, Early, Copying, StartBackup, StartTask
<1>5. FileInv' /\ ChecksumInv'
  BY SameLayout, <1>2 DEF TasksInv, FileInv, ChecksumInv, StartBackup, StartTask
<1>6. BackupInv' /\ RecordInv'
  BY SameLayout, <1>2 DEF TasksInv, BackupInv, RecordInv, Copying, StartBackup, StartTask
<1>7. RestoreInv'
  BY SameLayout, <1>2 DEF RestoreInv, Copying, StartBackup, StartTask
<1> QED
  BY <1>3, <1>4, <1>5, <1>6, <1>7 DEF TasksInv

\* Nor does a restore with zero copy, or one that is not resumed.
LEMMA StartRestoreStep == TasksInv /\ StartRestore => TasksInv'
<1> SUFFICES ASSUME TasksInv, StartRestore PROVE TasksInv'
  OBVIOUS
<1>1. layout' = layout
  BY DEF StartRestore, StartTask
<1>2. /\ checkpoint' \in [{"backup", "restore"} -> [Sessions -> Bitmaps]]
      /\ target' \in [Sessions -> Stored \ {Absent}]
      /\ spoilt' \in [{"backup", "restore"} -> SUBSET Sessions]
      /\ checkpoint'["backup"] = checkpoint["backup"] /\ spoilt'["backup"] = spoilt["backup"]
      /\ \/ UNCHANGED <<checkpoint, target, spoilt>> /\ kind' = "restore"
         \/ \A s \in Sessions \ spoilt'["restore"] : checkpoint'["restore"][s] # "done"
  <2>1. CASE UNCHANGED <<checkpoint, target, spoilt>> /\ kind' = "restore"
    BY <2>1 DEF TasksInv, TasksTypeOK
  <2>2. CASE ForgetRestore
    BY <2>2, ForgetEffect
  <2> QED
    BY <2>1, <2>2 DEF StartRestore, StartTask
<1>3. TasksTypeOK'
  BY SameLayout, <1>2 DEF TasksInv, TasksTypeOK, StartRestore, StartTask, NoFault
<1>4. ProgramInv' /\ FailureInv'
  BY DEF TasksInv, FailureInv, ProgramInv, Early, Copying, IsBackup, StartRestore, StartTask
<1>5. FileInv' /\ ChecksumInv'
  BY SameLayout, <1>2
  DEF TasksInv, FileInv, ChecksumInv, IsBackup, StartRestore, StartTask, CanRestore, NoFault
<1>6. BackupInv' /\ RecordInv'
  BY SameLayout, <1>2 DEF TasksInv, BackupInv, RecordInv, Copying, StartRestore, StartTask
<1>7. RestoreInv'
  BY SameLayout, <1>2 DEF TasksInv, RestoreInv, Copying, StartRestore, StartTask
<1> QED
  BY <1>3, <1>4, <1>5, <1>6, <1>7 DEF TasksInv

\* A snapshot is taken of a volume whose copy is complete: checksums of the
\* backup before are then those of the copy.
LEMMA NextSnapshotStep == TasksInv /\ NextSnapshot => TasksInv'
<1> SUFFICES ASSUME TasksInv, NextSnapshot PROVE TasksInv'
  OBVIOUS
<1>1. layout' = layout
  BY DEF NextSnapshot
<1>2. \A s \in Sessions :
        /\ checksums'[s] = NoFile
        /\ \/ prevChecksums'[s] = NoFile
           \/ backupType' # "full" /\ prevChecksums'[s] = checksums[s]
  BY DEF NextSnapshot, NoChecksums
<1>3. /\ {checksums', prevChecksums'} \subseteq [Sessions -> Contents \cup {NoFile, NoHash}]
      /\ {meta', prevMeta'} \subseteq {"none", "torn", "saved"}
  BY DEF TasksInv, TasksTypeOK, NextSnapshot, NoChecksums
<1>4. TasksTypeOK'
  BY SameLayout, <1>3
  DEF TasksInv, TasksTypeOK, NextSnapshot, NoFault
<1>5. ProgramInv' /\ FailureInv'
  BY SameLayout
  DEF TasksInv, FailureInv, ProgramInv, Copying, IsBackup, NextSnapshot
<1>6. FileInv'
  BY SameLayout DEF TasksInv, FileInv, NextSnapshot
<1>7. ChecksumInv'
  BY SameLayout, <1>2, Distinct
  DEF TasksInv, ChecksumInv, NextSnapshot, BackupInv
<1>8. BackupInv'
  BY DEF TasksInv, FailureInv, BackupInv, Copying, NextSnapshot
<1>9. RecordInv'
  BY SameLayout DEF TasksInv, RecordInv, NextSnapshot
<1>10. RestoreInv'
  BY SameLayout DEF TasksInv, RestoreInv, Copying, Faithful, NextSnapshot
<1> QED
  BY <1>4, <1>5, <1>6, <1>7, <1>8, <1>9, <1>10 DEF TasksInv

\* A crash tears only what is being written, or leaves a file of nothing where
\* there was none.
LEMMA CrashStep == TasksInv /\ Crash => TasksInv'
<1> SUFFICES ASSUME TasksInv, Crash PROVE TasksInv'
  OBVIOUS
<1>1. /\ layout' = layout /\ kind' = kind /\ pc # "idle" /\ pc' = "idle" /\ fragment' = 0
      /\ session' = 0 /\ recorded' = FALSE /\ failing' = "no" /\ 0 \in 0 .. SessionCount
      /\ UNCHANGED <<attached, partitioned, volume, backupType, metaFiles, checkpoint,
                     results>>
  BY SessionsAre DEF TasksInv, ProgramInv, Crash, TaskDies, Goto
<1>2. \/ dataFiles' = dataFiles /\ (PartlyWritten \/ UNCHANGED <<copy, target>>)
      \/ /\ copy' = EmptyFile(0, Absent) /\ dataFiles' = dataFiles \cup {0}
         /\ pc = "create" /\ target' = target
  BY FilesAre DEF TasksInv, ProgramInv, Crash, HalfCreated
<1>3. /\ copy' \in [Sessions -> Stored] /\ target' \in [Sessions -> Stored \ {Absent}]
      /\ \A s \in Sessions : copy'[s] # copy[s] => CopyDataFile(s) \in dataFiles'
      /\ \A s \in Sessions :
           copy'[s] # copy[s] /\ copy[s] \in Contents =>
             IsBackup /\ pc = "copy" /\ NeedToWrite /\ s = session
      /\ copy' # copy => IsBackup /\ ~complete /\ ~restored /\ target' = target
      /\ target' # target => ~IsBackup /\ pc = "copy" /\ ~recorded /\ ~restored /\ copy' = copy
      /\ kind = "restore" => \A s \in Sessions : s # session => target'[s] = target[s]
  <2>1. CASE dataFiles' = dataFiles /\ (PartlyWritten \/ UNCHANGED <<copy, target>>)
    BY <2>1, Damage
  <2>2. CASE /\ copy' = EmptyFile(0, Absent) /\ dataFiles' = dataFiles \cup {0}
             /\ pc = "create" /\ target' = target
    <3>1. IsBackup /\ ~complete /\ ~restored
      BY <2>2 DEF TasksInv, ProgramInv, IsBackup
    <3>2. /\ copy' \in [Sessions -> Stored]
          /\ \A s \in Sessions : copy'[s] = IF CopyDataFile(s) = 0 THEN Absent ELSE copy[s]
      BY <2>2, EmptyFileEffect DEF TasksInv, TasksTypeOK, Stored
    <3>3. \A s \in Sessions : CopyDataFile(s) = 0 => copy[s] \notin Contents
      BY <2>2, Distinct DEF TasksInv, FileInv
    <3> QED
      BY <2>2, <3>1, <3>2, <3>3 DEF TasksInv, TasksTypeOK
  <2> QED
    BY <1>2, <2>1, <2>2
<1>4. dataFiles \subseteq dataFiles' /\ dataFiles' \subseteq {0}
  BY <1>2 DEF TasksInv, FileInv
<1>5. dataFiles' \subseteq Sessions /\ faults' \in 0 .. layout.maxFaults
  BY <1>4, SessionsAre, FaultCounted DEF TasksInv, TasksTypeOK, ProgramInv, Crash
<1>6. TasksTypeOK'
  BY <1>1, SameLayout, <1>3, <1>5 DEF TasksInv, TasksTypeOK
<1>7. ProgramInv' /\ FailureInv'
  BY <1>1 DEF TasksInv, ProgramInv, FailureInv, Early, Copying, IsBackup
<1>8. FileInv'
  BY <1>1, SameLayout, <1>3, <1>4 DEF TasksInv, FileInv
<1>9. ChecksumInv'
  BY <1>1, SameLayout, <1>3, Differs DEF TasksInv, TasksTypeOK, ChecksumInv
<1>10. BackupInv'
  BY <1>1, SameLayout, <1>3 DEF TasksInv, BackupInv, Copying
<1>11. RecordInv'
  BY <1>1, SameLayout, <1>3 DEF TasksInv, TasksTypeOK, RecordInv, NeedToWrite
<1>12. RestoreInv'
  BY <1>1, SameLayout, <1>3
  DEF TasksInv, TasksTypeOK, ProgramInv, RestoreInv, Copying, Faithful
<1> QED
  BY <1>6, <1>7, <1>8, <1>9, <1>10, <1>11, <1>12 DEF TasksInv

-----------------------------------------------------------------------------
(* The invariant holds.                                                    *)

LEMMA TasksInvInit == TasksInit => TasksInv
<1> SUFFICES ASSUME TasksInit PROVE TasksInv
  OBVIOUS
<1>1. ProgramInv /\ FailureInv
  BY DEF TasksInit, ProgramInv, FailureInv, Early, Copying, Late, IsBackup
<1>2. 0 \in 0 .. SessionCount /\ 0 \in 0 .. layout.maxFaults
  BY <1>1, SessionsAre, ResourceAssumption DEF ProgramInv
<1>3. /\ copy \in [Sessions -> Stored] /\ target \in [Sessions -> Stored \ {Absent}]
      /\ checksums \in [Sessions -> Contents \cup {NoFile, NoHash}]
      /\ prevChecksums = checksums
      /\ checkpoint \in [{"backup", "restore"} -> [Sessions -> Bitmaps]]
  BY Distinct DEF TasksInit, Stored, Bitmaps, NoCheckpoints, NoChecksums
<1>4. TasksTypeOK
  BY <1>2, <1>3 DEF TasksInit, TasksTypeOK
<1>5. FileInv /\ ChecksumInv /\ BackupInv
  BY Distinct DEF TasksInit, FileInv, ChecksumInv, BackupInv, NoChecksums, Copying
<1>6. RecordInv /\ RestoreInv
  BY DEF TasksInit, RecordInv, RestoreInv, NoCheckpoints, Copying, Faithful
<1> QED
  BY <1>1, <1>4, <1>5, <1>6 DEF TasksInv

\* A step that changes nothing keeps it.
LEMMA StutterStep == TasksInv /\ UNCHANGED tasksVars => TasksInv'
<1> SUFFICES ASSUME TasksInv, UNCHANGED tasksVars PROVE TasksInv'
  OBVIOUS
<1> USE DEF tasksVars, resourceVars
<1>1. layout' = layout
  OBVIOUS
<1>2. TasksTypeOK' /\ ProgramInv'
  BY <1>1, SameLayout DEF TasksInv, TasksTypeOK, ProgramInv, IsBackup
<1>3. NeedToWrite' = NeedToWrite /\ CheckpointDir' = CheckpointDir
  BY DEF NeedToWrite, CheckpointDir, IsBackup
<1>4. FailureInv' /\ FileInv' /\ ChecksumInv'
  BY <1>1, <1>3, SameLayout DEF TasksInv, FailureInv, FileInv, ChecksumInv, IsBackup
<1>5. BackupInv' /\ RecordInv' /\ RestoreInv'
  BY <1>1, <1>3, SameLayout DEF TasksInv, BackupInv, RecordInv, RestoreInv, IsBackup, Faithful
<1> QED
  BY <1>2, <1>4, <1>5 DEF TasksInv

\* The resource manager's part of a task.
LEMMA ManagerCases ==
  ASSUME ManageResource, ManagerAlone
  PROVE  \/ PrepareCopyResource /\ ManagerAlone
         \/ CreateBackupCopyResource /\ ManagerAlone
         \/ AttachCopyResource /\ ManagerAlone
         \/ InitBackupCopyResource /\ ManagerAlone
         \/ DetachCopyResource /\ ManagerAlone
BY DEF ManageResource

LEMMA TasksInvStep == TasksInv /\ [TasksNext]_tasksVars => TasksInv'
<1> SUFFICES ASSUME TasksInv, [TasksNext]_tasksVars PROVE TasksInv'
  OBVIOUS
<1>1. CASE ManageResource /\ ManagerAlone
  BY <1>1, ManagerCases, PrepareStep, CreateStep, AttachStep, InitDiskStep, DetachStep
<1>2. CASE Validate \/ SaveMeta \/ OpenSession \/ Refresh \/ BackupSession \/ SaveTable
  BY <1>2, ValidateStep, SaveMetaStep, OpenSessionStep, RefreshStep, BackupSessionStep,
     SaveTableStep
<1>3. CASE RestoreSession \/ SaveBitmap \/ ZeroCopySession \/ ZeroCopySpin
  BY <1>3, RestoreSessionStep, SaveBitmapStep, ZeroCopySessionStep, StutterStep
  DEF ZeroCopySpin
<1>4. CASE QueueEmpty \/ ClearAllCheckpoints \/ Succeed
  BY <1>4, QueueEmptyStep, ClearStep, SucceedStep
<1>5. CASE ReadFails \/ WriteFails \/ SessionFails \/ FailureMissed
  BY <1>5, SubtaskFailsStep, SessionFailsStep, FailureMissedStep
<1>6. CASE StartBackup \/ StartRestore \/ NextSnapshot \/ Crash
  BY <1>6, StartBackupStep, StartRestoreStep, NextSnapshotStep, CrashStep
<1>7. CASE UNCHANGED tasksVars
  BY <1>7, StutterStep
<1> QED
  BY <1>1, <1>2, <1>3, <1>4, <1>5, <1>6, <1>7 DEF TasksNext, Task, ManagerAlone

LEMMA Invariant == TasksSpec => []TasksInv
<1> QED
  BY TasksInvInit, TasksInvStep, PTL DEF TasksSpec

-----------------------------------------------------------------------------
(* The theorems.                                                           *)

\* The variables of tasks, files and checkpoints stay within their types
\* (CopyTasks.tla), for every layout and any number of faults.
THEOREM TasksTypeCorrect == TasksSpec => []TasksTypeOK
<1>1. TasksInv => TasksTypeOK
  BY DEF TasksInv
<1> QED
  BY <1>1, Invariant, PTL

\* Wherever tasks are aborted or crash, and whichever reads, writes, saves and
\* removals fail, seen or not, a checkpoint that is left names only what the copy,
\* or the restored volume, has (RestoreSessionCheckpoint may skip it), except
\* sessions a call failed in since they were last written in full.
THEOREM CheckpointsHold == TasksSpec => []CheckpointHolds
<1>1. TasksInv => CheckpointHolds
  BY DEF TasksInv, RecordInv, RestoreInv, CheckpointHolds
<1> QED
  BY <1>1, Invariant, PTL

\* A restore that has reported SUCCEED has made the volume what the copy is, except
\* in the sessions a call failed in, which WaitSessionTerminate missed or an earlier
\* attempt has recorded as done.
THEOREM RestoresAreCopies == TasksSpec => []RestoredIsCopy
<1>1. ASSUME TasksInv PROVE RestoredIsCopy
  <2>1. SessionCount \in Nat \ {0}
    BY <1>1, SessionsAre DEF TasksInv, ProgramInv
  <2> QED
    BY <1>1, <2>1
    DEF TasksInv, TasksTypeOK, ProgramInv, RestoreInv, Faithful, IsBackup, RestoredIsCopy
<1> QED
  BY <1>1, Invariant, PTL

\* A step that leaves snapshot, copy and verdict alone is none of the chain, or a
\* failure elsewhere.
LEMMA ChainQuiet ==
  ASSUME TasksInv, UNCHANGED <<volume, prevChecksums, copy, complete>>,
         spoilt'["backup"] = spoilt["backup"], NoFault \/ Fault
  PROVE  [Chain!Next]_(Chain!chainVars)
<1>1. faults' = faults \/ faults' > faults
  BY DEF TasksInv, TasksTypeOK, NoFault, Fault
<1> QED
  BY <1>1 DEF Chain!chainVars, Chain!Next, Chain!FailElsewhere

\* One that works on the copy while the backup runs is Work.
LEMMA ChainWork ==
  ASSUME TasksInv, ~complete, UNCHANGED <<volume, prevChecksums, complete>>,
         copy' \in [Sessions -> Stored],
         \A s \in Sessions \ (spoilt["backup"] \cup spoilt'["backup"]) :
           prevChecksums[s] = volume[s] => copy'[s] = copy[s],
         \A s \in spoilt["backup"] \ spoilt'["backup"] : copy'[s] = volume[s],
         NoFault \/ Fault,
         \/ spoilt'["backup"] \subseteq spoilt["backup"]
         \/ Fault /\ \E s \in Sessions : spoilt'["backup"] \subseteq spoilt["backup"] \cup {s}
  PROVE  [Chain!Next]_(Chain!chainVars)
<1>1. DOMAIN volume = Sessions
  BY DEF TasksInv, TasksTypeOK
<1>2. faults' >= faults /\ (Fault => faults' > faults)
  BY DEF TasksInv, TasksTypeOK, NoFault, Fault
<1>3. Chain!LosesAtMostOne
  BY <1>1, <1>2 DEF Chain!LosesAtMostOne
<1> QED
  BY <1>1, <1>2, <1>3 DEF Chain!Next, Chain!Work

LEMMA ChainInit == TasksInit => Chain!Init
<1> SUFFICES ASSUME TasksInit PROVE Chain!Init
  OBVIOUS
<1>1. volume \in [Sessions -> Contents] /\ DOMAIN volume = Sessions
  BY DEF TasksInit
<1>2. copy \in [Sessions -> Stored]
  BY DEF TasksInit, Stored
<1> QED
  BY <1>1, <1>2 DEF TasksInit, Chain!Init

\* What is damaged has changed since the snapshot before.
LEMMA ChainDamage ==
  ASSUME TasksInv, PartlyWritten \/ UNCHANGED <<copy, target>>,
         NEW s \in Sessions \ spoilt["backup"], prevChecksums[s] = volume[s]
  PROVE  copy'[s] = copy[s]
<1>1. copy[s] \in Contents
  BY DEF TasksInv, TasksTypeOK, ChecksumInv
<1>2. copy'[s] # copy[s] => IsBackup /\ pc = "copy" /\ NeedToWrite /\ s = session
  BY <1>1, Damage
<1> QED
  BY <1>2, Differs

\* ... and it is that of a backup which has not reported SUCCEED.
LEMMA ChainFailure ==
  ASSUME TasksInv, PartlyWritten \/ UNCHANGED <<copy, target>>,
         UNCHANGED <<volume, prevChecksums, complete>>, NoFault \/ Fault,
         \/ spoilt'["backup"] = spoilt["backup"]
         \/ ~complete /\ Fault /\ session \in Sessions
            /\ spoilt'["backup"] = spoilt["backup"] \cup {session}
  PROVE  [Chain!Next]_(Chain!chainVars)
<1>1. CASE copy' = copy /\ spoilt'["backup"] = spoilt["backup"]
  BY <1>1, ChainQuiet
<1>2. CASE copy' # copy \/ spoilt'["backup"] # spoilt["backup"]
  <2>1. ~complete /\ copy' \in [Sessions -> Stored]
    BY <1>2, Damage
  <2>2. \A s \in Sessions \ spoilt["backup"] : prevChecksums[s] = volume[s] => copy'[s] = copy[s]
    BY ChainDamage
  <2> QED
    BY <2>1, <2>2, ChainWork
<1> QED
  BY <1>1, <1>2

LEMMA ChainStep == TasksInv /\ [TasksNext]_tasksVars => [Chain!Next]_(Chain!chainVars)
<1> SUFFICES ASSUME TasksInv, [TasksNext]_tasksVars PROVE [Chain!Next]_(Chain!chainVars)
  OBVIOUS
<1>1. CASE CreateBackupCopyResource /\ ManagerAlone
  <2>1. pc = "create" /\ kind = "full" /\ ~complete
    BY <1>1 DEF TasksInv, ProgramInv, IsBackup, CreateBackupCopyResource
  <2>2. UNCHANGED <<volume, prevChecksums, complete, spoilt>>
    BY <1>1 DEF ManagerAlone
  <2>3. TasksInv'
    BY <1>1, CreateStep
  <2>4. layout' = layout /\ (NoFault \/ Fault)
    BY <1>1 DEF CreateBackupCopyResource, TruncateCreateFile, CreateRefused,
                CreateVirtualDiskFile, Fails, Goto
  <2>5. copy' \in [Sessions -> Stored]
    BY <2>3, <2>4, SameLayout DEF TasksInv, TasksTypeOK
  <2> QED
    BY <2>1, <2>2, <2>4, <2>5, NoBase, ChainWork
<1>2. CASE BackupSession
  <2>1. /\ UNCHANGED <<volume, prevChecksums, complete, spoilt>> /\ NoFault
        /\ copy' = IF NeedToWrite THEN Write(volume[session]) ELSE copy
        /\ IsBackup /\ pc = "copy"
    BY <1>2 DEF BackupSession
  <2>2. CASE ~NeedToWrite
    BY <2>1, <2>2, ChainQuiet
  <2>3. CASE NeedToWrite
    <3>1. ~complete /\ session \in Sessions
      BY <2>1 DEF TasksInv, ProgramInv, Copying
    <3>2. volume[session] \in Stored
      BY <3>1 DEF TasksInv, TasksTypeOK, Stored
    <3>3. copy' \in [Sessions -> Stored]
      BY <2>1, <2>3, <3>1, <3>2, WriteEffect DEF TasksInv, TasksTypeOK
    <3>4. ASSUME NEW s \in Sessions \ spoilt["backup"], prevChecksums[s] = volume[s]
          PROVE  copy'[s] = copy[s]
      <4>1. s # session /\ copy[s] # Absent
        BY <2>1, <2>3, <3>4, Differs, Distinct DEF TasksInv, TasksTypeOK, ChecksumInv
      <4> QED
        BY <2>1, <2>3, <3>1, <3>2, <4>1, WriteEffect DEF TasksInv, TasksTypeOK
    <3> QED
      BY <2>1, <3>1, <3>3, <3>4, ChainWork
  <2> QED
    BY <2>2, <2>3
<1>3. CASE Crash
  <2>1. UNCHANGED <<layout, volume, prevChecksums, complete, spoilt>> /\ Fault
    BY <1>3 DEF Crash, Goto
  <2>2. CASE PartlyWritten \/ UNCHANGED <<copy, target>>
    BY <2>1, <2>2, ChainFailure
  <2>3. CASE pc = "create"
    <3>1. kind = "full" /\ ~complete
      BY <2>3 DEF TasksInv, ProgramInv, IsBackup
    <3>2. TasksInv' /\ copy' \in [Sessions -> Stored]
      BY <1>3, <2>1, CrashStep, SameLayout DEF TasksInv, TasksTypeOK
    <3> QED
      BY <2>1, <2>3, <3>1, <3>2, NoBase, ChainWork
  <2> QED
    BY <1>3, <2>2, <2>3 DEF Crash, HalfCreated
<1>4. CASE Succeed
  <2>1. CASE IsBackup
    BY <1>4, <2>1
    DEF TasksInv, TasksTypeOK, ProgramInv, BackupInv, Succeed, NoFault, IsBackup,
        Chain!Next, Chain!Complete
  <2>2. CASE ~IsBackup
    BY <1>4, <2>2, ChainQuiet DEF TasksInv, TasksTypeOK, Succeed
  <2> QED
    BY <2>1, <2>2
<1>5. CASE NextSnapshot
  <2>1. DOMAIN volume = Sessions /\ \A s \in Sessions \ spoilt["backup"] : copy[s] = volume[s]
    BY <1>5 DEF TasksInv, TasksTypeOK, BackupInv, NextSnapshot
  <2>2. \A s \in Sessions \ spoilt["backup"] :
          prevChecksums'[s] \in Contents => prevChecksums'[s] = copy[s]
    BY <1>5, <2>1, Distinct DEF TasksInv, ChecksumInv, NextSnapshot, NoChecksums
  <2> QED
    BY <1>5, <2>1, <2>2 DEF NextSnapshot, NoFault, Chain!Next, Chain!Snapshot
<1>6. CASE /\ ManagerAlone
           /\ \/ PrepareCopyResource \/ AttachCopyResource \/ InitBackupCopyResource
              \/ DetachCopyResource
  <2>1. UNCHANGED copy /\ (NoFault \/ Fault)
    BY <1>6 DEF PrepareCopyResource, AttachCopyResource, InitBackupCopyResource,
                DetachCopyResource
  <2> QED
    BY <1>6, <2>1, ChainQuiet DEF ManagerAlone
<1>7. CASE Validate \/ SaveMeta \/ OpenSession \/ Refresh \/ SaveTable
  BY <1>7, ChainQuiet DEF Validate, SaveMeta, OpenSession, Refresh, SaveTable
<1>8. CASE RestoreSession \/ ZeroCopySession \/ QueueEmpty \/ FailureMissed
  BY <1>8, ChainQuiet DEF RestoreSession, ZeroCopySession, QueueEmpty, FailureMissed
<1>9. CASE SaveBitmap
  <2>1. /\ UNCHANGED <<volume, prevChecksums, copy, complete>> /\ (NoFault \/ Fault)
        /\ pc = "saveBitmap" /\ kind # "zerocopy" /\ session \in Sessions
    BY <1>9 DEF TasksInv, ProgramInv, Copying, SaveBitmap
  <2>2. CASE spoilt' = spoilt
    BY <2>1, <2>2, ChainQuiet
  <2>3. CASE /\ NeedToWrite /\ failing = "no"
             /\ spoilt' = [spoilt EXCEPT ![CheckpointDir] = @ \ {session}]
    <3>1. CASE ~IsBackup
      <4>1. spoilt'["backup"] = spoilt["backup"]
        BY <2>3, <3>1 DEF TasksInv, TasksTypeOK, CheckpointDir
      <4> QED
        BY <2>1, <4>1, ChainQuiet
    <3>2. CASE IsBackup
      <4>1. spoilt'["backup"] = spoilt["backup"] \ {session}
        BY <2>3, <3>2 DEF TasksInv, TasksTypeOK, CheckpointDir
      <4>2. ~complete /\ copy[session] = volume[session] /\ copy' \in [Sessions -> Stored]
        BY <2>1, <2>3, <3>2 DEF TasksInv, TasksTypeOK, ProgramInv, BackupInv
      <4> QED
        BY <2>1, <4>1, <4>2, ChainWork
    <3> QED
      BY <3>1, <3>2
  <2> QED
    BY <1>9, <2>2, <2>3 DEF SaveBitmap
<1>10. CASE ClearAllCheckpoints
  <2>1. /\ UNCHANGED <<volume, prevChecksums, copy, complete>>
        /\ pc = "clear" /\ session \in Sessions
    BY <1>10 DEF TasksInv, ProgramInv, ClearAllCheckpoints, ClearNext
  <2>2. CASE spoilt' = spoilt
    BY <1>10, <2>1, <2>2, ChainQuiet DEF ClearAllCheckpoints
  <2>3. CASE IsBackup /\ Fault /\ Spoil
    <3>1. spoilt'["backup"] = spoilt["backup"] \cup {session}
      BY <2>3 DEF TasksInv, TasksTypeOK, Spoil, CheckpointDir
    <3>2. ~complete /\ copy' \in [Sessions -> Stored]
      BY <2>1, <2>3 DEF TasksInv, TasksTypeOK, ProgramInv
    <3> QED
      BY <2>1, <2>3, <3>1, <3>2, ChainWork
  <2> QED
    BY <1>10, <2>2, <2>3 DEF ClearAllCheckpoints
<1>11. CASE ReadFails \/ WriteFails
  <2>1. /\ UNCHANGED <<kind, volume, prevChecksums, complete>> /\ pc = "copy"
        /\ (NoFault \/ Fault) /\ (IsBackup => Fault)
        /\ (PartlyWritten \/ UNCHANGED <<copy, target>>)
    BY <1>11 DEF ReadFails, WriteFails, SubtaskFails, IsBackup
  <2>2. session \in Sessions /\ (IsBackup => ~complete)
    BY <2>1 DEF TasksInv, ProgramInv, Copying
  <2>3. \/ spoilt'["backup"] = spoilt["backup"]
        \/ IsBackup /\ spoilt'["backup"] = spoilt["backup"] \cup {session}
    BY <1>11 DEF TasksInv, TasksTypeOK, ReadFails, WriteFails, Spoil, CheckpointDir
  <2> QED
    BY <2>1, <2>2, <2>3, ChainFailure
<1>12. CASE SessionFails
  BY <1>12, ChainFailure DEF SessionFails
<1>13. CASE StartBackup \/ StartRestore
  <2>1. spoilt'["backup"] = spoilt["backup"]
    BY <1>13, ForgetEffect DEF StartBackup, StartRestore
  <2> QED
    BY <1>13, <2>1, ChainQuiet DEF StartBackup, StartRestore, StartTask
<1>14. CASE ZeroCopySpin \/ UNCHANGED tasksVars
  BY <1>14, ChainQuiet DEF ZeroCopySpin, tasksVars, resourceVars, NoFault
<1> QED
  BY <1>1, <1>2, <1>3, <1>4, <1>5, <1>6, <1>7, <1>8, <1>9, <1>10, <1>11, <1>12, <1>13, <1>14
  DEF TasksNext, Task, ManageResource, ManagerAlone

\* Tasks that fail, crash and are run again implement a chain of copies: a
\* backup that reports SUCCEED has made the copy equal to its snapshot, and no
\* incremental backup touches what it takes for unchanged; each failing call
\* costs at most the session it fell in, until that is written in full.
THEOREM TasksImplementChain == TasksSpec => ChainSpec
<1> QED
  BY Invariant, ChainInit, ChainStep, PTL DEF TasksSpec, ChainSpec, Chain!Spec
=============================================================================
