---------------------------- MODULE CopyResource ----------------------------
(***************************************************************************)
(* The files and the virtual disk a copy lives in, and what                *)
(* TaskResourceManager does to them before a backup or restore starts and  *)
(* after it has ended: create the copy's files, attach the virtual disk,   *)
(* write its partition table, detach it.  One action is one call of the    *)
(* operating system that changes something, so that a crash can fall       *)
(* between any two.                                                        *)
(*                                                                         *)
(* The contents of a session of the volume are one value.  Where a file is *)
(* missing or too short its sessions are Absent, where nothing was written *)
(* yet they are Blank.                                                     *)
(*                                                                         *)
(* A definition Name_Variant is Name with a plausible mistake in it; it is *)
(* used nowhere in the specification.                                      *)
(***************************************************************************)
EXTENDS Integers

CONSTANTS
  Contents,      \* what a session of the volume may hold
  Blank, Torn, Absent,
  Layouts        \* formats, platforms and sizes a copy may have, each with its
                 \* bound on crashes, aborts and failing calls together

ASSUME ResourceAssumption ==
  /\ Blank \notin Contents /\ Torn \notin Contents /\ Absent \notin Contents
  /\ Blank # Torn /\ Blank # Absent /\ Torn # Absent
  /\ \A l \in Layouts :
       /\ l.format \in {"BIN", "IMAGE", "VHD"} /\ l.platform \in {"posix", "win32"}
       /\ l.format = "VHD" => l.platform = "win32"
       /\ {l.volumeSize, l.sessionSize, l.blockSize, l.recordedBlockSize} \subseteq Nat \ {0}
       /\ l.maxFaults \in Nat

VARIABLES
  layout,        \* the configuration of the copy: never changes
  dataFiles,     \* the data files that exist
  copy,          \* what the data files hold
  attached,      \* the virtual disk is attached
  partitioned,   \* ... and has a partition for the copy
  kind,          \* the task that runs: a full or incremental backup, a restore
  pc,            \* where it is
  fragment,      \* CreateFragmentBinaryBackupCopy's loop
  faults

resourceVars == <<layout, dataFiles, copy, attached, partitioned, kind, pc, fragment, faults>>

\* A new data file has no content of its own.
NewData == Contents \cup {Blank, Torn, Absent}

\* Prepare's loop splits the volume at multiples of the session size; the last
\* session is what remains.
SessionCount == (layout.volumeSize + layout.sessionSize - 1) \div layout.sessionSize
Sessions == 0 .. SessionCount - 1
SessionOffset(s) == s * layout.sessionSize
SessionLength(s) ==
  IF SessionOffset(s) + layout.sessionSize >= layout.volumeSize
  THEN layout.volumeSize - SessionOffset(s) ELSE layout.sessionSize

VirtualDisk == layout.format = "VHD"

\* GetCopyDataFilePath: one file for the copy, or one for each session.
CopyDataFile(s) == IF layout.format = "BIN" THEN s ELSE 0
SessionsIn(f) == {s \in Sessions : CopyDataFile(s) = f}

\* SplitFragmentBinaryBackupCopy does not count its sessionIndex up.
SplitFragment == [i \in Sessions |-> CopyDataFile(0)]
FilesToCreate == IF layout.format = "BIN" THEN SplitFragment ELSE [i \in {0} |-> CopyDataFile(0)]

-----------------------------------------------------------------------------
Goto(label) == pc' = label /\ UNCHANGED <<layout, kind>>
Fault == faults < layout.maxFaults /\ faults' = faults + 1
NoFault == UNCHANGED faults

\* Every call may fail; Start or ThreadFunc then says FAILED, and the task is
\* destroyed.
Fails == Goto("failed") /\ UNCHANGED <<copy, attached, partitioned, fragment>>

ResourceExists_Never == FALSE
ResourceExists ==
  IF kind \in {"full", "inc"}
  THEN \A i \in DOMAIN FilesToCreate : FilesToCreate[i] \in dataFiles
  ELSE \A s \in Sessions : CopyDataFile(s) \in dataFiles

\* PrepareCopyResource: only a full backup creates, only a restore insists.
PrepareCopyResource ==
  /\ pc = "prepare" /\ NoFault
  /\ UNCHANGED <<dataFiles, copy, attached, partitioned, fragment>>
  /\ \/ kind = "full" /\ ~ResourceExists /\ Goto("create")
     \/ kind = "full" /\ ResourceExists /\ Goto("attach")
     \/ kind = "inc" /\ Goto("attach")
     \/ kind \in {"restore", "zerocopy"} /\ ResourceExists /\ Goto("attach")
     \/ kind \in {"restore", "zerocopy"} /\ ~ResourceExists /\ Goto("failed")

\* The content of a file that is created: nothing, to the file's full size.
EmptyFile(f, content) ==
  [s \in Sessions |-> IF s \in SessionsIn(f) THEN content ELSE copy[s]]

\* TruncateCreateFile: POSIX refuses a file that exists, Windows starts it
\* anew.  A file may be left that could not be brought to its size.
MayCreate(f) == layout.platform = "win32" \/ f \notin dataFiles

TruncateCreateFile(f) ==
  /\ MayCreate(f)
  /\ dataFiles' = dataFiles \cup {f}
  /\ \/ NoFault /\ copy' = EmptyFile(f, Blank)
        /\ fragment' = fragment + 1
        /\ Goto(IF fragment + 1 \in DOMAIN FilesToCreate THEN "create" ELSE "attach")
     \/ Fault /\ copy' = EmptyFile(f, Absent) /\ Goto("failed") /\ UNCHANGED fragment
  /\ UNCHANGED <<attached, partitioned>>

CreateRefused(f) ==
  /\ Fails /\ UNCHANGED dataFiles
  /\ IF MayCreate(f) THEN Fault ELSE NoFault

\* CreateVirtualDisk refuses a file that exists; a new disk has no partition.
CreateVirtualDiskFile ==
  /\ 0 \notin dataFiles /\ NoFault
  /\ dataFiles' = {0} /\ copy' = EmptyFile(0, Blank)
  /\ partitioned' = FALSE
  /\ Goto("attach")
  /\ UNCHANGED <<attached, fragment>>

CreateBackupCopyResource ==
  /\ pc = "create"
  /\ \/ ~VirtualDisk /\ TruncateCreateFile(FilesToCreate[fragment])
     \/ ~VirtualDisk /\ CreateRefused(FilesToCreate[fragment])
     \/ VirtualDisk /\ CreateVirtualDiskFile
     \/ VirtualDisk /\ Fault /\ Fails /\ UNCHANGED dataFiles

\* A disk that is attached, by a task that crashed for instance, is used as it
\* is.  A disk may be attached and its physical drive not be found.
AttachVirtualDisk == attached' = TRUE

AfterAttach == IF kind \in {"full", "inc"} THEN "initDisk" ELSE "prepared"

AttachCopyResource ==
  /\ pc = "attach"
  /\ UNCHANGED <<dataFiles, copy, partitioned, fragment>>
  /\ \/ ~VirtualDisk /\ NoFault /\ Goto(AfterAttach) /\ UNCHANGED attached
     \/ VirtualDisk /\ AttachVirtualDisk /\ NoFault /\ Goto(AfterAttach)
     \/ VirtualDisk /\ AttachVirtualDisk /\ Fault /\ Goto("failed")
     \/ VirtualDisk /\ Fault /\ Goto("failed") /\ UNCHANGED attached

\* InitVirtualDiskGPT: a new, empty partition table, and after a while the
\* copy's partition at the place it always has: what the disk holds there
\* stays.  (A partition whose volume does not appear in time counts as a
\* failure.)
InitBackupCopyResource ==
  /\ UNCHANGED <<dataFiles, copy, attached, fragment>>
  /\ \/ pc = "initDisk" /\ ~VirtualDisk /\ NoFault /\ Goto("prepared") /\ UNCHANGED partitioned
     \/ pc = "initDisk" /\ VirtualDisk /\ NoFault /\ partitioned' = FALSE /\ Goto("layoutDisk")
     \/ pc = "layoutDisk" /\ NoFault /\ partitioned' = TRUE /\ Goto("prepared")
     \/ pc \in {"initDisk", "layoutDisk"} /\ VirtualDisk /\ Fault /\ Goto("failed")
        /\ UNCHANGED partitioned

\* DetachCopyResource, by the manager's destructor: a failure is only logged.
DetachCopyResource ==
  /\ pc \in {"failed", "succeeded"}
  /\ \/ NoFault /\ attached' = FALSE
     \/ attached /\ Fault /\ UNCHANGED attached
  /\ Goto("idle") /\ fragment' = 0
  /\ UNCHANGED <<dataFiles, copy, partitioned>>

\* OpenRawDataCopyReader and OpenRawDataCopyWriter: a file that exists, or the
\* volume on the virtual disk, which is attached if it is not.
CanOpenCopy(s) ==
  CopyDataFile(s) \in dataFiles /\ (VirtualDisk => partitioned)
OpenCopy(s) ==
  /\ CanOpenCopy(s)
  /\ attached' = (attached \/ VirtualDisk)

ManageResource ==
  \/ PrepareCopyResource \/ CreateBackupCopyResource \/ AttachCopyResource
  \/ InitBackupCopyResource \/ DetachCopyResource
=============================================================================
