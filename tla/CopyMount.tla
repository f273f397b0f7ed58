------------------------------ MODULE CopyMount ------------------------------
(***************************************************************************)
(* Mounting and unmounting copies: the loopback provider for images, the   *)
(* device-mapper provider for the files of a copy in format BIN, the       *)
(* virtual-disk provider on Windows.  Each call of Mount or Umount is a    *)
(* process of its own, as cli/vcopymount is; several run at a time, never  *)
(* two for one copy.  One action is one call of the system or one file     *)
(* written.  Processes may crash, calls and files fail.                    *)
(*                                                                         *)
(* The record of a copy's mount is None, Torn, or the device that was      *)
(* mounted.                                                                *)
(***************************************************************************)
EXTENDS BlockDevices

CONSTANTS
  Torn,             \* a record cut short
  Worlds,           \* what is mounted, and where: records with
                    \*   copies: that are mounted, and unmounted if unmounts,
                    \*   pinned: mounts nobody can take away,
                    \*   shared: all copies share an output directory,
                    \*   loopDevices: that there are, and of them
                    \*   autoMounted: those a desktop service mounts,
                    \*   maxFaults: bounds crashes and failing calls together
  Format,           \* of a copy: IMAGE, BIN or VHD
  Files,            \* of a copy: its data files, in the order of the volume;
                    \*   an image is one file
  MaxUmountRetry

ASSUME MountAssumption ==
  /\ \A w \in Worlds : \A c \in w.copies :
       /\ c \notin {None, Torn, System} \cup LoopDevices \cup DmDevices
       /\ Format[c] \in {"IMAGE", "BIN", "VHD"}
       /\ Files[c] \in Seq(ToSet(Files[c])) /\ None \notin ToSet(Files[c])
       /\ Len(Files[c]) > 0 /\ (Format[c] = "IMAGE" => Len(Files[c]) = 1)
  /\ \A w \in Worlds :
       /\ w.maxFaults \in Nat /\ w.shared \in BOOLEAN
       /\ w.loopDevices \subseteq LoopDevices /\ w.autoMounted \subseteq LoopDevices
  /\ MaxUmountRetry \in Nat

VARIABLES
  world,
  loopRecords,      \* output directory -> loop devices with a .loop.record
  dmRecords,        \* output directory -> dm devices with a .dm.record
  mountRecord,      \* copy -> what its mount record says
  pc, job,          \* process -> where it is, and the copy it is for
  loops,            \* process -> mountRecord.loopDevices, so far
  device,           \* process -> the free loop device, then the device to mount
  residue,          \* process -> what is left to be undone
  retry,            \* process -> UmountAll's rounds
  faults

procVars == <<pc, job, loops, device, residue, retry>>
recordVars == <<loopRecords, dmRecords, mountRecord>>
mountVars == <<world, deviceVars, recordVars, procVars, faults>>

Copies == UNION {w.copies : w \in Worlds}
OutputDir(c) == IF world.shared THEN CHOOSE d \in world.copies : TRUE ELSE c
Busy(c) == \E p \in Procs : pc[p] # "idle" /\ job[p] = c

Init ==
  /\ world \in Worlds
  /\ backing = [d \in LoopDevices |-> None] /\ autoclear = [d \in LoopDevices |-> FALSE]
  /\ opened = [p \in Procs |-> {}] /\ dmTable = [n \in DmDevices |-> None]
  /\ mounts = <<[dev |-> System, at |-> System]>> /\ disks = {}
  /\ loopRecords = [c \in Copies |-> {}] /\ dmRecords = [c \in Copies |-> {}]
  /\ mountRecord = [c \in Copies |-> None]
  /\ pc = [p \in Procs |-> "idle"] /\ job = [p \in Procs |-> None]
  /\ loops = [p \in Procs |-> <<>>] /\ device = [p \in Procs |-> None]
  /\ residue = [p \in Procs |-> {}] /\ retry = [p \in Procs |-> 0]
  /\ faults = 0

-----------------------------------------------------------------------------
Fault == faults < world.maxFaults /\ faults' = faults + 1
NoFault == UNCHANGED faults
DevicesUnchanged == UNCHANGED deviceVars
RecordsUnchanged == UNCHANGED recordVars
Goto(p, label) == pc' = [pc EXCEPT ![p] = label] /\ UNCHANGED <<world, job>>

\* A call that ends ends its process.
Forget(p) ==
  /\ pc' = [pc EXCEPT ![p] = "idle"] /\ job' = [job EXCEPT ![p] = None]
  /\ loops' = [loops EXCEPT ![p] = <<>>] /\ device' = [device EXCEPT ![p] = None]
  /\ residue' = [residue EXCEPT ![p] = {}] /\ retry' = [retry EXCEPT ![p] = 0]
  /\ UNCHANGED world
Exit(p) ==
  /\ pc[p] = "exit" /\ CloseAll(p) /\ Forget(p) /\ RecordsUnchanged /\ NoFault

Crash(p) ==
  /\ pc[p] # "idle" /\ CloseAll(p) /\ Forget(p) /\ RecordsUnchanged /\ Fault

\* Where a mount that fails goes on: what each provider calls its rollback.
Rollback(p) ==
  CASE Format[job[p]] = "IMAGE" -> "rollback"
    [] Format[job[p]] = "BIN" -> "residualDm"
    [] OTHER -> "exit"

StartMount(p, c) ==
  /\ pc[p] = "idle" /\ ~Busy(c)
  /\ pc' = [pc EXCEPT ![p] = IF Format[c] = "VHD" THEN "record" ELSE "getFree"]
  /\ job' = [job EXCEPT ![p] = c]
  /\ UNCHANGED <<world, loops, device, residue, retry>>
  /\ DevicesUnchanged /\ RecordsUnchanged /\ NoFault

\* VolumeCopyUmountProvider::Build needs a record it can read.
StartUmount(p, c) ==
  /\ world.unmounts /\ pc[p] = "idle" /\ ~Busy(c) /\ mountRecord[c] \notin {None, Torn}
  /\ pc' = [pc EXCEPT ![p] = IF Format[c] = "VHD" THEN "detachDisk" ELSE "umount"]
  /\ job' = [job EXCEPT ![p] = c]
  /\ device' = [device EXCEPT ![p] = mountRecord[c]]
  /\ UNCHANGED <<world, loops, residue, retry>>
  /\ DevicesUnchanged /\ RecordsUnchanged /\ NoFault

-----------------------------------------------------------------------------
(* Attaching loop devices, one for each data file.                         *)

\* Nothing is undone for an image whose device was not attached.
AttachFailed(p) == IF Format[job[p]] = "IMAGE" THEN "exit" ELSE Rollback(p)

FreeDevices == IF SystemUp THEN FreeLoopDevices \cap world.loopDevices ELSE {}

GetFree(p) ==
  /\ pc[p] = "getFree" /\ DevicesUnchanged /\ RecordsUnchanged
  /\ \/ /\ FreeDevices # {} /\ NoFault
        /\ device' = [device EXCEPT ![p] = FirstOf(FreeDevices)] /\ Goto(p, "setFd")
     \/ /\ IF FreeDevices = {} THEN NoFault ELSE Fault
        /\ Goto(p, AttachFailed(p)) /\ UNCHANGED device
  /\ UNCHANGED <<loops, residue, retry>>

NextFile(p) == Files[job[p]][Len(loops[p]) + 1]

Attach(p) ==
  /\ pc[p] = "setFd" /\ RecordsUnchanged /\ NoFault
  /\ \/ SetFd(p, device[p], NextFile(p)) /\ Goto(p, "loopRecord")
     \/ SetFdBusy(p, device[p]) /\ Goto(p, AttachFailed(p))
  /\ UNCHANGED <<loops, device, residue, retry>>

\* That the record cannot be created is only logged.  Several devices are
\* mapped into one.
SaveLoopRecord_LastOnly(p) ==
  /\ pc[p] = "loopRecord" /\ NoFault
  /\ loopRecords' = IF Len(loops[p]) + 1 < Len(Files[job[p]]) THEN loopRecords
                    ELSE [loopRecords EXCEPT ![OutputDir(job[p])] = @ \cup {device[p]}]
  /\ loops' = [loops EXCEPT ![p] = Append(@, device[p])]
  /\ Goto(p, CASE Len(loops'[p]) < Len(Files[job[p]]) -> "getFree"
               [] Len(Files[job[p]]) = 1 -> "mount"
               [] OTHER -> "createDm")
  /\ DevicesUnchanged /\ UNCHANGED <<dmRecords, mountRecord, device, residue, retry>>

SaveLoopRecord(p) ==
  /\ pc[p] = "loopRecord"
  /\ \/ NoFault
        /\ loopRecords' = [loopRecords EXCEPT ![OutputDir(job[p])] = @ \cup {device[p]}]
     \/ Fault /\ UNCHANGED loopRecords
  /\ loops' = [loops EXCEPT ![p] = Append(@, device[p])]
  /\ Goto(p, CASE Len(loops'[p]) < Len(Files[job[p]]) -> "getFree"
               [] Len(Files[job[p]]) = 1 -> "mount"
               [] OTHER -> "createDm")
  /\ DevicesUnchanged /\ UNCHANGED <<dmRecords, mountRecord, device, residue, retry>>

-----------------------------------------------------------------------------
(* CreateDmDevice.                                                         *)

\* The name is the time in microseconds: nobody else's.  (No name is left
\* where DmDevices bounds them: the call fails.)
FreeNames ==
  IF SystemUp THEN {n \in DmDevices : /\ dmTable[n] = None /\ n \notin UNION Range(dmRecords)
                                      /\ \A p \in Procs : device[p] # n}
  ELSE {}

CreateEmptyDevice(p) ==
  /\ pc[p] = "createDm" /\ RecordsUnchanged
  /\ \/ \E n \in FreeNames :
          /\ DmSet(n, <<>>) /\ NoFault
          /\ device' = [device EXCEPT ![p] = n] /\ Goto(p, "loadTable")
     \/ /\ IF FreeNames = {} THEN NoFault ELSE Fault
        /\ DevicesUnchanged /\ Goto(p, Rollback(p)) /\ UNCHANGED device
  /\ UNCHANGED <<loops, residue, retry>>

\* A table that cannot be loaded, or a node that does not appear, removes the
\* device again; whether that succeeds nobody asks.
LoadTable(p) ==
  /\ pc[p] = "loadTable" /\ RecordsUnchanged
  /\ \/ SystemUp /\ NoFault /\ DmSet(device[p], loops[p]) /\ Goto(p, "dmRecord")
     \/ Fault /\ DmSet(device[p], None) /\ Goto(p, Rollback(p))
     \/ (IF SystemUp THEN Fault ELSE NoFault) /\ DevicesUnchanged /\ Goto(p, Rollback(p))
  /\ UNCHANGED <<loops, device, residue, retry>>

SaveDmRecord(p) ==
  /\ pc[p] = "dmRecord" /\ Goto(p, "mount")
  /\ \/ NoFault /\ dmRecords' = [dmRecords EXCEPT ![OutputDir(job[p])] = @ \cup {device[p]}]
     \/ Fault /\ UNCHANGED dmRecords
  /\ DevicesUnchanged /\ UNCHANGED <<loopRecords, mountRecord, loops, device, residue, retry>>

-----------------------------------------------------------------------------
(* Mounting, and the record of the mount.                                  *)

MountOn(p, dev) == SetMounts(Append(mounts, [dev |-> dev, at |-> job[p]]))

Mount(p) ==
  /\ pc[p] = "mount" /\ Format[job[p]] # "VHD" /\ RecordsUnchanged
  /\ \/ HasMedium(device[p]) /\ NoFault /\ MountOn(p, device[p]) /\ Goto(p, "record")
     \/ /\ IF HasMedium(device[p]) THEN Fault ELSE NoFault
        /\ DevicesUnchanged /\ Goto(p, Rollback(p))
  /\ UNCHANGED <<loops, device, residue, retry>>

\* JsonSerialize truncates, which may fail, then writes, and does not look whether
\* it could.  The device-mapper provider calls JsonDeserialize instead, on a file
\* that nobody writes.  On Windows the record comes before anything else.
SetRecord(p, content) ==
  /\ mountRecord' = [mountRecord EXCEPT ![job[p]] = content]
  /\ UNCHANGED <<loopRecords, dmRecords>>

MountDevice(p) == IF Format[job[p]] = "VHD" THEN job[p] ELSE device[p]

SaveMountRecord(p) ==
  /\ DevicesUnchanged /\ UNCHANGED <<loops, device, residue, retry>>
  /\ \/ /\ pc[p] = "record" /\ Format[job[p]] = "BIN" /\ NoFault
        /\ Goto(p, Rollback(p)) /\ RecordsUnchanged
     \/ /\ pc[p] = "record" /\ Format[job[p]] # "BIN" /\ NoFault
        /\ SetRecord(p, Torn) /\ Goto(p, "writeRecord")
     \/ /\ pc[p] = "record" /\ Format[job[p]] # "BIN" /\ Fault
        /\ RecordsUnchanged /\ Goto(p, Rollback(p))
     \/ /\ pc[p] = "writeRecord"
        /\ \/ NoFault /\ SetRecord(p, MountDevice(p))
           \/ Fault /\ RecordsUnchanged
        /\ Goto(p, IF Format[job[p]] = "VHD" THEN "attachDisk" ELSE "exit")

-----------------------------------------------------------------------------
(* What has been done is undone.                                           *)

\* PosixLoopbackMountRollback leaves a target alone that another device is
\* mounted on, and the loop device with it; else it is Umount.  Where the mount
\* table cannot be read there is no mount, or one of no device.
LoopbackRollback(p) ==
  /\ pc[p] = "rollback" /\ DevicesUnchanged /\ RecordsUnchanged
  /\ \/ /\ NoFault
        /\ Goto(p, IF IsMountPoint(job[p]) /\ GetMountDevicePath(job[p]) # device[p]
                   THEN "exit" ELSE "umount")
     \/ IsMountPoint(job[p]) /\ Fault /\ \E l \in {"exit", "umount"} : Goto(p, l)
  /\ UNCHANGED <<loops, device, residue, retry>>

\* Unmounting fails, or the mount is not seen.
Umount(p) ==
  /\ pc[p] = "umount" /\ RecordsUnchanged
  /\ \/ IsMountPoint(job[p]) /\ NoFault /\ SetMounts(TakeOff(job[p])) /\ Goto(p, "umountAll")
     \/ /\ IsMountPoint(job[p]) /\ Fault /\ DevicesUnchanged
        /\ \E l \in {"exit", "umountAll"} : Goto(p, l)
     \/ ~IsMountPoint(job[p]) /\ NoFault /\ DevicesUnchanged /\ Goto(p, "umountAll")
  /\ UNCHANGED <<loops, device, residue, retry>>

\* One round after the other until nothing is listed or the rounds are used
\* up; in between the desktop service may mount the device again.  A mount
\* table that cannot be read has nothing in it.
MayRetry_OnceMore(p) == retry[p] <= MaxUmountRetry
MayRetry(p) == retry[p] < MaxUmountRetry

CountRetry_Forgotten(p) == UNCHANGED retry
CountRetry(p) == retry' = [retry EXCEPT ![p] = @ + 1]

UmountAll(p) ==
  /\ pc[p] = "umountAll" /\ RecordsUnchanged
  /\ \/ /\ DevicesUnchanged /\ (IF GetAllMounts(device[p]) = {} THEN NoFault ELSE Fault)
        /\ Goto(p, "detach") /\ residue' = [residue EXCEPT ![p] = {device[p]}]
        /\ UNCHANGED retry
     \/ /\ GetAllMounts(device[p]) # {} /\ MayRetry(p) /\ NoFault
        /\ SetMounts(MountsLeft(device[p], world.pinned))
        /\ CountRetry(p)
        /\ Goto(p, "umountAll") /\ UNCHANGED residue
     \/ /\ GetAllMounts(device[p]) # {} /\ ~MayRetry(p) /\ NoFault
        /\ DevicesUnchanged /\ Goto(p, "exit") /\ UNCHANGED <<retry, residue>>
  /\ UNCHANGED <<loops, device>>

\* RollbackClearResidue goes by the records it finds, its own and others',
\* first the dm devices; if the directory cannot be listed there are none.  One
\* that is mounted stays, with its record; so does the record of one whose node
\* does not disappear in time.
ResidualDm(p) ==
  /\ pc[p] = "residualDm" /\ DevicesUnchanged /\ RecordsUnchanged
  /\ \/ NoFault /\ residue' = [residue EXCEPT ![p] = dmRecords[OutputDir(job[p])]]
     \/ Fault /\ UNCHANGED residue
  /\ Goto(p, "removeDm") /\ UNCHANGED <<loops, device, retry>>

Done(p, r) == residue' = [residue EXCEPT ![p] = @ \ {r}]

RemoveDm(p) ==
  /\ pc[p] = "removeDm" /\ UNCHANGED <<loops, device, retry, loopRecords, mountRecord>>
  /\ \/ \E n \in residue[p] :
          /\ Done(p, n) /\ Goto(p, "removeDm")
          /\ \/ /\ ~SystemUp \/ dmTable[n] = None \/ ~DmBusy(n)
                /\ NoFault
                /\ IF SystemUp THEN DmSet(n, None) ELSE DevicesUnchanged
                /\ dmRecords' = [dmRecords EXCEPT ![OutputDir(job[p])] = @ \ {n}]
             \/ /\ IF DmBusy(n) THEN NoFault ELSE Fault
                /\ DevicesUnchanged /\ UNCHANGED dmRecords
             \/ SystemUp /\ ~DmBusy(n) /\ Fault /\ DmSet(n, None) /\ UNCHANGED dmRecords
     \/ /\ residue[p] = {} /\ DevicesUnchanged /\ UNCHANGED dmRecords /\ Goto(p, "detach")
        /\ \/ NoFault /\ residue' = [residue EXCEPT ![p] = loopRecords[OutputDir(job[p])]]
           \/ Fault /\ UNCHANGED residue

\* Attached only sees whether /sys/block knows the device.  A device without a
\* file cannot be detached, nor can one that cannot be opened: for an image
\* that is the end, otherwise the record stays.
Detach(p) ==
  /\ pc[p] = "detach" /\ RecordsUnchanged /\ UNCHANGED <<loops, residue, retry>>
  /\ \/ residue[p] = {} /\ NoFault /\ DevicesUnchanged /\ Goto(p, "exit") /\ UNCHANGED device
     \/ \E d \in residue[p] :
          /\ device' = [device EXCEPT ![p] = d]
          /\ \/ SystemUp /\ NoFault /\ ClrFd(p, d) /\ Goto(p, "removeRecord")
             \/ SystemUp /\ DevicesUnchanged /\ Goto(p, "skipRecord")
                /\ IF backing[d] = None THEN NoFault ELSE Fault
             \/ ~SystemUp /\ NoFault /\ DevicesUnchanged /\ Goto(p, "removeRecord")

RemoveLoopRecord(p) ==
  /\ pc[p] \in {"removeRecord", "skipRecord"} /\ Goto(p, "detach") /\ Done(p, device[p])
  /\ \/ /\ pc[p] = "removeRecord" /\ NoFault
        /\ loopRecords' = [loopRecords EXCEPT ![OutputDir(job[p])] = @ \ {device[p]}]
     \/ pc[p] = "removeRecord" /\ Fault /\ UNCHANGED loopRecords
     \/ pc[p] = "skipRecord" /\ NoFault /\ UNCHANGED loopRecords
  /\ DevicesUnchanged /\ UNCHANGED <<dmRecords, mountRecord, loops, device, retry>>

-----------------------------------------------------------------------------
(* Windows.                                                                *)

AttachDisk(p) ==
  /\ pc[p] = "attachDisk" /\ RecordsUnchanged /\ UNCHANGED <<loops, device, residue, retry>>
  /\ UNCHANGED <<backing, autoclear, opened, dmTable, mounts>>
  /\ \/ NoFault /\ disks' = disks \cup {job[p]} /\ Goto(p, "mount")
     \/ job[p] \notin disks /\ Fault /\ UNCHANGED disks /\ Goto(p, "exit")

\* The volume is looked for on the disk and gets the mount point, unless the
\* directory is one already.  MountRollback detaches the disk whoever has
\* attached it.
AddVolumeMountPoint(p) ==
  /\ pc[p] = "mount" /\ Format[job[p]] = "VHD" /\ RecordsUnchanged
  /\ UNCHANGED <<loops, device, residue, retry>>
  /\ \/ At(job[p]) = {} /\ NoFault /\ MountOn(p, job[p]) /\ Goto(p, "exit")
     \/ (IF At(job[p]) = {} THEN Fault ELSE NoFault) /\ DevicesUnchanged /\ Goto(p, "detachDisk")

DetachDisk(p) ==
  /\ pc[p] = "detachDisk" /\ Goto(p, "exit") /\ RecordsUnchanged
  /\ UNCHANGED <<loops, device, residue, retry, backing, autoclear, opened, dmTable>>
  /\ \/ NoFault /\ disks' = disks \ {job[p]}
        /\ mounts' = Keep({i \in DOMAIN mounts : mounts[i].dev # job[p]})
     \/ Fault /\ UNCHANGED <<disks, mounts>>

-----------------------------------------------------------------------------
\* A service like udisks2 mounts a loop device that appears, and does so again
\* when that mount is gone.
AutoMount ==
  \E d \in world.autoMounted :
    /\ HasMedium(d) /\ At(d) = {}
    /\ SetMounts(Append(mounts, [dev |-> d, at |-> d]))
    /\ UNCHANGED <<world, recordVars, procVars, faults>>

Proc(p) ==
  \/ Exit(p)
  \/ GetFree(p) \/ Attach(p) \/ SaveLoopRecord(p)
  \/ CreateEmptyDevice(p) \/ LoadTable(p) \/ SaveDmRecord(p)
  \/ Mount(p) \/ SaveMountRecord(p)
  \/ LoopbackRollback(p) \/ Umount(p) \/ UmountAll(p)
  \/ ResidualDm(p) \/ RemoveDm(p) \/ Detach(p) \/ RemoveLoopRecord(p)
  \/ AttachDisk(p) \/ AddVolumeMountPoint(p) \/ DetachDisk(p)

Next ==
  \/ \E p \in Procs :
       \/ Proc(p) \/ Crash(p)
       \/ \E c \in world.copies : StartMount(p, c) \/ StartUmount(p, c)
  \/ AutoMount

Spec == Init /\ [][Next]_mountVars

\* A process that runs goes on.
FairSpec == Spec /\ \A p \in Procs : WF_mountVars(Proc(p))

-----------------------------------------------------------------------------
(* Properties.                                                             *)

\* The variables stay within their types.
Labels ==
  {"idle", "exit", "getFree", "setFd", "loopRecord", "createDm", "loadTable", "dmRecord", "mount",
   "record", "writeRecord", "rollback", "umount", "umountAll", "residualDm", "removeDm", "detach",
   "removeRecord", "skipRecord", "attachDisk", "detachDisk"}
Devices == LoopDevices \cup DmDevices \cup Copies \cup {System}
MountTypeOK ==
  /\ backing \in [LoopDevices -> {None} \cup UNION {ToSet(Files[c]) : c \in Copies}]
  /\ autoclear \in [LoopDevices -> BOOLEAN] /\ opened \in [Procs -> SUBSET LoopDevices]
  /\ dmTable \in [DmDevices -> {None} \cup Seq(LoopDevices)]
  /\ mounts \in Seq([dev : Devices, at : Devices]) /\ disks \subseteq Copies
  /\ loopRecords \in [Copies -> SUBSET LoopDevices] /\ dmRecords \in [Copies -> SUBSET DmDevices]
  /\ mountRecord \in [Copies -> {None, Torn} \cup Copies \cup LoopDevices]
  /\ pc \in [Procs -> Labels] /\ job \in [Procs -> {None} \cup world.copies]
  /\ loops \in [Procs -> Seq(LoopDevices)] /\ device \in [Procs -> {None} \cup Devices]
  /\ residue \in [Procs -> SUBSET (LoopDevices \cup DmDevices)]
  /\ retry \in [Procs -> 0 .. MaxUmountRetry]
  /\ world \in Worlds /\ faults \in 0 .. world.maxFaults

\* What is mounted on a copy's target shows the files of that copy, in the
\* order of the volume, whatever other processes attach, detach and roll back
\* in the meantime.
FilesBehind(dev) ==
  IF dev \in LoopDevices THEN <<backing[dev]>>
  ELSE [i \in DOMAIN dmTable[dev] |-> backing[dmTable[dev][i]]]
MountsOwnFiles ==
  \A i \in DOMAIN mounts :
    mounts[i].at \in Copies /\ mounts[i].dev # mounts[i].at =>
      FilesBehind(mounts[i].dev) = Files[mounts[i].at]

\* "These files will be used to track residual device": a device that was
\* attached and that no process, no mount and no flag will release is named
\* by a record, except for one at most for each crash or failing call.
Unrecorded ==
  {d \in LoopDevices :
     /\ backing[d] # None /\ ~autoclear[d] /\ \A p \in Procs : d \notin opened[p]
     /\ d \notin UNION Range(loopRecords)}
  \cup {n \in DmDevices :
     /\ dmTable[n] # None /\ \A p \in Procs : device[p] # n
     /\ n \notin UNION Range(dmRecords)}
  \cup {c \in disks : ~Busy(c) /\ mountRecord[c] # c}
LeaksAreFaults == ~world.shared /\ SystemUp => Cardinality(Unrecorded) <= faults

\* Every call comes to its end, whatever the desktop service mounts again.
CallsEnd == \A p \in Procs : (pc[p] # "idle") ~> (pc[p] = "idle")

\* UmountAll's comment: "umount all releated mounts of the device".  Mounts of
\* other devices stay.
SparesOthers == SystemUp
=============================================================================
