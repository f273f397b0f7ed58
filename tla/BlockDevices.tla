---------------------------- MODULE BlockDevices ----------------------------
(***************************************************************************)
(* Loop devices, device-mapper devices and the mount table of Linux, and   *)
(* the attached virtual disks of Windows, as LoopDeviceControl,            *)
(* DeviceMapperControl, LinuxMountUtils and Win32RawIO drive them.         *)
(*                                                                         *)
(* A loop device that is asked to let go of its file while somebody else   *)
(* has it open, mounted or mapped does so when the last of them is gone    *)
(* (LO_FLAGS_AUTOCLEAR).  loopback::Attach and Detach never close the      *)
(* device they open: it stays open until the process ends.                 *)
(*                                                                         *)
(* One mount, System, stands for /proc, /sys and /dev.  Without it no      *)
(* device can be seen or opened and no mount be listed.                    *)
(*                                                                         *)
(* A definition Name_Variant is Name with a plausible mistake in it; it is *)
(* used nowhere in the specification.                                      *)
(***************************************************************************)
EXTENDS Integers, FiniteSets, SequencesExt

CONSTANTS
  Procs,         \* processes that mount and unmount copies
  LoopDevices,   \* /dev/loopN, by number
  DmDevices,     \* names of device-mapper devices
  System, None

ASSUME DevicesAssumption ==
  /\ IsFiniteSet(LoopDevices) /\ LoopDevices \subseteq Nat
  /\ LoopDevices \cap DmDevices = {} /\ {System, None} \cap (LoopDevices \cup DmDevices) = {}

VARIABLES
  backing,       \* loop device -> the file it shows, or None
  autoclear,     \* ... and whether it lets go of it
  opened,        \* process -> loop devices it has open
  dmTable,       \* dm device -> the devices mapped one after the other, or None
  mounts,        \* /proc/mounts: [dev, at], the newest last
  disks          \* virtual disks that are attached

deviceVars == <<backing, autoclear, opened, dmTable, mounts, disks>>

SystemUp == \E i \in DOMAIN mounts : mounts[i].dev = System

InUse(d) ==
  \/ \E p \in Procs : d \in opened[p]
  \/ \E i \in DOMAIN mounts : mounts[i].dev = d
  \/ \E n \in DmDevices : dmTable[n] # None /\ d \in ToSet(dmTable[n])

\* What a step makes of the loop devices: one that nobody uses any more lets
\* go of its file if it has been told to.
LoopsBecome(b, a) ==
  LET freed == {d \in LoopDevices : a[d] /\ ~InUse(d)'}
  IN /\ backing' = [d \in LoopDevices |-> IF d \in freed THEN None ELSE b[d]]
     /\ autoclear' = [d \in LoopDevices |-> a[d] /\ d \notin freed]
LoopsSettle == LoopsBecome(backing, autoclear)

-----------------------------------------------------------------------------
(* LoopDeviceControl.                                                      *)

\* LOOP_CTL_GET_FREE tells the first free device and reserves nothing.
FreeLoopDevices == {d \in LoopDevices : backing[d] = None}
FirstOf(ds) == CHOOSE d \in ds : \A e \in ds : d <= e

\* LOOP_SET_FD fails on a device that has a file by now.  Either way the
\* device stays open.
SetFd_Closed(p, d, file) ==
  /\ backing[d] = None
  /\ UNCHANGED <<opened, dmTable, mounts, disks>>
  /\ backing' = [backing EXCEPT ![d] = file] /\ autoclear' = [autoclear EXCEPT ![d] = FALSE]

SetFd(p, d, file) ==
  /\ backing[d] = None
  /\ opened' = [opened EXCEPT ![p] = @ \cup {d}]
  /\ UNCHANGED <<dmTable, mounts, disks>>
  /\ LoopsBecome([backing EXCEPT ![d] = file], [autoclear EXCEPT ![d] = FALSE])

SetFdBusy(p, d) ==
  /\ backing[d] # None
  /\ opened' = [opened EXCEPT ![p] = @ \cup {d}]
  /\ UNCHANGED <<backing, autoclear, dmTable, mounts, disks>>

\* LOOP_CLR_FD, of a device with a file; one without makes it fail (ENXIO).
ClrFd(p, d) ==
  /\ backing[d] # None
  /\ UNCHANGED <<dmTable, mounts, disks>>
  /\ IF InUse(d)
     THEN opened' = [opened EXCEPT ![p] = @ \cup {d}]
          /\ LoopsBecome(backing, [autoclear EXCEPT ![d] = TRUE])
     ELSE opened' = [opened EXCEPT ![p] = @ \cup {d}]
          /\ LoopsBecome([backing EXCEPT ![d] = None], autoclear)

\* A process that ends closes everything.
CloseAll(p) ==
  /\ opened' = [opened EXCEPT ![p] = {}]
  /\ UNCHANGED <<dmTable, mounts, disks>>
  /\ LoopsSettle

-----------------------------------------------------------------------------
(* DeviceMapperControl.                                                    *)

DmSet(n, table) ==
  /\ dmTable' = [dmTable EXCEPT ![n] = table]
  /\ UNCHANGED <<opened, mounts, disks>>
  /\ LoopsSettle

Mounted(dev) == \E i \in DOMAIN mounts : mounts[i].dev = dev

\* DM_DEV_REMOVE refuses a device that is mounted.
DmBusy(n) == Mounted(n)

-----------------------------------------------------------------------------
(* LinuxMountUtils.                                                        *)

SetMounts(ms) ==
  /\ mounts' = ms
  /\ UNCHANGED <<opened, dmTable, disks>>
  /\ LoopsSettle

\* mount(2) needs a device with something behind it.
HasMedium(dev) ==
  /\ SystemUp
  /\ IF dev \in LoopDevices THEN backing[dev] # None
     ELSE dmTable[dev] \notin {None, <<>>}

At(target) == {i \in DOMAIN mounts : mounts[i].at = target}
IsMountPoint(target) == SystemUp /\ At(target) # {}
GetMountDevicePath(target) == mounts[CHOOSE i \in At(target) : \A j \in At(target) : i <= j].dev

\* The mounts with the indices kept, in their order.
Keep(kept) ==
  [j \in 1 .. Cardinality(kept) |->
     mounts[CHOOSE i \in kept : Cardinality({k \in kept : k <= i}) = j]]

\* umount2 of a path takes the newest mount off it.
TakeOff(target) ==
  Keep(DOMAIN mounts \ {CHOOSE i \in At(target) : \A j \in At(target) : i >= j})

\* GetAllMounts lists every mount there is, whatever device it is asked for.
GetAllMounts(dev) == IF SystemUp THEN DOMAIN mounts ELSE {}

\* What one round of UmountAll leaves.
MountsLeft(dev, pinned) ==
  Keep({i \in DOMAIN mounts : mounts[i].dev \in pinned \/ i \notin GetAllMounts(dev)})
=============================================================================
