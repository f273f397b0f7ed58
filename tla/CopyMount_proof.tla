--------------------------- MODULE CopyMount_proof ---------------------------
(***************************************************************************)
(* Proofs about CopyMount: its types, that a copy's target only ever shows *)
(* the files of that copy, and that what is left behind without a record   *)
(* is paid for by faults.                                                  *)
(***************************************************************************)
EXTENDS CopyMount, FiniteSetTheorems, WellFoundedInduction, TLAPS

-----------------------------------------------------------------------------
(* The inductive invariant.                                                *)

\* The labels a call for a copy of a format goes through.
PcsOf(format) ==
  CASE format = "IMAGE" ->
         {"getFree", "setFd", "loopRecord", "mount", "record", "writeRecord", "rollback",
          "umount", "umountAll", "detach", "removeRecord", "skipRecord", "exit"}
    [] format = "BIN" ->
         {"getFree", "setFd", "loopRecord", "createDm", "loadTable", "dmRecord", "mount",
          "record", "residualDm", "removeDm", "detach", "removeRecord", "skipRecord", "exit"}
    [] OTHER -> {"record", "writeRecord", "attachDisk", "mount", "detachDisk", "exit"}

Running(p) == job[p] # None
FilesOf(p) == Files[job[p]]

\* Every copy has one process at most, which is where its format sends it.
JobInv ==
  /\ \A p \in Procs : Running(p) <=> pc[p] # "idle"
  /\ \A p \in Procs : Running(p) => pc[p] \in PcsOf(Format[job[p]])
  /\ \A p, q \in Procs : Running(p) /\ job[p] = job[q] => p = q

\* What the record of a mount says is a device the copy can be mounted from.
MountRecordInv ==
  \A c \in Copies :
    /\ Format[c] = "IMAGE" => mountRecord[c] \in {None, Torn} \cup LoopDevices
    /\ Format[c] = "BIN" => mountRecord[c] = None
    /\ Format[c] = "VHD" => mountRecord[c] \in {None, Torn, c}

\* What a process keeps of its devices.
DevicesOf(p) ==
  /\ pc[p] = "idle" => loops[p] = <<>>
  /\ Running(p) => Len(loops[p]) <= Len(FilesOf(p))
  /\ pc[p] \in {"getFree", "setFd", "loopRecord"} => Len(loops[p]) < Len(FilesOf(p))
  /\ pc[p] \in {"setFd", "loopRecord"} => device[p] \in LoopDevices
  /\ pc[p] \in {"createDm", "loadTable", "dmRecord"} =>
       Len(loops[p]) = Len(FilesOf(p)) /\ Len(loops[p]) # 1
  /\ pc[p] \in {"loadTable", "dmRecord"} => device[p] \in DmDevices
  /\ pc[p] = "mount" /\ Format[job[p]] # "VHD" =>
       /\ Len(loops[p]) = Len(FilesOf(p))
       /\ IF Len(loops[p]) = 1 THEN device[p] = loops[p][1] ELSE device[p] \in DmDevices
  /\ pc[p] \in {"record", "writeRecord", "rollback", "umount", "umountAll"}
     /\ Format[job[p]] = "IMAGE" => device[p] \in LoopDevices
  /\ pc[p] = "removeDm" => residue[p] \subseteq DmDevices
  /\ pc[p] \in {"detach", "removeRecord", "skipRecord"} => residue[p] \subseteq LoopDevices
  /\ pc[p] \notin {"removeDm", "detach", "removeRecord", "skipRecord"} => residue[p] = {}
  /\ pc[p] \in {"removeRecord", "skipRecord"} => device[p] \in residue[p]
DeviceInv == \A p \in Procs : DevicesOf(p)

\* The devices a process has attached are open, and show its files.
AttachedOf(p) ==
  /\ \A i \in DOMAIN loops[p] :
       loops[p][i] \in opened[p] /\ backing[loops[p][i]] = FilesOf(p)[i]
  /\ pc[p] = "loopRecord" =>
       device[p] \in opened[p] /\ backing[device[p]] = FilesOf(p)[Len(loops[p]) + 1]
AttachedInv == \A p \in Procs : AttachedOf(p)

\* A dm device is its process's own until it is mounted.
Mapping(p) ==
  /\ pc[p] \in {"loadTable", "dmRecord"} \/ (pc[p] = "mount" /\ Format[job[p]] # "VHD")
  /\ device[p] \in DmDevices
NamedBy(p) ==
  /\ ~Mounted(device[p])
  /\ \A q \in Procs : device[q] = device[p] => q = p
  /\ pc[p] # "loadTable" => dmTable[device[p]] \in {None, loops[p]}
NameInv == \A p \in Procs : Mapping(p) => NamedBy(p)

\* What is mounted is a device for itself, or shows the files of the copy
\* whose target it is mounted on.
ShowsFiles(dev, c) ==
  /\ dev \in LoopDevices \cup DmDevices
  /\ dev \in DmDevices => dmTable[dev] # None
  /\ FilesBehind(dev) = Files[c]
Proper(m) ==
  \/ m.at = m.dev /\ m.dev \notin DmDevices
  \/ m.at \in Copies /\ ShowsFiles(m.dev, m.at)
MountsInv == \A i \in DOMAIN mounts : Proper(mounts[i])

MountInv ==
  MountTypeOK /\ JobInv /\ MountRecordInv /\ DeviceInv /\ AttachedInv /\ NameInv /\ MountsInv

DiskInv == \A c \in disks : Format[c] = "VHD"

\* What no record names, unless its process is about to write one; a record
\* that is about to be removed does not count, and a disk whose record could
\* not be written does before it is attached.
LostLoops ==
  {d \in LoopDevices :
     /\ backing[d] # None /\ ~autoclear[d]
     /\ \A p \in Procs : pc[p] = "loopRecord" => device[p] # d
     /\ \A c \in Copies : d \in loopRecords[c] =>
          \E p \in Procs : pc[p] = "removeRecord" /\ job[p] = c /\ device[p] = d}
LostDms ==
  {n \in DmDevices :
     /\ dmTable[n] # None
     /\ \A p \in Procs : pc[p] \in {"loadTable", "dmRecord"} => device[p] # n
     /\ \A c \in Copies : n \notin dmRecords[c]}
Attaching(c) == \E p \in Procs : pc[p] = "attachDisk" /\ job[p] = c
LostDisks ==
  {c \in Copies :
     /\ c \in disks \/ Attaching(c)
     /\ mountRecord[c] # c
     /\ \A p \in Procs : pc[p] = "writeRecord" => job[p] # c}
Lost == LostLoops \cup LostDms \cup LostDisks
LeakInv == ~world.shared /\ SystemUp => IsFiniteSet(Lost) /\ Cardinality(Lost) <= faults

-----------------------------------------------------------------------------
(* Lemmas about the operators.                                             *)

\* A set of natural numbers that is not empty has a least element.
LEMMA LeastElement ==
  ASSUME NEW T, T \subseteq Nat, T # {}
  PROVE  \E x \in T : \A y \in T : x <= y
<1>1. PICK x \in T : \A y \in T : <<y, x>> \notin OpToRel(<, Nat)
  BY WFMin, NatLessThanWellFounded, Zenon
<1>2. \A y \in T : ~(y < x)
  BY <1>1, Zenon DEF OpToRel
<1> HIDE <1>1
<1> QED
  BY <1>2

\* LOOP_CTL_GET_FREE tells a free device if there is one.
LEMMA FirstOfExists ==
  ASSUME NEW ds, ds \subseteq Nat, ds # {}
  PROVE  FirstOf(ds) \in ds
BY LeastElement DEF FirstOf

\* Of the numbers in a subset of 1 .. n there is a first, a second, and so on.
LEMMA NthExists ==
  ASSUME NEW n \in Nat, NEW K, K \subseteq 1 .. n, NEW j \in 1 .. Cardinality(K)
  PROVE  \E i \in K : Cardinality({k \in K : k <= i}) = j
<1> DEFINE Upto(i) == {k \in K : k <= i}
           T == {i \in 0 .. n : Cardinality(Upto(i)) >= j}
<1>1. IsFiniteSet(K) /\ \A i \in Int : IsFiniteSet(Upto(i))
  <2>1. IsFiniteSet(1 .. n)
    BY FS_Interval
  <2>2. IsFiniteSet(K)
    BY <2>1, FS_Subset
  <2>3. \A i \in Int : Upto(i) \subseteq K
    OBVIOUS
  <2> QED
    BY <2>2, <2>3, FS_Subset
<1>0. \A k \in K : k \in Int /\ 1 <= k /\ k <= n
  OBVIOUS
<1>2. \A i \in Int : Cardinality(Upto(i)) \in Nat
  BY <1>1, FS_CardinalityType
<1>3. n \in T
  <2>1. Upto(n) = K
    BY <1>0
  <2>2. Cardinality(K) \in Nat
    BY <1>1, FS_CardinalityType
  <2>3. n \in 0 .. n /\ Cardinality(K) >= j
    BY <2>2
  <2> QED
    BY <2>1, <2>3
<1>4. PICK i \in T : \A k \in T : i <= k
  <2>1. T # {}
    BY <1>3
  <2>3. T \subseteq Nat
    <3>1. 0 .. n \subseteq Nat
      OBVIOUS
    <3> QED
      BY <3>1
  <2> HIDE DEF T
  <2> QED
    BY <2>1, <2>3, LeastElement
<1>5. i # 0
  <2>1. \A k \in K : ~(k <= 0)
    BY <1>0
  <2>2. Upto(0) = {}
    BY <2>1
  <2> QED
    BY <2>2, FS_EmptySet
<1>6. Cardinality(Upto(i - 1)) < j
  <2>1. i \in 1 .. n /\ ~(i <= i - 1)
    BY <1>5
  <2>2. i - 1 \in 0 .. n /\ i - 1 \in Int
    BY <2>1
  <2>3. i - 1 \notin T
    <3> HIDE DEF T
    <3> QED
      BY <2>1, <1>4
  <2>4. ~(Cardinality(Upto(i - 1)) >= j)
    BY <2>2, <2>3
  <2>5. Cardinality(Upto(i - 1)) \in Nat
    BY <2>2, <1>2
  <2> HIDE DEF Upto
  <2> QED
    BY <2>4, <2>5
<1>7. i \in K
  <2>1. SUFFICES ASSUME i \notin K PROVE FALSE
    OBVIOUS
  <2>2. \A k \in K : k <= i <=> k <= i - 1
    BY <2>1, <1>0
  <2>3. Upto(i) = Upto(i - 1)
    BY <2>2
  <2>4. Cardinality(Upto(i)) >= j /\ Cardinality(Upto(i)) \in Nat
    BY <1>2
  <2> QED
    BY <2>3, <2>4, <1>6
<1>8. Cardinality(Upto(i)) = j
  <2>1. \A k \in K : k <= i <=> k <= i - 1 \/ k = i
    BY <1>0
  <2>2. i <= i /\ ~(i <= i - 1) /\ i - 1 \in Int
    OBVIOUS
  <2>3. Upto(i) = Upto(i - 1) \cup {i} /\ i \notin Upto(i - 1)
    BY <2>1, <2>2, <1>7
  <2>4. IsFiniteSet(Upto(i - 1))
    BY <2>2, <1>1
  <2> HIDE DEF Upto
  <2>5. Cardinality(Upto(i)) = Cardinality(Upto(i - 1)) + 1
    BY <2>3, <2>4, FS_AddElement
  <2>6. Cardinality(Upto(i)) >= j /\ Cardinality(Upto(i - 1)) \in Nat
    BY <2>2, <1>2
  <2> QED
    BY <2>5, <2>6, <1>6
<1> QED
  BY <1>7, <1>8

\* Mounts that are kept are mounts there were.
LEMMA KeptWasThere ==
  ASSUME NEW S, mounts \in Seq(S), NEW kept, kept \subseteq DOMAIN mounts
  PROVE  /\ Keep(kept) \in Seq(S)
         /\ \A j \in DOMAIN Keep(kept) : \E i \in kept : Keep(kept)[j] = mounts[i]
<1> DEFINE Nth(j) == CHOOSE i \in kept : Cardinality({k \in kept : k <= i}) = j
<1>1. Len(mounts) \in Nat /\ kept \subseteq 1 .. Len(mounts)
  OBVIOUS
<1>2. Cardinality(kept) \in Nat
  <2>1. IsFiniteSet(1 .. Len(mounts))
    BY <1>1, FS_Interval
  <2> QED
    BY <2>1, <1>1, FS_Subset, FS_CardinalityType
<1>3. \A j \in 1 .. Cardinality(kept) : Nth(j) \in kept
  BY <1>1, NthExists
<1>4. Keep(kept) = [j \in 1 .. Cardinality(kept) |-> mounts[Nth(j)]]
  BY DEF Keep
<1> HIDE DEF Nth
<1>5. \A j \in 1 .. Cardinality(kept) : mounts[Nth(j)] \in S
  BY <1>1, <1>3
<1> QED
  BY <1>2, <1>3, <1>4, <1>5

-----------------------------------------------------------------------------
(* What the calls of the system do to the devices.                         *)

AllFiles == UNION {ToSet(Files[c]) : c \in Copies}
BackingOK == backing \in [LoopDevices -> {None} \cup AllFiles]
AutoclearOK == autoclear \in [LoopDevices -> BOOLEAN]
OpenedOK == opened \in [Procs -> SUBSET LoopDevices]
TableOK == dmTable \in [DmDevices -> {None} \cup Seq(LoopDevices)]
MountTableOK == mounts \in Seq([dev : Devices, at : Devices])
DevicesOK == BackingOK /\ AutoclearOK /\ OpenedOK /\ TableOK /\ MountTableOK /\ disks \subseteq Copies

\* A device that stays in use keeps its file.
FilesStay ==
  \A d \in LoopDevices : InUse(d) /\ InUse(d)' /\ backing[d] # None => backing'[d] = backing[d]

\* No device gets a file, or forgets that it is to let go of it.
NoneGets(ds) ==
  \A d \in ds : backing'[d] # None /\ ~autoclear'[d] => backing[d] # None /\ ~autoclear[d]

LEMMA LoopsBecomeKeeps ==
  ASSUME NEW b \in [LoopDevices -> {None} \cup AllFiles], NEW a \in [LoopDevices -> BOOLEAN],
         LoopsBecome(b, a)
  PROVE  /\ BackingOK' /\ AutoclearOK'
         /\ \A d \in LoopDevices :
              /\ InUse(d)' => backing'[d] = b[d] /\ autoclear'[d] = a[d]
              /\ backing'[d] # None => backing'[d] = b[d] /\ autoclear'[d] = a[d]
<1> DEFINE freed == {d \in LoopDevices : a[d] /\ ~InUse(d)'}
<1>1. /\ backing' = [d \in LoopDevices |-> IF d \in freed THEN None ELSE b[d]]
      /\ autoclear' = [d \in LoopDevices |-> a[d] /\ d \notin freed]
  BY DEF LoopsBecome
<1>2. \A d \in LoopDevices : InUse(d)' => d \notin freed
  OBVIOUS
<1> HIDE DEF freed
<1>3. BackingOK'
  BY <1>1 DEF BackingOK
<1>4. AutoclearOK'
  BY <1>1 DEF AutoclearOK
<1>5. \A d \in LoopDevices : d \notin freed => backing'[d] = b[d]
  BY <1>1
<1>6. \A d \in LoopDevices : d \notin freed => autoclear'[d] = a[d]
  BY <1>1
<1>7. \A d \in LoopDevices : d \in freed => backing'[d] = None
  BY <1>1
<1> QED
  BY <1>2, <1>3, <1>4, <1>5, <1>6, <1>7

LEMMA SettleKeeps ==
  ASSUME BackingOK, AutoclearOK, LoopsSettle
  PROVE  BackingOK' /\ AutoclearOK' /\ FilesStay /\ NoneGets(LoopDevices)
<1>1. LoopsBecome(backing, autoclear)
  BY DEF LoopsSettle
<1>2. /\ backing \in [LoopDevices -> {None} \cup AllFiles]
      /\ autoclear \in [LoopDevices -> BOOLEAN]
  BY DEF BackingOK, AutoclearOK
<1> QED
  BY <1>1, <1>2, LoopsBecomeKeeps DEF FilesStay, NoneGets

LEMMA SetFdKeeps ==
  ASSUME BackingOK, AutoclearOK, OpenedOK, NEW p \in Procs, NEW d \in LoopDevices,
         NEW file \in AllFiles, SetFd(p, d, file)
  PROVE  /\ BackingOK' /\ AutoclearOK' /\ FilesStay /\ NoneGets(LoopDevices \ {d})
         /\ backing'[d] = file /\ backing[d] = None
         /\ opened' = [opened EXCEPT ![p] = @ \cup {d}]
<1> DEFINE b == [backing EXCEPT ![d] = file]
           a == [autoclear EXCEPT ![d] = FALSE]
<1>1. /\ LoopsBecome(b, a) /\ backing[d] = None
      /\ opened' = [opened EXCEPT ![p] = @ \cup {d}]
  BY DEF SetFd
<1>2. b \in [LoopDevices -> {None} \cup AllFiles] /\ a \in [LoopDevices -> BOOLEAN]
  BY DEF BackingOK, AutoclearOK
<1>3. b[d] = file /\ \A e \in LoopDevices \ {d} : b[e] = backing[e] /\ a[e] = autoclear[e]
  BY DEF BackingOK, AutoclearOK
<1>4. InUse(d)'
  <2>1. d \in opened'[p]
    BY <1>1 DEF OpenedOK
  <2> QED
    BY <2>1 DEF InUse
<1> HIDE DEF a, b
<1> QED
  BY <1>1, <1>2, <1>3, <1>4, LoopsBecomeKeeps DEF FilesStay, NoneGets

LEMMA ClrFdKeeps ==
  ASSUME BackingOK, AutoclearOK, OpenedOK, NEW p \in Procs, NEW d \in LoopDevices, ClrFd(p, d)
  PROVE  /\ BackingOK' /\ AutoclearOK' /\ FilesStay /\ NoneGets(LoopDevices)
         /\ backing'[d] = None \/ autoclear'[d]
         /\ opened' = [opened EXCEPT ![p] = @ \cup {d}]
<1>1. opened' = [opened EXCEPT ![p] = @ \cup {d}]
  BY DEF ClrFd
<1>2. CASE InUse(d)
  <2> DEFINE a == [autoclear EXCEPT ![d] = TRUE]
  <2>1. LoopsBecome(backing, a)
    BY <1>2 DEF ClrFd
  <2>2. backing \in [LoopDevices -> {None} \cup AllFiles] /\ a \in [LoopDevices -> BOOLEAN]
    BY DEF BackingOK, AutoclearOK
  <2>3. a[d] /\ \A e \in LoopDevices : a[e] \/ a[e] = autoclear[e]
    BY DEF AutoclearOK
  <2> HIDE DEF a
  <2> QED
    BY <1>1, <2>1, <2>2, <2>3, LoopsBecomeKeeps DEF FilesStay, NoneGets
<1>3. CASE ~InUse(d)
  <2> DEFINE b == [backing EXCEPT ![d] = None]
  <2>1. LoopsBecome(b, autoclear)
    BY <1>3 DEF ClrFd
  <2>2. b \in [LoopDevices -> {None} \cup AllFiles] /\ autoclear \in [LoopDevices -> BOOLEAN]
    BY DEF BackingOK, AutoclearOK
  <2>3. b[d] = None /\ \A e \in LoopDevices \ {d} : b[e] = backing[e]
    BY DEF BackingOK
  <2> HIDE DEF b
  <2> QED
    BY <1>1, <1>3, <2>1, <2>2, <2>3, LoopsBecomeKeeps DEF FilesStay, NoneGets
<1> QED
  BY <1>2, <1>3

-----------------------------------------------------------------------------
(* Types.                                                                  *)

USE DEF Goto, NoFault, Fault, DevicesUnchanged, RecordsUnchanged, deviceVars, recordVars, Running

RecordsOK ==
  /\ loopRecords \in [Copies -> SUBSET LoopDevices] /\ dmRecords \in [Copies -> SUBSET DmDevices]
  /\ mountRecord \in [Copies -> {None, Torn} \cup Copies \cup LoopDevices]
CursorOK ==
  world \in Worlds /\ pc \in [Procs -> Labels] /\ job \in [Procs -> {None} \cup world.copies]
HoldsOK ==
  /\ loops \in [Procs -> Seq(LoopDevices)] /\ device \in [Procs -> {None} \cup Devices]
  /\ residue \in [Procs -> SUBSET (LoopDevices \cup DmDevices)]
CountsOK == retry \in [Procs -> 0 .. MaxUmountRetry] /\ faults \in 0 .. world.maxFaults
CallsOK == CursorOK /\ HoldsOK /\ CountsOK

LEMMA TypeParts == MountTypeOK <=> DevicesOK /\ RecordsOK /\ CallsOK
BY DEF MountTypeOK, DevicesOK, RecordsOK, CallsOK, CursorOK, HoldsOK, CountsOK, BackingOK, AutoclearOK, OpenedOK, TableOK,
       MountTableOK, AllFiles

\* A copy is a name for itself, of a known format, and made of files.
LEMMA CopyFacts ==
  ASSUME NEW c \in Copies
  PROVE  /\ c \notin {None, Torn, System} \cup LoopDevices \cup DmDevices
         /\ Format[c] \in {"IMAGE", "BIN", "VHD"}
         /\ Files[c] \in Seq(AllFiles)
         /\ \A i \in 1 .. Len(Files[c]) : Files[c][i] \in AllFiles /\ Files[c][i] # None
         /\ Len(Files[c]) \in Nat /\ Len(Files[c]) > 0
         /\ Format[c] = "IMAGE" => Len(Files[c]) = 1
<1>1. PICK w \in Worlds : c \in w.copies
  BY DEF Copies
<1>2. /\ c \notin {None, Torn, System} \cup LoopDevices \cup DmDevices
      /\ Format[c] \in {"IMAGE", "BIN", "VHD"}
      /\ Files[c] \in Seq(ToSet(Files[c])) /\ None \notin ToSet(Files[c])
      /\ Len(Files[c]) > 0 /\ (Format[c] = "IMAGE" => Len(Files[c]) = 1)
  BY <1>1, MountAssumption
<1>3. ToSet(Files[c]) \subseteq AllFiles
  BY DEF AllFiles
<1>4. Files[c] \in Seq(AllFiles)
  BY <1>2, <1>3
<1>5. \A i \in 1 .. Len(Files[c]) : Files[c][i] \in ToSet(Files[c])
  BY <1>2
<1> QED
  BY <1>2, <1>3, <1>4, <1>5

\* A process that runs does so for a copy.
LEMMA JobIsCopy ==
  ASSUME CallsOK, NEW p \in Procs, job[p] # None
  PROVE  job[p] \in Copies /\ job[p] \in world.copies
BY DEF CallsOK, CursorOK, Copies

LEMMA WorldCopies == CallsOK => world.copies \subseteq Copies
BY DEF CallsOK, CursorOK, Copies

LEMMA RollbackLabel ==
  ASSUME NEW p \in Procs
  PROVE  /\ Rollback(p) \in {"rollback", "residualDm", "exit"}
         /\ Format[job[p]] = "IMAGE" => Rollback(p) = "rollback" /\ AttachFailed(p) = "exit"
         /\ Format[job[p]] = "BIN" => Rollback(p) = "residualDm"
         /\ Format[job[p]] = "VHD" => Rollback(p) = "exit"
         /\ Format[job[p]] # "IMAGE" => AttachFailed(p) = Rollback(p)
BY DEF Rollback, AttachFailed

\* A copy's records are in a directory of a copy, its own unless it is shared.
LEMMA OutputDirIsCopy ==
  ASSUME CallsOK, NEW c \in world.copies
  PROVE  OutputDir(c) \in Copies /\ (~world.shared => OutputDir(c) = c)
BY DEF OutputDir, CallsOK, CursorOK, Copies

\* Where a process is says of what format its copy is.
LEMMA LabelFormat ==
  ASSUME JobInv, CallsOK, NEW p \in Procs, pc[p] # "idle"
  PROVE  /\ job[p] \in Copies /\ job[p] \in world.copies /\ job[p] # None
         /\ pc[p] \in {"rollback", "umount", "umountAll"} => Format[job[p]] = "IMAGE"
         /\ pc[p] \in {"createDm", "loadTable", "dmRecord", "residualDm", "removeDm"} =>
              Format[job[p]] = "BIN"
         /\ pc[p] \in {"attachDisk", "detachDisk"} => Format[job[p]] = "VHD"
         /\ pc[p] \in {"getFree", "setFd", "loopRecord", "detach", "removeRecord", "skipRecord"} =>
              Format[job[p]] # "VHD"
         /\ pc[p] = "writeRecord" => Format[job[p]] # "BIN"
<1>1. job[p] # None /\ pc[p] \in PcsOf(Format[job[p]])
  BY DEF JobInv
<1>2. job[p] \in Copies /\ job[p] \in world.copies
  BY <1>1, JobIsCopy
<1>3. Format[job[p]] \in {"IMAGE", "BIN", "VHD"}
  BY <1>2, CopyFacts
<1> QED
  BY <1>1, <1>2, <1>3 DEF PcsOf

\* A process is at a label, for a copy of its world.
LEMMA CursorStep ==
  ASSUME MountInv, [Next]_mountVars
  PROVE  CursorOK'
<1>31. DevicesOK /\ RecordsOK /\ CallsOK /\ JobInv /\ DeviceInv
  BY TypeParts DEF MountInv
<1>32. \A p \in Procs : pc[p] # "idle" => job[p] \in Copies /\ job[p] \in world.copies
  BY <1>31, LabelFormat
<1>1. ASSUME NEW p \in Procs, Exit(p) PROVE CursorOK'
  BY <1>1, <1>31 DEF CallsOK, CursorOK, Labels, Forget, Exit
<1>2. ASSUME NEW p \in Procs, Crash(p) PROVE CursorOK'
  BY <1>2, <1>31 DEF CallsOK, CursorOK, Labels, Forget, Crash
<1>3. ASSUME NEW p \in Procs, GetFree(p) PROVE CursorOK'
  BY <1>3, <1>31, RollbackLabel DEF CallsOK, CursorOK, Labels, AttachFailed, GetFree
<1>4. ASSUME NEW p \in Procs, Attach(p) PROVE CursorOK'
  BY <1>4, <1>31, RollbackLabel DEF CallsOK, CursorOK, Labels, AttachFailed, Attach
<1>5. ASSUME NEW p \in Procs, SaveLoopRecord(p) PROVE CursorOK'
  BY <1>5, <1>31 DEF CallsOK, CursorOK, Labels, SaveLoopRecord
<1>6. ASSUME NEW p \in Procs, CreateEmptyDevice(p) PROVE CursorOK'
  BY <1>6, <1>31, RollbackLabel DEF CallsOK, CursorOK, Labels, CreateEmptyDevice
<1>7. ASSUME NEW p \in Procs, LoadTable(p) PROVE CursorOK'
  BY <1>7, <1>31, RollbackLabel DEF CallsOK, CursorOK, Labels, LoadTable
<1>8. ASSUME NEW p \in Procs, SaveDmRecord(p) PROVE CursorOK'
  BY <1>8, <1>31 DEF CallsOK, CursorOK, Labels, SaveDmRecord
<1>9. ASSUME NEW p \in Procs, Mount(p) PROVE CursorOK'
  BY <1>9, <1>31, RollbackLabel DEF CallsOK, CursorOK, Labels, Mount
<1>10. ASSUME NEW p \in Procs, SaveMountRecord(p) PROVE CursorOK'
  BY <1>10, <1>31, RollbackLabel DEF CallsOK, CursorOK, Labels, SaveMountRecord
<1>11. ASSUME NEW p \in Procs, LoopbackRollback(p) PROVE CursorOK'
  BY <1>11, <1>31 DEF CallsOK, CursorOK, Labels, LoopbackRollback
<1>12. ASSUME NEW p \in Procs, Umount(p) PROVE CursorOK'
  BY <1>12, <1>31 DEF CallsOK, CursorOK, Labels, Umount
<1>13. ASSUME NEW p \in Procs, UmountAll(p) PROVE CursorOK'
  BY <1>13, <1>31 DEF CallsOK, CursorOK, Labels, UmountAll
<1>14. ASSUME NEW p \in Procs, ResidualDm(p) PROVE CursorOK'
  BY <1>14, <1>31 DEF CallsOK, CursorOK, Labels, ResidualDm
<1>15. ASSUME NEW p \in Procs, RemoveDm(p) PROVE CursorOK'
  BY <1>15, <1>31 DEF CallsOK, CursorOK, Labels, RemoveDm
<1>16. ASSUME NEW p \in Procs, Detach(p) PROVE CursorOK'
  BY <1>16, <1>31 DEF CallsOK, CursorOK, Labels, Detach
<1>17. ASSUME NEW p \in Procs, RemoveLoopRecord(p) PROVE CursorOK'
  BY <1>17, <1>31 DEF CallsOK, CursorOK, Labels, RemoveLoopRecord
<1>18. ASSUME NEW p \in Procs, AttachDisk(p) PROVE CursorOK'
  BY <1>18, <1>31 DEF CallsOK, CursorOK, Labels, AttachDisk
<1>19. ASSUME NEW p \in Procs, AddVolumeMountPoint(p) PROVE CursorOK'
  BY <1>19, <1>31 DEF CallsOK, CursorOK, Labels, AddVolumeMountPoint
<1>20. ASSUME NEW p \in Procs, DetachDisk(p) PROVE CursorOK'
  BY <1>20, <1>31 DEF CallsOK, CursorOK, Labels, DetachDisk
<1>21. ASSUME NEW p \in Procs, NEW c \in world.copies, StartMount(p, c) PROVE CursorOK'
  BY <1>21, <1>31 DEF CallsOK, CursorOK, Labels, StartMount
<1>22. ASSUME NEW p \in Procs, NEW c \in world.copies, StartUmount(p, c) PROVE CursorOK'
  BY <1>22, <1>31 DEF CallsOK, CursorOK, Labels, StartUmount
<1>23. CASE AutoMount
  BY <1>23, <1>31 DEF CallsOK, CursorOK, procVars, AutoMount
<1>24. CASE UNCHANGED mountVars
  BY <1>24, <1>31 DEF CallsOK, CursorOK, mountVars, procVars
<1> QED
  BY <1>1, <1>2, <1>3, <1>4, <1>5, <1>6, <1>7, <1>8, <1>9, <1>10, <1>11, <1>12,
     <1>13, <1>14, <1>15, <1>16, <1>17, <1>18, <1>19, <1>20, <1>21, <1>22, <1>23, <1>24 DEF Next, Proc

\* Rounds and faults stay within their bounds.
LEMMA CountsStep ==
  ASSUME MountInv, [Next]_mountVars
  PROVE  CountsOK'
<1>31. DevicesOK /\ RecordsOK /\ CallsOK /\ JobInv /\ DeviceInv
  BY TypeParts DEF MountInv
<1>32. \A p \in Procs : pc[p] # "idle" => job[p] \in Copies /\ job[p] \in world.copies
  BY <1>31, LabelFormat
<1>33. world.maxFaults \in Nat /\ MaxUmountRetry \in Nat
  BY <1>31, MountAssumption DEF CallsOK, CursorOK
<1>34. retry \in [Procs -> 0 .. MaxUmountRetry] /\ faults \in 0 .. world.maxFaults
  BY <1>31 DEF CallsOK, CountsOK
<1>1. ASSUME NEW p \in Procs, Exit(p) PROVE CountsOK'
  BY <1>1, <1>33, <1>34 DEF CountsOK, Forget, Exit
<1>2. ASSUME NEW p \in Procs, Crash(p) PROVE CountsOK'
  BY <1>2, <1>33, <1>34 DEF CountsOK, Forget, Crash
<1>3. ASSUME NEW p \in Procs, GetFree(p) PROVE CountsOK'
  BY <1>3, <1>33, <1>34 DEF CountsOK, GetFree
<1>4. ASSUME NEW p \in Procs, Attach(p) PROVE CountsOK'
  BY <1>4, <1>33, <1>34 DEF CountsOK, Attach
<1>5. ASSUME NEW p \in Procs, SaveLoopRecord(p) PROVE CountsOK'
  BY <1>5, <1>33, <1>34 DEF CountsOK, SaveLoopRecord
<1>6. ASSUME NEW p \in Procs, CreateEmptyDevice(p) PROVE CountsOK'
  BY <1>6, <1>33, <1>34 DEF CountsOK, CreateEmptyDevice
<1>7. ASSUME NEW p \in Procs, LoadTable(p) PROVE CountsOK'
  BY <1>7, <1>33, <1>34 DEF CountsOK, LoadTable
<1>8. ASSUME NEW p \in Procs, SaveDmRecord(p) PROVE CountsOK'
  BY <1>8, <1>33, <1>34 DEF CountsOK, SaveDmRecord
<1>9. ASSUME NEW p \in Procs, Mount(p) PROVE CountsOK'
  BY <1>9, <1>33, <1>34 DEF CountsOK, Mount
<1>10. ASSUME NEW p \in Procs, SaveMountRecord(p) PROVE CountsOK'
  BY <1>10, <1>33, <1>34 DEF CountsOK, SaveMountRecord
<1>11. ASSUME NEW p \in Procs, LoopbackRollback(p) PROVE CountsOK'
  BY <1>11, <1>33, <1>34 DEF CountsOK, LoopbackRollback
<1>12. ASSUME NEW p \in Procs, Umount(p) PROVE CountsOK'
  BY <1>12, <1>33, <1>34 DEF CountsOK, Umount
<1>13. ASSUME NEW p \in Procs, UmountAll(p) PROVE CountsOK'
  BY <1>13, <1>33, <1>34 DEF CountsOK, MayRetry, CountRetry, UmountAll
<1>14. ASSUME NEW p \in Procs, ResidualDm(p) PROVE CountsOK'
  BY <1>14, <1>33, <1>34 DEF CountsOK, ResidualDm
<1>15. ASSUME NEW p \in Procs, RemoveDm(p) PROVE CountsOK'
  BY <1>15, <1>33, <1>34 DEF CountsOK, RemoveDm
<1>16. ASSUME NEW p \in Procs, Detach(p) PROVE CountsOK'
  BY <1>16, <1>33, <1>34 DEF CountsOK, Detach
<1>17. ASSUME NEW p \in Procs, RemoveLoopRecord(p) PROVE CountsOK'
  BY <1>17, <1>33, <1>34 DEF CountsOK, RemoveLoopRecord
<1>18. ASSUME NEW p \in Procs, AttachDisk(p) PROVE CountsOK'
  BY <1>18, <1>33, <1>34 DEF CountsOK, AttachDisk
<1>19. ASSUME NEW p \in Procs, AddVolumeMountPoint(p) PROVE CountsOK'
  BY <1>19, <1>33, <1>34 DEF CountsOK, AddVolumeMountPoint
<1>20. ASSUME NEW p \in Procs, DetachDisk(p) PROVE CountsOK'
  BY <1>20, <1>33, <1>34 DEF CountsOK, DetachDisk
<1>21. ASSUME NEW p \in Procs, NEW c \in world.copies, StartMount(p, c) PROVE CountsOK'
  BY <1>21, <1>33, <1>34 DEF CountsOK, StartMount
<1>22. ASSUME NEW p \in Procs, NEW c \in world.copies, StartUmount(p, c) PROVE CountsOK'
  BY <1>22, <1>33, <1>34 DEF CountsOK, StartUmount
<1>23. CASE AutoMount
  BY <1>23, <1>33, <1>34 DEF CountsOK, procVars, AutoMount
<1>24. CASE UNCHANGED mountVars
  BY <1>24, <1>33, <1>34 DEF CountsOK, mountVars, procVars
<1> QED
  BY <1>1, <1>2, <1>3, <1>4, <1>5, <1>6, <1>7, <1>8, <1>9, <1>10, <1>11, <1>12,
     <1>13, <1>14, <1>15, <1>16, <1>17, <1>18, <1>19, <1>20, <1>21, <1>22, <1>23, <1>24 DEF Next, Proc

\* What processes keep are devices.
LEMMA HoldsStep ==
  ASSUME MountInv, [Next]_mountVars
  PROVE  HoldsOK'
<1>31. DevicesOK /\ RecordsOK /\ CallsOK /\ JobInv /\ DeviceInv
  BY TypeParts DEF MountInv
<1>32. \A p \in Procs : pc[p] # "idle" => job[p] \in Copies /\ job[p] \in world.copies
  BY <1>31, LabelFormat
<1>33. HoldsOK
  BY <1>31 DEF CallsOK
<1>1. ASSUME NEW p \in Procs, Exit(p) PROVE HoldsOK'
  BY <1>1, <1>33 DEF HoldsOK, Forget, Exit
<1>2. ASSUME NEW p \in Procs, Crash(p) PROVE HoldsOK'
  BY <1>2, <1>33 DEF HoldsOK, Forget, Crash
<1>3. ASSUME NEW p \in Procs, GetFree(p) PROVE HoldsOK'
  <2>1. FreeDevices # {} => FirstOf(FreeDevices) \in LoopDevices
    <3>1. FreeDevices \subseteq LoopDevices /\ FreeDevices \subseteq Nat
      BY DevicesAssumption DEF FreeDevices, FreeLoopDevices
    <3> QED
      BY <3>1, FirstOfExists
  <2> QED
    BY <1>3, <2>1, <1>33 DEF GetFree, Devices, HoldsOK
<1>4. ASSUME NEW p \in Procs, Attach(p) PROVE HoldsOK'
  BY <1>4, <1>33 DEF HoldsOK, Attach
<1>5. ASSUME NEW p \in Procs, SaveLoopRecord(p) PROVE HoldsOK'
  <2>1. device[p] \in LoopDevices
    BY <1>5, <1>31 DEF SaveLoopRecord, DeviceInv, DevicesOf
  <2>2. loops' = [loops EXCEPT ![p] = Append(@, device[p])]
    BY <1>5 DEF SaveLoopRecord
  <2>3. loops' \in [Procs -> Seq(LoopDevices)]
    BY <2>1, <2>2, <1>33 DEF HoldsOK
  <2> QED
    BY <1>5, <2>3, <1>33 DEF SaveLoopRecord, HoldsOK
<1>6. ASSUME NEW p \in Procs, CreateEmptyDevice(p) PROVE HoldsOK'
  BY <1>6, <1>33 DEF HoldsOK, FreeNames, Devices, CreateEmptyDevice
<1>7. ASSUME NEW p \in Procs, LoadTable(p) PROVE HoldsOK'
  BY <1>7, <1>33 DEF HoldsOK, LoadTable
<1>8. ASSUME NEW p \in Procs, SaveDmRecord(p) PROVE HoldsOK'
  BY <1>8, <1>33 DEF HoldsOK, SaveDmRecord
<1>9. ASSUME NEW p \in Procs, Mount(p) PROVE HoldsOK'
  BY <1>9, <1>33 DEF HoldsOK, Mount
<1>10. ASSUME NEW p \in Procs, SaveMountRecord(p) PROVE HoldsOK'
  BY <1>10, <1>33 DEF HoldsOK, SaveMountRecord
<1>11. ASSUME NEW p \in Procs, LoopbackRollback(p) PROVE HoldsOK'
  BY <1>11, <1>33 DEF HoldsOK, LoopbackRollback
<1>12. ASSUME NEW p \in Procs, Umount(p) PROVE HoldsOK'
  BY <1>12, <1>33 DEF HoldsOK, Umount
<1>13. ASSUME NEW p \in Procs, UmountAll(p) PROVE HoldsOK'
  <2>1. device[p] \in LoopDevices
    BY <1>13, <1>31, LabelFormat DEF UmountAll, DeviceInv, DevicesOf
  <2>2. /\ loops' = loops /\ device' = device
        /\ residue' = residue \/ residue' = [residue EXCEPT ![p] = {device[p]}]
    BY <1>13 DEF UmountAll
  <2> QED
    BY <2>1, <2>2, <1>33 DEF HoldsOK
<1>14. ASSUME NEW p \in Procs, ResidualDm(p) PROVE HoldsOK'
  <2>1. dmRecords[OutputDir(job[p])] \subseteq DmDevices
    BY <1>14, <1>31, <1>32, OutputDirIsCopy DEF ResidualDm, RecordsOK
  <2> QED
    BY <1>14, <2>1, <1>33 DEF ResidualDm, HoldsOK
<1>15. ASSUME NEW p \in Procs, RemoveDm(p) PROVE HoldsOK'
  <2>1. loopRecords[OutputDir(job[p])] \subseteq LoopDevices
    BY <1>15, <1>31, <1>32, OutputDirIsCopy DEF RemoveDm, RecordsOK
  <2> QED
    BY <1>15, <2>1, <1>33 DEF RemoveDm, HoldsOK, Done
<1>16. ASSUME NEW p \in Procs, Detach(p) PROVE HoldsOK'
  BY <1>16, <1>33 DEF HoldsOK, Devices, Detach
<1>17. ASSUME NEW p \in Procs, RemoveLoopRecord(p) PROVE HoldsOK'
  BY <1>17, <1>33 DEF HoldsOK, Done, RemoveLoopRecord
<1>18. ASSUME NEW p \in Procs, AttachDisk(p) PROVE HoldsOK'
  BY <1>18, <1>33 DEF HoldsOK, AttachDisk
<1>19. ASSUME NEW p \in Procs, AddVolumeMountPoint(p) PROVE HoldsOK'
  BY <1>19, <1>33 DEF HoldsOK, AddVolumeMountPoint
<1>20. ASSUME NEW p \in Procs, DetachDisk(p) PROVE HoldsOK'
  BY <1>20, <1>33 DEF HoldsOK, DetachDisk
<1>21. ASSUME NEW p \in Procs, NEW c \in world.copies, StartMount(p, c) PROVE HoldsOK'
  BY <1>21, <1>33 DEF HoldsOK, StartMount
<1>22. ASSUME NEW p \in Procs, NEW c \in world.copies, StartUmount(p, c) PROVE HoldsOK'
  BY <1>22, <1>33, <1>31, WorldCopies DEF HoldsOK, Devices, RecordsOK, StartUmount
<1>23. CASE AutoMount
  BY <1>23, <1>33 DEF HoldsOK, procVars, AutoMount
<1>24. CASE UNCHANGED mountVars
  BY <1>24, <1>33 DEF HoldsOK, mountVars, procVars
<1> QED
  BY <1>1, <1>2, <1>3, <1>4, <1>5, <1>6, <1>7, <1>8, <1>9, <1>10, <1>11, <1>12,
     <1>13, <1>14, <1>15, <1>16, <1>17, <1>18, <1>19, <1>20, <1>21, <1>22, <1>23, <1>24 DEF Next, Proc

\* What the records name are devices.
LEMMA RecordsStep ==
  ASSUME MountInv, [Next]_mountVars
  PROVE  RecordsOK'
<1>31. DevicesOK /\ RecordsOK /\ CallsOK /\ JobInv /\ DeviceInv /\ MountRecordInv
  BY TypeParts DEF MountInv
<1>32. \A p \in Procs : pc[p] # "idle" => job[p] \in Copies /\ job[p] \in world.copies
  BY <1>31, LabelFormat
<1>33. world.copies \subseteq Copies
  BY <1>31, WorldCopies
<1>34. /\ loopRecords \in [Copies -> SUBSET LoopDevices] /\ dmRecords \in [Copies -> SUBSET DmDevices]
       /\ mountRecord \in [Copies -> {None, Torn} \cup Copies \cup LoopDevices]
  BY <1>31 DEF RecordsOK
<1>35. \A p \in Procs : pc[p] # "idle" => OutputDir(job[p]) \in Copies
  BY <1>31, <1>32, OutputDirIsCopy
<1>1. ASSUME NEW p \in Procs, Exit(p) PROVE RecordsOK'
  BY <1>1, <1>34 DEF RecordsOK, Exit
<1>2. ASSUME NEW p \in Procs, Crash(p) PROVE RecordsOK'
  BY <1>2, <1>34 DEF RecordsOK, Crash
<1>3. ASSUME NEW p \in Procs, GetFree(p) PROVE RecordsOK'
  BY <1>3, <1>34 DEF RecordsOK, GetFree
<1>4. ASSUME NEW p \in Procs, Attach(p) PROVE RecordsOK'
  BY <1>4, <1>34 DEF RecordsOK, Attach
<1>5. ASSUME NEW p \in Procs, SaveLoopRecord(p) PROVE RecordsOK'
  <2>1. device[p] \in LoopDevices
    BY <1>5, <1>31 DEF SaveLoopRecord, DeviceInv, DevicesOf
  <2> QED
    BY <1>5, <2>1, <1>34, <1>35 DEF SaveLoopRecord, RecordsOK
<1>6. ASSUME NEW p \in Procs, CreateEmptyDevice(p) PROVE RecordsOK'
  BY <1>6, <1>34 DEF RecordsOK, CreateEmptyDevice
<1>7. ASSUME NEW p \in Procs, LoadTable(p) PROVE RecordsOK'
  BY <1>7, <1>34 DEF RecordsOK, LoadTable
<1>8. ASSUME NEW p \in Procs, SaveDmRecord(p) PROVE RecordsOK'
  <2>1. device[p] \in DmDevices
    BY <1>8, <1>31 DEF SaveDmRecord, DeviceInv, DevicesOf
  <2> QED
    BY <1>8, <2>1, <1>34, <1>35 DEF SaveDmRecord, RecordsOK
<1>9. ASSUME NEW p \in Procs, Mount(p) PROVE RecordsOK'
  BY <1>9, <1>34 DEF RecordsOK, Mount
<1>10. ASSUME NEW p \in Procs, SaveMountRecord(p) PROVE RecordsOK'
  <2>1. pc[p] = "writeRecord" => MountDevice(p) \in Copies \cup LoopDevices
    BY <1>31, <1>32, LabelFormat, CopyFacts DEF MountDevice, DeviceInv, DevicesOf
  <2> QED
    BY <1>10, <2>1, <1>34 DEF SaveMountRecord, SetRecord, RecordsOK
<1>11. ASSUME NEW p \in Procs, LoopbackRollback(p) PROVE RecordsOK'
  BY <1>11, <1>34 DEF RecordsOK, LoopbackRollback
<1>12. ASSUME NEW p \in Procs, Umount(p) PROVE RecordsOK'
  BY <1>12, <1>34 DEF RecordsOK, Umount
<1>13. ASSUME NEW p \in Procs, UmountAll(p) PROVE RecordsOK'
  BY <1>13, <1>34 DEF RecordsOK, UmountAll
<1>14. ASSUME NEW p \in Procs, ResidualDm(p) PROVE RecordsOK'
  BY <1>14, <1>34 DEF RecordsOK, ResidualDm
<1>15. ASSUME NEW p \in Procs, RemoveDm(p) PROVE RecordsOK'
  BY <1>15, <1>34, <1>35 DEF RecordsOK, RemoveDm
<1>16. ASSUME NEW p \in Procs, Detach(p) PROVE RecordsOK'
  BY <1>16, <1>34 DEF RecordsOK, Detach
<1>17. ASSUME NEW p \in Procs, RemoveLoopRecord(p) PROVE RecordsOK'
  BY <1>17, <1>34, <1>35 DEF RecordsOK, RemoveLoopRecord
<1>18. ASSUME NEW p \in Procs, AttachDisk(p) PROVE RecordsOK'
  BY <1>18, <1>34 DEF RecordsOK, AttachDisk
<1>19. ASSUME NEW p \in Procs, AddVolumeMountPoint(p) PROVE RecordsOK'
  BY <1>19, <1>34 DEF RecordsOK, AddVolumeMountPoint
<1>20. ASSUME NEW p \in Procs, DetachDisk(p) PROVE RecordsOK'
  BY <1>20, <1>34 DEF RecordsOK, DetachDisk
<1>21. ASSUME NEW p \in Procs, NEW c \in world.copies, StartMount(p, c) PROVE RecordsOK'
  BY <1>21, <1>34 DEF RecordsOK, StartMount
<1>22. ASSUME NEW p \in Procs, NEW c \in world.copies, StartUmount(p, c) PROVE RecordsOK'
  BY <1>22, <1>34 DEF RecordsOK, StartUmount
<1>23. CASE AutoMount
  BY <1>23, <1>34 DEF RecordsOK, AutoMount
<1>24. CASE UNCHANGED mountVars
  BY <1>24, <1>34 DEF RecordsOK, mountVars, procVars
<1> QED
  BY <1>1, <1>2, <1>3, <1>4, <1>5, <1>6, <1>7, <1>8, <1>9, <1>10, <1>11, <1>12,
     <1>13, <1>14, <1>15, <1>16, <1>17, <1>18, <1>19, <1>20, <1>21, <1>22, <1>23, <1>24 DEF Next, Proc

\* After a device was attached: the next file, or what the devices are for.
LEMMA AfterAttach ==
  ASSUME HoldsOK, CursorOK, DeviceInv, NEW p \in Procs, job[p] \in Copies, SaveLoopRecord(p)
  PROVE  /\ pc[p] = "loopRecord" /\ device[p] \in LoopDevices
         /\ loops' = [loops EXCEPT ![p] = Append(@, device[p])]
         /\ loops'[p] = Append(loops[p], device[p])
         /\ Len(loops'[p]) = Len(loops[p]) + 1 /\ Len(loops[p]) \in Nat
         /\ Len(loops'[p]) <= Len(FilesOf(p))
         /\ \E l :
              /\ pc' = [pc EXCEPT ![p] = l]
              /\ \/ l = "getFree" /\ Len(loops'[p]) < Len(FilesOf(p))
                 \/ l = "mount" /\ Len(FilesOf(p)) = 1 /\ Len(loops'[p]) = 1 /\ loops'[p][1] = device[p]
                 \/ l = "createDm" /\ Len(FilesOf(p)) # 1 /\ Len(loops'[p]) = Len(FilesOf(p))
<1> DEFINE more == Len(loops'[p]) < Len(FilesOf(p))
           one == Len(FilesOf(p)) = 1
           l == CASE more -> "getFree" [] one -> "mount" [] OTHER -> "createDm"
<1>1. /\ pc[p] = "loopRecord" /\ pc' = [pc EXCEPT ![p] = l]
      /\ loops' = [loops EXCEPT ![p] = Append(@, device[p])]
  BY DEF SaveLoopRecord, FilesOf
<1>2. \/ l = "getFree" /\ more
      \/ l = "mount" /\ ~more /\ one
      \/ l = "createDm" /\ ~more /\ ~one
  <2>1. ASSUME more, one PROVE FALSE
    <3>1. Len(loops'[p]) > 0
      BY <1>1 DEF HoldsOK
    <3> QED
      BY <2>1, <3>1
  <2> HIDE DEF more, one
  <2> QED
    BY <2>1
<1>3. loops[p] \in Seq(LoopDevices) /\ device[p] \in LoopDevices /\ Len(loops[p]) < Len(FilesOf(p))
  BY <1>1 DEF HoldsOK, DeviceInv, DevicesOf
<1>4. loops'[p] = Append(loops[p], device[p])
  BY <1>1 DEF HoldsOK
<1>5. Len(loops'[p]) = Len(loops[p]) + 1 /\ Len(loops[p]) \in Nat
  BY <1>3, <1>4
<1>6. Len(FilesOf(p)) \in Nat
  BY CopyFacts DEF FilesOf
<1>7. ~more => Len(loops'[p]) = Len(FilesOf(p))
  BY <1>3, <1>5, <1>6
<1>8. ~more /\ one => Len(loops'[p]) = 1 /\ loops'[p][1] = device[p]
  BY <1>3, <1>4, <1>5, <1>7
<1>9. Len(loops'[p]) <= Len(FilesOf(p))
  BY <1>3, <1>5, <1>6
<1> HIDE DEF l
<1> QED
  BY <1>1, <1>2, <1>3, <1>4, <1>5, <1>7, <1>8, <1>9

\* Processes go where the format of their copy sends them.
LEMMA JobStep ==
  ASSUME MountInv, [Next]_mountVars
  PROVE  JobInv'
<1>31. DevicesOK /\ RecordsOK /\ CallsOK /\ JobInv /\ DeviceInv /\ MountRecordInv
  BY TypeParts DEF MountInv
<1>32. \A p \in Procs : pc[p] # "idle" => job[p] \in Copies /\ job[p] \in world.copies
  BY <1>31, LabelFormat
<1>33. CursorOK
  BY <1>31 DEF CallsOK
<1>1. ASSUME NEW p \in Procs, Exit(p) PROVE JobInv'
  BY <1>1, <1>31, <1>33 DEF JobInv, CursorOK, Forget, Exit
<1>2. ASSUME NEW p \in Procs, Crash(p) PROVE JobInv'
  BY <1>2, <1>31, <1>33 DEF JobInv, CursorOK, Forget, Crash
<1>3. ASSUME NEW p \in Procs, GetFree(p) PROVE JobInv'
  BY <1>3, <1>31, <1>33, <1>32, CopyFacts, RollbackLabel DEF JobInv, CursorOK, PcsOf, GetFree
<1>4. ASSUME NEW p \in Procs, Attach(p) PROVE JobInv'
  BY <1>4, <1>31, <1>33, <1>32, CopyFacts, RollbackLabel DEF JobInv, CursorOK, PcsOf, Attach
<1>5. ASSUME NEW p \in Procs, SaveLoopRecord(p) PROVE JobInv'
  <2>1. /\ pc[p] = "loopRecord" /\ job' = job
        /\ \E l \in {"getFree", "mount", "createDm"} :
             pc' = [pc EXCEPT ![p] = l] /\ (l = "createDm" => Len(FilesOf(p)) # 1)
    <3>1. pc[p] = "loopRecord" /\ job' = job /\ job[p] \in Copies
      BY <1>5, <1>32 DEF SaveLoopRecord
    <3> QED
      BY <3>1, <1>5, <1>31, AfterAttach DEF CallsOK
  <2>5. Format[job[p]] \in {"IMAGE", "BIN"}
    BY <2>1, <1>31, <1>32, LabelFormat, CopyFacts
  <2>6. pc'[p] = "createDm" => Format[job[p]] = "BIN"
    BY <2>1, <2>5, <1>31, <1>32, <1>33, CopyFacts DEF CursorOK, FilesOf
  <2> QED
    BY <2>1, <2>5, <2>6, <1>31, <1>33 DEF JobInv, CursorOK, PcsOf
<1>6. ASSUME NEW p \in Procs, CreateEmptyDevice(p) PROVE JobInv'
  BY <1>6, <1>31, <1>33, <1>32, CopyFacts, RollbackLabel DEF JobInv, CursorOK, PcsOf, CreateEmptyDevice
<1>7. ASSUME NEW p \in Procs, LoadTable(p) PROVE JobInv'
  BY <1>7, <1>31, <1>33, <1>32, CopyFacts, RollbackLabel DEF JobInv, CursorOK, PcsOf, LoadTable
<1>8. ASSUME NEW p \in Procs, SaveDmRecord(p) PROVE JobInv'
  BY <1>8, <1>31, <1>33, <1>32, CopyFacts DEF JobInv, CursorOK, PcsOf, SaveDmRecord
<1>9. ASSUME NEW p \in Procs, Mount(p) PROVE JobInv'
  BY <1>9, <1>31, <1>33, <1>32, CopyFacts, RollbackLabel DEF JobInv, CursorOK, PcsOf, Mount
<1>10. ASSUME NEW p \in Procs, SaveMountRecord(p) PROVE JobInv'
  BY <1>10, <1>31, <1>33, <1>32, CopyFacts, RollbackLabel DEF JobInv, CursorOK, PcsOf, SaveMountRecord
<1>11. ASSUME NEW p \in Procs, LoopbackRollback(p) PROVE JobInv'
  BY <1>11, <1>31, <1>33, <1>32, CopyFacts DEF JobInv, CursorOK, PcsOf, LoopbackRollback
<1>12. ASSUME NEW p \in Procs, Umount(p) PROVE JobInv'
  BY <1>12, <1>31, <1>33, <1>32, CopyFacts DEF JobInv, CursorOK, PcsOf, Umount
<1>13. ASSUME NEW p \in Procs, UmountAll(p) PROVE JobInv'
  BY <1>13, <1>31, <1>33, <1>32, CopyFacts DEF JobInv, CursorOK, PcsOf, UmountAll
<1>14. ASSUME NEW p \in Procs, ResidualDm(p) PROVE JobInv'
  BY <1>14, <1>31, <1>33, <1>32, CopyFacts DEF JobInv, CursorOK, PcsOf, ResidualDm
<1>15. ASSUME NEW p \in Procs, RemoveDm(p) PROVE JobInv'
  BY <1>15, <1>31, <1>33, <1>32, CopyFacts DEF JobInv, CursorOK, PcsOf, RemoveDm
<1>16. ASSUME NEW p \in Procs, Detach(p) PROVE JobInv'
  BY <1>16, <1>31, <1>33, <1>32, CopyFacts DEF JobInv, CursorOK, PcsOf, Detach
<1>17. ASSUME NEW p \in Procs, RemoveLoopRecord(p) PROVE JobInv'
  BY <1>17, <1>31, <1>33, <1>32, CopyFacts DEF JobInv, CursorOK, PcsOf, RemoveLoopRecord
<1>18. ASSUME NEW p \in Procs, AttachDisk(p) PROVE JobInv'
  BY <1>18, <1>31, <1>33, <1>32, CopyFacts DEF JobInv, CursorOK, PcsOf, AttachDisk
<1>19. ASSUME NEW p \in Procs, AddVolumeMountPoint(p) PROVE JobInv'
  BY <1>19, <1>31, <1>33, <1>32, CopyFacts DEF JobInv, CursorOK, PcsOf, AddVolumeMountPoint
<1>20. ASSUME NEW p \in Procs, DetachDisk(p) PROVE JobInv'
  BY <1>20, <1>31, <1>33, <1>32, CopyFacts DEF JobInv, CursorOK, PcsOf, DetachDisk
<1>21. ASSUME NEW p \in Procs, NEW c \in world.copies, StartMount(p, c) PROVE JobInv'
  BY <1>21, <1>31, <1>33, <1>32, CopyFacts, WorldCopies DEF JobInv, CursorOK, PcsOf, Busy, StartMount
<1>22. ASSUME NEW p \in Procs, NEW c \in world.copies, StartUmount(p, c) PROVE JobInv'
  <2>1. Format[c] # "BIN"
    BY <1>22, <1>31, WorldCopies DEF StartUmount, MountRecordInv
  <2> QED
    BY <1>22, <2>1, <1>31, <1>33, CopyFacts, WorldCopies DEF JobInv, CursorOK, PcsOf, Busy, StartUmount
<1>23. CASE AutoMount
  BY <1>23, <1>31, <1>33 DEF JobInv, CursorOK, procVars, AutoMount
<1>24. CASE UNCHANGED mountVars
  BY <1>24, <1>31, <1>33 DEF JobInv, CursorOK, mountVars, procVars
<1> QED
  BY <1>1, <1>2, <1>3, <1>4, <1>5, <1>6, <1>7, <1>8, <1>9, <1>10, <1>11, <1>12,
     <1>13, <1>14, <1>15, <1>16, <1>17, <1>18, <1>19, <1>20, <1>21, <1>22, <1>23, <1>24 DEF Next, Proc

\* A record names a device of the kind its copy is mounted from.
LEMMA MountRecordStep ==
  ASSUME MountInv, [Next]_mountVars
  PROVE  MountRecordInv'
<1>31. DevicesOK /\ RecordsOK /\ CallsOK /\ JobInv /\ DeviceInv /\ MountRecordInv
  BY TypeParts DEF MountInv
<1>32. \A p \in Procs : pc[p] # "idle" => job[p] \in Copies /\ job[p] \in world.copies
  BY <1>31, LabelFormat
<1>1. ASSUME NEW p \in Procs, Exit(p) PROVE MountRecordInv'
  BY <1>1, <1>31 DEF MountRecordInv, Exit
<1>2. ASSUME NEW p \in Procs, Crash(p) PROVE MountRecordInv'
  BY <1>2, <1>31 DEF MountRecordInv, Crash
<1>3. ASSUME NEW p \in Procs, GetFree(p) PROVE MountRecordInv'
  BY <1>3, <1>31 DEF MountRecordInv, GetFree
<1>4. ASSUME NEW p \in Procs, Attach(p) PROVE MountRecordInv'
  BY <1>4, <1>31 DEF MountRecordInv, Attach
<1>5. ASSUME NEW p \in Procs, SaveLoopRecord(p) PROVE MountRecordInv'
  BY <1>5, <1>31 DEF MountRecordInv, SaveLoopRecord
<1>6. ASSUME NEW p \in Procs, CreateEmptyDevice(p) PROVE MountRecordInv'
  BY <1>6, <1>31 DEF MountRecordInv, CreateEmptyDevice
<1>7. ASSUME NEW p \in Procs, LoadTable(p) PROVE MountRecordInv'
  BY <1>7, <1>31 DEF MountRecordInv, LoadTable
<1>8. ASSUME NEW p \in Procs, SaveDmRecord(p) PROVE MountRecordInv'
  BY <1>8, <1>31 DEF MountRecordInv, SaveDmRecord
<1>9. ASSUME NEW p \in Procs, Mount(p) PROVE MountRecordInv'
  BY <1>9, <1>31 DEF MountRecordInv, Mount
<1>10. ASSUME NEW p \in Procs, SaveMountRecord(p) PROVE MountRecordInv'
  <2>1. pc[p] = "writeRecord" => Format[job[p]] # "BIN"
    BY <1>31, LabelFormat
  <2>2. pc[p] = "writeRecord" /\ Format[job[p]] = "IMAGE" => MountDevice(p) \in LoopDevices
    BY <1>31 DEF MountDevice, DeviceInv, DevicesOf
  <2>3. pc[p] = "writeRecord" /\ Format[job[p]] = "VHD" => MountDevice(p) = job[p]
    BY DEF MountDevice
  <2> QED
    BY <1>10, <2>1, <2>2, <2>3, <1>31, <1>32 DEF SaveMountRecord, SetRecord, MountRecordInv, RecordsOK
<1>11. ASSUME NEW p \in Procs, LoopbackRollback(p) PROVE MountRecordInv'
  BY <1>11, <1>31 DEF MountRecordInv, LoopbackRollback
<1>12. ASSUME NEW p \in Procs, Umount(p) PROVE MountRecordInv'
  BY <1>12, <1>31 DEF MountRecordInv, Umount
<1>13. ASSUME NEW p \in Procs, UmountAll(p) PROVE MountRecordInv'
  BY <1>13, <1>31 DEF MountRecordInv, UmountAll
<1>14. ASSUME NEW p \in Procs, ResidualDm(p) PROVE MountRecordInv'
  BY <1>14, <1>31 DEF MountRecordInv, ResidualDm
<1>15. ASSUME NEW p \in Procs, RemoveDm(p) PROVE MountRecordInv'
  BY <1>15, <1>31 DEF MountRecordInv, RemoveDm
<1>16. ASSUME NEW p \in Procs, Detach(p) PROVE MountRecordInv'
  BY <1>16, <1>31 DEF MountRecordInv, Detach
<1>17. ASSUME NEW p \in Procs, RemoveLoopRecord(p) PROVE MountRecordInv'
  BY <1>17, <1>31 DEF MountRecordInv, RemoveLoopRecord
<1>18. ASSUME NEW p \in Procs, AttachDisk(p) PROVE MountRecordInv'
  BY <1>18, <1>31 DEF MountRecordInv, AttachDisk
<1>19. ASSUME NEW p \in Procs, AddVolumeMountPoint(p) PROVE MountRecordInv'
  BY <1>19, <1>31 DEF MountRecordInv, AddVolumeMountPoint
<1>20. ASSUME NEW p \in Procs, DetachDisk(p) PROVE MountRecordInv'
  BY <1>20, <1>31 DEF MountRecordInv, DetachDisk
<1>21. ASSUME NEW p \in Procs, NEW c \in world.copies, StartMount(p, c) PROVE MountRecordInv'
  BY <1>21, <1>31 DEF MountRecordInv, StartMount
<1>22. ASSUME NEW p \in Procs, NEW c \in world.copies, StartUmount(p, c) PROVE MountRecordInv'
  BY <1>22, <1>31 DEF MountRecordInv, StartUmount
<1>23. CASE AutoMount
  BY <1>23, <1>31 DEF MountRecordInv, AutoMount
<1>24. CASE UNCHANGED mountVars
  BY <1>24, <1>31 DEF MountRecordInv, mountVars, procVars
<1> QED
  BY <1>1, <1>2, <1>3, <1>4, <1>5, <1>6, <1>7, <1>8, <1>9, <1>10, <1>11, <1>12,
     <1>13, <1>14, <1>15, <1>16, <1>17, <1>18, <1>19, <1>20, <1>21, <1>22, <1>23, <1>24 DEF Next, Proc

-----------------------------------------------------------------------------
(* Devices keep their types, and files stay behind the devices in use.     *)

LEMMA CloseAllKeeps ==
  ASSUME DevicesOK, NEW p \in Procs, CloseAll(p)
  PROVE  DevicesOK' /\ FilesStay /\ NoneGets(LoopDevices)
<1>1. BackingOK' /\ AutoclearOK' /\ FilesStay /\ NoneGets(LoopDevices)
  BY SettleKeeps DEF DevicesOK, CloseAll
<1> QED
  BY <1>1 DEF DevicesOK, CloseAll, OpenedOK, TableOK, MountTableOK

LEMMA DmSetKeeps ==
  ASSUME DevicesOK, NEW n \in DmDevices, NEW t \in {None} \cup Seq(LoopDevices), DmSet(n, t)
  PROVE  DevicesOK' /\ FilesStay /\ NoneGets(LoopDevices)
<1>1. BackingOK' /\ AutoclearOK' /\ FilesStay /\ NoneGets(LoopDevices)
  BY SettleKeeps DEF DevicesOK, DmSet
<1> QED
  BY <1>1 DEF DevicesOK, DmSet, OpenedOK, TableOK, MountTableOK

LEMMA SetMountsKeeps ==
  ASSUME DevicesOK, NEW ms \in Seq([dev : Devices, at : Devices]), SetMounts(ms)
  PROVE  DevicesOK' /\ FilesStay /\ NoneGets(LoopDevices)
<1>1. BackingOK' /\ AutoclearOK' /\ FilesStay /\ NoneGets(LoopDevices)
  BY SettleKeeps DEF DevicesOK, SetMounts
<1> QED
  BY <1>1 DEF DevicesOK, SetMounts, OpenedOK, TableOK, MountTableOK

LEMMA NothingKeeps ==
  ASSUME DevicesOK, UNCHANGED <<backing, autoclear, dmTable>>, OpenedOK', MountTableOK',
         disks' \subseteq Copies
  PROVE  DevicesOK' /\ FilesStay /\ NoneGets(LoopDevices)
BY DEF DevicesOK, BackingOK, AutoclearOK, TableOK, FilesStay, NoneGets

\* What a step of the mount table leaves was there before.
MountsShrink == \A j \in DOMAIN mounts' : \E i \in DOMAIN mounts : mounts'[j] = mounts[i]

LEMMA FewerMounts ==
  ASSUME MountTableOK, NEW kept, kept \subseteq DOMAIN mounts
  PROVE  /\ Keep(kept) \in Seq([dev : Devices, at : Devices])
         /\ mounts' = Keep(kept) => MountsShrink
BY KeptWasThere DEF MountTableOK, MountsShrink


\* Devices keep their types, and those in use their files.
LEMMA DevicesStep ==
  ASSUME MountInv, [Next]_mountVars
  PROVE  DevicesOK' /\ FilesStay
<1> DEFINE Goal == DevicesOK' /\ FilesStay
<1> SUFFICES Goal
  OBVIOUS
<1>31. DevicesOK /\ RecordsOK /\ CallsOK /\ JobInv /\ DeviceInv
  BY TypeParts DEF MountInv
<1>32. \A p \in Procs : pc[p] # "idle" => job[p] \in Copies /\ job[p] \in world.copies
  BY <1>31, LabelFormat
<1>33. UNCHANGED deviceVars => Goal
  BY <1>31, NothingKeeps DEF DevicesOK, OpenedOK, MountTableOK
<1>34. \A ms \in Seq([dev : Devices, at : Devices]) : SetMounts(ms) => Goal
  BY <1>31, SetMountsKeeps
<1>35. MountTableOK
  BY <1>31 DEF DevicesOK
<1>36. ASSUME NEW d \in Devices, NEW c \in Devices
       PROVE  Append(mounts, [dev |-> d, at |-> c]) \in Seq([dev : Devices, at : Devices])
  BY <1>35 DEF MountTableOK
<1> HIDE DEF Goal
<1>1. ASSUME NEW p \in Procs, Exit(p) PROVE Goal
  BY <1>1, <1>31, CloseAllKeeps DEF Exit, Goal
<1>2. ASSUME NEW p \in Procs, Crash(p) PROVE Goal
  BY <1>2, <1>31, CloseAllKeeps DEF Crash, Goal
<1>3. ASSUME NEW p \in Procs, GetFree(p) PROVE Goal
  BY <1>3, <1>33 DEF GetFree
<1>4. ASSUME NEW p \in Procs, Attach(p) PROVE Goal
  <2>1. /\ device[p] \in LoopDevices /\ Len(loops[p]) < Len(FilesOf(p)) /\ job[p] \in Copies
        /\ Len(loops[p]) \in Nat
    BY <1>4, <1>31, <1>32 DEF Attach, DeviceInv, DevicesOf, CallsOK, HoldsOK
  <2>2. NextFile(p) \in AllFiles
    BY <2>1, CopyFacts DEF NextFile, FilesOf
  <2>3. CASE SetFd(p, device[p], NextFile(p))
    <3>1. /\ BackingOK' /\ AutoclearOK' /\ FilesStay
          /\ opened' = [opened EXCEPT ![p] = @ \cup {device[p]}]
      BY <2>1, <2>2, <2>3, <1>31, SetFdKeeps DEF DevicesOK
    <3>2. UNCHANGED <<dmTable, mounts, disks>>
      BY <2>3 DEF SetFd
    <3> QED
      BY <2>1, <3>1, <3>2, <1>31 DEF DevicesOK, OpenedOK, TableOK, MountTableOK, Goal
  <2>4. CASE SetFdBusy(p, device[p])
    <3>1. OpenedOK' /\ MountTableOK' /\ disks' \subseteq Copies
      BY <2>1, <2>4, <1>31 DEF SetFdBusy, DevicesOK, OpenedOK, MountTableOK
    <3> QED
      BY <3>1, <2>4, <1>31, NothingKeeps DEF SetFdBusy, Goal
  <2> QED
    BY <1>4, <2>3, <2>4 DEF Attach
<1>5. ASSUME NEW p \in Procs, SaveLoopRecord(p) PROVE Goal
  BY <1>5, <1>33 DEF SaveLoopRecord
<1>6. ASSUME NEW p \in Procs, CreateEmptyDevice(p) PROVE Goal
  <2>1. <<>> \in {None} \cup Seq(LoopDevices)
    OBVIOUS
  <2>2. \A n \in DmDevices : DmSet(n, <<>>) => Goal
    BY <2>1, <1>31, DmSetKeeps DEF Goal
  <2> QED
    BY <1>6, <2>2, <1>33 DEF CreateEmptyDevice, FreeNames
<1>7. ASSUME NEW p \in Procs, LoadTable(p) PROVE Goal
  <2>1. device[p] \in DmDevices /\ loops[p] \in Seq(LoopDevices)
    BY <1>7, <1>31 DEF LoadTable, DeviceInv, DevicesOf, CallsOK, HoldsOK
  <2>2. DmSet(device[p], loops[p]) \/ DmSet(device[p], None) => Goal
    BY <2>1, <1>31, DmSetKeeps DEF Goal
  <2> QED
    BY <1>7, <2>2, <1>33 DEF LoadTable
<1>8. ASSUME NEW p \in Procs, SaveDmRecord(p) PROVE Goal
  BY <1>8, <1>33 DEF SaveDmRecord
<1>9. ASSUME NEW p \in Procs, Mount(p) PROVE Goal
  <2>1. device[p] \in Devices /\ job[p] \in Devices
    <3>1. loops[p] \in Seq(LoopDevices)
      BY <1>31 DEF CallsOK, HoldsOK
    <3> QED
      BY <1>9, <3>1, <1>31, <1>32 DEF Mount, DeviceInv, DevicesOf, Devices
  <2>2. MountOn(p, device[p]) => Goal
    BY <2>1, <1>34, <1>36 DEF MountOn
  <2> QED
    BY <1>9, <2>2, <1>33 DEF Mount
<1>10. ASSUME NEW p \in Procs, SaveMountRecord(p) PROVE Goal
  BY <1>10, <1>33 DEF SaveMountRecord
<1>11. ASSUME NEW p \in Procs, LoopbackRollback(p) PROVE Goal
  BY <1>11, <1>33 DEF LoopbackRollback
<1>12. ASSUME NEW p \in Procs, Umount(p) PROVE Goal
  <2>1. TakeOff(job[p]) \in Seq([dev : Devices, at : Devices])
    BY <1>35, FewerMounts DEF TakeOff
  <2> QED
    BY <1>12, <2>1, <1>33, <1>34 DEF Umount
<1>13. ASSUME NEW p \in Procs, UmountAll(p) PROVE Goal
  <2>1. MountsLeft(device[p], world.pinned) \in Seq([dev : Devices, at : Devices])
    BY <1>35, FewerMounts DEF MountsLeft
  <2> QED
    BY <1>13, <2>1, <1>33, <1>34 DEF UmountAll
<1>14. ASSUME NEW p \in Procs, ResidualDm(p) PROVE Goal
  BY <1>14, <1>33 DEF ResidualDm
<1>15. ASSUME NEW p \in Procs, RemoveDm(p) PROVE Goal
  <2>1. residue[p] \subseteq DmDevices
    BY <1>15, <1>31 DEF RemoveDm, DeviceInv, DevicesOf
  <2>2. \A n \in residue[p] : DmSet(n, None) => Goal
    BY <2>1, <1>31, DmSetKeeps DEF Goal
  <2> QED
    BY <1>15, <2>2, <1>33 DEF RemoveDm
<1>16. ASSUME NEW p \in Procs, Detach(p) PROVE Goal
  <2>1. residue[p] \subseteq LoopDevices
    BY <1>16, <1>31 DEF Detach, DeviceInv, DevicesOf
  <2>2. ASSUME NEW d \in residue[p], ClrFd(p, d) PROVE Goal
    <3>1. /\ BackingOK' /\ AutoclearOK' /\ FilesStay
          /\ opened' = [opened EXCEPT ![p] = @ \cup {d}]
      BY <2>1, <2>2, <1>31, ClrFdKeeps DEF DevicesOK
    <3> QED
      BY <2>1, <2>2, <3>1, <1>31 DEF DevicesOK, OpenedOK, TableOK, MountTableOK, ClrFd, Goal
  <2> QED
    BY <1>16, <2>2, <1>33 DEF Detach
<1>17. ASSUME NEW p \in Procs, RemoveLoopRecord(p) PROVE Goal
  BY <1>17, <1>33 DEF RemoveLoopRecord
<1>18. ASSUME NEW p \in Procs, AttachDisk(p) PROVE Goal
  <2>1. job[p] \in Copies
    BY <1>18, <1>32 DEF AttachDisk
  <2>2. OpenedOK' /\ MountTableOK' /\ disks' \subseteq Copies
    BY <1>18, <2>1, <1>31 DEF AttachDisk, DevicesOK, OpenedOK, MountTableOK
  <2> QED
    BY <1>18, <2>2, <1>31, NothingKeeps DEF AttachDisk, Goal
<1>19. ASSUME NEW p \in Procs, AddVolumeMountPoint(p) PROVE Goal
  <2>1. job[p] \in Devices
    BY <1>19, <1>32 DEF AddVolumeMountPoint, Devices
  <2>2. MountOn(p, job[p]) => Goal
    BY <2>1, <1>34, <1>36 DEF MountOn
  <2> QED
    BY <1>19, <2>2, <1>33 DEF AddVolumeMountPoint
<1>20. ASSUME NEW p \in Procs, DetachDisk(p) PROVE Goal
  <2>1. OpenedOK' /\ MountTableOK' /\ disks' \subseteq Copies
    BY <1>20, <1>31, FewerMounts DEF DetachDisk, DevicesOK, OpenedOK, MountTableOK
  <2> QED
    BY <1>20, <2>1, <1>31, NothingKeeps DEF DetachDisk, Goal
<1>21. ASSUME NEW p \in Procs, NEW c \in world.copies, StartMount(p, c) PROVE Goal
  BY <1>21, <1>33 DEF StartMount
<1>22. ASSUME NEW p \in Procs, NEW c \in world.copies, StartUmount(p, c) PROVE Goal
  BY <1>22, <1>33 DEF StartUmount
<1>23. CASE AutoMount
  <2>1. PICK d \in world.autoMounted : SetMounts(Append(mounts, [dev |-> d, at |-> d]))
    BY <1>23 DEF AutoMount
  <2>2. d \in Devices
    BY <1>31, MountAssumption DEF CallsOK, CursorOK, Devices
  <2> QED
    BY <2>1, <2>2, <1>34, <1>36
<1>24. CASE UNCHANGED mountVars
  BY <1>24, <1>33 DEF mountVars, procVars
<1> QED
  BY <1>1, <1>2, <1>3, <1>4, <1>5, <1>6, <1>7, <1>8, <1>9, <1>10, <1>11, <1>12,
     <1>13, <1>14, <1>15, <1>16, <1>17, <1>18, <1>19, <1>20, <1>21, <1>22, <1>23, <1>24 DEF Next, Proc

LEMMA TypesStep ==
  ASSUME MountInv, [Next]_mountVars
  PROVE  MountTypeOK'
<1>1. CallsOK'
  BY CursorStep, HoldsStep, CountsStep DEF CallsOK
<1>2. DevicesOK' /\ RecordsOK'
  BY DevicesStep, RecordsStep
<1>3. MountTypeOK' <=> DevicesOK' /\ RecordsOK' /\ CallsOK'
  BY TypeParts, PTL
<1> QED
  BY <1>1, <1>2, <1>3

-----------------------------------------------------------------------------
(* What a process keeps of its devices.                                    *)

\* A process keeps the devices that its next steps need.
LEMMA DeviceStep ==
  ASSUME MountInv, [Next]_mountVars
  PROVE  DeviceInv'
<1>31. RecordsOK /\ CallsOK /\ JobInv /\ MountRecordInv /\ DeviceInv
  BY TypeParts DEF MountInv
<1>32. \A p \in Procs : pc[p] # "idle" => job[p] \in Copies /\ job[p] \in world.copies
  BY <1>31, LabelFormat
<1>33. CursorOK /\ HoldsOK
  BY <1>31 DEF CallsOK
<1>34. \A c \in Copies : Format[c] = "IMAGE" => Len(Files[c]) = 1
  BY CopyFacts
<1>35. \A c \in Copies : Len(Files[c]) \in Nat /\ Len(Files[c]) > 0
  BY CopyFacts
<1> USE DEF CursorOK, HoldsOK, FilesOf
<1>1. ASSUME NEW p \in Procs, Exit(p) PROVE DeviceInv'
  BY <1>1, <1>31, <1>33 DEF DeviceInv, DevicesOf, Forget, Exit
<1>2. ASSUME NEW p \in Procs, Crash(p) PROVE DeviceInv'
  BY <1>2, <1>31, <1>33 DEF DeviceInv, DevicesOf, Forget, Crash
<1>3. ASSUME NEW p \in Procs, GetFree(p) PROVE DeviceInv'
  <2>1. FreeDevices # {} => FirstOf(FreeDevices) \in LoopDevices
    <3>1. FreeDevices \subseteq LoopDevices /\ FreeDevices \subseteq Nat
      BY DevicesAssumption DEF FreeDevices, FreeLoopDevices
    <3> QED
      BY <3>1, FirstOfExists
  <2>2. AttachFailed(p) \in {"rollback", "residualDm", "exit"}
        /\ (AttachFailed(p) = "rollback" => Format[job[p]] # "IMAGE")
    BY RollbackLabel
  <2>3. \A q \in Procs \ {p} : DevicesOf(q)'
    BY <1>3, <1>31, <1>33 DEF GetFree, DeviceInv, DevicesOf
  <2>4. DevicesOf(p)'
    BY <1>3, <1>31, <1>33, <2>1, <2>2 DEF GetFree, DeviceInv, DevicesOf
  <2> QED
    BY <2>3, <2>4 DEF DeviceInv
<1>4. ASSUME NEW p \in Procs, Attach(p) PROVE DeviceInv'
  <2>1. \A q \in Procs \ {p} : DevicesOf(q)'
    BY <1>4, <1>31, <1>33 DEF Attach, DeviceInv, DevicesOf
  <2>2. DevicesOf(p)'
    BY <1>4, <1>31, <1>33, RollbackLabel, <1>32, LabelFormat DEF Attach, DeviceInv, DevicesOf
  <2> QED
    BY <2>1, <2>2 DEF DeviceInv
<1>5. ASSUME NEW p \in Procs, SaveLoopRecord(p) PROVE DeviceInv'
  <2>1. job[p] \in Copies
    BY <1>5, <1>32 DEF SaveLoopRecord
  <2>2. UNCHANGED <<job, device, residue>>
    BY <1>5 DEF SaveLoopRecord
  <2> QED
    BY <1>5, <2>1, <2>2, <1>31, <1>33, <1>34, AfterAttach DEF DeviceInv, DevicesOf
<1>6. ASSUME NEW p \in Procs, CreateEmptyDevice(p) PROVE DeviceInv'
  BY <1>6, <1>31, <1>33, RollbackLabel, <1>32, LabelFormat DEF DeviceInv, DevicesOf, FreeNames, CreateEmptyDevice
<1>7. ASSUME NEW p \in Procs, LoadTable(p) PROVE DeviceInv'
  BY <1>7, <1>31, <1>33, RollbackLabel, <1>32, LabelFormat DEF DeviceInv, DevicesOf, LoadTable
<1>8. ASSUME NEW p \in Procs, SaveDmRecord(p) PROVE DeviceInv'
  BY <1>8, <1>31, <1>33 DEF DeviceInv, DevicesOf, SaveDmRecord
<1>9. ASSUME NEW p \in Procs, Mount(p) PROVE DeviceInv'
  <2>1. \A q \in Procs \ {p} : DevicesOf(q)'
    BY <1>9, <1>31, <1>33 DEF Mount, DeviceInv, DevicesOf
  <2>2. DevicesOf(p)'
    BY <1>9, <1>31, <1>33, RollbackLabel, <1>32, <1>34, SMTT(30) DEF Mount, DeviceInv, DevicesOf
  <2> QED
    BY <2>1, <2>2 DEF DeviceInv
<1>10. ASSUME NEW p \in Procs, SaveMountRecord(p) PROVE DeviceInv'
  <2>1. \A q \in Procs \ {p} : DevicesOf(q)'
    BY <1>10, <1>31, <1>33 DEF SaveMountRecord, DeviceInv, DevicesOf
  <2>2. DevicesOf(p)'
    BY <1>10, <1>31, <1>33, RollbackLabel, <1>32, LabelFormat, <1>34 DEF SaveMountRecord, DeviceInv, DevicesOf
  <2> QED
    BY <2>1, <2>2 DEF DeviceInv
<1>11. ASSUME NEW p \in Procs, LoopbackRollback(p) PROVE DeviceInv'
  <2>1. \A q \in Procs \ {p} : DevicesOf(q)'
    BY <1>11, <1>31, <1>33 DEF LoopbackRollback, DeviceInv, DevicesOf
  <2>2. DevicesOf(p)'
    BY <1>11, <1>31, <1>33, <1>32, LabelFormat DEF LoopbackRollback, DeviceInv, DevicesOf
  <2> QED
    BY <2>1, <2>2 DEF DeviceInv
<1>12. ASSUME NEW p \in Procs, Umount(p) PROVE DeviceInv'
  BY <1>12, <1>31, <1>33, <1>32, LabelFormat DEF DeviceInv, DevicesOf, Umount
<1>13. ASSUME NEW p \in Procs, UmountAll(p) PROVE DeviceInv'
  <2>1. \A q \in Procs \ {p} : DevicesOf(q)'
    BY <1>13, <1>31, <1>33 DEF UmountAll, DeviceInv, DevicesOf
  <2>2. DevicesOf(p)'
    BY <1>13, <1>31, <1>33, <1>32, LabelFormat DEF UmountAll, DeviceInv, DevicesOf
  <2> QED
    BY <2>1, <2>2 DEF DeviceInv
<1>14. ASSUME NEW p \in Procs, ResidualDm(p) PROVE DeviceInv'
  <2>1. dmRecords[OutputDir(job[p])] \subseteq DmDevices
    BY <1>14, <1>31, <1>32, OutputDirIsCopy DEF ResidualDm, RecordsOK
  <2> QED
    BY <1>14, <2>1, <1>31, <1>33 DEF ResidualDm, DeviceInv, DevicesOf
<1>15. ASSUME NEW p \in Procs, RemoveDm(p) PROVE DeviceInv'
  <2>1. loopRecords[OutputDir(job[p])] \subseteq LoopDevices
    BY <1>15, <1>31, <1>32, OutputDirIsCopy DEF RemoveDm, RecordsOK
  <2> QED
    BY <1>15, <2>1, <1>31, <1>33 DEF RemoveDm, DeviceInv, DevicesOf, Done
<1>16. ASSUME NEW p \in Procs, Detach(p) PROVE DeviceInv'
  <2>1. \A q \in Procs \ {p} : DevicesOf(q)'
    BY <1>16, <1>31, <1>33 DEF Detach, DeviceInv, DevicesOf
  <2>2. DevicesOf(p)'
    BY <1>16, <1>31, <1>33 DEF Detach, DeviceInv, DevicesOf
  <2> QED
    BY <2>1, <2>2 DEF DeviceInv
<1>17. ASSUME NEW p \in Procs, RemoveLoopRecord(p) PROVE DeviceInv'
  BY <1>17, <1>31, <1>33 DEF DeviceInv, DevicesOf, Done, RemoveLoopRecord
<1>18. ASSUME NEW p \in Procs, AttachDisk(p) PROVE DeviceInv'
  <2>1. \A q \in Procs \ {p} : DevicesOf(q)'
    BY <1>18, <1>31, <1>33 DEF AttachDisk, DeviceInv, DevicesOf
  <2>2. DevicesOf(p)'
    BY <1>18, <1>31, <1>33, LabelFormat DEF AttachDisk, DeviceInv, DevicesOf
  <2> QED
    BY <2>1, <2>2 DEF DeviceInv
<1>19. ASSUME NEW p \in Procs, AddVolumeMountPoint(p) PROVE DeviceInv'
  <2>1. \A q \in Procs \ {p} : DevicesOf(q)'
    BY <1>19, <1>31, <1>33 DEF AddVolumeMountPoint, DeviceInv, DevicesOf
  <2>2. DevicesOf(p)'
    BY <1>19, <1>31, <1>33 DEF AddVolumeMountPoint, DeviceInv, DevicesOf
  <2> QED
    BY <2>1, <2>2 DEF DeviceInv
<1>20. ASSUME NEW p \in Procs, DetachDisk(p) PROVE DeviceInv'
  BY <1>20, <1>31, <1>33, <1>32, LabelFormat DEF DeviceInv, DevicesOf, DetachDisk
<1>21. ASSUME NEW p \in Procs, NEW c \in world.copies, StartMount(p, c) PROVE DeviceInv'
  BY <1>21, <1>31, <1>33, <1>35, WorldCopies DEF DeviceInv, DevicesOf, JobInv, StartMount
<1>22. ASSUME NEW p \in Procs, NEW c \in world.copies, StartUmount(p, c) PROVE DeviceInv'
  BY <1>22, <1>31, <1>33, WorldCopies DEF DeviceInv, DevicesOf, JobInv, MountRecordInv, StartUmount
<1>23. CASE AutoMount
  BY <1>23, <1>31, <1>33 DEF DeviceInv, DevicesOf, procVars, AutoMount
<1>24. CASE UNCHANGED mountVars
  BY <1>24, <1>31, <1>33 DEF DeviceInv, DevicesOf, mountVars, procVars
<1> QED
  BY <1>1, <1>2, <1>3, <1>4, <1>5, <1>6, <1>7, <1>8, <1>9, <1>10, <1>11, <1>12,
     <1>13, <1>14, <1>15, <1>16, <1>17, <1>18, <1>19, <1>20, <1>21, <1>22, <1>23, <1>24 DEF Next, Proc

\* A device that a process keeps open keeps its file.
LEMMA OpenStays ==
  ASSUME FilesStay, NEW q \in Procs, NEW d \in LoopDevices, d \in opened[q], d \in opened'[q],
         backing[d] # None
  PROVE  backing'[d] = backing[d]
<1>1. InUse(d) /\ InUse(d)'
  BY DEF InUse
<1> QED
  BY <1>1 DEF FilesStay

AttachmentsStay(q) ==
  /\ loops'[q] = loops[q] /\ job'[q] = job[q] /\ opened[q] \subseteq opened'[q]
  /\ pc'[q] = "loopRecord" => pc[q] = "loopRecord" /\ device'[q] = device[q]

LEMMA AttachedFrame ==
  ASSUME MountInv, FilesStay, NEW q \in Procs, AttachmentsStay(q)
  PROVE  AttachedOf(q)'
<1>1. DevicesOK /\ CallsOK /\ JobInv /\ DevicesOf(q) /\ AttachedOf(q)
  BY TypeParts DEF MountInv, DeviceInv, AttachedInv
<1>2. loops[q] \in Seq(LoopDevices) /\ opened[q] \subseteq LoopDevices
  BY <1>1 DEF DevicesOK, OpenedOK, CallsOK, HoldsOK
<1>3. ASSUME NEW i \in DOMAIN loops[q]
      PROVE  loops[q][i] \in opened'[q] /\ backing'[loops[q][i]] = FilesOf(q)[i]
  <2>1. loops[q] # <<>>
    BY <1>2, <1>3
  <2>2. pc[q] # "idle" /\ job[q] # None
    BY <2>1, <1>1 DEF DevicesOf, JobInv
  <2>3. job[q] \in Copies
    BY <2>2, <1>1, JobIsCopy
  <2>4. i \in 1 .. Len(FilesOf(q))
    BY <2>2, <2>3, <1>1, <1>2, <1>3, CopyFacts DEF DevicesOf, FilesOf
  <2>5. FilesOf(q)[i] # None
    BY <2>3, <2>4, CopyFacts DEF FilesOf
  <2>6. loops[q][i] \in opened[q] /\ backing[loops[q][i]] = FilesOf(q)[i]
    BY <1>1, <1>3 DEF AttachedOf
  <2>7. loops[q][i] \in opened'[q] /\ loops[q][i] \in LoopDevices
    BY <2>6, <1>2 DEF AttachmentsStay
  <2> QED
    BY <2>5, <2>6, <2>7, OpenStays
<1>4. ASSUME pc'[q] = "loopRecord"
      PROVE  device[q] \in opened'[q] /\ backing'[device[q]] = FilesOf(q)[Len(loops[q]) + 1]
  <2>1. pc[q] = "loopRecord" /\ device[q] \in opened[q]
        /\ backing[device[q]] = FilesOf(q)[Len(loops[q]) + 1]
    BY <1>1, <1>4 DEF AttachedOf, AttachmentsStay
  <2>2. job[q] \in Copies /\ Len(loops[q]) < Len(FilesOf(q)) /\ Len(loops[q]) \in Nat
    BY <2>1, <1>1, <1>2, LabelFormat DEF DevicesOf
  <2>3. Len(loops[q]) + 1 \in 1 .. Len(FilesOf(q))
    BY <2>2, CopyFacts DEF FilesOf
  <2>4. FilesOf(q)[Len(loops[q]) + 1] # None
    BY <2>2, <2>3, CopyFacts DEF FilesOf
  <2>5. device[q] \in opened'[q] /\ device[q] \in LoopDevices
    BY <2>1, <1>2 DEF AttachmentsStay
  <2> QED
    BY <2>1, <2>4, <2>5, OpenStays
<1> QED
  BY <1>3, <1>4 DEF AttachedOf, AttachmentsStay, FilesOf

\* What a process has attached stays attached while it runs.
LEMMA AttachedStep ==
  ASSUME MountInv, [Next]_mountVars
  PROVE  AttachedInv'
<1>31. DevicesOK /\ CallsOK /\ JobInv /\ DeviceInv /\ AttachedInv
  BY TypeParts DEF MountInv
<1>32. \A p \in Procs : pc[p] # "idle" => job[p] \in Copies
  BY <1>31, LabelFormat
<1>33. CursorOK /\ HoldsOK /\ OpenedOK
  BY <1>31 DEF CallsOK, DevicesOK
<1>34. FilesStay
  BY DevicesStep
<1>35. \A q \in Procs : AttachmentsStay(q) => AttachedOf(q)'
  BY <1>34, AttachedFrame
<1> USE DEF CursorOK, HoldsOK, OpenedOK, AttachmentsStay
<1>1. ASSUME NEW p \in Procs, Exit(p) PROVE AttachedInv'
  <2>1. \A q \in Procs \ {p} : AttachmentsStay(q)
    BY <1>1, <1>33 DEF CloseAll, Forget, Exit
  <2>2. AttachedOf(p)'
    BY <1>1, <1>33 DEF AttachedOf, CloseAll, Forget, Exit
  <2> QED
    BY <2>1, <2>2, <1>35 DEF AttachedInv
<1>2. ASSUME NEW p \in Procs, Crash(p) PROVE AttachedInv'
  <2>1. \A q \in Procs \ {p} : AttachmentsStay(q)
    BY <1>2, <1>33 DEF CloseAll, Forget, Crash
  <2>2. AttachedOf(p)'
    BY <1>2, <1>33 DEF AttachedOf, CloseAll, Forget, Crash
  <2> QED
    BY <2>1, <2>2, <1>35 DEF AttachedInv
<1>3. ASSUME NEW p \in Procs, GetFree(p) PROVE AttachedInv'
  <2>1. \A q \in Procs : AttachmentsStay(q)
    BY <1>3, <1>33, RollbackLabel DEF GetFree
  <2> QED
    BY <2>1, <1>35 DEF AttachedInv
<1>4. ASSUME NEW p \in Procs, Attach(p) PROVE AttachedInv'
  <2>1. /\ device[p] \in LoopDevices /\ Len(loops[p]) < Len(FilesOf(p)) /\ job[p] \in Copies
        /\ Len(loops[p]) \in Nat /\ pc[p] = "setFd"
    BY <1>4, <1>31, <1>32, <1>33 DEF Attach, DeviceInv, DevicesOf
  <2>2. NextFile(p) \in AllFiles
    BY <2>1, CopyFacts DEF NextFile, FilesOf
  <2>3. CASE SetFd(p, device[p], NextFile(p)) /\ Goto(p, "loopRecord")
    <3>1. \A q \in Procs \ {p} : AttachmentsStay(q)
      BY <1>4, <2>3, <1>33 DEF Attach, SetFd
    <3>2. /\ backing'[device[p]] = NextFile(p) /\ backing[device[p]] = None
          /\ opened' = [opened EXCEPT ![p] = @ \cup {device[p]}]
      BY <2>1, <2>2, <2>3, <1>31, SetFdKeeps DEF DevicesOK
    <3>3. \A i \in DOMAIN loops[p] : loops[p][i] # device[p] /\ loops[p][i] \in LoopDevices
      <4> TAKE i \in DOMAIN loops[p]
      <4>1. i \in 1 .. Len(FilesOf(p)) /\ backing[loops[p][i]] = FilesOf(p)[i]
        BY <2>1, <1>31, <1>33, CopyFacts DEF AttachedInv, AttachedOf, FilesOf
      <4>2. FilesOf(p)[i] # None
        BY <4>1, <2>1, CopyFacts DEF FilesOf
      <4> QED
        BY <4>1, <4>2, <3>2, <1>33
    <3>4. \A i \in DOMAIN loops[p] :
            loops[p][i] \in opened'[p] /\ backing'[loops[p][i]] = FilesOf(p)[i]
      <4> TAKE i \in DOMAIN loops[p]
      <4>1. i \in 1 .. Len(FilesOf(p)) /\ backing[loops[p][i]] = FilesOf(p)[i] /\ loops[p][i] \in opened[p]
        BY <2>1, <1>31, <1>33, CopyFacts DEF AttachedInv, AttachedOf, FilesOf
      <4>2. FilesOf(p)[i] # None
        BY <4>1, <2>1, CopyFacts DEF FilesOf
      <4>3. loops[p][i] \in opened'[p]
        BY <4>1, <3>2, <1>33
      <4> QED
        BY <4>1, <4>2, <4>3, <3>3, <1>34, OpenStays
    <3>5. AttachedOf(p)'
      BY <1>4, <2>1, <2>3, <3>2, <3>4, <1>33 DEF Attach, AttachedOf, FilesOf, NextFile
    <3> QED
      BY <3>1, <3>5, <1>35 DEF AttachedInv
  <2>4. CASE SetFdBusy(p, device[p]) /\ Goto(p, AttachFailed(p))
    <3>1. \A q \in Procs : AttachmentsStay(q)
      BY <1>4, <2>1, <2>4, <1>33, RollbackLabel DEF Attach, SetFdBusy
    <3> QED
      BY <3>1, <1>35 DEF AttachedInv
  <2> QED
    BY <1>4, <2>3, <2>4 DEF Attach
<1>5. ASSUME NEW p \in Procs, SaveLoopRecord(p) PROVE AttachedInv'
  <2>1. job[p] \in Copies
    BY <1>5, <1>32 DEF SaveLoopRecord
  <2>2. /\ pc[p] = "loopRecord" /\ pc'[p] # "loopRecord"
        /\ loops'[p] = Append(loops[p], device[p]) /\ loops' = [loops EXCEPT ![p] = Append(@, device[p])]
        /\ \A q \in Procs \ {p} : pc'[q] = pc[q]
    BY <1>5, <2>1, <1>31, <1>33, AfterAttach
  <2>3. \A q \in Procs \ {p} : AttachmentsStay(q)
    BY <1>5, <2>2, <1>33 DEF SaveLoopRecord
  <2>4. UNCHANGED <<opened, backing, job>>
    BY <1>5 DEF SaveLoopRecord
  <2>5. AttachedOf(p)
    BY <1>31 DEF AttachedInv
  <2>6. \A i \in DOMAIN loops'[p] :
          \/ i \in DOMAIN loops[p] /\ loops'[p][i] = loops[p][i]
          \/ i = Len(loops[p]) + 1 /\ loops'[p][i] = device[p]
    BY <2>2, <1>33
  <2>7. AttachedOf(p)'
    BY <2>2, <2>4, <2>5, <2>6 DEF AttachedOf, FilesOf
  <2> QED
    BY <2>3, <2>7, <1>35 DEF AttachedInv
<1>6. ASSUME NEW p \in Procs, CreateEmptyDevice(p) PROVE AttachedInv'
  <2>1. \A q \in Procs : AttachmentsStay(q)
    BY <1>6, <1>33, RollbackLabel DEF DmSet, CreateEmptyDevice
  <2> QED
    BY <2>1, <1>35 DEF AttachedInv
<1>7. ASSUME NEW p \in Procs, LoadTable(p) PROVE AttachedInv'
  <2>1. \A q \in Procs : AttachmentsStay(q)
    BY <1>7, <1>33, RollbackLabel DEF DmSet, LoadTable
  <2> QED
    BY <2>1, <1>35 DEF AttachedInv
<1>8. ASSUME NEW p \in Procs, SaveDmRecord(p) PROVE AttachedInv'
  <2>1. \A q \in Procs : AttachmentsStay(q)
    BY <1>8, <1>33 DEF SaveDmRecord
  <2> QED
    BY <2>1, <1>35 DEF AttachedInv
<1>9. ASSUME NEW p \in Procs, Mount(p) PROVE AttachedInv'
  <2>1. \A q \in Procs : AttachmentsStay(q)
    BY <1>9, <1>33, RollbackLabel DEF SetMounts, MountOn, Mount
  <2> QED
    BY <2>1, <1>35 DEF AttachedInv
<1>10. ASSUME NEW p \in Procs, SaveMountRecord(p) PROVE AttachedInv'
  <2>1. \A q \in Procs : AttachmentsStay(q)
    BY <1>10, <1>33, RollbackLabel DEF SaveMountRecord
  <2> QED
    BY <2>1, <1>35 DEF AttachedInv
<1>11. ASSUME NEW p \in Procs, LoopbackRollback(p) PROVE AttachedInv'
  <2>1. \A q \in Procs : AttachmentsStay(q)
    BY <1>11, <1>33 DEF LoopbackRollback
  <2> QED
    BY <2>1, <1>35 DEF AttachedInv
<1>12. ASSUME NEW p \in Procs, Umount(p) PROVE AttachedInv'
  <2>1. \A q \in Procs : AttachmentsStay(q)
    BY <1>12, <1>33 DEF SetMounts, Umount
  <2> QED
    BY <2>1, <1>35 DEF AttachedInv
<1>13. ASSUME NEW p \in Procs, UmountAll(p) PROVE AttachedInv'
  <2>1. \A q \in Procs : AttachmentsStay(q)
    BY <1>13, <1>33 DEF SetMounts, UmountAll
  <2> QED
    BY <2>1, <1>35 DEF AttachedInv
<1>14. ASSUME NEW p \in Procs, ResidualDm(p) PROVE AttachedInv'
  <2>1. \A q \in Procs : AttachmentsStay(q)
    BY <1>14, <1>33 DEF ResidualDm
  <2> QED
    BY <2>1, <1>35 DEF AttachedInv
<1>15. ASSUME NEW p \in Procs, RemoveDm(p) PROVE AttachedInv'
  <2>1. \A q \in Procs : AttachmentsStay(q)
    BY <1>15, <1>33 DEF DmSet, RemoveDm
  <2> QED
    BY <2>1, <1>35 DEF AttachedInv
<1>16. ASSUME NEW p \in Procs, Detach(p) PROVE AttachedInv'
  <2>1. \A q \in Procs : opened[q] \subseteq opened'[q]
    <3>1. \A d : ClrFd(p, d) => opened' = [opened EXCEPT ![p] = @ \cup {d}]
      BY DEF ClrFd
    <3>2. opened' = opened \/ \E d : ClrFd(p, d)
      BY <1>16 DEF Detach
    <3> QED
      BY <3>1, <3>2, <1>33
  <2>2. /\ UNCHANGED <<loops, job>>
        /\ \E l \in {"exit", "removeRecord", "skipRecord"} : pc' = [pc EXCEPT ![p] = l]
        /\ \A q \in Procs \ {p} : device'[q] = device[q]
    BY <1>16, <1>33 DEF Detach
  <2> HIDE <1>16
  <2>3. \A q \in Procs : AttachmentsStay(q)
    BY <2>1, <2>2, <1>33
  <2> QED
    BY <2>3, <1>35 DEF AttachedInv
<1>17. ASSUME NEW p \in Procs, RemoveLoopRecord(p) PROVE AttachedInv'
  <2>1. \A q \in Procs : AttachmentsStay(q)
    BY <1>17, <1>33 DEF RemoveLoopRecord
  <2> QED
    BY <2>1, <1>35 DEF AttachedInv
<1>18. ASSUME NEW p \in Procs, AttachDisk(p) PROVE AttachedInv'
  <2>1. \A q \in Procs : AttachmentsStay(q)
    BY <1>18, <1>33 DEF AttachDisk
  <2> QED
    BY <2>1, <1>35 DEF AttachedInv
<1>19. ASSUME NEW p \in Procs, AddVolumeMountPoint(p) PROVE AttachedInv'
  <2>1. \A q \in Procs : AttachmentsStay(q)
    BY <1>19, <1>33 DEF SetMounts, MountOn, AddVolumeMountPoint
  <2> QED
    BY <2>1, <1>35 DEF AttachedInv
<1>20. ASSUME NEW p \in Procs, DetachDisk(p) PROVE AttachedInv'
  <2>1. \A q \in Procs : AttachmentsStay(q)
    BY <1>20, <1>33 DEF DetachDisk
  <2> QED
    BY <2>1, <1>35 DEF AttachedInv
<1>21. ASSUME NEW p \in Procs, NEW c \in world.copies, StartMount(p, c) PROVE AttachedInv'
  <2>1. \A q \in Procs \ {p} : AttachmentsStay(q)
    BY <1>21, <1>33 DEF StartMount
  <2>2. AttachedOf(p)'
    BY <1>21, <1>31, <1>33 DEF AttachedOf, DeviceInv, DevicesOf, StartMount
  <2> QED
    BY <2>1, <2>2, <1>35 DEF AttachedInv
<1>22. ASSUME NEW p \in Procs, NEW c \in world.copies, StartUmount(p, c) PROVE AttachedInv'
  <2>1. \A q \in Procs \ {p} : AttachmentsStay(q)
    BY <1>22, <1>33 DEF StartUmount
  <2>2. AttachedOf(p)'
    BY <1>22, <1>31, <1>33 DEF AttachedOf, DeviceInv, DevicesOf, StartUmount
  <2> QED
    BY <2>1, <2>2, <1>35 DEF AttachedInv
<1>23. CASE AutoMount
  <2>1. \A q \in Procs : AttachmentsStay(q)
    BY <1>23, <1>33 DEF SetMounts, procVars, AutoMount
  <2> QED
    BY <2>1, <1>35 DEF AttachedInv
<1>24. CASE UNCHANGED mountVars
  <2>1. \A q \in Procs : AttachmentsStay(q)
    BY <1>24, <1>33 DEF mountVars, procVars
  <2> QED
    BY <2>1, <1>35 DEF AttachedInv
<1> QED
  BY <1>1, <1>2, <1>3, <1>4, <1>5, <1>6, <1>7, <1>8, <1>9, <1>10, <1>11, <1>12,
     <1>13, <1>14, <1>15, <1>16, <1>17, <1>18, <1>19, <1>20, <1>21, <1>22, <1>23, <1>24 DEF Next, Proc

-----------------------------------------------------------------------------
(* What is mounted.                                                        *)

\* A mapped device that is mounted keeps its table.
TablesStay == \A n \in DmDevices : Mounted(n) => dmTable'[n] = dmTable[n]

LEMMA MountedHasTable ==
  ASSUME MountsInv, NEW n \in DmDevices, dmTable[n] = None
  PROVE  ~Mounted(n)
<1>1. SUFFICES ASSUME NEW i \in DOMAIN mounts, mounts[i].dev = n PROVE FALSE
  BY DEF Mounted
<1> QED
  BY <1>1 DEF MountsInv, Proper, ShowsFiles

\* Nobody loads, or takes away, the table of a device that is mounted.
LEMMA TablesStep ==
  ASSUME MountInv, [Next]_mountVars
  PROVE  TablesStay
<1>31. CallsOK /\ JobInv /\ DeviceInv /\ NameInv /\ MountsInv
  BY TypeParts DEF MountInv
<1>32. dmTable \in [DmDevices -> {None} \cup Seq(LoopDevices)]
  BY TypeParts DEF MountInv, DevicesOK, TableOK
<1>33. \A n \in DmDevices : dmTable[n] = None => ~Mounted(n)
  BY <1>31, MountedHasTable
<1>1. ASSUME NEW p \in Procs, Exit(p) PROVE TablesStay
  BY <1>1 DEF TablesStay, CloseAll, Exit
<1>2. ASSUME NEW p \in Procs, Crash(p) PROVE TablesStay
  BY <1>2 DEF TablesStay, CloseAll, Crash
<1>3. ASSUME NEW p \in Procs, GetFree(p) PROVE TablesStay
  BY <1>3 DEF TablesStay, GetFree
<1>4. ASSUME NEW p \in Procs, Attach(p) PROVE TablesStay
  BY <1>4 DEF TablesStay, SetFd, SetFdBusy, Attach
<1>5. ASSUME NEW p \in Procs, SaveLoopRecord(p) PROVE TablesStay
  BY <1>5 DEF TablesStay, SaveLoopRecord
<1>6. ASSUME NEW p \in Procs, CreateEmptyDevice(p) PROVE TablesStay
  BY <1>6, <1>32, <1>33 DEF TablesStay, DmSet, FreeNames, CreateEmptyDevice
<1>7. ASSUME NEW p \in Procs, LoadTable(p) PROVE TablesStay
  <2>1. pc[p] = "loadTable" /\ device[p] \in DmDevices
    BY <1>7, <1>31 DEF LoadTable, DeviceInv, DevicesOf
  <2>2. Mapping(p)
    BY <2>1 DEF Mapping
  <2>3. ~Mounted(device[p])
    BY <2>2, <1>31 DEF NameInv, NamedBy
  <2> QED
    BY <1>7, <2>1, <2>3, <1>32 DEF LoadTable, DmSet, TablesStay
<1>8. ASSUME NEW p \in Procs, SaveDmRecord(p) PROVE TablesStay
  BY <1>8 DEF TablesStay, SaveDmRecord
<1>9. ASSUME NEW p \in Procs, Mount(p) PROVE TablesStay
  BY <1>9 DEF TablesStay, SetMounts, MountOn, Mount
<1>10. ASSUME NEW p \in Procs, SaveMountRecord(p) PROVE TablesStay
  BY <1>10 DEF TablesStay, SaveMountRecord
<1>11. ASSUME NEW p \in Procs, LoopbackRollback(p) PROVE TablesStay
  BY <1>11 DEF TablesStay, LoopbackRollback
<1>12. ASSUME NEW p \in Procs, Umount(p) PROVE TablesStay
  BY <1>12 DEF TablesStay, SetMounts, Umount
<1>13. ASSUME NEW p \in Procs, UmountAll(p) PROVE TablesStay
  BY <1>13 DEF TablesStay, SetMounts, UmountAll
<1>14. ASSUME NEW p \in Procs, ResidualDm(p) PROVE TablesStay
  BY <1>14 DEF TablesStay, ResidualDm
<1>15. ASSUME NEW p \in Procs, RemoveDm(p) PROVE TablesStay
  BY <1>15, <1>32, <1>33 DEF TablesStay, DmSet, DmBusy, RemoveDm
<1>16. ASSUME NEW p \in Procs, Detach(p) PROVE TablesStay
  <2>1. \A d : ClrFd(p, d) => dmTable' = dmTable
    BY DEF ClrFd
  <2> QED
    BY <1>16, <2>1 DEF Detach, TablesStay
<1>17. ASSUME NEW p \in Procs, RemoveLoopRecord(p) PROVE TablesStay
  BY <1>17 DEF TablesStay, RemoveLoopRecord
<1>18. ASSUME NEW p \in Procs, AttachDisk(p) PROVE TablesStay
  BY <1>18 DEF TablesStay, AttachDisk
<1>19. ASSUME NEW p \in Procs, AddVolumeMountPoint(p) PROVE TablesStay
  BY <1>19 DEF TablesStay, SetMounts, MountOn, AddVolumeMountPoint
<1>20. ASSUME NEW p \in Procs, DetachDisk(p) PROVE TablesStay
  BY <1>20 DEF TablesStay, DetachDisk
<1>21. ASSUME NEW p \in Procs, NEW c \in world.copies, StartMount(p, c) PROVE TablesStay
  BY <1>21 DEF TablesStay, StartMount
<1>22. ASSUME NEW p \in Procs, NEW c \in world.copies, StartUmount(p, c) PROVE TablesStay
  BY <1>22 DEF TablesStay, StartUmount
<1>23. CASE AutoMount
  BY <1>23 DEF TablesStay, SetMounts, procVars, AutoMount
<1>24. CASE UNCHANGED mountVars
  BY <1>24 DEF TablesStay, procVars, mountVars, procVars
<1> QED
  BY <1>1, <1>2, <1>3, <1>4, <1>5, <1>6, <1>7, <1>8, <1>9, <1>10, <1>11, <1>12,
     <1>13, <1>14, <1>15, <1>16, <1>17, <1>18, <1>19, <1>20, <1>21, <1>22, <1>23, <1>24 DEF Next, Proc

\* A mount that stays shows what it showed.
LEMMA MountStays ==
  ASSUME MountInv, [Next]_mountVars, NEW m,
         \E i \in DOMAIN mounts : mounts[i] = m, (\E j \in DOMAIN mounts : mounts[j] = m)'
  PROVE  Proper(m)'
<1>1. /\ DevicesOK /\ MountsInv /\ FilesStay /\ TablesStay
  BY TypeParts, DevicesStep, TablesStep DEF MountInv
<1>2. Proper(m)
  BY <1>1 DEF MountsInv
<1>3. CASE m.at = m.dev /\ m.dev \notin DmDevices
  BY <1>3 DEF Proper
<1>4. CASE m.at \in Copies /\ ShowsFiles(m.dev, m.at)
  <2>1. Len(Files[m.at]) > 0 /\ \A k \in 1 .. Len(Files[m.at]) : Files[m.at][k] # None
    BY <1>4, CopyFacts
  <2>2. Files[m.at] \in Seq(AllFiles) /\ Len(Files[m.at]) \in Nat
    BY <1>4, CopyFacts
  <2>3. CASE m.dev \in LoopDevices
    <3>1. <<backing[m.dev]>> = Files[m.at]
      BY <1>4, <2>3 DEF ShowsFiles, FilesBehind
    <3>2. backing[m.dev] # None
      BY <3>1, <2>1
    <3>3. InUse(m.dev) /\ InUse(m.dev)'
      BY DEF InUse
    <3>4. backing'[m.dev] = backing[m.dev]
      BY <2>3, <3>2, <3>3, <1>1 DEF FilesStay
    <3>5. m.dev \notin DmDevices
      BY <2>3, DevicesAssumption
    <3> QED
      BY <1>4, <2>3, <3>1, <3>4, <3>5 DEF Proper, ShowsFiles, FilesBehind
  <2>4. CASE m.dev \in DmDevices
    <3>1. m.dev \notin LoopDevices /\ dmTable[m.dev] # None
      BY <1>4, <2>4, DevicesAssumption DEF ShowsFiles
    <3>2. dmTable[m.dev] \in Seq(LoopDevices)
      BY <2>4, <3>1, <1>1 DEF DevicesOK, TableOK
    <3>3. dmTable'[m.dev] = dmTable[m.dev]
      BY <2>4, <1>1 DEF TablesStay, Mounted
    <3>4. [k \in DOMAIN dmTable[m.dev] |-> backing[dmTable[m.dev][k]]] = Files[m.at]
      BY <1>4, <3>1 DEF ShowsFiles, FilesBehind
    <3>5. ASSUME NEW k \in DOMAIN dmTable[m.dev]
          PROVE  backing'[dmTable[m.dev][k]] = backing[dmTable[m.dev][k]]
      <4>1. k \in 1 .. Len(Files[m.at]) /\ backing[dmTable[m.dev][k]] = Files[m.at][k]
        BY <3>4, <3>5, <2>2
      <4>2. backing[dmTable[m.dev][k]] # None
        BY <4>1, <2>1
      <4>3. dmTable[m.dev][k] \in ToSet(dmTable[m.dev]) /\ dmTable[m.dev][k] \in LoopDevices
        BY <3>2, <3>5 DEF ToSet
      <4>4. InUse(dmTable[m.dev][k])
        BY <2>4, <3>1, <4>3 DEF InUse
      <4>5. dmTable[m.dev][k] \in ToSet(dmTable'[m.dev]) /\ dmTable'[m.dev] # None
        BY <3>1, <3>3, <4>3
      <4>6. PICK d \in LoopDevices : d = dmTable[m.dev][k]
        BY <4>3
      <4>7. InUse(d)'
        BY <2>4, <4>5, <4>6 DEF InUse
      <4> QED
        BY <4>2, <4>4, <4>6, <4>7, <1>1 DEF FilesStay
    <3>6. FilesBehind(m.dev) = Files[m.at] /\ [k \in DOMAIN dmTable[m.dev] |-> backing'[dmTable[m.dev][k]]] = Files[m.at]
      BY <3>4, <3>5, <1>4 DEF ShowsFiles
    <3> QED
      BY <1>4, <2>4, <3>1, <3>3, <3>6 DEF Proper, ShowsFiles, FilesBehind
  <2> QED
    BY <1>4, <2>3, <2>4 DEF ShowsFiles
<1> QED
  BY <1>2, <1>3, <1>4 DEF Proper

LEMMA ShrunkMounts ==
  ASSUME MountInv, [Next]_mountVars, MountsShrink
  PROVE  MountsInv'
<1>1. SUFFICES ASSUME NEW j \in DOMAIN mounts' PROVE Proper(mounts[j])'
  BY DEF MountsInv
<1>2. PICK m : m = mounts'[j]
  OBVIOUS
<1>3. (\E i \in DOMAIN mounts : mounts[i] = m) /\ (\E k \in DOMAIN mounts : mounts[k] = m)'
  BY <1>2 DEF MountsShrink
<1>4. Proper(m)'
  BY <1>3, MountStays
<1> QED
  BY <1>2, <1>4 DEF Proper, ShowsFiles, FilesBehind

LEMMA OneMoreMount ==
  ASSUME MountInv, [Next]_mountVars, NEW m, mounts' = Append(mounts, m), Proper(m)'
  PROVE  MountsInv'
<1>1. mounts \in Seq([dev : Devices, at : Devices])
  BY TypeParts DEF MountInv, DevicesOK, MountTableOK
<1>2. SUFFICES ASSUME NEW j \in DOMAIN mounts' PROVE Proper(mounts[j])'
  BY DEF MountsInv
<1>3. CASE j \in DOMAIN mounts
  <2>1. PICK n : n = mounts[j] /\ n = mounts'[j]
    BY <1>1, <1>3
  <2>2. (\E i \in DOMAIN mounts : mounts[i] = n) /\ (\E k \in DOMAIN mounts : mounts[k] = n)'
    BY <2>1, <1>3
  <2>3. Proper(n)'
    BY <2>2, MountStays
  <2> QED
    BY <2>1, <2>3 DEF Proper, ShowsFiles, FilesBehind
<1>4. CASE j \notin DOMAIN mounts
  <2>1. mounts'[j] = m
    BY <1>1, <1>4
  <2> QED
    BY <2>1 DEF Proper, ShowsFiles, FilesBehind
<1> QED
  BY <1>3, <1>4

\* What is mounted on the target of a copy shows the files of the copy.
LEMMA MountsStep ==
  ASSUME MountInv, [Next]_mountVars
  PROVE  MountsInv'
<1>31. DevicesOK /\ CallsOK /\ JobInv /\ DeviceInv /\ NameInv /\ MountsInv /\ AttachedInv'
  BY TypeParts, AttachedStep DEF MountInv
<1>32. \A p \in Procs : pc[p] # "idle" => job[p] \in Copies
  BY <1>31, LabelFormat
<1>33. UNCHANGED mounts => MountsInv'
  BY ShrunkMounts DEF MountsShrink
<1>34. MountTableOK
  BY <1>31 DEF DevicesOK
<1>1. ASSUME NEW p \in Procs, Exit(p) PROVE MountsInv'
  BY <1>1, <1>33 DEF CloseAll, Exit
<1>2. ASSUME NEW p \in Procs, Crash(p) PROVE MountsInv'
  BY <1>2, <1>33 DEF CloseAll, Crash
<1>3. ASSUME NEW p \in Procs, GetFree(p) PROVE MountsInv'
  BY <1>3, <1>33 DEF GetFree
<1>4. ASSUME NEW p \in Procs, Attach(p) PROVE MountsInv'
  <2>1. UNCHANGED mounts
    BY <1>4 DEF Attach, SetFd, SetFdBusy
  <2> QED
    BY <2>1, <1>33
<1>5. ASSUME NEW p \in Procs, SaveLoopRecord(p) PROVE MountsInv'
  BY <1>5, <1>33 DEF SaveLoopRecord
<1>6. ASSUME NEW p \in Procs, CreateEmptyDevice(p) PROVE MountsInv'
  BY <1>6, <1>33 DEF DmSet, CreateEmptyDevice
<1>7. ASSUME NEW p \in Procs, LoadTable(p) PROVE MountsInv'
  BY <1>7, <1>33 DEF DmSet, LoadTable
<1>8. ASSUME NEW p \in Procs, SaveDmRecord(p) PROVE MountsInv'
  BY <1>8, <1>33 DEF SaveDmRecord
<1>9. ASSUME NEW p \in Procs, Mount(p) PROVE MountsInv'
  <2>1. CASE HasMedium(device[p]) /\ MountOn(p, device[p])
    <3>1. /\ pc[p] = "mount" /\ Format[job[p]] # "VHD" /\ job[p] \in Copies
          /\ UNCHANGED <<loops, job, device>>
      BY <1>9, <1>32 DEF Mount
    <3>2. PICK d, c : d = device[p] /\ c = job[p]
      OBVIOUS
    <3>3. mounts' = Append(mounts, [dev |-> d, at |-> c]) /\ UNCHANGED dmTable
      BY <2>1, <3>2 DEF MountOn, SetMounts
    <3>4. /\ loops[p] \in Seq(LoopDevices) /\ Files[c] \in Seq(AllFiles) /\ Len(loops[p]) = Len(Files[c])
          /\ \A i \in DOMAIN loops[p] : backing'[loops[p][i]] = Files[c][i]
      <4>1. Len(loops[p]) = Len(Files[c]) /\ loops[p] \in Seq(LoopDevices)
        BY <3>1, <3>2, <1>31 DEF DeviceInv, DevicesOf, FilesOf, CallsOK, HoldsOK
      <4>2. AttachedOf(p)'
        BY <1>31 DEF AttachedInv
      <4> QED
        BY <3>1, <3>2, <4>1, <4>2, CopyFacts DEF AttachedOf, FilesOf
    <3>5. CASE Len(loops[p]) = 1
      <4>1. d = loops[p][1] /\ d \in LoopDevices /\ d \notin DmDevices
        BY <3>1, <3>2, <3>4, <3>5, <1>31, DevicesAssumption DEF DeviceInv, DevicesOf
      <4>2. <<backing'[d]>> = Files[c]
        <5>1. Len(Files[c]) = 1 /\ Files[c][1] = backing'[d]
          BY <3>4, <3>5, <4>1
        <5>2. Files[c] = <<Files[c][1]>>
          BY <3>4, <5>1
        <5> QED
          BY <5>1, <5>2
      <4>3. Proper([dev |-> d, at |-> c])'
        BY <3>1, <3>2, <4>1, <4>2 DEF Proper, ShowsFiles, FilesBehind
      <4> QED
        BY <3>3, <4>3, OneMoreMount
    <3>6. CASE Len(loops[p]) # 1
      <4>1. d \in DmDevices /\ d \notin LoopDevices
        BY <3>1, <3>2, <3>6, <1>31, DevicesAssumption DEF DeviceInv, DevicesOf
      <4>2. dmTable[d] \in {None, loops[p]}
        BY <3>1, <3>2, <4>1, <1>31 DEF NameInv, Mapping, NamedBy
      <4>3. dmTable'[d] = loops[p] /\ dmTable'[d] # None
        BY <2>1, <3>2, <3>3, <4>1, <4>2 DEF HasMedium
      <4>4. [i \in DOMAIN loops[p] |-> backing'[loops[p][i]]] = Files[c]
        BY <3>4
      <4>5. Proper([dev |-> d, at |-> c])'
        BY <3>1, <3>2, <4>1, <4>3, <4>4 DEF Proper, ShowsFiles, FilesBehind
      <4> QED
        BY <3>3, <4>5, OneMoreMount
    <3> QED
      BY <3>5, <3>6
  <2> QED
    BY <1>9, <2>1, <1>33 DEF Mount
<1>10. ASSUME NEW p \in Procs, SaveMountRecord(p) PROVE MountsInv'
  BY <1>10, <1>33 DEF SaveMountRecord
<1>11. ASSUME NEW p \in Procs, LoopbackRollback(p) PROVE MountsInv'
  BY <1>11, <1>33 DEF LoopbackRollback
<1>12. ASSUME NEW p \in Procs, Umount(p) PROVE MountsInv'
  <2>1. mounts' = TakeOff(job[p]) => MountsShrink
    BY <1>34, FewerMounts DEF TakeOff
  <2> QED
    BY <1>12, <2>1, <1>33, ShrunkMounts DEF Umount, SetMounts
<1>13. ASSUME NEW p \in Procs, UmountAll(p) PROVE MountsInv'
  <2>1. mounts' = MountsLeft(device[p], world.pinned) => MountsShrink
    BY <1>34, FewerMounts DEF MountsLeft
  <2> QED
    BY <1>13, <2>1, <1>33, ShrunkMounts DEF UmountAll, SetMounts
<1>14. ASSUME NEW p \in Procs, ResidualDm(p) PROVE MountsInv'
  BY <1>14, <1>33 DEF ResidualDm
<1>15. ASSUME NEW p \in Procs, RemoveDm(p) PROVE MountsInv'
  BY <1>15, <1>33 DEF DmSet, RemoveDm
<1>16. ASSUME NEW p \in Procs, Detach(p) PROVE MountsInv'
  <2>1. \A d : ClrFd(p, d) => UNCHANGED mounts
    BY DEF ClrFd
  <2>2. UNCHANGED mounts
    BY <1>16, <2>1 DEF Detach
  <2> QED
    BY <2>2, <1>33
<1>17. ASSUME NEW p \in Procs, RemoveLoopRecord(p) PROVE MountsInv'
  BY <1>17, <1>33 DEF RemoveLoopRecord
<1>18. ASSUME NEW p \in Procs, AttachDisk(p) PROVE MountsInv'
  BY <1>18, <1>33 DEF AttachDisk
<1>19. ASSUME NEW p \in Procs, AddVolumeMountPoint(p) PROVE MountsInv'
  <2>1. CASE MountOn(p, job[p])
    <3>1. PICK c : c = job[p] /\ c \notin DmDevices
      BY <1>19, <1>32, CopyFacts DEF AddVolumeMountPoint
    <3>2. mounts' = Append(mounts, [dev |-> c, at |-> c])
      BY <2>1, <3>1 DEF MountOn, SetMounts
    <3>3. Proper([dev |-> c, at |-> c])'
      BY <3>1 DEF Proper
    <3> QED
      BY <3>2, <3>3, OneMoreMount
  <2> QED
    BY <1>19, <2>1, <1>33 DEF AddVolumeMountPoint
<1>20. ASSUME NEW p \in Procs, DetachDisk(p) PROVE MountsInv'
  <2>1. mounts' = Keep({i \in DOMAIN mounts : mounts[i].dev # job[p]}) => MountsShrink
    BY <1>34, FewerMounts
  <2> QED
    BY <1>20, <2>1, <1>33, ShrunkMounts DEF DetachDisk
<1>21. ASSUME NEW p \in Procs, NEW c \in world.copies, StartMount(p, c) PROVE MountsInv'
  BY <1>21, <1>33 DEF StartMount
<1>22. ASSUME NEW p \in Procs, NEW c \in world.copies, StartUmount(p, c) PROVE MountsInv'
  BY <1>22, <1>33 DEF StartUmount
<1>23. CASE AutoMount
  <2>1. PICK d \in world.autoMounted : mounts' = Append(mounts, [dev |-> d, at |-> d])
    BY <1>23 DEF AutoMount, SetMounts
  <2>2. d \notin DmDevices
    BY <1>31, MountAssumption, DevicesAssumption DEF CallsOK, CursorOK
  <2>3. Proper([dev |-> d, at |-> d])'
    BY <2>2 DEF Proper
  <2> QED
    BY <2>1, <2>3, OneMoreMount
<1>24. CASE UNCHANGED mountVars
  BY <1>24, <1>33 DEF mountVars, procVars
<1> QED
  BY <1>1, <1>2, <1>3, <1>4, <1>5, <1>6, <1>7, <1>8, <1>9, <1>10, <1>11, <1>12,
     <1>13, <1>14, <1>15, <1>16, <1>17, <1>18, <1>19, <1>20, <1>21, <1>22, <1>23, <1>24 DEF Next, Proc

-----------------------------------------------------------------------------
(* Names of dm devices.                                                    *)

\* What keeps a process's dm device its own: it goes on as it was, nobody else
\* takes the name, tables only go, and the device is not mounted.
MappingStays ==
  \A q \in Procs : Mapping(q)' =>
    Mapping(q) /\ loops'[q] = loops[q] /\ (pc[q] = "loadTable" => pc'[q] = "loadTable")
NamesStay == \A q \in Procs : device'[q] \in DmDevices => device'[q] = device[q]
TablesGo == \A n \in DmDevices : dmTable'[n] \in {None, dmTable[n]}
UnmountedStays == \A q \in Procs : Mapping(q)' /\ Mounted(device[q])' => Mounted(device[q])

LEMMA NameFrame ==
  ASSUME MountInv, MappingStays, NamesStay, TablesGo, UnmountedStays
  PROVE  NameInv'
<1>1. SUFFICES ASSUME NEW q \in Procs, Mapping(q)' PROVE NamedBy(q)'
  BY DEF NameInv
<1>2. /\ Mapping(q) /\ loops'[q] = loops[q] /\ (pc[q] = "loadTable" => pc'[q] = "loadTable")
      /\ ~Mounted(device[q])'
  <2>1. Mapping(q)
    BY <1>1 DEF MappingStays
  <2>2. ~Mounted(device[q])
    BY <2>1 DEF MountInv, NameInv, NamedBy
  <2> QED
    BY <1>1, <2>1, <2>2 DEF MappingStays, UnmountedStays
<1>3. device'[q] = device[q] /\ device[q] \in DmDevices
  BY <1>1 DEF NamesStay, Mapping
<1>4. /\ \A r \in Procs : device[r] = device[q] => r = q
      /\ pc[q] # "loadTable" => dmTable[device[q]] \in {None, loops[q]}
  BY <1>2 DEF MountInv, NameInv, NamedBy
<1>5. \A r \in Procs : device'[r] = device'[q] => r = q
  BY <1>3, <1>4 DEF NamesStay
<1>6. pc'[q] # "loadTable" => dmTable'[device'[q]] \in {None, loops'[q]}
  BY <1>2, <1>3, <1>4 DEF TablesGo
<1> QED
  BY <1>2, <1>5, <1>6 DEF NamedBy

LEMMA ShrunkUnmounted ==
  ASSUME MountsShrink, NamesStay
  PROVE  UnmountedStays
<1>1. SUFFICES ASSUME NEW q \in Procs, Mapping(q)', Mounted(device[q])' PROVE Mounted(device[q])
  BY DEF UnmountedStays
<1>2. device'[q] = device[q]
  BY <1>1 DEF NamesStay, Mapping
<1> QED
  BY <1>1, <1>2 DEF Mounted, MountsShrink

\* A dm device that is not mounted yet is its process's own.
LEMMA NameStep ==
  ASSUME MountInv, [Next]_mountVars
  PROVE  NameInv'
<1>31. DevicesOK /\ CallsOK /\ JobInv /\ DeviceInv /\ NameInv /\ MountsInv /\ RecordsOK
  BY TypeParts DEF MountInv
<1>32. \A p \in Procs : pc[p] # "idle" => job[p] \in Copies
  BY <1>31, LabelFormat
<1>33. CursorOK /\ HoldsOK /\ MountTableOK /\ TableOK
  BY <1>31 DEF CallsOK, DevicesOK
<1>34. MappingStays /\ NamesStay /\ TablesGo /\ UnmountedStays => NameInv'
  BY NameFrame
<1>35. MappingStays /\ NamesStay /\ UNCHANGED <<dmTable, mounts>> => NameInv'
  <2>1. UNCHANGED <<dmTable, mounts>> => TablesGo /\ MountsShrink
    BY DEF TablesGo, MountsShrink
  <2> QED
    BY <2>1, <1>34, ShrunkUnmounted
<1>36. MappingStays /\ NamesStay /\ UNCHANGED dmTable /\ MountsShrink => NameInv'
  <2>1. UNCHANGED dmTable => TablesGo
    BY DEF TablesGo
  <2> QED
    BY <2>1, <1>34, ShrunkUnmounted
<1> USE DEF CursorOK, HoldsOK
<1>1. ASSUME NEW p \in Procs, Exit(p) PROVE NameInv'
  <2>1. MappingStays
    BY <1>1, <1>33 DEF Exit, MappingStays, Mapping, Forget
  <2>2. NamesStay
    BY <1>1, <1>33, DevicesAssumption DEF Exit, NamesStay, Forget
  <2>3. UNCHANGED <<dmTable, mounts>>
    BY <1>1 DEF Exit, CloseAll
  <2> QED
    BY <2>1, <2>2, <2>3, <1>35
<1>2. ASSUME NEW p \in Procs, Crash(p) PROVE NameInv'
  <2>1. MappingStays
    BY <1>2, <1>33 DEF Crash, MappingStays, Mapping, Forget
  <2>2. NamesStay
    BY <1>2, <1>33, DevicesAssumption DEF Crash, NamesStay, Forget
  <2>3. UNCHANGED <<dmTable, mounts>>
    BY <1>2 DEF Crash, CloseAll
  <2> QED
    BY <2>1, <2>2, <2>3, <1>35
<1>3. ASSUME NEW p \in Procs, GetFree(p) PROVE NameInv'
  <2>1. FreeDevices # {} => FirstOf(FreeDevices) \in LoopDevices
    <3>1. FreeDevices \subseteq LoopDevices /\ FreeDevices \subseteq Nat
      BY DevicesAssumption DEF FreeDevices, FreeLoopDevices
    <3> QED
      BY <3>1, FirstOfExists
  <2>2. MappingStays
    BY <1>3, <1>33, RollbackLabel DEF GetFree, MappingStays, Mapping
  <2>3. NamesStay
    BY <1>3, <2>1, <1>33, DevicesAssumption DEF GetFree, NamesStay
  <2> QED
    BY <1>3, <2>2, <2>3, <1>35 DEF GetFree
<1>4. ASSUME NEW p \in Procs, Attach(p) PROVE NameInv'
  <2>1. MappingStays
    BY <1>4, <1>33, RollbackLabel DEF Attach, MappingStays, Mapping
  <2>2. NamesStay
    BY <1>4, <1>33 DEF Attach, NamesStay
  <2>3. UNCHANGED <<dmTable, mounts>>
    BY <1>4 DEF Attach, SetFd, SetFdBusy
  <2> QED
    BY <2>1, <2>2, <2>3, <1>35
<1>5. ASSUME NEW p \in Procs, SaveLoopRecord(p) PROVE NameInv'
  <2>1. job[p] \in Copies
    BY <1>5, <1>32 DEF SaveLoopRecord
  <2>2. /\ device[p] \in LoopDevices /\ loops' = [loops EXCEPT ![p] = Append(@, device[p])]
        /\ \E l \in {"getFree", "mount", "createDm"} : pc' = [pc EXCEPT ![p] = l]
    BY <1>5, <2>1, <1>31, <1>33, AfterAttach
  <2>3. UNCHANGED <<job, device, dmTable, mounts>>
    BY <1>5 DEF SaveLoopRecord
  <2>4. MappingStays
    BY <2>2, <2>3, <1>33, DevicesAssumption DEF MappingStays, Mapping
  <2>5. NamesStay
    BY <2>3 DEF NamesStay
  <2> QED
    BY <2>3, <2>4, <2>5, <1>35
<1>6. ASSUME NEW p \in Procs, CreateEmptyDevice(p) PROVE NameInv'
  <2>1. CASE DevicesUnchanged /\ Goto(p, Rollback(p)) /\ UNCHANGED device
    <3>1. MappingStays
      BY <1>6, <2>1, <1>33, RollbackLabel DEF CreateEmptyDevice, MappingStays, Mapping
    <3>2. NamesStay
      BY <2>1 DEF NamesStay
    <3> QED
      BY <2>1, <3>1, <3>2, <1>35
  <2>2. ASSUME NEW n \in FreeNames, DmSet(n, <<>>), device' = [device EXCEPT ![p] = n],
               Goto(p, "loadTable")
        PROVE  NameInv'
    <3>1. n \in DmDevices /\ dmTable[n] = None /\ \A q \in Procs : device[q] # n
      BY <2>2 DEF FreeNames
    <3>2. dmTable' = [dmTable EXCEPT ![n] = <<>>] /\ UNCHANGED mounts
      BY <2>2 DEF DmSet
    <3>3. UNCHANGED <<loops, job>>
      BY <1>6, <2>2 DEF CreateEmptyDevice
    <3>4. NamedBy(p)'
      <4>1. ~Mounted(n)
        BY <3>1, <1>31, MountedHasTable
      <4>2. device'[p] = n /\ pc'[p] = "loadTable" /\ \A r \in Procs : r # p => device'[r] = device[r]
        BY <2>2, <1>33
      <4> QED
        BY <3>1, <3>2, <4>1, <4>2 DEF NamedBy, Mounted
    <3>5. ASSUME NEW q \in Procs, q # p, Mapping(q)' PROVE NamedBy(q)'
      <4>1. Mapping(q) /\ device'[q] = device[q] /\ pc'[q] = pc[q] /\ loops'[q] = loops[q]
        BY <2>2, <3>3, <3>5, <1>33 DEF Mapping
      <4>2. NamedBy(q)
        BY <4>1, <1>31 DEF NameInv
      <4>3. dmTable'[device[q]] = dmTable[device[q]]
        BY <3>1, <3>2, <4>1, <1>33 DEF Mapping, TableOK
      <4> QED
        BY <2>2, <3>1, <3>2, <4>1, <4>2, <4>3, <1>33 DEF NamedBy, Mounted
    <3> QED
      BY <3>4, <3>5 DEF NameInv
  <2> QED
    BY <1>6, <2>1, <2>2 DEF CreateEmptyDevice
<1>7. ASSUME NEW p \in Procs, LoadTable(p) PROVE NameInv'
  <2>1. pc[p] = "loadTable" /\ device[p] \in DmDevices /\ UNCHANGED <<loops, device, job>>
    BY <1>7, <1>31 DEF LoadTable, DeviceInv, DevicesOf
  <2>2. NamedBy(p)
    <3>1. Mapping(p)
      BY <2>1 DEF Mapping
    <3> QED
      BY <3>1, <1>31 DEF NameInv
  <2>3. /\ UNCHANGED mounts
        /\ \A n \in DmDevices \ {device[p]} : dmTable'[n] = dmTable[n]
        /\ \/ pc' = [pc EXCEPT ![p] = "dmRecord"] /\ dmTable'[device[p]] = loops[p]
           \/ pc' = [pc EXCEPT ![p] = Rollback(p)]
    BY <1>7, <2>1, <1>33 DEF LoadTable, DmSet, TableOK
  <2>4. Mapping(p)' => NamedBy(p)'
    BY <2>1, <2>2, <2>3, <1>33, RollbackLabel DEF NamedBy, Mapping, Mounted
  <2>5. ASSUME NEW q \in Procs, q # p, Mapping(q)' PROVE NamedBy(q)'
    <3>1. Mapping(q) /\ pc'[q] = pc[q]
      BY <2>1, <2>3, <2>5, <1>33 DEF Mapping
    <3>2. NamedBy(q)
      BY <3>1, <1>31 DEF NameInv
    <3>3. device[q] \in DmDevices \ {device[p]}
      BY <2>1, <2>5, <3>1, <2>2 DEF Mapping, NamedBy
    <3> QED
      BY <2>1, <2>3, <3>1, <3>2, <3>3 DEF NamedBy, Mounted
  <2> QED
    BY <2>4, <2>5 DEF NameInv
<1>8. ASSUME NEW p \in Procs, SaveDmRecord(p) PROVE NameInv'
  <2>1. MappingStays
    BY <1>8, <1>33 DEF SaveDmRecord, MappingStays, Mapping
  <2>2. NamesStay
    BY <1>8, <1>33 DEF SaveDmRecord, NamesStay
  <2>3. UNCHANGED <<dmTable, mounts>>
    BY <1>8 DEF SaveDmRecord
  <2> QED
    BY <2>1, <2>2, <2>3, <1>35
<1>9. ASSUME NEW p \in Procs, Mount(p) PROVE NameInv'
  <2>1. MappingStays
    BY <1>9, <1>33, RollbackLabel DEF Mount, MappingStays, Mapping
  <2>2. NamesStay
    BY <1>9, <1>33 DEF Mount, NamesStay
  <2>3. TablesGo /\ UNCHANGED dmTable
    BY <1>9 DEF Mount, SetMounts, MountOn, TablesGo
  <2>4. ASSUME NEW q \in Procs, Mapping(q)', Mounted(device[q])' PROVE Mounted(device[q])
    <3>1. device'[q] = device[q] /\ device[q] \in DmDevices /\ Mapping(q) /\ (q = p => UNCHANGED mounts)
      BY RollbackLabel, <2>1, <2>2, <2>4, <1>33, <1>9 DEF Mount, NamesStay, MappingStays, Mapping
    <3>2. q # p => device[q] # device[p]
      BY <3>1, <1>31 DEF NameInv, NamedBy
    <3>3. UNCHANGED mounts \/ mounts' = Append(mounts, [dev |-> device[p], at |-> job[p]])
      BY <1>9 DEF Mount, SetMounts, MountOn
    <3>4. CASE UNCHANGED mounts
      BY <2>4, <3>1, <3>4 DEF Mounted
    <3>5. CASE mounts' = Append(mounts, [dev |-> device[p], at |-> job[p]])
      <4>1. CASE q = p
        BY <2>4, <3>1, <4>1 DEF Mounted
      <4>2. CASE q # p
        <5>1. PICK j \in DOMAIN mounts' : mounts'[j].dev = device[q]
          BY <2>4, <3>1 DEF Mounted
        <5>2. j \in DOMAIN mounts /\ mounts[j].dev = device[q]
          BY <5>1, <3>2, <3>5, <4>2, <1>33 DEF MountTableOK
        <5> QED
          BY <5>2 DEF Mounted
      <4> QED
        BY <4>1, <4>2
    <3> QED
      BY <3>3, <3>4, <3>5
  <2>5. UnmountedStays
    BY <2>4 DEF UnmountedStays
  <2> QED
    BY <2>1, <2>2, <2>3, <2>5, <1>34
<1>10. ASSUME NEW p \in Procs, SaveMountRecord(p) PROVE NameInv'
  <2>1. MappingStays
    BY <1>10, <1>33, RollbackLabel DEF SaveMountRecord, MappingStays, Mapping
  <2>2. NamesStay
    BY <1>10, <1>33 DEF SaveMountRecord, NamesStay
  <2>3. UNCHANGED <<dmTable, mounts>>
    BY <1>10 DEF SaveMountRecord
  <2> QED
    BY <2>1, <2>2, <2>3, <1>35
<1>11. ASSUME NEW p \in Procs, LoopbackRollback(p) PROVE NameInv'
  <2>1. MappingStays
    BY <1>11, <1>33 DEF LoopbackRollback, MappingStays, Mapping
  <2>2. NamesStay
    BY <1>11, <1>33 DEF LoopbackRollback, NamesStay
  <2>3. UNCHANGED <<dmTable, mounts>>
    BY <1>11 DEF LoopbackRollback
  <2> QED
    BY <2>1, <2>2, <2>3, <1>35
<1>12. ASSUME NEW p \in Procs, Umount(p) PROVE NameInv'
  <2>1. MappingStays
    BY <1>12, <1>33 DEF Umount, MappingStays, Mapping
  <2>2. NamesStay
    BY <1>12, <1>33 DEF Umount, NamesStay
  <2>3. mounts' = TakeOff(job[p]) => MountsShrink
    BY <1>33, FewerMounts DEF TakeOff
  <2>4. UNCHANGED mounts => MountsShrink
    BY DEF MountsShrink
  <2>5. UNCHANGED dmTable /\ MountsShrink
    BY <1>12, <2>3, <2>4 DEF Umount, SetMounts
  <2> QED
    BY <2>1, <2>2, <2>5, <1>36
<1>13. ASSUME NEW p \in Procs, UmountAll(p) PROVE NameInv'
  <2>1. MappingStays
    BY <1>13, <1>33 DEF UmountAll, MappingStays, Mapping
  <2>2. NamesStay
    BY <1>13, <1>33 DEF UmountAll, NamesStay
  <2>3. mounts' = MountsLeft(device[p], world.pinned) => MountsShrink
    BY <1>33, FewerMounts DEF MountsLeft
  <2>4. UNCHANGED mounts => MountsShrink
    BY DEF MountsShrink
  <2>5. UNCHANGED dmTable /\ MountsShrink
    BY <1>13, <2>3, <2>4 DEF UmountAll, SetMounts
  <2> QED
    BY <2>1, <2>2, <2>5, <1>36
<1>14. ASSUME NEW p \in Procs, ResidualDm(p) PROVE NameInv'
  <2>1. MappingStays
    BY <1>14, <1>33 DEF ResidualDm, MappingStays, Mapping
  <2>2. NamesStay
    BY <1>14, <1>33 DEF ResidualDm, NamesStay
  <2>3. UNCHANGED <<dmTable, mounts>>
    BY <1>14 DEF ResidualDm
  <2> QED
    BY <2>1, <2>2, <2>3, <1>35
<1>15. ASSUME NEW p \in Procs, RemoveDm(p) PROVE NameInv'
  <2>1. MappingStays
    BY <1>15, <1>33 DEF RemoveDm, MappingStays, Mapping
  <2>2. NamesStay
    BY <1>15, <1>33 DEF RemoveDm, NamesStay
  <2>3. TablesGo /\ UNCHANGED mounts
    BY <1>15, <1>33 DEF RemoveDm, DmSet, TablesGo, TableOK
  <2>4. MountsShrink
    BY <2>3 DEF MountsShrink
  <2>5. UnmountedStays
    BY <2>2, <2>4, ShrunkUnmounted
  <2> QED
    BY <2>1, <2>2, <2>3, <2>5, <1>34
<1>16. ASSUME NEW p \in Procs, Detach(p) PROVE NameInv'
  <2>1. residue[p] \subseteq LoopDevices
    BY <1>16, <1>31 DEF Detach, DeviceInv, DevicesOf
  <2>2. /\ \E l \in {"exit", "removeRecord", "skipRecord"} : pc' = [pc EXCEPT ![p] = l]
        /\ device' = device \/ \E d \in residue[p] : device' = [device EXCEPT ![p] = d]
        /\ UNCHANGED <<job, loops>>
    BY <1>16 DEF Detach
  <2>3. \A d : ClrFd(p, d) => UNCHANGED <<dmTable, mounts>>
    BY DEF ClrFd
  <2>4. UNCHANGED <<dmTable, mounts>>
    BY <1>16, <2>3 DEF Detach
  <2>5. NamesStay
    BY <2>1, <2>2, <1>33, DevicesAssumption DEF NamesStay
  <2>6. MappingStays
    BY <2>2, <2>5, <1>33 DEF MappingStays, NamesStay, Mapping
  <2> QED
    BY <2>4, <2>5, <2>6, <1>35
<1>17. ASSUME NEW p \in Procs, RemoveLoopRecord(p) PROVE NameInv'
  <2>1. MappingStays
    BY <1>17, <1>33 DEF RemoveLoopRecord, MappingStays, Mapping
  <2>2. NamesStay
    BY <1>17, <1>33 DEF RemoveLoopRecord, NamesStay
  <2>3. UNCHANGED <<dmTable, mounts>>
    BY <1>17 DEF RemoveLoopRecord
  <2> QED
    BY <2>1, <2>2, <2>3, <1>35
<1>18. ASSUME NEW p \in Procs, AttachDisk(p) PROVE NameInv'
  <2>1. MappingStays
    BY <1>18, <1>33, <1>31, LabelFormat DEF AttachDisk, MappingStays, Mapping
  <2>2. NamesStay
    BY <1>18, <1>33 DEF AttachDisk, NamesStay
  <2>3. UNCHANGED <<dmTable, mounts>>
    BY <1>18 DEF AttachDisk
  <2> QED
    BY <2>1, <2>2, <2>3, <1>35
<1>19. ASSUME NEW p \in Procs, AddVolumeMountPoint(p) PROVE NameInv'
  <2>1. MappingStays
    BY <1>19, <1>33 DEF AddVolumeMountPoint, MappingStays, Mapping
  <2>2. NamesStay
    BY <1>19, <1>33 DEF AddVolumeMountPoint, NamesStay
  <2>3. TablesGo /\ UNCHANGED dmTable
    BY <1>19 DEF AddVolumeMountPoint, SetMounts, MountOn, TablesGo
  <2>4. ASSUME NEW q \in Procs, Mapping(q)', Mounted(device[q])' PROVE Mounted(device[q])
    <3>1. device'[q] = device[q] /\ device[q] \in DmDevices /\ Mapping(q)
      BY <2>1, <2>2, <2>4, <1>33, <1>19 DEF AddVolumeMountPoint, NamesStay, MappingStays, Mapping
    <3>2. device[q] # job[p]
      BY <1>19, <3>1, <1>32, CopyFacts DEF AddVolumeMountPoint
    <3>3. UNCHANGED mounts \/ mounts' = Append(mounts, [dev |-> job[p], at |-> job[p]])
      BY <1>19 DEF AddVolumeMountPoint, SetMounts, MountOn, deviceVars
    <3>4. PICK j \in DOMAIN mounts' : mounts'[j].dev = device[q]
      BY <2>4, <3>1 DEF Mounted
    <3>5. CASE UNCHANGED mounts
      BY <3>4, <3>5 DEF Mounted
    <3>6. CASE mounts' = Append(mounts, [dev |-> job[p], at |-> job[p]])
      <4>1. j \in DOMAIN mounts /\ mounts[j].dev = device[q]
        BY <3>2, <3>4, <3>6, <1>33 DEF MountTableOK
      <4> QED
        BY <4>1 DEF Mounted
    <3> QED
      BY <3>3, <3>5, <3>6
  <2>5. UnmountedStays
    BY <2>4 DEF UnmountedStays
  <2> QED
    BY <2>1, <2>2, <2>3, <2>5, <1>34
<1>20. ASSUME NEW p \in Procs, DetachDisk(p) PROVE NameInv'
  <2>1. MappingStays
    BY <1>20, <1>33 DEF DetachDisk, MappingStays, Mapping
  <2>2. NamesStay
    BY <1>20, <1>33 DEF DetachDisk, NamesStay
  <2>3. mounts' = Keep({i \in DOMAIN mounts : mounts[i].dev # job[p]}) => MountsShrink
    BY <1>33, FewerMounts
  <2>4. UNCHANGED mounts => MountsShrink
    BY DEF MountsShrink
  <2>5. UNCHANGED dmTable /\ MountsShrink
    BY <1>20, <2>3, <2>4 DEF DetachDisk
  <2> QED
    BY <2>1, <2>2, <2>5, <1>36
<1>21. ASSUME NEW p \in Procs, NEW c \in world.copies, StartMount(p, c) PROVE NameInv'
  <2>1. MappingStays
    BY <1>21, <1>33 DEF StartMount, MappingStays, Mapping
  <2>2. NamesStay
    BY <1>21 DEF StartMount, NamesStay
  <2> QED
    BY <1>21, <2>1, <2>2, <1>35 DEF StartMount
<1>22. ASSUME NEW p \in Procs, NEW c \in world.copies, StartUmount(p, c) PROVE NameInv'
  <2>1. c \in Copies /\ mountRecord[c] \in Copies \cup LoopDevices
    BY <1>22, <1>31, WorldCopies DEF StartUmount, RecordsOK
  <2>2. mountRecord[c] \notin DmDevices
    BY <2>1, CopyFacts, DevicesAssumption
  <2>3. MappingStays
    BY <1>22, <1>33 DEF StartUmount, MappingStays, Mapping
  <2>4. NamesStay
    BY <1>22, <2>2, <1>33 DEF StartUmount, NamesStay
  <2> QED
    BY <1>22, <2>3, <2>4, <1>35 DEF StartUmount
<1>23. CASE AutoMount
  <2>1. PICK d \in world.autoMounted : SetMounts(Append(mounts, [dev |-> d, at |-> d]))
    BY <1>23 DEF AutoMount
  <2>2. d \notin DmDevices
    BY <1>31, MountAssumption, DevicesAssumption DEF CallsOK, CursorOK
  <2>3. MappingStays /\ NamesStay
    BY <1>23 DEF AutoMount, procVars, MappingStays, NamesStay, Mapping
  <2>4. TablesGo
    BY <2>1 DEF SetMounts, TablesGo
  <2>5. ASSUME NEW q \in Procs, Mapping(q)', Mounted(device[q])' PROVE Mounted(device[q])
    <3>1. device'[q] = device[q] /\ device[q] # d
      BY <2>2, <2>3, <2>5 DEF NamesStay, Mapping
    <3> QED
      BY <2>1, <2>5, <3>1, <1>33 DEF SetMounts, Mounted, MountTableOK
  <2>6. UnmountedStays
    BY <2>5 DEF UnmountedStays
  <2> QED
    BY <2>3, <2>4, <2>6, <1>34
<1>24. CASE UNCHANGED mountVars
  <2>1. MappingStays
    BY <1>24, <1>33 DEF MappingStays, Mapping, mountVars, procVars
  <2>2. NamesStay
    BY <1>24, <1>33 DEF NamesStay, mountVars, procVars
  <2>3. UNCHANGED <<dmTable, mounts>>
    BY <1>24 DEF procVars, mountVars
  <2> QED
    BY <2>1, <2>2, <2>3, <1>35
<1> QED
  BY <1>1, <1>2, <1>3, <1>4, <1>5, <1>6, <1>7, <1>8, <1>9, <1>10, <1>11, <1>12,
     <1>13, <1>14, <1>15, <1>16, <1>17, <1>18, <1>19, <1>20, <1>21, <1>22, <1>23, <1>24 DEF Next, Proc

-----------------------------------------------------------------------------
(* The invariant holds.                                                    *)

LEMMA MountInvInit == Init => MountInv
<1> SUFFICES ASSUME Init PROVE MountInv
  OBVIOUS
<1>1. world \in Worlds /\ world.maxFaults \in Nat /\ MaxUmountRetry \in Nat
  BY MountAssumption DEF Init
<1>2. DevicesOK
  BY DEF Init, DevicesOK, BackingOK, AutoclearOK, OpenedOK, TableOK, MountTableOK, Devices
<1>3. RecordsOK
  BY DEF Init, RecordsOK
<1>4. CursorOK /\ HoldsOK
  BY DEF Init, CursorOK, HoldsOK, Labels
<1>5. CountsOK
  BY <1>1 DEF Init, CountsOK
<1>6. MountTypeOK
  BY <1>2, <1>3, <1>4, <1>5, TypeParts DEF CallsOK
<1>7. JobInv
  BY DEF Init, JobInv
<1>8. MountRecordInv
  BY DEF Init, MountRecordInv
<1>9. DeviceInv
  BY DEF Init, DeviceInv, DevicesOf
<1>10. AttachedInv
  BY DEF Init, AttachedInv, AttachedOf
<1>11. NameInv
  BY DEF Init, NameInv, Mapping
<1>12. MountsInv
  BY DevicesAssumption DEF Init, MountsInv, Proper
<1> QED
  BY <1>6, <1>7, <1>8, <1>9, <1>10, <1>11, <1>12 DEF MountInv

LEMMA MountInvStep == MountInv /\ [Next]_mountVars => MountInv'
<1> SUFFICES ASSUME MountInv, [Next]_mountVars PROVE MountInv'
  OBVIOUS
<1>1. MountTypeOK'
  BY TypesStep
<1>2. JobInv' /\ MountRecordInv'
  BY JobStep, MountRecordStep
<1>3. DeviceInv' /\ AttachedInv'
  BY DeviceStep, AttachedStep
<1>4. NameInv' /\ MountsInv'
  BY NameStep, MountsStep
<1> QED
  BY <1>1, <1>2, <1>3, <1>4 DEF MountInv

LEMMA MountInvHolds == Spec => []MountInv
BY MountInvInit, MountInvStep, PTL DEF Spec

\* The variables stay within their types: no process goes on with a device it
\* never got, and no step records, maps or mounts what is no device.
THEOREM MountTypeCorrect == Spec => []MountTypeOK
<1>1. MountInv => MountTypeOK
  BY DEF MountInv
<1> QED
  BY <1>1, MountInvHolds, PTL

\* What is mounted on the target of a copy shows the files of that copy,
\* whatever other processes attach, detach, roll back or crash in the meantime.
THEOREM TargetsShowTheirFiles == Spec => []MountsOwnFiles
<1>1. MountInv => MountsOwnFiles
  <2> SUFFICES ASSUME MountInv, NEW i \in DOMAIN mounts,
                      mounts[i].at \in Copies, mounts[i].dev # mounts[i].at
               PROVE  FilesBehind(mounts[i].dev) = Files[mounts[i].at]
    BY DEF MountsOwnFiles
  <2> QED
    BY DEF MountInv, MountsInv, Proper, ShowsFiles
<1> QED
  BY <1>1, MountInvHolds, PTL

-----------------------------------------------------------------------------
(* What no record names.                                                   *)

\* Nothing outside D is attached, or loses what names it: devices, records,
\* and processes about to write a record.
TrackedDevices(D) ==
  /\ NoneGets(LoopDevices \ D)
  /\ \A n \in DmDevices \ D : dmTable'[n] # None => dmTable[n] # None
  /\ disks' \subseteq disks \cup D
TrackedRecords(D) ==
  \A c \in Copies :
    /\ \A d \in loopRecords[c] \ D :
         \/ d \in loopRecords'[c]
         \/ \E p \in Procs : pc[p] = "removeRecord" /\ job[p] = c /\ device[p] = d
    /\ dmRecords[c] \ D \subseteq dmRecords'[c]
    /\ mountRecord[c] = c /\ c \notin D => mountRecord'[c] = c
TrackedBy(q, D) ==
  /\ pc[q] = "loopRecord" /\ device[q] \notin D => pc'[q] = "loopRecord" /\ device'[q] = device[q]
  /\ pc'[q] = "removeRecord" /\ device'[q] \notin D =>
       pc[q] = "removeRecord" /\ job'[q] = job[q] /\ device'[q] = device[q]
  /\ pc[q] \in {"loadTable", "dmRecord"} /\ device[q] \notin D =>
       pc'[q] \in {"loadTable", "dmRecord"} /\ device'[q] = device[q]
  /\ pc[q] = "writeRecord" /\ job[q] \notin D => pc'[q] = "writeRecord" /\ job'[q] = job[q]
  /\ pc'[q] = "attachDisk" /\ job'[q] \notin D => pc[q] = "attachDisk" /\ job'[q] = job[q]
TrackedProcs(D) == \A q \in Procs : TrackedBy(q, D)
Tracked(D) == TrackedDevices(D) /\ TrackedRecords(D) /\ TrackedProcs(D)

LEMMA TrackedLost ==
  ASSUME NEW D, Tracked(D), disks \subseteq Copies, disks' \subseteq Copies
  PROVE  Lost' \subseteq Lost \cup D
<1>1. \A d \in LoopDevices \ D : d \in LostLoops' => d \in LostLoops
  <2> SUFFICES ASSUME NEW d \in LoopDevices \ D, d \in LostLoops' PROVE d \in LostLoops
    OBVIOUS
  <2>1. backing[d] # None /\ ~autoclear[d]
    BY DEF Tracked, TrackedDevices, NoneGets, LostLoops
  <2>2. \A p \in Procs : pc[p] = "loopRecord" => device[p] # d
    BY DEF Tracked, TrackedProcs, TrackedBy, LostLoops
  <2>3. ASSUME NEW c \in Copies, d \in loopRecords[c]
        PROVE  \E p \in Procs : pc[p] = "removeRecord" /\ job[p] = c /\ device[p] = d
    <3>1. CASE d \in loopRecords'[c]
      <4>1. PICK p \in Procs : pc'[p] = "removeRecord" /\ job'[p] = c /\ device'[p] = d
        BY <3>1 DEF LostLoops
      <4> QED
        BY <4>1 DEF Tracked, TrackedProcs, TrackedBy
    <3>2. CASE d \notin loopRecords'[c]
      BY <2>3, <3>2 DEF Tracked, TrackedRecords
    <3> QED
      BY <3>1, <3>2
  <2> QED
    BY <2>1, <2>2, <2>3 DEF LostLoops
<1>2. \A n \in DmDevices \ D : n \in LostDms' => n \in LostDms
  BY DEF Tracked, TrackedDevices, TrackedRecords, TrackedProcs, TrackedBy, LostDms
<1>3. \A c \in Copies \ D : c \in LostDisks' => c \in LostDisks
  <2> SUFFICES ASSUME NEW c \in Copies \ D, c \in LostDisks' PROVE c \in LostDisks
    OBVIOUS
  <2>1. mountRecord[c] # c
    BY DEF Tracked, TrackedRecords, LostDisks
  <2>2. c \in disks \/ Attaching(c)
    BY DEF Tracked, TrackedDevices, TrackedProcs, TrackedBy, LostDisks, Attaching
  <2>3. \A p \in Procs : pc[p] = "writeRecord" => job[p] # c
    BY DEF Tracked, TrackedProcs, TrackedBy, LostDisks
  <2> QED
    BY <2>1, <2>2, <2>3 DEF LostDisks
<1>4. LostLoops' \subseteq LoopDevices /\ LostDms' \subseteq DmDevices /\ LostDisks' \subseteq Copies
  BY DEF LostLoops, LostDms, LostDisks
<1> QED
  BY <1>1, <1>2, <1>3, <1>4 DEF Lost

\* A step leaves nothing more behind, or one more for a fault.
LeakPaid ==
  /\ UNCHANGED world
  /\ ~world.shared /\ SystemUp' =>
       /\ SystemUp
       /\ \/ faults' = faults /\ Lost' \subseteq Lost
          \/ faults' = faults + 1 /\ \E x : Lost' \subseteq Lost \cup {x}

LEMMA NothingLost ==
  ASSUME UNCHANGED world, SystemUp' => SystemUp, NoFault \/ Fault, Tracked({}),
         disks \subseteq Copies, disks' \subseteq Copies
  PROVE  LeakPaid
<1>1. Lost' \subseteq Lost
  BY TrackedLost
<1>2. \E x : Lost' \subseteq Lost \cup {x}
  BY <1>1
<1> QED
  BY <1>1, <1>2 DEF LeakPaid

LEMMA OneAtStake ==
  ASSUME UNCHANGED world, SystemUp' => SystemUp, NEW x, Tracked({x}),
         Fault \/ (NoFault /\ (~world.shared /\ SystemUp' => x \notin Lost')),
         disks \subseteq Copies, disks' \subseteq Copies
  PROVE  LeakPaid
<1>1. Lost' \subseteq Lost \cup {x}
  BY TrackedLost
<1>2. x \notin Lost' => Lost' \subseteq Lost
  BY <1>1
<1>3. \E y : Lost' \subseteq Lost \cup {y}
  BY <1>1
<1> QED
  BY <1>2, <1>3 DEF LeakPaid

\* A process that moves is the only one.
OthersStay(p) ==
  \A q \in Procs \ {p} : pc'[q] = pc[q] /\ job'[q] = job[q] /\ device'[q] = device[q]

LEMMA OneMoves ==
  ASSUME NEW p \in Procs, OthersStay(p), NEW D,
         pc[p] \in {"loopRecord", "loadTable", "dmRecord"} => device[p] \in D,
         pc[p] = "writeRecord" => job[p] \in D,
         pc'[p] = "attachDisk" => job'[p] \in D,
         pc'[p] = "removeRecord" => device'[p] \in D
  PROVE  TrackedProcs(D)
<1>1. TrackedBy(p, D)
  BY DEF TrackedBy
<1>2. \A q \in Procs \ {p} : TrackedBy(q, D)
  BY DEF TrackedBy, OthersStay
<1> QED
  BY <1>1, <1>2 DEF TrackedProcs

\* What cannot be lost, whatever it is.
LEMMA NotLost ==
  ASSUME NEW x, x \in LoopDevices => x \notin LostLoops', x \in DmDevices => x \notin LostDms',
         x \in Copies => x \notin LostDisks', disks' \subseteq Copies
  PROVE  x \notin Lost'
BY DEF Lost, LostLoops, LostDms, LostDisks

LEMMA ShrunkSystem == MountsShrink => (SystemUp' => SystemUp)
BY DEF MountsShrink, SystemUp

LEMMA NoMoreSystem ==
  ASSUME MountTableOK, NEW dev, dev # System, NEW at, mounts' = Append(mounts, [dev |-> dev, at |-> at])
  PROVE  SystemUp' => SystemUp
<1> SUFFICES ASSUME NEW i \in DOMAIN mounts', mounts'[i].dev = System PROVE SystemUp
  BY DEF SystemUp
<1>1. i \in DOMAIN mounts /\ mounts[i].dev = System
  BY DEF MountTableOK
<1> QED
  BY <1>1 DEF SystemUp

\* What is left behind without a record is paid for.
LEMMA LeakStep ==
  ASSUME MountInv, DiskInv, [Next]_mountVars
  PROVE  LeakPaid
<1>31. DevicesOK /\ CallsOK /\ RecordsOK /\ JobInv /\ DeviceInv
  BY TypeParts DEF MountInv
<1>32. \A p \in Procs : pc[p] # "idle" => job[p] \in Copies /\ job[p] \in world.copies
  BY <1>31, LabelFormat
<1>33. CursorOK /\ HoldsOK /\ MountTableOK /\ TableOK /\ BackingOK /\ AutoclearOK /\ OpenedOK
  BY <1>31 DEF CallsOK, DevicesOK
<1>34. disks \subseteq Copies /\ disks' \subseteq Copies
  BY <1>31, DevicesStep DEF DevicesOK
<1>35. UNCHANGED deviceVars => \A D : TrackedDevices(D)
  BY DEF TrackedDevices, NoneGets
<1>36. UNCHANGED deviceVars => (SystemUp' => SystemUp)
  BY DEF SystemUp
<1>37. RecordsUnchanged => \A D : TrackedRecords(D)
  BY DEF TrackedRecords
<1>38. \A c \in Copies : c \notin {System, None, Torn} \cup LoopDevices \cup DmDevices
  BY CopyFacts
<1>1. ASSUME NEW p \in Procs, Exit(p) PROVE LeakPaid
  <2>1. OthersStay(p) /\ TrackedProcs({})
    <3>1. OthersStay(p)
      BY <1>1, <1>33 DEF Exit, Forget, OthersStay, CursorOK, HoldsOK
    <3> QED
      BY <1>1, <3>1, <1>33, OneMoves DEF Exit, Forget, CursorOK
  <2>2. TrackedDevices({})
    BY <1>1, <1>31, CloseAllKeeps DEF Exit, CloseAll, TrackedDevices
  <2>3. SystemUp' => SystemUp
    BY <1>1 DEF Exit, CloseAll, SystemUp
  <2> QED
    BY <1>1, <2>1, <2>2, <2>3, <1>34, <1>37, NothingLost DEF Exit, Forget, Tracked
<1>2. ASSUME NEW p \in Procs, Crash(p) PROVE LeakPaid
  <2> DEFINE x == IF pc[p] = "writeRecord" THEN job[p] ELSE device[p]
  <2>1. TrackedProcs({x})
    <3>1. OthersStay(p)
      BY <1>2, <1>33 DEF Crash, Forget, OthersStay, CursorOK, HoldsOK
    <3>2. pc'[p] \notin {"removeRecord", "attachDisk"}
      BY <1>2, <1>33 DEF Crash, Forget, CursorOK
    <3> QED
      BY <3>1, <3>2, OneMoves
  <2>2. TrackedDevices({x})
    BY <1>2, <1>31, CloseAllKeeps DEF Crash, CloseAll, TrackedDevices, NoneGets
  <2>3. SystemUp' => SystemUp
    BY <1>2 DEF Crash, CloseAll, SystemUp
  <2> HIDE DEF x
  <2> QED
    BY <1>2, <2>1, <2>2, <2>3, <1>34, <1>37, OneAtStake DEF Crash, Forget, Tracked
<1>3. ASSUME NEW p \in Procs, GetFree(p) PROVE LeakPaid
  <2>1. OthersStay(p) /\ TrackedProcs({})
    <3>1. OthersStay(p)
      BY <1>3, <1>33 DEF GetFree, OthersStay, CursorOK, HoldsOK
    <3> QED
      BY <1>3, <3>1, <1>33, OneMoves, RollbackLabel DEF GetFree, AttachFailed, CursorOK
  <2> QED
    BY <1>3, <2>1, <1>34, <1>35, <1>36, <1>37, NothingLost DEF GetFree, Tracked
<1>4. ASSUME NEW p \in Procs, Attach(p) PROVE LeakPaid
  <2>0. OthersStay(p)
    BY <1>4, <1>33 DEF Attach, OthersStay, CursorOK, HoldsOK
  <2>1. device[p] \in LoopDevices /\ Len(loops[p]) < Len(FilesOf(p)) /\ job[p] \in Copies
        /\ Len(loops[p]) \in Nat
    BY <1>4, <1>31, <1>32 DEF Attach, DeviceInv, DevicesOf, CallsOK, HoldsOK
  <2>2. NextFile(p) \in AllFiles
    BY <2>1, CopyFacts DEF NextFile, FilesOf
  <2>3. CASE SetFd(p, device[p], NextFile(p)) /\ Goto(p, "loopRecord")
    <3>1. TrackedDevices({device[p]})
      BY <2>1, <2>2, <2>3, <1>33, SetFdKeeps DEF SetFd, TrackedDevices
    <3>2. pc'[p] = "loopRecord" /\ device'[p] = device[p]
      BY <1>4, <2>3, <1>33 DEF Attach, CursorOK
    <3>3. TrackedProcs({device[p]})
      BY <1>4, <2>0, <3>2, OneMoves DEF Attach
    <3>4. device[p] \notin Lost'
      <4>1. device[p] \notin LostLoops'
        BY <3>2 DEF LostLoops
      <4> QED
        BY <4>1, <2>1, <1>34, <1>38, DevicesAssumption, NotLost
    <3>5. SystemUp' => SystemUp
      BY <2>3 DEF SetFd, SystemUp
    <3> QED
      BY <1>4, <2>3, <3>1, <3>3, <3>4, <3>5, <1>34, <1>37, OneAtStake DEF Attach, Tracked
  <2>4. CASE SetFdBusy(p, device[p]) /\ Goto(p, AttachFailed(p))
    <3>1. TrackedDevices({})
      BY <2>4 DEF SetFdBusy, TrackedDevices, NoneGets
    <3>2. TrackedProcs({})
      BY <1>4, <2>0, <2>4, <1>33, RollbackLabel, OneMoves DEF Attach, AttachFailed, CursorOK
    <3>3. SystemUp' => SystemUp
      BY <2>4 DEF SetFdBusy, SystemUp
    <3> QED
      BY <1>4, <2>4, <3>1, <3>2, <3>3, <1>34, <1>37, NothingLost DEF Attach, Tracked
  <2> QED
    BY <1>4, <2>3, <2>4 DEF Attach
<1>5. ASSUME NEW p \in Procs, SaveLoopRecord(p) PROVE LeakPaid
  <2>0. OthersStay(p)
    BY <1>5, <1>33 DEF SaveLoopRecord, OthersStay, CursorOK, HoldsOK
  <2>1. job[p] \in Copies /\ job[p] \in world.copies
    BY <1>5, <1>32 DEF SaveLoopRecord
  <2>2. /\ device[p] \in LoopDevices
        /\ \E l \in {"getFree", "mount", "createDm"} : pc' = [pc EXCEPT ![p] = l]
    BY <1>5, <2>1, <1>31, <1>33, AfterAttach
  <2>3. TrackedProcs({device[p]})
    BY <1>5, <2>0, <2>2, <1>33, OneMoves DEF SaveLoopRecord, CursorOK
  <2>4. TrackedRecords({device[p]})
    <3>1. loopRecords \in [Copies -> SUBSET LoopDevices]
      BY <1>31 DEF RecordsOK
    <3> QED
      BY <1>5, <3>1 DEF SaveLoopRecord, TrackedRecords
  <2>5. ~world.shared /\ NoFault => device[p] \notin Lost'
    <3> SUFFICES ASSUME ~world.shared, NoFault PROVE device[p] \notin Lost'
      OBVIOUS
    <3>1. OutputDir(job[p]) = job[p]
      BY <2>1, <1>31, OutputDirIsCopy
    <3>2. device[p] \in loopRecords'[job[p]]
      <4>1. loopRecords' = [loopRecords EXCEPT ![job[p]] = @ \cup {device[p]}]
        BY <1>5, <3>1, <1>31 DEF SaveLoopRecord, CallsOK, CountsOK
      <4> QED
        BY <4>1, <2>1, <1>31 DEF RecordsOK
    <3>3. \A q \in Procs : pc'[q] = "removeRecord" => job'[q] # job[p]
      <4>1. pc'[p] # "removeRecord"
        BY <2>2, <1>33 DEF CursorOK
      <4>2. \A q \in Procs \ {p} : job[q] # job[p]
        BY <1>5, <2>1, <1>31 DEF SaveLoopRecord, JobInv
      <4> QED
        BY <4>1, <4>2, <2>0 DEF OthersStay
    <3>4. device[p] \notin LostLoops'
      BY <2>1, <3>2, <3>3 DEF LostLoops
    <3> QED
      BY <3>4, <2>2, <1>34, <1>38, DevicesAssumption, NotLost
  <2> QED
    BY <1>5, <2>3, <2>4, <2>5, <1>34, <1>35, <1>36, OneAtStake DEF SaveLoopRecord, Tracked
<1>6. ASSUME NEW p \in Procs, CreateEmptyDevice(p) PROVE LeakPaid
  <2>0. OthersStay(p)
    BY <1>6, <1>33 DEF CreateEmptyDevice, OthersStay, CursorOK, HoldsOK
  <2>1. ASSUME NEW n \in FreeNames, DmSet(n, <<>>), NoFault,
               device' = [device EXCEPT ![p] = n], Goto(p, "loadTable")
        PROVE  LeakPaid
    <3>1. n \in DmDevices
      BY DEF FreeNames
    <3>2. TrackedDevices({n})
      <4>1. <<>> \in {None} \cup Seq(LoopDevices)
        OBVIOUS
      <4>2. NoneGets(LoopDevices)
        BY <4>1, <3>1, <2>1, <1>31, DmSetKeeps
      <4> QED
        BY <4>2, <2>1, <1>33 DEF DmSet, TrackedDevices, NoneGets, TableOK
    <3>3. pc'[p] = "loadTable" /\ device'[p] = n
      BY <2>1, <1>33 DEF CursorOK, HoldsOK
    <3>4. TrackedProcs({n})
      BY <1>6, <2>0, <3>3, OneMoves DEF CreateEmptyDevice
    <3>5. n \notin Lost'
      <4>1. n \notin LostDms'
        BY <3>3 DEF LostDms
      <4> QED
        BY <4>1, <3>1, <1>34, <1>38, DevicesAssumption, NotLost
    <3>6. SystemUp' => SystemUp
      BY <2>1 DEF DmSet, SystemUp
    <3> QED
      BY <1>6, <2>1, <3>2, <3>4, <3>5, <3>6, <1>34, <1>37, OneAtStake DEF CreateEmptyDevice, Tracked
  <2>2. ASSUME DevicesUnchanged, Goto(p, Rollback(p)), UNCHANGED device, NoFault \/ Fault
        PROVE  LeakPaid
    <3>1. TrackedProcs({})
      BY <1>6, <2>0, <2>2, <1>33, RollbackLabel, OneMoves DEF CreateEmptyDevice, CursorOK
    <3> QED
      BY <1>6, <2>2, <3>1, <1>34, <1>35, <1>36, <1>37, NothingLost DEF CreateEmptyDevice, Tracked
  <2> QED
    BY <1>6, <2>1, <2>2 DEF CreateEmptyDevice
<1>7. ASSUME NEW p \in Procs, LoadTable(p) PROVE LeakPaid
  <2>0. OthersStay(p)
    BY <1>7, <1>33 DEF LoadTable, OthersStay, CursorOK, HoldsOK
  <2>1. device[p] \in DmDevices /\ loops[p] \in Seq(LoopDevices) /\ device'[p] = device[p]
    BY <1>7, <1>31 DEF LoadTable, DeviceInv, DevicesOf, CallsOK, HoldsOK
  <2>2. pc'[p] = "dmRecord" \/ pc'[p] = Rollback(p)
    BY <1>7, <1>33 DEF LoadTable, CursorOK
  <2>3. TrackedProcs({device[p]})
    BY <1>7, <2>0, <2>1, <2>2, RollbackLabel, OneMoves DEF LoadTable
  <2>4. DmSet(device[p], loops[p]) \/ DmSet(device[p], None) => TrackedDevices({device[p]})
    <3>1. DmSet(device[p], loops[p]) \/ DmSet(device[p], None) => NoneGets(LoopDevices)
      BY <2>1, <1>31, DmSetKeeps
    <3> QED
      BY <3>1, <2>1, <1>33 DEF DmSet, TrackedDevices, NoneGets, TableOK
  <2>5. TrackedDevices({device[p]})
    BY <1>7, <2>4, <1>35 DEF LoadTable
  <2>6. UNCHANGED mounts
    BY <1>7 DEF LoadTable, DmSet
  <2>7. SystemUp' => SystemUp
    BY <2>6 DEF SystemUp
  <2>8. pc'[p] = "dmRecord" => device[p] \notin Lost'
    <3> SUFFICES ASSUME pc'[p] = "dmRecord" PROVE device[p] \notin Lost'
      OBVIOUS
    <3>1. device[p] \notin LostDms'
      BY <2>1 DEF LostDms
    <3> QED
      BY <3>1, <2>1, <1>34, <1>38, DevicesAssumption, NotLost
  <2>9. Fault \/ (NoFault /\ (SystemUp' => device[p] \notin Lost'))
    BY <1>7, <2>7, <2>8, <1>33 DEF LoadTable, CursorOK
  <2> QED
    BY <1>7, <2>3, <2>5, <2>7, <2>9, <1>34, <1>37, OneAtStake DEF LoadTable, Tracked
<1>8. ASSUME NEW p \in Procs, SaveDmRecord(p) PROVE LeakPaid
  <2>0. OthersStay(p)
    BY <1>8, <1>33 DEF SaveDmRecord, OthersStay, CursorOK, HoldsOK
  <2>1. device[p] \in DmDevices /\ job[p] \in world.copies
    BY <1>8, <1>31, <1>32 DEF SaveDmRecord, DeviceInv, DevicesOf
  <2>2. OutputDir(job[p]) \in Copies
    BY <2>1, <1>31, OutputDirIsCopy
  <2>3. TrackedProcs({device[p]})
    BY <1>8, <2>0, <1>33, OneMoves DEF SaveDmRecord, CursorOK
  <2>4. dmRecords \in [Copies -> SUBSET DmDevices]
    BY <1>31 DEF RecordsOK
  <2>5. TrackedRecords({device[p]})
    BY <1>8, <2>4 DEF SaveDmRecord, TrackedRecords
  <2>6. dmRecords' = [dmRecords EXCEPT ![OutputDir(job[p])] = @ \cup {device[p]}] =>
          device[p] \notin Lost'
    <3> SUFFICES ASSUME dmRecords' = [dmRecords EXCEPT ![OutputDir(job[p])] = @ \cup {device[p]}]
                 PROVE  device[p] \notin Lost'
      OBVIOUS
    <3>1. device[p] \in dmRecords'[OutputDir(job[p])]
      BY <2>2, <2>4
    <3>2. device[p] \notin LostDms'
      BY <2>2, <3>1 DEF LostDms
    <3> QED
      BY <3>2, <2>1, <1>34, <1>38, DevicesAssumption, NotLost
  <2>7. Fault \/ (NoFault /\ device[p] \notin Lost')
    BY <1>8, <2>6 DEF SaveDmRecord
  <2> QED
    BY <1>8, <2>3, <2>5, <2>7, <1>34, <1>35, <1>36, OneAtStake DEF SaveDmRecord, Tracked
<1>9. ASSUME NEW p \in Procs, Mount(p) PROVE LeakPaid
  <2>1. OthersStay(p) /\ TrackedProcs({})
    <3>1. OthersStay(p)
      BY <1>9, <1>33 DEF Mount, OthersStay, CursorOK, HoldsOK
    <3> QED
      BY <1>9, <3>1, <1>33, OneMoves, RollbackLabel DEF Mount, CursorOK
  <2>2. TrackedDevices({}) /\ (SystemUp' => SystemUp)
    <3>1. CASE MountOn(p, device[p]) /\ HasMedium(device[p])
      <4>1. BackingOK /\ AutoclearOK /\ LoopsSettle /\ UNCHANGED <<dmTable, disks>> /\ SystemUp
        BY <3>1, <1>33 DEF MountOn, SetMounts, HasMedium
      <4> QED
        BY <4>1, SettleKeeps DEF TrackedDevices
    <3>2. CASE DevicesUnchanged
      BY <3>2, <1>35, <1>36
    <3> QED
      BY <1>9, <3>1, <3>2 DEF Mount
  <2> QED
    BY <1>9, <2>1, <2>2, <1>34, <1>37, NothingLost DEF Mount, Tracked
<1>10. ASSUME NEW p \in Procs, SaveMountRecord(p) PROVE LeakPaid
  <2>0. OthersStay(p)
    BY <1>10, <1>33 DEF SaveMountRecord, OthersStay, CursorOK, HoldsOK
  <2>1. job[p] \in Copies /\ mountRecord \in [Copies -> {None, Torn} \cup Copies \cup LoopDevices]
    BY <1>10, <1>31, <1>32 DEF SaveMountRecord, RecordsOK
  <2>2. ASSUME NoFault \/ Fault, RecordsUnchanged, Goto(p, Rollback(p)), pc[p] = "record"
        PROVE  LeakPaid
    <3>1. TrackedProcs({})
      BY <2>0, <2>2, <1>33, RollbackLabel, OneMoves DEF CursorOK
    <3> QED
      BY <1>10, <2>2, <3>1, <1>34, <1>35, <1>36, <1>37, NothingLost DEF SaveMountRecord, Tracked
  <2>3. ASSUME NEW content, SetRecord(p, content), NoFault, pc[p] \in {"record", "writeRecord"},
               NEW l, l # "removeRecord", Goto(p, l),
               job[p] \notin LostDisks'
        PROVE  LeakPaid
    <3>1. TrackedProcs({job[p]})
      BY <2>0, <2>3, <1>33, OneMoves DEF CursorOK
    <3>2. TrackedRecords({job[p]})
      BY <2>1, <2>3 DEF SetRecord, TrackedRecords
    <3>3. job[p] \notin Lost'
      BY <2>1, <2>3, <1>34, <1>38, NotLost
    <3> QED
      BY <1>10, <2>3, <3>1, <3>2, <3>3, <1>34, <1>35, <1>36, OneAtStake DEF SaveMountRecord, Tracked
  <2>4. CASE SetRecord(p, Torn) /\ Goto(p, "writeRecord") /\ pc[p] = "record" /\ NoFault
    <3>1. job[p] \notin LostDisks'
      <4>1. pc'[p] = "writeRecord" /\ job'[p] = job[p]
        BY <2>4, <1>33 DEF CursorOK
      <4> QED
        BY <4>1 DEF LostDisks
    <3> QED
      BY <2>3, <2>4, <3>1
  <2>5. CASE /\ pc[p] = "writeRecord" /\ NoFault /\ SetRecord(p, MountDevice(p))
             /\ Goto(p, IF Format[job[p]] = "VHD" THEN "attachDisk" ELSE "exit")
    <3>1. job[p] \notin LostDisks'
      <4>1. Format[job[p]] # "VHD" => job[p] \notin disks'
        BY <1>10 DEF SaveMountRecord, DiskInv
      <4>2. Format[job[p]] = "VHD" => mountRecord'[job[p]] = job[p]
        BY <2>1, <2>5 DEF SetRecord, MountDevice
      <4>3. \A q \in Procs \ {p} : pc'[q] = "attachDisk" => job'[q] # job[p]
        BY <2>0, <2>5, <1>31, <1>32 DEF OthersStay, JobInv
      <4>4. Format[job[p]] # "VHD" => pc'[p] = "exit"
        BY <2>5, <1>33 DEF CursorOK
      <4> QED
        BY <4>1, <4>2, <4>3, <4>4 DEF LostDisks, Attaching
    <3>2. CASE Format[job[p]] = "VHD"
      BY <2>3, <2>5, <3>1, <3>2
    <3>3. CASE Format[job[p]] # "VHD"
      BY <2>3, <2>5, <3>1, <3>3
    <3> QED
      BY <3>2, <3>3
  <2>6. CASE /\ pc[p] = "writeRecord" /\ Fault /\ RecordsUnchanged
             /\ Goto(p, IF Format[job[p]] = "VHD" THEN "attachDisk" ELSE "exit")
    <3>1. TrackedProcs({job[p]})
      BY <2>0, <2>6, <1>33, OneMoves DEF CursorOK
    <3> QED
      BY <1>10, <2>6, <3>1, <1>34, <1>35, <1>36, <1>37, OneAtStake DEF SaveMountRecord, Tracked
  <2> QED
    BY <1>10, <2>2, <2>4, <2>5, <2>6 DEF SaveMountRecord
<1>11. ASSUME NEW p \in Procs, LoopbackRollback(p) PROVE LeakPaid
  <2>1. OthersStay(p) /\ TrackedProcs({})
    <3>1. OthersStay(p)
      BY <1>11, <1>33 DEF LoopbackRollback, OthersStay, CursorOK, HoldsOK
    <3> QED
      BY <1>11, <3>1, <1>33, OneMoves DEF LoopbackRollback, CursorOK
  <2> QED
    BY <1>11, <2>1, <1>34, <1>35, <1>36, <1>37, NothingLost DEF LoopbackRollback, Tracked
<1>12. ASSUME NEW p \in Procs, Umount(p) PROVE LeakPaid
  <2>1. OthersStay(p) /\ TrackedProcs({})
    <3>1. OthersStay(p)
      BY <1>12, <1>33 DEF Umount, OthersStay, CursorOK, HoldsOK
    <3> QED
      BY <1>12, <3>1, <1>33, OneMoves DEF Umount, CursorOK
  <2>2. TrackedDevices({}) /\ (SystemUp' => SystemUp)
    <3>1. CASE SetMounts(TakeOff(job[p]))
      <4>1. BackingOK /\ AutoclearOK /\ LoopsSettle /\ UNCHANGED <<dmTable, disks>>
        BY <3>1, <1>33 DEF SetMounts
      <4>2. MountsShrink
        BY <3>1, <1>33, FewerMounts DEF SetMounts, TakeOff
      <4> QED
        BY <4>1, <4>2, SettleKeeps, ShrunkSystem DEF TrackedDevices
    <3>2. CASE DevicesUnchanged
      BY <3>2, <1>35, <1>36
    <3> QED
      BY <1>12, <3>1, <3>2 DEF Umount
  <2> QED
    BY <1>12, <2>1, <2>2, <1>34, <1>37, NothingLost DEF Umount, Tracked
<1>13. ASSUME NEW p \in Procs, UmountAll(p) PROVE LeakPaid
  <2>1. OthersStay(p) /\ TrackedProcs({})
    <3>1. OthersStay(p)
      BY <1>13, <1>33 DEF UmountAll, OthersStay, CursorOK, HoldsOK
    <3> QED
      BY <1>13, <3>1, <1>33, OneMoves DEF UmountAll, CursorOK
  <2>2. TrackedDevices({}) /\ (SystemUp' => SystemUp)
    <3>1. CASE SetMounts(MountsLeft(device[p], world.pinned))
      <4>1. BackingOK /\ AutoclearOK /\ LoopsSettle /\ UNCHANGED <<dmTable, disks>>
        BY <3>1, <1>33 DEF SetMounts
      <4>2. MountsShrink
        BY <3>1, <1>33, FewerMounts DEF SetMounts, MountsLeft
      <4> QED
        BY <4>1, <4>2, SettleKeeps, ShrunkSystem DEF TrackedDevices
    <3>2. CASE DevicesUnchanged
      BY <3>2, <1>35, <1>36
    <3> QED
      BY <1>13, <3>1, <3>2 DEF UmountAll
  <2> QED
    BY <1>13, <2>1, <2>2, <1>34, <1>37, NothingLost DEF UmountAll, Tracked
<1>14. ASSUME NEW p \in Procs, ResidualDm(p) PROVE LeakPaid
  <2>1. OthersStay(p) /\ TrackedProcs({})
    <3>1. OthersStay(p)
      BY <1>14, <1>33 DEF ResidualDm, OthersStay, CursorOK, HoldsOK
    <3> QED
      BY <1>14, <3>1, <1>33, OneMoves DEF ResidualDm, CursorOK
  <2> QED
    BY <1>14, <2>1, <1>34, <1>35, <1>36, <1>37, NothingLost DEF ResidualDm, Tracked
<1>15. ASSUME NEW p \in Procs, RemoveDm(p) PROVE LeakPaid
  <2>1. OthersStay(p) /\ TrackedProcs({})
    <3>1. OthersStay(p)
      BY <1>15, <1>33 DEF RemoveDm, OthersStay, CursorOK, HoldsOK
    <3> QED
      BY <1>15, <3>1, <1>33, OneMoves DEF RemoveDm, CursorOK
  <2>2. dmRecords \in [Copies -> SUBSET DmDevices] /\ residue[p] \subseteq DmDevices
    BY <1>15, <1>31 DEF RecordsOK, RemoveDm, DeviceInv, DevicesOf
  <2>3. \A D : TrackedProcs({}) => TrackedProcs(D)
    BY DEF TrackedProcs, TrackedBy
  <2>4. ASSUME NEW n \in residue[p], DmSet(n, None)
        PROVE  TrackedDevices({}) /\ (SystemUp' => SystemUp) /\ n \notin Lost'
    <3>1. NoneGets(LoopDevices)
      BY <2>2, <2>4, <1>31, DmSetKeeps
    <3>2. TrackedDevices({})
      BY <3>1, <2>4, <1>33 DEF DmSet, TrackedDevices, TableOK
    <3>3. n \notin LostDms'
      BY <2>2, <2>4, <1>33 DEF DmSet, TableOK, LostDms
    <3>4. n \notin Lost'
      BY <3>3, <2>2, <1>34, <1>38, DevicesAssumption, NotLost
    <3> QED
      BY <3>2, <3>4, <2>4 DEF DmSet, SystemUp
  <2>5. ASSUME NEW n \in residue[p], NoFault,
               IF SystemUp THEN DmSet(n, None) ELSE DevicesUnchanged,
               dmRecords' = [dmRecords EXCEPT ![OutputDir(job[p])] = @ \ {n}]
        PROVE  LeakPaid
    <3>1. TrackedRecords({n})
      BY <1>15, <2>2, <2>5 DEF RemoveDm, TrackedRecords
    <3>2. TrackedDevices({n}) /\ (SystemUp' => SystemUp)
      <4>1. TrackedDevices({}) => TrackedDevices({n})
        BY DEF TrackedDevices, NoneGets
      <4> QED
        BY <4>1, <2>4, <2>5, <1>35, <1>36
    <3>3. SystemUp' => n \notin Lost'
      BY <2>4, <2>5, <3>2
    <3> QED
      BY <1>15, <2>1, <2>3, <2>5, <3>1, <3>2, <3>3, <1>34, OneAtStake DEF RemoveDm, Tracked
  <2>6. ASSUME NoFault \/ Fault, UNCHANGED dmRecords,
               DevicesUnchanged \/ \E n \in residue[p] : DmSet(n, None)
        PROVE  LeakPaid
    <3>1. TrackedDevices({}) /\ (SystemUp' => SystemUp)
      BY <2>4, <2>6, <1>35, <1>36
    <3>2. TrackedRecords({})
      BY <1>15, <2>6 DEF RemoveDm, TrackedRecords
    <3> QED
      BY <1>15, <2>1, <2>6, <3>1, <3>2, <1>34, NothingLost DEF RemoveDm, Tracked
  <2> QED
    BY <1>15, <2>5, <2>6 DEF RemoveDm
<1>16. ASSUME NEW p \in Procs, Detach(p) PROVE LeakPaid
  <2>0. OthersStay(p)
    BY <1>16, <1>33 DEF Detach, OthersStay, CursorOK, HoldsOK
  <2>1. residue[p] \subseteq LoopDevices
    BY <1>16, <1>31 DEF Detach, DeviceInv, DevicesOf
  <2>2. ASSUME NoFault \/ Fault, DevicesUnchanged, NEW l \in {"exit", "skipRecord"}, Goto(p, l)
        PROVE  LeakPaid
    <3>1. TrackedProcs({})
      BY <1>16, <2>0, <2>2, <1>33, OneMoves DEF Detach, CursorOK
    <3> QED
      BY <1>16, <2>2, <3>1, <1>34, <1>35, <1>36, <1>37, NothingLost DEF Detach, Tracked
  <2>3. ASSUME NEW d \in residue[p], device' = [device EXCEPT ![p] = d], NoFault, ClrFd(p, d),
               Goto(p, "removeRecord")
        PROVE  LeakPaid
    <3>1. NoneGets(LoopDevices) /\ (backing'[d] = None \/ autoclear'[d])
      BY <2>1, <2>3, <1>33, ClrFdKeeps
    <3>2. TrackedDevices({d})
      BY <3>1, <2>3 DEF ClrFd, TrackedDevices, NoneGets
    <3>3. TrackedProcs({d})
      <4>1. device'[p] = d
        BY <2>3, <1>33 DEF HoldsOK
      <4> QED
        BY <1>16, <2>3, <4>1, <2>0, <1>33, OneMoves DEF Detach, CursorOK
    <3>4. d \notin Lost'
      <4>1. d \notin LostLoops'
        BY <3>1 DEF LostLoops
      <4> QED
        BY <4>1, <2>1, <1>34, <1>38, DevicesAssumption, NotLost
    <3>5. SystemUp' => SystemUp
      BY <2>3 DEF ClrFd, SystemUp
    <3> QED
      BY <1>16, <2>3, <3>2, <3>3, <3>4, <3>5, <1>34, <1>37, OneAtStake DEF Detach, Tracked
  <2>4. ASSUME ~SystemUp, NoFault, DevicesUnchanged, UNCHANGED world PROVE LeakPaid
    BY <2>4, <1>36 DEF LeakPaid
  <2> QED
    BY <1>16, <2>2, <2>3, <2>4 DEF Detach
<1>17. ASSUME NEW p \in Procs, RemoveLoopRecord(p) PROVE LeakPaid
  <2>1. OthersStay(p) /\ TrackedProcs({})
    <3>1. OthersStay(p)
      BY <1>17, <1>33 DEF RemoveLoopRecord, OthersStay, CursorOK, HoldsOK
    <3> QED
      BY <1>17, <3>1, <1>33, OneMoves DEF RemoveLoopRecord, CursorOK
  <2>2. CASE world.shared
    BY <1>17, <2>2 DEF RemoveLoopRecord, LeakPaid
  <2>3. CASE ~world.shared
    <3>1. loopRecords \in [Copies -> SUBSET LoopDevices]
      BY <1>31 DEF RecordsOK
    <3>2. OutputDir(job[p]) = job[p]
      BY <1>17, <2>3, <1>31, <1>32, OutputDirIsCopy DEF RemoveLoopRecord
    <3>3. TrackedRecords({})
      BY <1>17, <3>1, <3>2 DEF RemoveLoopRecord, TrackedRecords
    <3> QED
      BY <1>17, <2>1, <3>3, <1>34, <1>35, <1>36, NothingLost DEF RemoveLoopRecord, Tracked
  <2> QED
    BY <2>2, <2>3
<1>18. ASSUME NEW p \in Procs, AttachDisk(p) PROVE LeakPaid
  <2>0. OthersStay(p)
    BY <1>18, <1>33 DEF AttachDisk, OthersStay, CursorOK, HoldsOK
  <2>1. job[p] \in Copies
    BY <1>18, <1>32 DEF AttachDisk
  <2>2. TrackedDevices({job[p]})
    BY <1>18 DEF AttachDisk, TrackedDevices, NoneGets
  <2>3. TrackedProcs({job[p]})
    BY <1>18, <2>0, <1>33, OneMoves DEF AttachDisk, CursorOK
  <2>4. Lost' \subseteq Lost \cup {job[p]}
    BY <1>18, <2>2, <2>3, <1>34, <1>37, TrackedLost DEF AttachDisk, Tracked
  <2>5. job[p] \in Lost' => job[p] \in Lost
    <3>1. job[p] \in LostDisks' => job[p] \in LostDisks
      <4>1. Attaching(job[p]) /\ UNCHANGED mountRecord
        BY <1>18 DEF AttachDisk, Attaching
      <4>2. \A q \in Procs : pc[q] = "writeRecord" => pc'[q] = pc[q] /\ job'[q] = job[q]
        BY <1>18, <2>0 DEF AttachDisk, OthersStay
      <4> QED
        BY <4>1, <4>2 DEF LostDisks
    <3> QED
      BY <3>1, <2>1, <1>38 DEF Lost, LostLoops, LostDms
  <2>6. SystemUp' => SystemUp
    BY <1>18 DEF AttachDisk, SystemUp
  <2> QED
    BY <1>18, <2>4, <2>5, <2>6 DEF AttachDisk, LeakPaid, Goto
<1>19. ASSUME NEW p \in Procs, AddVolumeMountPoint(p) PROVE LeakPaid
  <2>1. OthersStay(p) /\ TrackedProcs({})
    <3>1. OthersStay(p)
      BY <1>19, <1>33 DEF AddVolumeMountPoint, OthersStay, CursorOK, HoldsOK
    <3> QED
      BY <1>19, <3>1, <1>33, OneMoves DEF AddVolumeMountPoint, CursorOK
  <2>2. TrackedDevices({}) /\ (SystemUp' => SystemUp)
    <3>1. CASE MountOn(p, job[p])
      <4>1. BackingOK /\ AutoclearOK /\ LoopsSettle /\ UNCHANGED <<dmTable, disks>>
        BY <3>1, <1>33 DEF MountOn, SetMounts
      <4>2. job[p] \in Copies /\ job[p] # System
        BY <1>19, <1>32, <1>38 DEF AddVolumeMountPoint
      <4>3. SystemUp' => SystemUp
        BY <3>1, <4>2, <1>33, NoMoreSystem DEF MountOn, SetMounts
      <4> QED
        BY <4>1, <4>3, SettleKeeps DEF TrackedDevices
    <3>2. CASE DevicesUnchanged
      BY <3>2, <1>35, <1>36
    <3> QED
      BY <1>19, <3>1, <3>2 DEF AddVolumeMountPoint
  <2> QED
    BY <1>19, <2>1, <2>2, <1>34, <1>37, NothingLost DEF AddVolumeMountPoint, Tracked
<1>20. ASSUME NEW p \in Procs, DetachDisk(p) PROVE LeakPaid
  <2>1. OthersStay(p) /\ TrackedProcs({})
    <3>1. OthersStay(p)
      BY <1>20, <1>33 DEF DetachDisk, OthersStay, CursorOK, HoldsOK
    <3> QED
      BY <1>20, <3>1, <1>33, OneMoves DEF DetachDisk, CursorOK
  <2>2. MountsShrink
    <3>1. mounts' = Keep({i \in DOMAIN mounts : mounts[i].dev # job[p]}) => MountsShrink
      BY <1>33, FewerMounts
    <3>2. UNCHANGED mounts => MountsShrink
      BY DEF MountsShrink
    <3> QED
      BY <1>20, <3>1, <3>2 DEF DetachDisk
  <2>3. TrackedDevices({})
    BY <1>20 DEF DetachDisk, TrackedDevices, NoneGets
  <2> QED
    BY <1>20, <2>1, <2>2, <2>3, <1>34, <1>37, ShrunkSystem, NothingLost DEF DetachDisk, Tracked
<1>21. ASSUME NEW p \in Procs, NEW c \in world.copies, StartMount(p, c) PROVE LeakPaid
  <2>1. OthersStay(p) /\ TrackedProcs({})
    <3>1. OthersStay(p)
      BY <1>21, <1>33 DEF StartMount, OthersStay, CursorOK, HoldsOK
    <3> QED
      BY <1>21, <3>1, <1>33, OneMoves DEF StartMount, CursorOK
  <2> QED
    BY <1>21, <2>1, <1>34, <1>35, <1>36, <1>37, NothingLost DEF StartMount, Tracked
<1>22. ASSUME NEW p \in Procs, NEW c \in world.copies, StartUmount(p, c) PROVE LeakPaid
  <2>1. OthersStay(p) /\ TrackedProcs({})
    <3>1. OthersStay(p)
      BY <1>22, <1>33 DEF StartUmount, OthersStay, CursorOK, HoldsOK
    <3> QED
      BY <1>22, <3>1, <1>33, OneMoves DEF StartUmount, CursorOK
  <2> QED
    BY <1>22, <2>1, <1>34, <1>35, <1>36, <1>37, NothingLost DEF StartUmount, Tracked
<1>23. CASE AutoMount
  <2>1. PICK d \in world.autoMounted : HasMedium(d) /\ SetMounts(Append(mounts, [dev |-> d, at |-> d]))
    BY <1>23 DEF AutoMount
  <2>2. TrackedProcs({})
    BY <1>23 DEF AutoMount, procVars, TrackedProcs, TrackedBy
  <2>3. TrackedDevices({})
    <3>1. BackingOK /\ AutoclearOK /\ LoopsSettle /\ UNCHANGED <<dmTable, disks>>
      BY <2>1, <1>33 DEF SetMounts
    <3> QED
      BY <3>1, SettleKeeps DEF TrackedDevices
  <2>4. SystemUp
    BY <2>1 DEF HasMedium
  <2> QED
    BY <1>23, <2>2, <2>3, <2>4, <1>34, <1>37, NothingLost DEF AutoMount, Tracked
<1>24. CASE UNCHANGED mountVars
  <2>1. TrackedProcs({})
    BY <1>24 DEF mountVars, procVars, TrackedProcs, TrackedBy
  <2>2. UNCHANGED <<deviceVars, recordVars, world, faults>>
    BY <1>24 DEF mountVars
  <2> QED
    BY <2>1, <2>2, <1>34, <1>35, <1>36, <1>37, NothingLost DEF Tracked
<1> QED
  BY <1>1, <1>2, <1>3, <1>4, <1>5, <1>6, <1>7, <1>8, <1>9, <1>10, <1>11, <1>12,
     <1>13, <1>14, <1>15, <1>16, <1>17, <1>18, <1>19, <1>20, <1>21, <1>22, <1>23, <1>24 DEF Next, Proc

\* Only the process that mounts a virtual disk attaches one.
LEMMA DiskStep ==
  ASSUME MountInv, DiskInv, [Next]_mountVars
  PROVE  DiskInv'
<1>31. CallsOK /\ JobInv
  BY TypeParts DEF MountInv
<1>33. ASSUME disks' \subseteq disks PROVE DiskInv'
  BY <1>33 DEF DiskInv
<1>1. ASSUME NEW p \in Procs, Exit(p) PROVE DiskInv'
  BY <1>1, <1>33 DEF CloseAll, Forget, Exit
<1>2. ASSUME NEW p \in Procs, Crash(p) PROVE DiskInv'
  BY <1>2, <1>33 DEF CloseAll, Forget, Crash
<1>3. ASSUME NEW p \in Procs, GetFree(p) PROVE DiskInv'
  BY <1>3, <1>33 DEF GetFree
<1>4. ASSUME NEW p \in Procs, Attach(p) PROVE DiskInv'
  BY <1>4, <1>33 DEF SetFd, SetFdBusy, Attach
<1>5. ASSUME NEW p \in Procs, SaveLoopRecord(p) PROVE DiskInv'
  BY <1>5, <1>33 DEF SaveLoopRecord
<1>6. ASSUME NEW p \in Procs, CreateEmptyDevice(p) PROVE DiskInv'
  BY <1>6, <1>33 DEF DmSet, CreateEmptyDevice
<1>7. ASSUME NEW p \in Procs, LoadTable(p) PROVE DiskInv'
  BY <1>7, <1>33 DEF DmSet, LoadTable
<1>8. ASSUME NEW p \in Procs, SaveDmRecord(p) PROVE DiskInv'
  BY <1>8, <1>33 DEF SaveDmRecord
<1>9. ASSUME NEW p \in Procs, Mount(p) PROVE DiskInv'
  BY <1>9, <1>33 DEF MountOn, SetMounts, Mount
<1>10. ASSUME NEW p \in Procs, SaveMountRecord(p) PROVE DiskInv'
  BY <1>10, <1>33 DEF SaveMountRecord
<1>11. ASSUME NEW p \in Procs, LoopbackRollback(p) PROVE DiskInv'
  BY <1>11, <1>33 DEF LoopbackRollback
<1>12. ASSUME NEW p \in Procs, Umount(p) PROVE DiskInv'
  BY <1>12, <1>33 DEF SetMounts, Umount
<1>13. ASSUME NEW p \in Procs, UmountAll(p) PROVE DiskInv'
  BY <1>13, <1>33 DEF SetMounts, UmountAll
<1>14. ASSUME NEW p \in Procs, ResidualDm(p) PROVE DiskInv'
  BY <1>14, <1>33 DEF ResidualDm
<1>15. ASSUME NEW p \in Procs, RemoveDm(p) PROVE DiskInv'
  BY <1>15, <1>33 DEF DmSet, RemoveDm
<1>16. ASSUME NEW p \in Procs, Detach(p) PROVE DiskInv'
  BY <1>16, <1>33 DEF ClrFd, Detach
<1>17. ASSUME NEW p \in Procs, RemoveLoopRecord(p) PROVE DiskInv'
  BY <1>17, <1>33 DEF RemoveLoopRecord
<1>18. ASSUME NEW p \in Procs, AttachDisk(p) PROVE DiskInv'
  <2>1. Format[job[p]] = "VHD"
    BY <1>18, <1>31, LabelFormat DEF AttachDisk
  <2> QED
    BY <1>18, <2>1 DEF AttachDisk, DiskInv
<1>19. ASSUME NEW p \in Procs, AddVolumeMountPoint(p) PROVE DiskInv'
  BY <1>19, <1>33 DEF MountOn, SetMounts, AddVolumeMountPoint
<1>20. ASSUME NEW p \in Procs, DetachDisk(p) PROVE DiskInv'
  BY <1>20, <1>33 DEF DetachDisk
<1>21. ASSUME NEW p \in Procs, NEW c \in world.copies, StartMount(p, c) PROVE DiskInv'
  BY <1>21, <1>33 DEF StartMount
<1>22. ASSUME NEW p \in Procs, NEW c \in world.copies, StartUmount(p, c) PROVE DiskInv'
  BY <1>22, <1>33 DEF StartUmount
<1>23. CASE AutoMount
  BY <1>23, <1>33 DEF SetMounts, AutoMount
<1>24. CASE UNCHANGED mountVars
  BY <1>24, <1>33 DEF mountVars, procVars
<1> QED
  BY <1>1, <1>2, <1>3, <1>4, <1>5, <1>6, <1>7, <1>8, <1>9, <1>10, <1>11, <1>12,
     <1>13, <1>14, <1>15, <1>16, <1>17, <1>18, <1>19, <1>20, <1>21, <1>22, <1>23, <1>24 DEF Next, Proc

\* Every step leaves at most its fault behind.
LEMMA LeakInvStep ==
  ASSUME MountInv, DiskInv, LeakInv, [Next]_mountVars
  PROVE  LeakInv'
<1>1. LeakPaid
  BY LeakStep
<1>2. faults \in Nat
  <2>1. faults \in 0 .. world.maxFaults
    BY TypeParts DEF MountInv, CallsOK, CountsOK
  <2> QED
    BY <2>1
<1>3. SUFFICES ASSUME ~world.shared, SystemUp'
               PROVE  IsFiniteSet(Lost') /\ Cardinality(Lost') <= faults'
  BY <1>1 DEF LeakInv, LeakPaid
<1>4. IsFiniteSet(Lost) /\ Cardinality(Lost) <= faults /\ Cardinality(Lost) \in Nat
  BY <1>1, <1>3, FS_CardinalityType DEF LeakInv, LeakPaid
<1>5. CASE faults' = faults /\ Lost' \subseteq Lost
  <2>1. IsFiniteSet(Lost') /\ Cardinality(Lost') <= Cardinality(Lost) /\ Cardinality(Lost') \in Nat
    BY <1>4, <1>5, FS_Subset, FS_CardinalityType
  <2> QED
    BY <1>2, <1>4, <1>5, <2>1
<1>6. ASSUME faults' = faults + 1, NEW x, Lost' \subseteq Lost \cup {x}
      PROVE  IsFiniteSet(Lost') /\ Cardinality(Lost') <= faults'
  <2>1. IsFiniteSet(Lost \cup {x}) /\ Cardinality(Lost \cup {x}) <= Cardinality(Lost) + 1
        /\ Cardinality(Lost \cup {x}) \in Nat
    <3>1. IsFiniteSet(Lost \cup {x})
          /\ (Cardinality(Lost \cup {x}) = Cardinality(Lost) \/ Cardinality(Lost \cup {x}) = Cardinality(Lost) + 1)
      BY <1>4, FS_AddElement
    <3> QED
      BY <3>1, <1>4
  <2>2. IsFiniteSet(Lost') /\ Cardinality(Lost') <= Cardinality(Lost \cup {x}) /\ Cardinality(Lost') \in Nat
    BY <1>6, <2>1, FS_Subset, FS_CardinalityType
  <2> QED
    BY <1>2, <1>4, <1>6, <2>1, <2>2
<1> QED
  BY <1>1, <1>3, <1>5, <1>6 DEF LeakPaid

\* What nobody will release and no record names is among what is lost: who is
\* about to write the record of a device has it open, or keeps its name.
LEMMA UnrecordedIsLost == MountInv => Unrecorded \subseteq Lost
<1> SUFFICES ASSUME MountInv PROVE Unrecorded \subseteq Lost
  OBVIOUS
<1>0. CallsOK /\ RecordsOK /\ DevicesOK /\ JobInv /\ DeviceInv /\ AttachedInv
  BY TypeParts DEF MountInv
<1>1. \A c \in Copies : /\ loopRecords[c] \subseteq UNION Range(loopRecords)
                        /\ dmRecords[c] \subseteq UNION Range(dmRecords)
  BY <1>0 DEF RecordsOK, Range
<1>2. ASSUME NEW d \in LoopDevices, backing[d] # None, ~autoclear[d],
             \A p \in Procs : d \notin opened[p], d \notin UNION Range(loopRecords)
      PROVE  d \in LostLoops
  <2>1. \A p \in Procs : pc[p] = "loopRecord" => device[p] # d
    BY <1>0, <1>2 DEF AttachedInv, AttachedOf
  <2> QED
    BY <1>1, <1>2, <2>1 DEF LostLoops
<1>3. ASSUME NEW n \in DmDevices, dmTable[n] # None, \A p \in Procs : device[p] # n,
             n \notin UNION Range(dmRecords)
      PROVE  n \in LostDms
  BY <1>1, <1>3 DEF LostDms
<1>4. ASSUME NEW c \in disks, ~Busy(c), mountRecord[c] # c
      PROVE  c \in LostDisks
  BY <1>0, <1>4 DEF LostDisks, Busy, DevicesOK
<1> QED
  BY <1>2, <1>3, <1>4 DEF Unrecorded, Lost

LEMMA LeakInvInit == Init => DiskInv /\ LeakInv
<1> SUFFICES ASSUME Init PROVE DiskInv /\ LeakInv
  OBVIOUS
<1>1. LostLoops = {} /\ LostDms = {} /\ LostDisks = {}
  BY DEF Init, LostLoops, LostDms, LostDisks, Attaching
<1>2. Lost = {} /\ faults = 0
  BY <1>1 DEF Init, Lost
<1>3. LeakInv
  BY <1>2, FS_EmptySet DEF LeakInv
<1> QED
  BY <1>3 DEF Init, DiskInv

\* With an output directory for each copy, and as long as devices can be seen,
\* the devices and disks that stay behind and that no record names, so that no
\* later rollback finds them, are at most one for each crash or failing call.
THEOREM LeaksArePaidFor == Spec => []LeaksAreFaults
<1>1. MountInv /\ LeakInv => LeaksAreFaults
  <2> SUFFICES ASSUME MountInv, LeakInv, ~world.shared, SystemUp
               PROVE  Cardinality(Unrecorded) <= faults
    BY DEF LeaksAreFaults
  <2>1. IsFiniteSet(Lost) /\ Cardinality(Lost) <= faults /\ Cardinality(Lost) \in Nat
    BY FS_CardinalityType DEF LeakInv
  <2>2. Unrecorded \subseteq Lost
    BY UnrecordedIsLost
  <2>3. IsFiniteSet(Unrecorded) /\ Cardinality(Unrecorded) <= Cardinality(Lost)
    BY <2>1, <2>2, FS_Subset
  <2>4. Cardinality(Unrecorded) \in Nat
    BY <2>3, FS_CardinalityType
  <2>5. faults \in Nat
    <3>1. faults \in 0 .. world.maxFaults
      BY TypeParts DEF MountInv, CallsOK, CountsOK
    <3> QED
      BY <3>1
  <2> QED
    BY <2>1, <2>3, <2>4, <2>5
<1>2. MountInv /\ DiskInv /\ LeakInv /\ [Next]_mountVars => (DiskInv /\ LeakInv)'
  BY DiskStep, LeakInvStep
<1> QED
  BY <1>1, <1>2, LeakInvInit, MountInvHolds, PTL DEF Spec
=============================================================================
