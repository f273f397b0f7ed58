------------------------------ MODULE CopyLayout ------------------------------
(***************************************************************************)
(* Where each byte of the volume lies in the copy.  A backup creates the   *)
(* virtual disk and its partitions, splits the volume into sessions and    *)
(* copies each block by block; a mount later puts the files together into  *)
(* one device again, from the segments that the backup has recorded and    *)
(* arithmetic of its own.  All sizes are unsigned machine words.           *)
(*                                                                         *)
(* Nothing fails here but what is too large or does not fit together, and  *)
(* every file is there (which are is CopyResource's subject); a session is *)
(* known by its number counted from 1.                                     *)
(*                                                                         *)
(* A definition Name_Variant is Name with a plausible mistake in it; it is *)
(* used nowhere in the specification.                                      *)
(***************************************************************************)
EXTENDS Integers, Sequences

CONSTANTS
  Configs,       \* format, volumeSize, sessionSize and blockSize of a backup
  Word,          \* 2^64
  Sector,        \* of a block device
  GptTable, Msr, Footer,   \* what a virtual disk holds beside the volume
  Padding,       \* the multiples a virtual disk's size comes in
  MaxDiskSize    \* of each format of virtual disk

DiskFormats == {"VHD_FIXED", "VHD_DYNAMIC", "VHDX_FIXED", "VHDX_DYNAMIC"}
Formats == {"BIN", "IMAGE"} \cup DiskFormats

\* No volume, with what a disk needs beside it, is half as large as a word can
\* count.  A session size of 0 would keep Prepare splitting for ever: nobody
\* checks that, it is the caller's business.
ASSUME LayoutAssumption ==
  /\ {Word, Sector, GptTable, Msr, Footer, Padding} \subseteq Nat \ {0}
  /\ MaxDiskSize \in [DiskFormats -> Nat]
  /\ \A f \in DiskFormats : MaxDiskSize[f] % Padding = 0
  /\ GptTable * 2 <= Footer
  /\ Configs \subseteq [format : Formats, volumeSize : Nat \ {0},
                        sessionSize : Nat \ {0}, blockSize : Nat \ {0}]
  /\ \A c \in Configs :
       /\ 2 * (c.volumeSize + 2 * GptTable + Msr + Footer) < Word
       /\ c.sessionSize < Word

VARIABLES
  config, pc,
  disk,          \* size of the virtual disk
  partitions,    \* its usable part, MSR partition and data partition
  sessionOffset, \* Prepare's loop
  segments,      \* VolumeCopyMeta::segments: [offset, length]
  session,       \* ThreadFunc's session, and in it
  position,      \* m_currentIndex * blockSize
  extents,       \* what has been copied: [session, from, length, file, at]
  device         \* what is mounted: [start, length, file, at], one after the other

vars == <<config, pc, disk, partitions, sessionOffset, segments, session, position,
          extents, device>>

NoPartitions == [usable |-> [start |-> 0, length |-> 0], msr |-> [start |-> 0, length |-> 0],
                 data |-> [start |-> 0, length |-> 0]]

Init ==
  /\ config \in Configs
  /\ pc = IF config.format \in DiskFormats THEN "create" ELSE "split"
  /\ disk = 0 /\ partitions = NoPartitions
  /\ sessionOffset = 0 /\ segments = <<>>
  /\ session = 1 /\ position = 0 /\ extents = {} /\ device = <<>>

-----------------------------------------------------------------------------
(* The virtual disk.                                                       *)

\* VIRTUAL_DISK_COPY_ADDITIONAL_SIZE
AdditionalSize_OneTable == GptTable + Msr
AdditionalSize == 2 * GptTable + Msr + Footer
FinalSize == (config.volumeSize + AdditionalSize) % Word

VirtualDiskSizePadding2MB(n) ==
  IF n % Padding = 0 THEN n ELSE (n \div Padding + 1) * Padding

\* CreateFixedVHDFile and the three like it.
CreateVirtualDiskFile ==
  /\ pc = "create"
  /\ IF FinalSize >= MaxDiskSize[config.format]
     THEN pc' = "tooLarge" /\ UNCHANGED disk
     ELSE pc' = "initDisk" /\ disk' = VirtualDiskSizePadding2MB(FinalSize)
  /\ UNCHANGED <<config, partitions, sessionOffset, segments, session, position, extents, device>>

InitVirtualDiskGPT ==
  /\ pc = "initDisk" /\ pc' = "split"
  /\ partitions' =
       [usable |-> [start |-> GptTable, length |-> 2 * GptTable + Msr + config.volumeSize],
        msr |-> [start |-> GptTable, length |-> Msr],
        data |-> [start |-> GptTable + Msr, length |-> config.volumeSize]]
  /\ UNCHANGED <<config, disk, sessionOffset, segments, session, position, extents, device>>

-----------------------------------------------------------------------------
(* Splitting the volume and copying it.                                    *)

SessionLength_Whole == config.sessionSize
SessionLength ==
  IF (sessionOffset + config.sessionSize) % Word >= config.volumeSize
  THEN config.volumeSize - sessionOffset ELSE config.sessionSize

SplitSession ==
  /\ pc = "split" /\ sessionOffset < config.volumeSize
  /\ segments' = Append(segments, [offset |-> sessionOffset, length |-> SessionLength])
  /\ sessionOffset' = (sessionOffset + SessionLength) % Word
  /\ UNCHANGED <<config, pc, disk, partitions, session, position, extents, device>>

SplitDone ==
  /\ pc = "split" /\ sessionOffset >= config.volumeSize /\ pc' = "copy"
  /\ UNCHANGED <<config, disk, partitions, sessionOffset, segments, session, position,
                 extents, device>>

\* GetCopyDataFilePath: one file for the copy, or one for each session.
CopyDataFile(s) == IF config.format = "BIN" THEN s ELSE 1

\* Where OpenRawDataCopyWriter's writer puts what is at an offset of the
\* volume: in a file of a session shifted by the session's offset, in an image
\* unshifted, and on the volume that the data partition is.
Place_Unshifted(s, offset) ==
  IF config.format \in DiskFormats THEN partitions.data.start + offset ELSE offset

Place_ShiftedTwice(s, offset) ==
  IF config.format = "BIN" THEN offset - segments[s].offset - segments[s].offset
  ELSE IF config.format = "IMAGE" THEN offset
  ELSE partitions.data.start + offset

Place(s, offset) ==
  IF config.format = "BIN" THEN offset - segments[s].offset
  ELSE IF config.format = "IMAGE" THEN offset
  ELSE partitions.data.start + offset

\* ReadBlock: the last block of a session may be short.
BlockLength ==
  IF segments[session].length - position < config.blockSize
  THEN segments[session].length - position ELSE config.blockSize

CopyBlock ==
  /\ pc = "copy" /\ session <= Len(segments) /\ position < segments[session].length
  /\ LET from == segments[session].offset + position
     IN extents' = extents \cup
          {[session |-> session, from |-> from, length |-> BlockLength,
            file |-> CopyDataFile(session), at |-> Place(session, from)]}
  /\ position' = position + config.blockSize
  /\ UNCHANGED <<config, pc, disk, partitions, sessionOffset, segments, session, device>>

NextSession ==
  /\ pc = "copy" /\ session <= Len(segments) /\ position >= segments[session].length
  /\ session' = session + 1 /\ position' = 0
  /\ UNCHANGED <<config, pc, disk, partitions, sessionOffset, segments, extents, device>>

CopyDone ==
  /\ pc = "copy" /\ session > Len(segments) /\ pc' = "mount"
  /\ UNCHANGED <<config, disk, partitions, sessionOffset, segments, session, position,
                 extents, device>>

-----------------------------------------------------------------------------
(* Mounting it.                                                            *)

\* A loop device shows whole sectors of its file.
WholeSectors(n) == (n \div Sector) * Sector

\* An image or a copy of one session is a loop device, a virtual disk's volume
\* is its data partition.
MountWhole ==
  /\ pc = "mount" /\ (config.format = "BIN" => Len(segments) = 1) /\ pc' = "mounted"
  /\ device' =
       <<IF config.format \in DiskFormats
         THEN [start |-> 0, length |-> partitions.data.length, file |-> CopyDataFile(1),
               at |-> partitions.data.start]
         ELSE [start |-> 0, length |-> WholeSectors(config.volumeSize),
               file |-> CopyDataFile(1), at |-> 0]>>
  /\ UNCHANGED <<config, disk, partitions, sessionOffset, segments, session, position, extents>>

\* CreateDmDevice: each segment is a target on its loop device, from the
\* device's first sector.
AddTarget ==
  /\ pc = "mount" /\ config.format = "BIN" /\ Len(segments) > 1 /\ Len(device) < Len(segments)
  /\ LET s == Len(device) + 1
     IN device' = Append(device,
          [start |-> WholeSectors(segments[s].offset),
           length |-> WholeSectors(segments[s].length),
           file |-> CopyDataFile(s), at |-> 0])
  /\ UNCHANGED <<config, pc, disk, partitions, sessionOffset, segments, session, position, extents>>

\* DM_TABLE_LOAD takes a table without empty targets, gaps and overlaps.
GoodTable ==
  /\ device[1].start = 0
  /\ \A i \in DOMAIN device : device[i].length > 0
  /\ \A i \in 1 .. Len(device) - 1 : device[i + 1].start = device[i].start + device[i].length

LoadTable ==
  /\ pc = "mount" /\ config.format = "BIN" /\ Len(segments) > 1 /\ Len(device) = Len(segments)
  /\ pc' = IF GoodTable THEN "mounted" ELSE "refused"
  /\ UNCHANGED <<config, disk, partitions, sessionOffset, segments, session, position, extents,
                 device>>

-----------------------------------------------------------------------------
Next ==
  \/ CreateVirtualDiskFile \/ InitVirtualDiskGPT
  \/ SplitSession \/ SplitDone \/ CopyBlock \/ NextSession \/ CopyDone
  \/ MountWhole \/ AddTarget \/ LoadTable

Spec == Init /\ [][Next]_vars

-----------------------------------------------------------------------------
(* Properties.                                                             *)

Ranges == [start : Nat, length : Nat]
Segments == [offset : Nat, length : Nat \ {0}]
Extents == [session : Nat, from : Nat, length : Nat \ {0}, file : Nat, at : Nat]
Targets == [start : Nat, length : Nat, file : Nat, at : Nat]

\* The variables stay within their types: no size or place is negative.
LayoutTypeOK ==
  /\ config \in Configs
  /\ pc \in {"create", "initDisk", "split", "copy", "mount", "mounted", "refused", "tooLarge"}
  /\ disk \in Nat /\ partitions \in [usable : Ranges, msr : Ranges, data : Ranges]
  /\ sessionOffset \in Nat /\ segments \in Seq(Segments)
  /\ session \in Nat \ {0} /\ position \in Nat
  /\ extents \subseteq Extents /\ device \in Seq(Targets)

Overlap(a, m, b, n) == a < b + n /\ b < a + m

\* Whatever the sizes: no byte of the volume is copied twice or to where
\* another is, and in the end none is left out.
NothingTwice ==
  \A e, f \in extents : e # f =>
    /\ ~Overlap(e.from, e.length, f.from, f.length)
    /\ e.file = f.file => ~Overlap(e.at, e.length, f.at, f.length)
NothingLeftOut ==
  pc \in {"mount", "mounted", "refused"} =>
    \A b \in 0 .. config.volumeSize - 1 :
      \E e \in extents : e.from <= b /\ b < e.from + e.length
InsideVolume == \A e \in extents : e.from + e.length <= config.volumeSize
CopiedOnce == NothingTwice /\ NothingLeftOut /\ InsideVolume

\* The parts of a virtual disk in the order of the picture in Win32RawIO.cpp:
\* the volume has its partition behind the MSR partition, both in the usable
\* part.  That part is what InitVirtualDiskGPT makes it, not what the picture
\* draws, up to the end of the disk: it leaves room for the partition table at
\* either end.  The disk's size is one Windows can create.
PartitionFits ==
  pc \notin {"create", "initDisk", "tooLarge"} /\ config.format \in DiskFormats =>
    /\ disk <= MaxDiskSize[config.format] /\ disk % Padding = 0
    /\ partitions.data.length = config.volumeSize
    /\ partitions.usable.start >= GptTable
    /\ partitions.msr.start >= partitions.usable.start
    /\ partitions.data.start >= partitions.msr.start + partitions.msr.length
    /\ partitions.data.start + partitions.data.length
         <= partitions.usable.start + partitions.usable.length
    /\ partitions.usable.start + partitions.usable.length + GptTable <= disk

\* What a mounted copy shows at a place is what the volume had there, and no
\* table is refused, if the volume and its sessions are whole sectors.
Aligned ==
  /\ config.volumeSize % Sector = 0
  /\ config.sessionSize % Sector = 0 \/ config.sessionSize >= config.volumeSize
Shows(d, e) ==
  /\ d.file = e.file
  /\ d.start <= e.from /\ e.from + e.length <= d.start + d.length
  /\ d.at + (e.from - d.start) = e.at
MountShowsVolume ==
  Aligned =>
    /\ pc # "refused"
    /\ pc = "mounted" => \A e \in extents : \E i \in DOMAIN device : Shows(device[i], e)
=============================================================================
