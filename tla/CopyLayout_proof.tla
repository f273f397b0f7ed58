-------------------------- MODULE CopyLayout_proof --------------------------
(***************************************************************************)
(* Proofs about CopyLayout, for every size of the volume, of sessions,     *)
(* blocks and sectors, and for every virtual disk.                         *)
(***************************************************************************)
EXTENDS CopyLayout, SequenceTheorems, TLAPS

-----------------------------------------------------------------------------
(* Whole numbers of things.                                                *)

\* The quotient, the remainder and what they make.
LEMMA Division ==
  ASSUME NEW n \in Nat, NEW k \in Nat \ {0}
  PROVE  n \div k \in Nat /\ n % k \in 0 .. k - 1 /\ n = (n \div k) * k + (n % k)
OBVIOUS

\* A multiple leaves no remainder.
LEMMA Multiple ==
  ASSUME NEW q \in Nat, NEW k \in Nat \ {0}
  PROVE  (q * k) % k = 0 /\ (q * k) \div k = q
OBVIOUS

\* What is less than a word is not cut.
LEMMA Uncut ==
  ASSUME NEW n \in Nat, NEW k \in Nat \ {0}, n < k
  PROVE  n % k = n
OBVIOUS

\* More of the same is more.
LEMMA Monotone ==
  ASSUME NEW p \in Nat, NEW q \in Nat, NEW k \in Nat, p <= q
  PROVE  p * k <= q * k
<1> DEFINE r == q - p
<1>1. r \in Nat /\ q = p + r
  OBVIOUS
<1> HIDE DEF r
<1>2. q * k = p * k + r * k /\ r * k \in Nat /\ p * k \in Nat
  BY <1>1
<1> QED
  BY <1>2

\* Sums of multiples are multiples, ...
LEMMA MultiplesAdd ==
  ASSUME NEW m \in Nat, NEW n \in Nat, NEW k \in Nat \ {0}, m % k = 0, n % k = 0
  PROVE  (m + n) % k = 0
<1> DEFINE p == m \div k
           q == n \div k
<1>1. p \in Nat /\ q \in Nat /\ m = p * k /\ n = q * k
  BY Division
<1> HIDE DEF p, q
<1>2. m + n = (p + q) * k /\ p + q \in Nat
  BY <1>1
<1> QED
  BY <1>2, Multiple

\* ... and differences.
LEMMA MultiplesSubtract ==
  ASSUME NEW m \in Nat, NEW n \in Nat, NEW k \in Nat \ {0}, m % k = 0, n % k = 0, n <= m
  PROVE  (m - n) % k = 0
<1> DEFINE p == m \div k
           q == n \div k
<1>1. p \in Nat /\ q \in Nat /\ m = p * k /\ n = q * k
  BY Division
<1> HIDE DEF p, q
<1>2. CASE q <= p
  <2>1. m - n = (p - q) * k /\ p - q \in Nat
    BY <1>1, <1>2
  <2> QED
    BY <2>1, Multiple
<1>3. CASE p <= q
  <2>1. m = n
    BY <1>1, <1>3, Monotone
  <2>2. m - n = 0 * k
    BY <2>1
  <2> QED
    BY <2>2, Multiple
<1> QED
  BY <1>1, <1>2, <1>3

\* The next multiple is not beyond one that is greater.
LEMMA NextMultiple ==
  ASSUME NEW m \in Nat, NEW n \in Nat, NEW k \in Nat \ {0}, m % k = 0, n < m
  PROVE  /\ (n \div k + 1) * k <= m /\ (n \div k + 1) * k >= n
         /\ ((n \div k + 1) * k) % k = 0
<1> DEFINE p == m \div k
           q == n \div k
<1>1. p \in Nat /\ q \in Nat /\ m = p * k /\ n % k \in 0 .. k - 1 /\ n = q * k + (n % k)
  BY Division
<1> HIDE DEF p, q
<1>2. q + 1 \in Nat
  BY <1>1
<1>3. p >= q + 1
  <2> SUFFICES ASSUME p <= q PROVE FALSE
    BY <1>1
  <2>1. p * k <= q * k
    BY <1>1, Monotone
  <2> QED
    BY <1>1, <2>1
<1>4. (q + 1) * k <= p * k /\ (q + 1) * k = q * k + k
  BY <1>1, <1>2, <1>3, Monotone
<1>5. (q + 1) * k <= m /\ (q + 1) * k >= n
  BY <1>1, <1>4
<1>6. ((q + 1) * k) % k = 0
  BY <1>2, Multiple
<1> QED
  BY <1>5, <1>6 DEF q

\* A device shows all of a file of whole sectors.
LEMMA AllSectors ==
  ASSUME NEW n \in Nat, n % Sector = 0
  PROVE  WholeSectors(n) = n
<1>1. Sector \in Nat \ {0}
  BY LayoutAssumption
<1>2. n = (n \div Sector) * Sector + 0 /\ n \div Sector \in Nat
  BY <1>1, Division
<1>3. (n \div Sector) * Sector \in Nat
  BY <1>1, <1>2
<1> QED
  BY <1>2, <1>3 DEF WholeSectors

\* A virtual disk is padded to a size it can have.
LEMMA PaddedSize ==
  ASSUME NEW f \in DiskFormats, NEW n \in Nat, n < MaxDiskSize[f]
  PROVE  /\ VirtualDiskSizePadding2MB(n) \in Nat
         /\ VirtualDiskSizePadding2MB(n) >= n
         /\ VirtualDiskSizePadding2MB(n) <= MaxDiskSize[f]
         /\ VirtualDiskSizePadding2MB(n) % Padding = 0
<1>1. Padding \in Nat \ {0} /\ MaxDiskSize[f] \in Nat /\ MaxDiskSize[f] % Padding = 0
  BY LayoutAssumption
<1>2. /\ (n \div Padding + 1) * Padding <= MaxDiskSize[f]
      /\ (n \div Padding + 1) * Padding >= n
      /\ ((n \div Padding + 1) * Padding) % Padding = 0
  BY <1>1, NextMultiple
<1>3. n \div Padding + 1 \in Nat
  <2>1. n \div Padding \in Nat
    BY <1>1, Division
  <2> QED
    BY <2>1
<1>4. (n \div Padding + 1) * Padding \in Nat
  BY <1>1, <1>3
<1> QED
  BY <1>1, <1>2, <1>4 DEF VirtualDiskSizePadding2MB

\* The sizes of a configuration.
LEMMA Sizes ==
  ASSUME config \in Configs
  PROVE  /\ config.volumeSize \in Nat \ {0} /\ config.sessionSize \in Nat \ {0}
         /\ config.blockSize \in Nat \ {0} /\ config.format \in Formats
         /\ AdditionalSize \in Nat \ {0}
         /\ 2 * (config.volumeSize + AdditionalSize) < Word
         /\ config.sessionSize < Word /\ Word \in Nat
BY LayoutAssumption DEF AdditionalSize

-----------------------------------------------------------------------------
(* Types.                                                                  *)

\* What the loops compute is a size.
LEMMA SizesComputed ==
  ASSUME LayoutTypeOK
  PROVE  /\ FinalSize \in Nat
         /\ sessionOffset < config.volumeSize => SessionLength \in Nat \ {0}
         /\ sessionOffset < config.volumeSize => (sessionOffset + SessionLength) % Word \in Nat
         /\ session <= Len(segments) => segments[session] \in Segments
         /\ session <= Len(segments) /\ position < segments[session].length =>
              BlockLength \in Nat \ {0}
<1> USE DEF LayoutTypeOK, Segments
<1>1. Word \in Nat \ {0}
  BY LayoutAssumption
<1>2. FinalSize \in Nat
  <2>1. config.volumeSize + AdditionalSize \in Nat
    BY Sizes
  <2> QED
    BY <1>1, <2>1, Division DEF FinalSize
<1>3. sessionOffset < config.volumeSize => SessionLength \in Nat \ {0}
  BY Sizes DEF SessionLength
<1>4. sessionOffset < config.volumeSize => (sessionOffset + SessionLength) % Word \in Nat
  BY <1>1, <1>3, Division
<1>5. session <= Len(segments) => segments[session] \in Segments
  <2> SUFFICES ASSUME session <= Len(segments) PROVE segments[session] \in Segments
    OBVIOUS
  <2>1. session \in 1 .. Len(segments) /\ segments \in Seq(Segments)
    OBVIOUS
  <2> HIDE DEF LayoutTypeOK, Segments
  <2> QED
    BY <2>1, ElementOfSeq
<1>6. session <= Len(segments) /\ position < segments[session].length =>
        BlockLength \in Nat \ {0}
  BY <1>5, Sizes DEF BlockLength
<1> QED
  BY <1>2, <1>3, <1>4, <1>5, <1>6

\* A place in the copy is a place.
LEMMA PlaceType ==
  ASSUME LayoutTypeOK, NEW s \in 1 .. Len(segments), NEW offset \in Nat,
         offset >= segments[s].offset
  PROVE  Place(s, offset) \in Nat
<1>1. segments[s] \in Segments
  BY ElementOfSeq DEF LayoutTypeOK
<1>2. segments[s].offset \in Nat
  BY <1>1 DEF Segments
<1>3. partitions.data.start \in Nat
  BY DEF LayoutTypeOK, Ranges
<1> QED
  BY <1>2, <1>3 DEF Place

LEMMA WholeSectorsType ==
  ASSUME NEW n \in Nat PROVE WholeSectors(n) \in Nat
<1>1. Sector \in Nat \ {0} /\ n \div Sector \in Nat
  BY LayoutAssumption, Division
<1> QED
  BY <1>1 DEF WholeSectors

LEMMA TypeInit == Init => LayoutTypeOK
<1>1. <<>> \in Seq(Segments) /\ <<>> \in Seq(Targets)
  OBVIOUS
<1> QED
  BY <1>1 DEF Init, LayoutTypeOK, NoPartitions, Ranges

LEMMA TypeStep == LayoutTypeOK /\ [Next]_vars => LayoutTypeOK'
<1> SUFFICES ASSUME LayoutTypeOK, [Next]_vars PROVE LayoutTypeOK'
  OBVIOUS
<1> USE DEF LayoutTypeOK
<1>1. CASE CreateVirtualDiskFile
  <2>1. VirtualDiskSizePadding2MB(FinalSize) \in Nat
    <3>1. FinalSize \in Nat /\ Padding \in Nat \ {0}
      BY SizesComputed, LayoutAssumption
    <3>2. FinalSize \div Padding \in Nat
      BY <3>1, Division
    <3>3. (FinalSize \div Padding + 1) * Padding \in Nat
      BY <3>1, <3>2
    <3> QED
      BY <3>1, <3>3 DEF VirtualDiskSizePadding2MB
  <2> QED
    BY <1>1, <2>1 DEF CreateVirtualDiskFile
<1>2. CASE InitVirtualDiskGPT
  <2>1. {GptTable, Msr, GptTable + Msr, 2 * GptTable + Msr + config.volumeSize,
         config.volumeSize} \subseteq Nat
    <3>1. GptTable \in Nat /\ Msr \in Nat
      BY LayoutAssumption
    <3> QED
      BY <3>1, Sizes
  <2> QED
    BY <1>2, <2>1 DEF InitVirtualDiskGPT, Ranges
<1>3. CASE SplitSession
  <2>1. [offset |-> sessionOffset, length |-> SessionLength] \in Segments
    BY <1>3, SizesComputed DEF SplitSession, Segments
  <2>2. segments' \in Seq(Segments)
    BY <1>3, <2>1, AppendProperties DEF SplitSession
  <2> QED
    BY <1>3, <2>2, SizesComputed DEF SplitSession
<1>4. CASE CopyBlock
  <2> DEFINE from == segments[session].offset + position
  <2>1. segments[session] \in Segments /\ BlockLength \in Nat \ {0} /\ session \in 1 .. Len(segments)
    BY <1>4, SizesComputed DEF CopyBlock
  <2>2. from \in Nat /\ from >= segments[session].offset
    BY <2>1 DEF Segments
  <2>3. Place(session, from) \in Nat
    BY <2>1, <2>2, PlaceType
  <2>4. CopyDataFile(session) \in Nat
    BY DEF CopyDataFile
  <2>5. [session |-> session, from |-> from, length |-> BlockLength,
         file |-> CopyDataFile(session), at |-> Place(session, from)] \in Extents
    BY <2>1, <2>2, <2>3, <2>4 DEF Extents
  <2>6. position' \in Nat
    BY <1>4, Sizes DEF CopyBlock
  <2> QED
    BY <1>4, <2>5, <2>6 DEF CopyBlock
<1>5. CASE NextSession
  BY <1>5 DEF NextSession
<1>6. CASE SplitDone \/ CopyDone
  BY <1>6 DEF SplitDone, CopyDone
<1>7. CASE MountWhole
  <2>1. WholeSectors(config.volumeSize) \in Nat /\ CopyDataFile(1) \in Nat
    BY WholeSectorsType, Sizes DEF CopyDataFile
  <2>2. {partitions.data.length, partitions.data.start} \subseteq Nat
    BY DEF Ranges
  <2>3. device' \in Seq(Targets)
    <3> DEFINE whole == IF config.format \in DiskFormats
          THEN [start |-> 0, length |-> partitions.data.length, file |-> CopyDataFile(1),
                at |-> partitions.data.start]
          ELSE [start |-> 0, length |-> WholeSectors(config.volumeSize),
                file |-> CopyDataFile(1), at |-> 0]
    <3>1. whole \in Targets
      BY <2>1, <2>2 DEF Targets
    <3>2. <<whole>> \in Seq(Targets)
      BY <3>1
    <3> QED
      BY <1>7, <3>2 DEF MountWhole
  <2> QED
    BY <1>7, <2>3 DEF MountWhole
<1>8. CASE AddTarget
  <2> DEFINE s == Len(device) + 1
             target == [start |-> WholeSectors(segments[s].offset),
                        length |-> WholeSectors(segments[s].length),
                        file |-> CopyDataFile(s), at |-> 0]
  <2>1. s \in 1 .. Len(segments) /\ segments[s] \in Segments
    BY <1>8, ElementOfSeq DEF AddTarget
  <2>2. target \in Targets
    <3>1. segments[s].offset \in Nat /\ segments[s].length \in Nat /\ s \in Nat
      BY <2>1 DEF Segments
    <3>2. CopyDataFile(s) \in Nat
      BY <3>1 DEF CopyDataFile
    <3> QED
      BY <3>1, <3>2, WholeSectorsType DEF Targets
  <2>3. Append(device, target) \in Seq(Targets)
    BY <2>2, AppendProperties
  <2> QED
    BY <1>8, <2>3 DEF AddTarget
<1>9. CASE LoadTable
  BY <1>9 DEF LoadTable
<1>10. CASE UNCHANGED vars
  BY <1>10 DEF vars
<1> QED
  BY <1>1, <1>2, <1>3, <1>4, <1>5, <1>6, <1>7, <1>8, <1>9, <1>10 DEF Next

\* No size or place is ever negative.
THEOREM LayoutTypeCorrect == Spec => []LayoutTypeOK
BY TypeInit, TypeStep, PTL DEF Spec

-----------------------------------------------------------------------------
(* The inductive invariant: how far each loop has come, and that what is   *)
(* behind it is in place.                                                  *)

BeforeSplit == {"create", "initDisk", "tooLarge"}
BeforeCopy == BeforeSplit \cup {"split"}
Numbers == 1 .. Len(segments)
End(i) == segments[i].offset + segments[i].length

\* The sessions follow one another from the beginning of the volume; while
\* there is something to split off, a session size cannot wrap around.
SplitInv ==
  /\ pc \in BeforeSplit => segments = <<>>
  /\ sessionOffset <= config.volumeSize
  /\ pc \notin BeforeCopy => sessionOffset = config.volumeSize
  /\ \/ sessionOffset = 0 \/ sessionOffset = config.volumeSize
     \/ config.sessionSize <= sessionOffset
  /\ segments = <<>> => sessionOffset = 0
  /\ segments # <<>> => segments[1].offset = 0 /\ End(Len(segments)) = sessionOffset
  /\ \A i \in Numbers : End(i) <= sessionOffset
  /\ \A i, j \in Numbers : i < j => End(i) <= segments[j].offset
  /\ \A i \in Numbers : i < Len(segments) => segments[i + 1].offset = End(i)

\* What has been copied is part of its session, and of what the current
\* session has behind it.
InSession(e) ==
  /\ e.session \in Numbers /\ e.session <= session
  /\ segments[e.session].offset <= e.from /\ e.from + e.length <= End(e.session)
  /\ e.session = session => e.from + e.length <= segments[session].offset + position
  /\ e.file = CopyDataFile(e.session) /\ e.at = Place(e.session, e.from)

Covers(e, b) == e.from <= b /\ b < e.from + e.length
Behind(b) ==
  session \in Numbers => b < End(session) /\ b < segments[session].offset + position

CopyInv ==
  /\ pc \in BeforeCopy => extents = {} /\ session = 1 /\ position = 0
  /\ pc \notin BeforeCopy => session <= Len(segments) + 1
  /\ pc \in {"mount", "mounted", "refused"} => session = Len(segments) + 1
  /\ \A e \in extents : InSession(e)
  /\ \A e, f \in extents : e # f => ~Overlap(e.from, e.length, f.from, f.length)
  /\ pc \notin BeforeCopy =>
       \A b \in 0 .. config.volumeSize - 1 : Behind(b) => \E e \in extents : Covers(e, b)

\* A virtual disk has room for the volume and what comes with it, and its
\* partitions are where they are put.
DiskSized ==
  /\ config.volumeSize + AdditionalSize <= disk
  /\ disk <= MaxDiskSize[config.format] /\ disk % Padding = 0
Partitioned ==
  /\ partitions.usable = [start |-> GptTable,
                          length |-> 2 * GptTable + Msr + config.volumeSize]
  /\ partitions.msr = [start |-> GptTable, length |-> Msr]
  /\ partitions.data = [start |-> GptTable + Msr, length |-> config.volumeSize]
DiskInv ==
  config.format \in DiskFormats =>
    /\ pc \notin {"create", "tooLarge"} => DiskSized
    /\ pc \notin BeforeSplit => Partitioned

AlignInv ==
  Aligned =>
    /\ sessionOffset % Sector = 0
    /\ \A i \in Numbers : segments[i].offset % Sector = 0 /\ segments[i].length % Sector = 0

\* The device is a table of all sessions, or one file.
TargetOf(i) ==
  [start |-> WholeSectors(segments[i].offset), length |-> WholeSectors(segments[i].length),
   file |-> CopyDataFile(i), at |-> 0]
IsTable == \A i \in 1 .. Len(device) : i \in Numbers /\ device[i] = TargetOf(i)
WholeDevice ==
  IF config.format \in DiskFormats
  THEN [start |-> 0, length |-> partitions.data.length, file |-> CopyDataFile(1),
        at |-> partitions.data.start]
  ELSE [start |-> 0, length |-> WholeSectors(config.volumeSize),
        file |-> CopyDataFile(1), at |-> 0]

DeviceInv ==
  /\ pc \in BeforeCopy \cup {"copy"} => device = <<>>
  /\ pc = "mount" => IsTable
  /\ pc = "mounted" =>
       \/ config.format = "BIN" /\ IsTable /\ Len(device) = Len(segments)
       \/ device = <<WholeDevice>> /\ (config.format = "BIN" => Len(segments) = 1)
  /\ pc = "refused" => ~Aligned

LayoutInv == SplitInv /\ CopyInv /\ DiskInv /\ AlignInv /\ DeviceInv

-----------------------------------------------------------------------------
(* It holds at first.                                                      *)

LEMMA LayoutInvInit == Init => LayoutInv
<1> SUFFICES ASSUME Init PROVE LayoutInv
  OBVIOUS
<1>1. segments = <<>> /\ Len(segments) = 0 /\ device = <<>> /\ Len(device) = 0 /\ extents = {}
  BY DEF Init
<1>2. config \in Configs /\ Sector \in Nat \ {0} /\ sessionOffset = 0
  BY LayoutAssumption DEF Init
<1>3. SplitInv
  BY <1>1, <1>2, Sizes DEF Init, SplitInv, Numbers, BeforeSplit, BeforeCopy, End
<1>4. CopyInv
  BY <1>1 DEF Init, CopyInv, BeforeSplit, BeforeCopy
<1>5. DiskInv
  BY DEF Init, DiskInv, BeforeSplit
<1>6. AlignInv
  <2>1. sessionOffset % Sector = 0
    BY <1>2
  <2> QED
    BY <1>1, <2>1 DEF AlignInv, Numbers
<1>7. DeviceInv
  BY <1>1 DEF Init, DeviceInv, IsTable, BeforeSplit, BeforeCopy
<1> QED
  BY <1>3, <1>4, <1>5, <1>6, <1>7 DEF LayoutInv

-----------------------------------------------------------------------------
(* Splitting keeps it.                                                     *)

\* What splitting off a session does.
LEMMA Split ==
  ASSUME LayoutTypeOK, SplitInv, SplitSession
  PROVE  /\ Len(segments') = Len(segments) + 1
         /\ \A i \in Numbers : segments'[i] = segments[i]
         /\ segments'[Len(segments) + 1].offset = sessionOffset
         /\ segments'[Len(segments) + 1].length = SessionLength
         /\ sessionOffset' = sessionOffset + SessionLength
         /\ sessionOffset + SessionLength <= config.volumeSize
         /\ SessionLength = config.volumeSize - sessionOffset
              \/ SessionLength = config.sessionSize
         /\ SessionLength \in Nat \ {0} /\ sessionOffset \in Nat
<1> DEFINE new == [offset |-> sessionOffset, length |-> SessionLength]
<1>1. SessionLength \in Nat \ {0} /\ sessionOffset \in Nat /\ sessionOffset < config.volumeSize
  BY SizesComputed DEF SplitSession, LayoutTypeOK
<1>2. new \in Segments /\ segments \in Seq(Segments) /\ segments' = Append(segments, new)
  BY <1>1 DEF Segments, LayoutTypeOK, SplitSession
<1>3. /\ Len(segments') = Len(segments) + 1
      /\ \A i \in Numbers : segments'[i] = segments[i]
      /\ segments'[Len(segments) + 1] = new
  BY <1>2, AppendProperties DEF Numbers
<1>4. config \in Configs
  BY DEF LayoutTypeOK
<1>5. sessionOffset + config.sessionSize < Word
  <2>1. CASE sessionOffset = 0
    BY <2>1, <1>4, Sizes
  <2>2. CASE config.sessionSize <= sessionOffset
    BY <2>2, <1>1, <1>4, Sizes
  <2> QED
    BY <1>1, <2>1, <2>2 DEF SplitInv
<1>6. (sessionOffset + config.sessionSize) % Word = sessionOffset + config.sessionSize
  <2> DEFINE sum == sessionOffset + config.sessionSize
  <2>1. sum \in Nat /\ Word \in Nat \ {0} /\ sum < Word
    BY <1>1, <1>4, <1>5, Sizes
  <2> HIDE DEF sum
  <2>2. sum % Word = sum
    BY <2>1, Uncut
  <2> QED
    BY <2>2 DEF sum
<1>7. /\ sessionOffset + SessionLength <= config.volumeSize
      /\ SessionLength = config.volumeSize - sessionOffset \/ SessionLength = config.sessionSize
  BY <1>1, <1>4, <1>6, Sizes DEF SessionLength
<1>8. sessionOffset + SessionLength < Word
  BY <1>1, <1>4, <1>7, Sizes
<1>9. (sessionOffset + SessionLength) % Word = sessionOffset + SessionLength
  <2> DEFINE sum == sessionOffset + SessionLength
  <2>1. sum \in Nat /\ Word \in Nat \ {0} /\ sum < Word
    BY <1>1, <1>4, <1>8, Sizes
  <2> HIDE DEF sum
  <2>2. sum % Word = sum
    BY <2>1, Uncut
  <2> QED
    BY <2>2 DEF sum
<1>10. sessionOffset' = (sessionOffset + SessionLength) % Word
  BY DEF SplitSession
<1>11. segments'[Len(segments) + 1].offset = sessionOffset
       /\ segments'[Len(segments) + 1].length = SessionLength
  BY <1>3
<1> HIDE DEF new
<1> QED
  BY <1>1, <1>3, <1>7, <1>9, <1>10, <1>11

LEMMA SplitStep == LayoutTypeOK /\ SplitInv /\ [Next]_vars => SplitInv'
<1> SUFFICES ASSUME LayoutTypeOK, SplitInv, [Next]_vars PROVE SplitInv'
  OBVIOUS
<1> USE DEF BeforeSplit, BeforeCopy
<1>1. CASE SplitSession
  <2> DEFINE n == Len(segments) + 1
  <2>1. /\ Len(segments') = n
        /\ \A i \in Numbers : segments'[i] = segments[i]
        /\ segments'[n].offset = sessionOffset
        /\ segments'[n].length = SessionLength
        /\ sessionOffset' = sessionOffset + SessionLength
        /\ sessionOffset + SessionLength <= config.volumeSize
        /\ SessionLength = config.volumeSize - sessionOffset
              \/ SessionLength = config.sessionSize
        /\ SessionLength \in Nat \ {0} /\ sessionOffset \in Nat
    BY <1>1, Split
  <2>2. pc' = "split" /\ config' = config /\ config \in Configs /\ Len(segments) \in Nat
    BY <1>1 DEF SplitSession, LayoutTypeOK
  <2>3. Numbers' = Numbers \cup {n} /\ n \notin Numbers /\ n \in Nat
    BY <2>1, <2>2 DEF Numbers
  <2>4. /\ \A i \in Numbers' : i = n => End(i)' = sessionOffset'
        /\ \A i \in Numbers : End(i)' = End(i)
    BY <2>1 DEF End
  <2>5. \A i \in Numbers : End(i) \in Nat /\ End(i) <= sessionOffset
    <3>1. \A i \in Numbers : segments[i] \in Segments
      BY ElementOfSeq DEF LayoutTypeOK, Numbers
    <3> QED
      BY <3>1 DEF Segments, End, SplitInv
  <2>6. \A i \in Numbers' : End(i)' <= sessionOffset'
    BY <2>1, <2>3, <2>4, <2>5
  <2>7. \A i, j \in Numbers' : i < j => End(i)' <= segments'[j].offset
    <3> SUFFICES ASSUME NEW i \in Numbers', NEW j \in Numbers', i < j
                 PROVE  End(i)' <= segments'[j].offset
      OBVIOUS
    <3>1. i \in Numbers
      BY <2>1, <2>2, <2>3 DEF Numbers
    <3>2. CASE j \in Numbers
      BY <2>1, <2>4, <3>1, <3>2 DEF SplitInv
    <3>3. CASE j = n
      BY <2>1, <2>4, <2>5, <3>1, <3>3
    <3> QED
      BY <2>3, <3>2, <3>3
  <2>8. \A i \in Numbers' : i < Len(segments') => segments'[i + 1].offset = End(i)'
    <3> SUFFICES ASSUME NEW i \in Numbers', i < Len(segments')
                 PROVE  segments'[i + 1].offset = End(i)'
      OBVIOUS
    <3>1. i \in Numbers /\ i + 1 \in Numbers \cup {n}
      BY <2>1, <2>2, <2>3 DEF Numbers
    <3>2. CASE i + 1 \in Numbers
      <4>1. i < Len(segments)
        BY <3>1, <3>2, <2>2 DEF Numbers
      <4> QED
        BY <2>1, <2>4, <3>1, <3>2, <4>1 DEF SplitInv
    <3>3. CASE i + 1 = n
      <4>1. i = Len(segments) /\ segments # <<>>
        BY <3>1, <3>3, <2>2 DEF Numbers
      <4> QED
        BY <2>1, <2>4, <3>1, <3>3, <4>1 DEF SplitInv
    <3> QED
      BY <3>1, <3>2, <3>3
  <2>9. segments' # <<>> /\ segments'[1].offset = 0 /\ End(Len(segments))' = sessionOffset'
    <3>1. segments' # <<>>
      BY <2>1, <2>2
    <3>2. segments'[1].offset = 0
      <4>1. CASE segments = <<>>
        BY <2>1, <4>1 DEF SplitInv
      <4>2. CASE segments # <<>>
        <5>1. 1 \in Numbers
          BY <4>2, <2>2, EmptySeq DEF Numbers, LayoutTypeOK
        <5> QED
          BY <2>1, <4>2, <5>1 DEF SplitInv
      <4> QED
        BY <4>1, <4>2
    <3>3. Len(segments') \in Numbers' /\ Len(segments') = n
      BY <2>1, <2>3
    <3>4. End(Len(segments))' = sessionOffset'
      BY <2>1, <3>3 DEF End
    <3> QED
      BY <3>1, <3>2, <3>4
  <2>10. \/ sessionOffset' = config'.volumeSize \/ config'.sessionSize <= sessionOffset'
    <3>1. config.volumeSize \in Nat /\ config.sessionSize \in Nat
      BY <2>2, Sizes
    <3>2. CASE SessionLength = config.sessionSize
      BY <2>1, <2>2, <3>1, <3>2
    <3>3. CASE SessionLength = config.volumeSize - sessionOffset
      BY <2>1, <2>2, <3>1, <3>3
    <3> QED
      BY <2>1, <3>2, <3>3
  <2> QED
    BY <2>1, <2>2, <2>6, <2>7, <2>8, <2>9, <2>10 DEF SplitInv
<1>2. CASE SplitDone
  <2>1. sessionOffset = config.volumeSize
    BY <1>2, Sizes DEF SplitDone, SplitInv, LayoutTypeOK
  <2> QED
    BY <1>2, <2>1 DEF SplitDone, SplitInv, Numbers, End
<1>3. CASE CreateVirtualDiskFile \/ InitVirtualDiskGPT
  BY <1>3 DEF CreateVirtualDiskFile, InitVirtualDiskGPT, SplitInv, Numbers, End
<1>4. CASE UNCHANGED <<config, segments, sessionOffset>> /\ pc \notin BeforeCopy /\ pc' \notin BeforeCopy
  BY <1>4 DEF SplitInv, Numbers, End
<1>5. CASE UNCHANGED vars
  BY <1>5 DEF SplitInv, Numbers, End, vars
<1> QED
  BY <1>1, <1>2, <1>3, <1>4, <1>5
  DEF Next, CopyBlock, NextSession, CopyDone, MountWhole, AddTarget, LoadTable

-----------------------------------------------------------------------------
(* Copying keeps it.                                                       *)

\* The current session, while there is one.
LEMMA CurrentSession ==
  ASSUME LayoutTypeOK, session <= Len(segments)
  PROVE  /\ session \in Numbers /\ segments[session].offset \in Nat
         /\ segments[session].length \in Nat \ {0}
         /\ position \in Nat /\ config.blockSize \in Nat \ {0}
<1>1. segments[session] \in Segments
  BY SizesComputed
<1>2. config \in Configs /\ session \in Nat \ {0} /\ position \in Nat /\ Len(segments) \in Nat
  BY DEF LayoutTypeOK
<1> QED
  BY <1>1, <1>2, Sizes DEF Segments, Numbers

\* Every session has its place.
LEMMA SessionTypes ==
  ASSUME LayoutTypeOK
  PROVE  \A i \in Numbers : /\ i \in Nat \ {0} /\ segments[i].offset \in Nat
                            /\ segments[i].length \in Nat \ {0} /\ End(i) \in Nat
<1>1. \A i \in Numbers : segments[i] \in Segments
  BY ElementOfSeq DEF LayoutTypeOK, Numbers
<1> QED
  BY <1>1 DEF Segments, End, Numbers

\* What has been copied are extents.
LEMMA ExtentTypes ==
  ASSUME LayoutTypeOK
  PROVE  \A e \in extents : e.session \in Nat /\ e.from \in Nat /\ e.length \in Nat \ {0}
BY DEF LayoutTypeOK, Extents

LEMMA CopyBlockStep ==
  ASSUME LayoutTypeOK, SplitInv, CopyInv, CopyBlock
  PROVE  CopyInv'
<1> DEFINE first == segments[session].offset
           from == first + position
           new == [session |-> session, from |-> from, length |-> BlockLength,
                   file |-> CopyDataFile(session), at |-> Place(session, from)]
<1>1. /\ session \in Numbers /\ first \in Nat /\ segments[session].length \in Nat \ {0}
      /\ position \in Nat /\ config.blockSize \in Nat \ {0}
  BY CurrentSession DEF CopyBlock
<1>2. /\ pc = "copy" /\ position < segments[session].length
      /\ position' = position + config.blockSize /\ extents' = extents \cup {new}
      /\ UNCHANGED <<config, pc, partitions, segments, session>>
  BY DEF CopyBlock
<1>3. /\ BlockLength \in Nat \ {0} /\ BlockLength <= config.blockSize
      /\ position + BlockLength <= segments[session].length
      /\ BlockLength = config.blockSize \/ position + BlockLength = segments[session].length
  BY <1>1, <1>2 DEF BlockLength
<1>4. \A e \in extents : InSession(e) /\ e.session \in Nat /\ e.from \in Nat /\ e.length \in Nat \ {0}
  BY ExtentTypes DEF CopyInv
<1>5. \A e : e = new => InSession(e)'
  <2> SUFFICES ASSUME NEW e, e = new PROVE InSession(e)'
    OBVIOUS
  <2>1. e.session = session /\ e.from = from /\ e.length = BlockLength
    BY <1>1
  <2>2. e.file = CopyDataFile(e.session)' /\ e.at = Place(e.session, e.from)'
    <3>1. e.file = CopyDataFile(session) /\ e.at = Place(session, from)
      OBVIOUS
    <3> QED
      BY <1>2, <2>1, <3>1 DEF Place, CopyDataFile
  <2>3. Numbers' = Numbers /\ \A i \in Numbers : End(i)' = End(i)
    BY <1>2 DEF Numbers, End
  <2>4. first <= from /\ from + BlockLength <= End(session)
        /\ from + BlockLength <= first + position'
    BY <1>1, <1>2, <1>3 DEF End
  <2>5. session <= session
    BY DEF LayoutTypeOK
  <2> HIDE DEF new, from
  <2> QED
    BY <1>1, <1>2, <2>1, <2>2, <2>3, <2>4, <2>5 DEF InSession
<1>6. \A e \in extents : InSession(e)'
  <2> SUFFICES ASSUME NEW e \in extents PROVE InSession(e)'
    OBVIOUS
  <2>1. e.session = session => e.from + e.length <= first + position'
    BY <1>1, <1>2, <1>4 DEF InSession
  <2> HIDE DEF first
  <2> QED
    BY <1>2, <1>4, <2>1 DEF InSession, End, Numbers, Place, CopyDataFile, first
<1>7. \A e \in extents : e.from + e.length <= from
  <2> SUFFICES ASSUME NEW e \in extents PROVE e.from + e.length <= from
    OBVIOUS
  <2>1. CASE e.session = session
    BY <1>4, <2>1 DEF InSession
  <2>2. CASE e.session # session
    <3>1. e.session \in Numbers /\ e.session < session
      BY <1>1, <1>4, <2>2 DEF InSession, Numbers
    <3>2. e.from + e.length <= End(e.session) /\ End(e.session) <= first
      BY <1>1, <1>4, <3>1 DEF InSession, SplitInv
    <3>3. End(e.session) \in Nat
      BY <3>1, SessionTypes
    <3> QED
      BY <1>1, <1>4, <3>2, <3>3
  <2> QED
    BY <2>1, <2>2
<1>8. new.from = from /\ new.length = BlockLength /\ from \in Nat
  BY <1>1
<1> HIDE DEF new, from
<1>9. \A e, f \in extents' : e # f => ~Overlap(e.from, e.length, f.from, f.length)
  <2>1. \A e \in extents : /\ ~Overlap(e.from, e.length, new.from, new.length)
                           /\ ~Overlap(new.from, new.length, e.from, e.length)
    BY <1>3, <1>4, <1>7, <1>8 DEF Overlap
  <2>2. \A e, f \in extents : e # f => ~Overlap(e.from, e.length, f.from, f.length)
    BY DEF CopyInv
  <2> QED
    BY <1>2, <2>1, <2>2
<1>10. \A b \in 0 .. config.volumeSize - 1 : Behind(b)' => \E e \in extents' : Covers(e, b)
  <2> SUFFICES ASSUME NEW b \in 0 .. config.volumeSize - 1, Behind(b)'
               PROVE  \E e \in extents' : Covers(e, b)
    OBVIOUS
  <2>1. b < End(session) /\ b < first + position' /\ b \in Nat /\ config.volumeSize \in Nat
    BY <1>1, <1>2, Sizes DEF Behind, End, Numbers, LayoutTypeOK
  <2>2. CASE b < from
    <3>1. Behind(b)
      BY <2>1, <2>2 DEF Behind, from
    <3> QED
      BY <1>2, <3>1 DEF CopyInv, BeforeCopy, BeforeSplit
  <2>3. CASE b >= from
    <3>1. b < from + BlockLength
      BY <1>1, <1>2, <1>3, <2>1 DEF End, from
    <3>2. Covers(new, b)
      BY <1>8, <2>3, <3>1 DEF Covers
    <3> QED
      BY <1>2, <3>2
  <2> QED
    BY <1>8, <2>1, <2>2, <2>3
<1>11. session <= Len(segments) + 1 /\ Len(segments)' = Len(segments)
  BY <1>1, <1>2 DEF CopyInv, BeforeCopy, BeforeSplit
<1>12. \A e \in extents' : InSession(e)'
  BY <1>2, <1>5, <1>6
<1>13. pc' = "copy" /\ session' = session /\ config' = config
  BY <1>2
<1> QED
  BY <1>9, <1>10, <1>11, <1>12, <1>13 DEF CopyInv, BeforeCopy, BeforeSplit

\* The end of a session is where the next one begins.
LEMMA NextSessionStep ==
  ASSUME LayoutTypeOK, SplitInv, CopyInv, NextSession
  PROVE  CopyInv'
<1>1. /\ session \in Numbers /\ session \in Nat \ {0} /\ Len(segments) \in Nat
      /\ session <= Len(segments)
  BY CurrentSession DEF NextSession, LayoutTypeOK
<1>2. /\ pc = "copy" /\ position >= segments[session].length /\ position \in Nat
      /\ session' = session + 1 /\ position' = 0
      /\ UNCHANGED <<config, pc, partitions, segments, extents>>
  BY DEF NextSession, LayoutTypeOK
<1>3. \A e \in extents : InSession(e)'
  <2> SUFFICES ASSUME NEW e \in extents PROVE InSession(e)'
    OBVIOUS
  <2>1. InSession(e) /\ e.session \in Nat
    BY ExtentTypes DEF CopyInv
  <2>2. e.session <= session' /\ e.session # session'
    BY <1>1, <1>2, <2>1 DEF InSession
  <2> QED
    BY <1>2, <2>1, <2>2 DEF InSession, Numbers, End, Place, CopyDataFile
<1>4. \A b \in 0 .. config.volumeSize - 1 : Behind(b)' => Behind(b)
  <2> SUFFICES ASSUME NEW b \in 0 .. config.volumeSize - 1, Behind(b)' PROVE Behind(b)
    OBVIOUS
  <2>1. b \in Nat /\ config.volumeSize \in Nat /\ b < config.volumeSize
    BY Sizes DEF LayoutTypeOK
  <2>2. b < End(session)
    <3>1. CASE session = Len(segments)
      <4>1. End(session) = config.volumeSize
        BY <1>1, <1>2, <3>1 DEF SplitInv, BeforeCopy, BeforeSplit, Numbers
      <4> QED
        BY <2>1, <4>1
    <3>2. CASE session < Len(segments)
      <4>1. session + 1 \in Numbers /\ segments[session + 1].offset = End(session)
        BY <1>1, <3>2 DEF SplitInv, Numbers
      <4>2. b < segments[session + 1].offset + 0
        BY <1>2, <4>1 DEF Behind, Numbers
      <4>3. End(session) \in Nat
        BY <1>1, SessionTypes
      <4> QED
        BY <2>1, <4>1, <4>2, <4>3
    <3> QED
      BY <1>1, <3>1, <3>2
  <2>3. End(session) <= segments[session].offset + position
    BY <1>1, <1>2, SessionTypes DEF End
  <2>4. End(session) \in Nat /\ segments[session].offset \in Nat
    BY <1>1, SessionTypes
  <2> QED
    BY <1>2, <2>1, <2>2, <2>3, <2>4 DEF Behind
<1>5. session' <= Len(segments') + 1
  BY <1>1, <1>2
<1> QED
  BY <1>2, <1>3, <1>4, <1>5 DEF CopyInv, BeforeCopy, BeforeSplit

\* When copying begins, all of the volume is ahead.
LEMMA SplitDoneStep ==
  ASSUME LayoutTypeOK, SplitInv, CopyInv, SplitDone
  PROVE  CopyInv'
<1>1. /\ pc = "split" /\ pc' = "copy" /\ extents = {} /\ session = 1 /\ position = 0
      /\ UNCHANGED <<config, segments, session, position, extents>>
      /\ sessionOffset >= config.volumeSize
  BY DEF SplitDone, CopyInv, BeforeCopy
<1>2. config.volumeSize \in Nat \ {0} /\ sessionOffset \in Nat /\ Len(segments) \in Nat
  BY Sizes DEF LayoutTypeOK
<1>3. segments # <<>>
  BY <1>1, <1>2 DEF SplitInv
<1>4. segments[1].offset = 0 /\ 1 \in Numbers
  <2>1. Len(segments) # 0
    BY <1>3, EmptySeq DEF LayoutTypeOK
  <2> QED
    BY <1>2, <1>3, <2>1 DEF SplitInv, Numbers
<1>5. \A b \in 0 .. config.volumeSize - 1 : ~Behind(b)'
  <2> SUFFICES ASSUME NEW b \in 0 .. config.volumeSize - 1, Behind(b)' PROVE FALSE
    OBVIOUS
  <2>1. b < 0 + 0
    BY <1>1, <1>4 DEF Behind, Numbers
  <2> QED
    BY <1>2, <2>1
<1> QED
  BY <1>1, <1>2, <1>5 DEF CopyInv, BeforeCopy, BeforeSplit

LEMMA CopyStep == LayoutTypeOK /\ SplitInv /\ CopyInv /\ [Next]_vars => CopyInv'
<1> SUFFICES ASSUME LayoutTypeOK, SplitInv, CopyInv, [Next]_vars PROVE CopyInv'
  OBVIOUS
<1> USE DEF BeforeSplit, BeforeCopy
<1>1. CASE CreateVirtualDiskFile \/ InitVirtualDiskGPT \/ SplitSession
  <2>1. pc' \in BeforeCopy /\ pc \in BeforeCopy /\ UNCHANGED <<extents, session, position>>
    BY <1>1 DEF CreateVirtualDiskFile, InitVirtualDiskGPT, SplitSession
  <2> QED
    BY <2>1 DEF CopyInv
<1>2. CASE CopyDone
  <2>1. session <= Len(segments) + 1 /\ session > Len(segments) /\ Len(segments) \in Nat
        /\ session \in Nat
    BY <1>2 DEF CopyDone, CopyInv, LayoutTypeOK
  <2>2. session = Len(segments) + 1
    BY <2>1
  <2> QED
    BY <1>2, <2>2 DEF CopyDone, CopyInv, InSession, Numbers, End, Behind, Place, CopyDataFile
<1>3. CASE MountWhole \/ AddTarget \/ LoadTable
  BY <1>3 DEF MountWhole, AddTarget, LoadTable, CopyInv, InSession, Numbers, End, Behind, Place,
              CopyDataFile
<1>4. CASE UNCHANGED vars
  BY <1>4 DEF vars, CopyInv, InSession, Numbers, End, Behind, Place, CopyDataFile
<1> QED
  BY <1>1, <1>2, <1>3, <1>4, SplitDoneStep, CopyBlockStep, NextSessionStep DEF Next

-----------------------------------------------------------------------------
(* So do the virtual disk, the sectors and the device.                     *)

LEMMA DiskStep == LayoutTypeOK /\ DiskInv /\ [Next]_vars => DiskInv'
<1> SUFFICES ASSUME LayoutTypeOK, DiskInv, [Next]_vars PROVE DiskInv'
  OBVIOUS
<1>1. CASE CreateVirtualDiskFile
  <2>1. config \in Configs /\ config' = config /\ pc = "create"
    BY <1>1 DEF LayoutTypeOK, CreateVirtualDiskFile
  <2>2. FinalSize = config.volumeSize + AdditionalSize /\ FinalSize \in Nat
    <3> DEFINE sum == config.volumeSize + AdditionalSize
    <3>1. sum \in Nat /\ sum < Word /\ Word \in Nat \ {0}
      BY <2>1, Sizes
    <3> HIDE DEF sum
    <3>2. sum % Word = sum
      BY <3>1, Uncut
    <3> QED
      BY <3>1, <3>2 DEF sum, FinalSize
  <2>3. CASE FinalSize >= MaxDiskSize[config.format]
    BY <1>1, <2>1, <2>3 DEF CreateVirtualDiskFile, DiskInv, BeforeSplit
  <2>4. CASE config.format \in DiskFormats /\ ~(FinalSize >= MaxDiskSize[config.format])
    <3>1. FinalSize < MaxDiskSize[config.format]
      BY <2>2, <2>4, LayoutAssumption
    <3>2. /\ VirtualDiskSizePadding2MB(FinalSize) >= FinalSize
          /\ VirtualDiskSizePadding2MB(FinalSize) <= MaxDiskSize[config.format]
          /\ VirtualDiskSizePadding2MB(FinalSize) % Padding = 0
      BY <2>2, <2>4, <3>1, PaddedSize
    <3>3. pc' = "initDisk" /\ disk' = VirtualDiskSizePadding2MB(FinalSize)
      BY <1>1, <2>4 DEF CreateVirtualDiskFile
    <3>4. AdditionalSize' = AdditionalSize
      BY DEF AdditionalSize
    <3> QED
      BY <2>1, <2>2, <3>2, <3>3, <3>4 DEF BeforeSplit, DiskInv, DiskSized
  <2>5. CASE config.format \notin DiskFormats
    BY <2>1, <2>5 DEF DiskInv
  <2> QED
    BY <2>3, <2>4, <2>5
<1>2. CASE InitVirtualDiskGPT
  BY <1>2 DEF BeforeSplit, InitVirtualDiskGPT, DiskInv, DiskSized, Partitioned, AdditionalSize
<1>3. ASSUME UNCHANGED <<config, disk, partitions>>,
             pc' \notin {"create", "tooLarge"} => pc \notin {"create", "tooLarge"},
             pc' \notin BeforeSplit => pc \notin BeforeSplit
      PROVE  DiskInv'
  <2>1. (DiskSized' <=> DiskSized) /\ (Partitioned' <=> Partitioned)
    BY <1>3 DEF DiskSized, Partitioned, AdditionalSize
  <2> QED
    BY <1>3, <2>1 DEF DiskInv
<1>4. CASE SplitSession \/ SplitDone \/ CopyBlock \/ NextSession \/ CopyDone
  <2>1. pc \notin {"create", "tooLarge"} /\ pc \notin BeforeSplit
        /\ UNCHANGED <<config, disk, partitions>>
    BY <1>4 DEF SplitSession, SplitDone, CopyBlock, NextSession, CopyDone, BeforeSplit
  <2> QED
    BY <1>3, <2>1
<1>5. CASE MountWhole \/ AddTarget \/ LoadTable
  <2>1. pc \notin {"create", "tooLarge"} /\ pc \notin BeforeSplit
        /\ UNCHANGED <<config, disk, partitions>>
    BY <1>5 DEF MountWhole, AddTarget, LoadTable, BeforeSplit
  <2> QED
    BY <1>3, <2>1
<1>6. CASE UNCHANGED vars
  BY <1>3, <1>6 DEF vars
<1> QED
  BY <1>1, <1>2, <1>4, <1>5, <1>6 DEF Next

LEMMA AlignStep == LayoutTypeOK /\ SplitInv /\ AlignInv /\ [Next]_vars => AlignInv'
<1> SUFFICES ASSUME LayoutTypeOK, SplitInv, AlignInv, [Next]_vars, Aligned' PROVE AlignInv'
  BY DEF AlignInv
<1>1. config' = config
  BY DEF Next, CreateVirtualDiskFile, InitVirtualDiskGPT, SplitSession, SplitDone, CopyBlock,
         NextSession, CopyDone, MountWhole, AddTarget, LoadTable, vars
<1>2. Aligned
  BY <1>1 DEF Aligned
<1>3. CASE SplitSession
  <2> DEFINE n == Len(segments) + 1
  <2>1. /\ Len(segments') = n
        /\ \A i \in Numbers : segments'[i] = segments[i]
        /\ segments'[n].offset = sessionOffset /\ segments'[n].length = SessionLength
        /\ sessionOffset' = sessionOffset + SessionLength
        /\ sessionOffset + SessionLength <= config.volumeSize
        /\ SessionLength = config.volumeSize - sessionOffset
              \/ SessionLength = config.sessionSize
        /\ SessionLength \in Nat \ {0} /\ sessionOffset \in Nat
    BY <1>3, Split
  <2>2. Sector \in Nat \ {0} /\ config.volumeSize \in Nat /\ config.sessionSize \in Nat \ {0}
        /\ Len(segments) \in Nat
    BY LayoutAssumption, Sizes DEF LayoutTypeOK
  <2>3. sessionOffset % Sector = 0 /\ config.volumeSize % Sector = 0
    BY <1>2 DEF AlignInv, Aligned
  <2>4. SessionLength % Sector = 0
    <3>1. CASE SessionLength = config.volumeSize - sessionOffset
      <4>1. sessionOffset <= config.volumeSize
        BY <2>1, <2>2
      <4>2. (config.volumeSize - sessionOffset) % Sector = 0
        <5> DEFINE size == config.volumeSize
        <5>1. /\ size \in Nat /\ sessionOffset \in Nat /\ Sector \in Nat \ {0}
              /\ size % Sector = 0 /\ sessionOffset % Sector = 0 /\ sessionOffset <= size
          BY <2>1, <2>2, <2>3, <4>1
        <5> HIDE DEF size
        <5>2. (size - sessionOffset) % Sector = 0
          BY <5>1, MultiplesSubtract
        <5> QED
          BY <5>2 DEF size
      <4> QED
        BY <3>1, <4>2
    <3>2. CASE SessionLength = config.sessionSize /\ config.sessionSize % Sector = 0
      BY <3>2
    <3>3. CASE SessionLength = config.sessionSize /\ config.sessionSize >= config.volumeSize
      <4>1. SessionLength = config.volumeSize
        BY <2>1, <2>2, <3>3
      <4> QED
        BY <2>3, <4>1
    <3> QED
      BY <1>2, <2>1, <3>1, <3>2, <3>3 DEF Aligned
  <2>5. sessionOffset' % Sector = 0
    <3>1. (sessionOffset + SessionLength) % Sector = 0
      BY <2>1, <2>2, <2>3, <2>4, MultiplesAdd
    <3> QED
      BY <2>1, <3>1
  <2>6. Numbers' = Numbers \cup {n}
    BY <2>1, <2>2 DEF Numbers
  <2>7. \A i \in Numbers' : segments'[i].offset % Sector = 0 /\ segments'[i].length % Sector = 0
    BY <1>2, <2>1, <2>3, <2>4, <2>6 DEF AlignInv
  <2> QED
    BY <2>5, <2>7 DEF AlignInv
<1>4. CASE UNCHANGED <<sessionOffset, segments>>
  BY <1>2, <1>4 DEF AlignInv, Numbers
<1> QED
  BY <1>3, <1>4
  DEF Next, CreateVirtualDiskFile, InitVirtualDiskGPT, SplitDone, CopyBlock, NextSession,
      CopyDone, MountWhole, AddTarget, LoadTable, vars

\* Sessions of whole sectors are shown as they are.
LEMMA TargetsAligned ==
  ASSUME LayoutTypeOK, AlignInv, Aligned, NEW i \in Numbers
  PROVE  /\ TargetOf(i).start = segments[i].offset /\ TargetOf(i).length = segments[i].length
         /\ TargetOf(i).file = CopyDataFile(i) /\ TargetOf(i).at = 0
<1>1. segments[i].offset \in Nat /\ segments[i].length \in Nat
  BY SessionTypes
<1>2. segments[i].offset % Sector = 0 /\ segments[i].length % Sector = 0
  BY DEF AlignInv
<1>3. WholeSectors(segments[i].offset) = segments[i].offset
  BY <1>1, <1>2, AllSectors
<1>4. WholeSectors(segments[i].length) = segments[i].length
  BY <1>1, <1>2, AllSectors
<1> QED
  BY <1>3, <1>4 DEF TargetOf

\* The table of whole sectors is without gaps.
LEMMA TableIsGood ==
  ASSUME LayoutTypeOK, SplitInv, AlignInv, Aligned, IsTable, Len(device) = Len(segments),
         segments # <<>>
  PROVE  GoodTable
<1>1. Len(device) \in Nat /\ DOMAIN device = 1 .. Len(device) /\ Numbers = 1 .. Len(device)
  BY DEF LayoutTypeOK, Numbers
<1>2. \A i \in Numbers : device[i].start = segments[i].offset /\ device[i].length = segments[i].length
  BY <1>1, TargetsAligned DEF IsTable
<1>3. 1 \in Numbers
  <2>1. Len(segments) # 0
    BY EmptySeq DEF LayoutTypeOK
  <2> QED
    BY <1>1, <2>1 DEF Numbers
<1>4. device[1].start = 0
  BY <1>2, <1>3 DEF SplitInv
<1>5. \A i \in DOMAIN device : device[i].length > 0
  BY <1>1, <1>2, SessionTypes
<1>6. \A i \in 1 .. Len(device) - 1 : device[i + 1].start = device[i].start + device[i].length
  <2> SUFFICES ASSUME NEW i \in 1 .. Len(device) - 1
               PROVE  device[i + 1].start = device[i].start + device[i].length
    OBVIOUS
  <2>1. i \in Numbers /\ i + 1 \in Numbers /\ i < Len(segments)
    BY <1>1
  <2>2. segments[i + 1].offset = End(i)
    BY <2>1 DEF SplitInv
  <2> QED
    BY <1>2, <2>1, <2>2 DEF End
<1> QED
  BY <1>4, <1>5, <1>6 DEF GoodTable

LEMMA DeviceStep ==
  LayoutTypeOK /\ SplitInv /\ AlignInv /\ DeviceInv /\ [Next]_vars => DeviceInv'
<1> SUFFICES ASSUME LayoutTypeOK, SplitInv, AlignInv, DeviceInv, [Next]_vars PROVE DeviceInv'
  OBVIOUS
<1>1. CASE \/ CreateVirtualDiskFile \/ InitVirtualDiskGPT \/ SplitSession \/ SplitDone
           \/ CopyBlock \/ NextSession
  <2>1. pc \in BeforeCopy \cup {"copy"} /\ pc' \in BeforeCopy \cup {"copy"} /\ device' = device
    BY <1>1 DEF CreateVirtualDiskFile, InitVirtualDiskGPT, SplitSession, SplitDone, CopyBlock,
                NextSession, BeforeSplit, BeforeCopy
  <2> QED
    BY <2>1 DEF DeviceInv, BeforeCopy, BeforeSplit
<1>2. CASE CopyDone
  <2>1. device = <<>> /\ device' = <<>> /\ pc' = "mount" /\ Len(<<>>) = 0
    BY <1>2 DEF CopyDone, DeviceInv
  <2>2. IsTable'
    BY <2>1 DEF IsTable
  <2> QED
    BY <2>1, <2>2 DEF DeviceInv, BeforeCopy, BeforeSplit
<1>3. CASE MountWhole
  <2>1. device' = <<WholeDevice>> /\ pc' = "mounted" /\ UNCHANGED <<config, partitions, segments>>
        /\ (config.format = "BIN" => Len(segments) = 1)
    BY <1>3 DEF MountWhole, WholeDevice
  <2>2. WholeDevice' = WholeDevice
    BY <2>1 DEF WholeDevice, CopyDataFile, WholeSectors
  <2> QED
    BY <2>1, <2>2 DEF DeviceInv, BeforeCopy, BeforeSplit
<1>4. CASE AddTarget
  <2> DEFINE n == Len(device) + 1
  <2>1. /\ pc = "mount" /\ pc' = "mount" /\ UNCHANGED <<config, segments>>
        /\ device' = Append(device, TargetOf(n)) /\ n <= Len(segments)
    BY <1>4 DEF AddTarget, TargetOf, LayoutTypeOK
  <2>2. Len(device) \in Nat /\ Len(segments) \in Nat /\ device \in Seq(Targets)
    BY DEF LayoutTypeOK
  <2>3. n \in Numbers /\ Numbers' = Numbers
    BY <2>1, <2>2 DEF Numbers
  <2>4. TargetOf(n) \in Targets
    <3>1. segments[n].offset \in Nat /\ segments[n].length \in Nat /\ n \in Nat
      BY <2>3, SessionTypes
    <3>2. CopyDataFile(n) \in Nat
      BY <3>1 DEF CopyDataFile
    <3> QED
      BY <3>1, <3>2, WholeSectorsType DEF TargetOf, Targets
  <2>5. /\ Len(device') = n
        /\ \A i \in 1 .. Len(device) : device'[i] = device[i]
        /\ device'[n] = TargetOf(n)
    BY <2>1, <2>2, <2>4, AppendProperties
  <2>6. \A i \in Numbers : TargetOf(i)' = TargetOf(i)
    BY <2>1 DEF TargetOf, CopyDataFile, WholeSectors
  <2>7. IsTable'
    <3> SUFFICES ASSUME NEW i \in 1 .. Len(device')
                 PROVE  i \in Numbers' /\ device'[i] = TargetOf(i)'
      BY DEF IsTable
    <3>1. CASE i = n
      BY <2>3, <2>5, <2>6, <3>1
    <3>2. CASE i \in 1 .. Len(device)
      <4>1. i \in Numbers /\ device[i] = TargetOf(i)
        BY <2>1, <3>2 DEF DeviceInv, IsTable
      <4> QED
        BY <2>3, <2>5, <2>6, <3>2, <4>1
    <3> QED
      BY <2>2, <2>5, <3>1, <3>2
  <2> QED
    BY <2>1, <2>7 DEF DeviceInv, BeforeCopy, BeforeSplit
<1>5. CASE LoadTable
  <2>1. /\ pc = "mount" /\ UNCHANGED <<config, segments, device>> /\ config.format = "BIN"
        /\ Len(device) = Len(segments) /\ Len(segments) > 1
        /\ (GoodTable /\ pc' = "mounted") \/ (~GoodTable /\ pc' = "refused")
    BY <1>5 DEF LoadTable
  <2>2. IsTable
    BY <2>1 DEF DeviceInv
  <2>3. IsTable'
    BY <2>1, <2>2 DEF IsTable, TargetOf, CopyDataFile, WholeSectors, Numbers
  <2>4. ~GoodTable => ~Aligned'
    <3>1. segments # <<>>
      BY <2>1
    <3> QED
      BY <2>1, <2>2, <3>1, TableIsGood DEF Aligned
  <2> QED
    BY <2>1, <2>3, <2>4 DEF DeviceInv, BeforeCopy, BeforeSplit
<1>6. CASE UNCHANGED vars
  <2>1. (IsTable' <=> IsTable) /\ WholeDevice' = WholeDevice /\ (Aligned' <=> Aligned)
    BY <1>6 DEF vars, IsTable, WholeDevice, TargetOf, CopyDataFile, WholeSectors, Numbers, Aligned
  <2>2. UNCHANGED <<config, pc, segments, device>>
    BY <1>6 DEF vars
  <2> QED
    BY <2>1, <2>2 DEF DeviceInv
<1> QED
  BY <1>1, <1>2, <1>3, <1>4, <1>5, <1>6 DEF Next

\* The invariant holds in every state.
LEMMA Invariant == Spec => [](LayoutTypeOK /\ LayoutInv)
<1>1. LayoutTypeOK /\ LayoutInv /\ [Next]_vars => (LayoutTypeOK /\ LayoutInv)'
  BY TypeStep, SplitStep, CopyStep, DiskStep, AlignStep, DeviceStep DEF LayoutInv
<1>2. Init => LayoutTypeOK /\ LayoutInv
  BY TypeInit, LayoutInvInit
<1> QED
  BY <1>1, <1>2, PTL DEF Spec

-----------------------------------------------------------------------------
(* What follows from it.                                                   *)

\* The whole volume has been split when copying begins; what has been copied
\* is inside it.
LEMMA Inside ==
  ASSUME LayoutTypeOK, LayoutInv, NEW e \in extents
  PROVE  /\ InSession(e) /\ e.from \in Nat /\ e.length \in Nat \ {0}
         /\ segments[e.session].offset \in Nat
         /\ e.from + e.length <= config.volumeSize /\ config.volumeSize \in Nat
<1>1. InSession(e) /\ e.from \in Nat /\ e.length \in Nat \ {0}
  BY ExtentTypes DEF LayoutInv, CopyInv
<1>2. e.session \in Numbers /\ e.from + e.length <= End(e.session)
  BY <1>1 DEF InSession
<1>3. End(e.session) \in Nat /\ segments[e.session].offset \in Nat
  BY <1>2, SessionTypes
<1>4. End(e.session) <= sessionOffset /\ sessionOffset <= config.volumeSize
  BY <1>2 DEF LayoutInv, SplitInv
<1>5. sessionOffset \in Nat /\ config.volumeSize \in Nat
  BY Sizes DEF LayoutTypeOK
<1> QED
  BY <1>1, <1>2, <1>3, <1>4, <1>5

\* What is apart in the volume is apart in a file.
LEMMA ApartInFile ==
  ASSUME LayoutTypeOK, LayoutInv, NEW e \in extents, NEW f \in extents,
         ~Overlap(e.from, e.length, f.from, f.length), e.file = f.file
  PROVE  ~Overlap(e.at, e.length, f.at, f.length)
<1>1. /\ e.at = Place(e.session, e.from) /\ f.at = Place(f.session, f.from)
      /\ CopyDataFile(e.session) = CopyDataFile(f.session)
  BY Inside DEF InSession
<1>2. /\ e.from \in Nat /\ e.length \in Nat /\ f.from \in Nat /\ f.length \in Nat
      /\ segments[e.session].offset \in Nat
  BY Inside
<1>3. partitions.data.start \in Nat
  BY DEF LayoutTypeOK, Ranges
<1>4. CASE config.format = "BIN"
  <2>1. e.session = f.session
    BY <1>1, <1>4 DEF CopyDataFile
  <2>2. e.at = e.from - segments[e.session].offset /\ f.at = f.from - segments[e.session].offset
    BY <1>1, <1>4, <2>1 DEF Place
  <2> QED
    BY <1>2, <2>2 DEF Overlap
<1>5. CASE config.format = "IMAGE"
  BY <1>1, <1>2, <1>5 DEF Place, Overlap
<1>6. CASE config.format \notin {"BIN", "IMAGE"}
  <2>1. e.at = partitions.data.start + e.from /\ f.at = partitions.data.start + f.from
    BY <1>1, <1>6 DEF Place
  <2> QED
    BY <1>2, <1>3, <2>1 DEF Overlap
<1> QED
  BY <1>4, <1>5, <1>6

\* However a volume is split and copied, each byte of it goes to one place.
THEOREM EachByteCopiedOnce == Spec => []CopiedOnce
<1>1. LayoutTypeOK /\ LayoutInv => CopiedOnce
  <2> SUFFICES ASSUME LayoutTypeOK, LayoutInv PROVE CopiedOnce
    OBVIOUS
  <2>1. NothingTwice
    <3>1. \A e, f \in extents : e # f => ~Overlap(e.from, e.length, f.from, f.length)
      BY DEF LayoutInv, CopyInv
    <3> QED
      BY <3>1, ApartInFile DEF NothingTwice
  <2>2. NothingLeftOut
    <3> SUFFICES ASSUME pc \in {"mount", "mounted", "refused"},
                        NEW b \in 0 .. config.volumeSize - 1
                 PROVE  \E e \in extents : e.from <= b /\ b < e.from + e.length
      BY DEF NothingLeftOut
    <3>1. session = Len(segments) + 1 /\ Len(segments) \in Nat
      BY DEF LayoutInv, CopyInv, LayoutTypeOK
    <3>2. Behind(b)
      BY <3>1 DEF Behind, Numbers
    <3>3. pc \notin BeforeCopy
      BY DEF BeforeCopy, BeforeSplit
    <3> QED
      BY <3>2, <3>3 DEF LayoutInv, CopyInv, Covers
  <2>3. InsideVolume
    BY Inside DEF InsideVolume
  <2> QED
    BY <2>1, <2>2, <2>3 DEF CopiedOnce
<1> QED
  BY <1>1, Invariant, PTL

\* Every virtual disk that is not too large has room for its partitions.
THEOREM VirtualDiskHasRoom == Spec => []PartitionFits
<1>1. LayoutTypeOK /\ LayoutInv => PartitionFits
  <2> SUFFICES ASSUME LayoutTypeOK, LayoutInv, pc \notin {"create", "initDisk", "tooLarge"},
                      config.format \in DiskFormats
               PROVE  PartitionFits
    BY DEF PartitionFits
  <2>1. DiskSized /\ Partitioned
    BY DEF LayoutInv, DiskInv, BeforeSplit
  <2>2. /\ {GptTable, Msr, Footer} \subseteq Nat /\ 2 * GptTable <= Footer
        /\ config.volumeSize \in Nat /\ disk \in Nat
    BY LayoutAssumption, Sizes DEF LayoutTypeOK
  <2>3. /\ partitions.usable.start = GptTable
        /\ partitions.usable.length = 2 * GptTable + Msr + config.volumeSize
        /\ partitions.msr.start = GptTable /\ partitions.msr.length = Msr
        /\ partitions.data.start = GptTable + Msr
        /\ partitions.data.length = config.volumeSize
    BY <2>1 DEF Partitioned
  <2>4. config.volumeSize + (2 * GptTable + Msr + Footer) <= disk
    BY <2>1 DEF DiskSized, AdditionalSize
  <2>5. disk <= MaxDiskSize[config.format] /\ disk % Padding = 0
    BY <2>1 DEF DiskSized
  <2>6. /\ GptTable + Msr + config.volumeSize
             <= GptTable + (2 * GptTable + Msr + config.volumeSize)
        /\ GptTable + (2 * GptTable + Msr + config.volumeSize) + GptTable <= disk
        /\ GptTable >= GptTable /\ GptTable + Msr >= GptTable + Msr
    BY <2>2, <2>4
  <2> QED
    BY <2>3, <2>5, <2>6 DEF PartitionFits
<1> QED
  BY <1>1, Invariant, PTL

\* A mounted copy of whole sectors shows the volume, whatever the format and
\* however many sessions there are.
THEOREM MountedCopyIsVolume == Spec => []MountShowsVolume
<1>1. LayoutTypeOK /\ LayoutInv => MountShowsVolume
  <2> SUFFICES ASSUME LayoutTypeOK, LayoutInv, Aligned
               PROVE  /\ pc # "refused"
                      /\ pc = "mounted" =>
                           \A e \in extents : \E i \in DOMAIN device : Shows(device[i], e)
    BY DEF MountShowsVolume
  <2>1. pc # "refused"
    BY DEF LayoutInv, DeviceInv
  <2> SUFFICES ASSUME pc = "mounted", NEW e \in extents
               PROVE  \E i \in DOMAIN device : Shows(device[i], e)
    BY <2>1
  <2>2. /\ InSession(e) /\ e.from \in Nat /\ e.length \in Nat /\ segments[e.session].offset \in Nat
        /\ e.from + e.length <= config.volumeSize /\ config.volumeSize \in Nat
    BY Inside
  <2>3. /\ e.session \in Numbers /\ segments[e.session].offset <= e.from
        /\ e.from + e.length <= End(e.session)
        /\ e.file = CopyDataFile(e.session) /\ e.at = Place(e.session, e.from)
    BY <2>2 DEF InSession
  <2>4. CASE config.format = "BIN" /\ IsTable /\ Len(device) = Len(segments)
    <3>1. e.session \in DOMAIN device /\ device[e.session] = TargetOf(e.session)
      BY <2>3, <2>4 DEF IsTable, Numbers, LayoutTypeOK
    <3>2. /\ device[e.session].start = segments[e.session].offset
          /\ device[e.session].length = segments[e.session].length
          /\ device[e.session].file = e.file /\ device[e.session].at = 0
      BY <2>3, <3>1, TargetsAligned DEF LayoutInv
    <3>3. e.at = e.from - segments[e.session].offset
      BY <2>3, <2>4 DEF Place
    <3>4. Shows(device[e.session], e)
      BY <2>2, <2>3, <3>2, <3>3 DEF Shows, End
    <3> QED
      BY <3>1, <3>4
  <2>5. CASE device = <<WholeDevice>> /\ (config.format = "BIN" => Len(segments) = 1)
    <3>1. 1 \in DOMAIN device /\ device[1] = WholeDevice
      BY <2>5
    <3>2. e.file = CopyDataFile(1)
      BY <2>3, <2>5 DEF CopyDataFile, Numbers
    <3>3. CASE config.format \in DiskFormats
      <4>1. Partitioned
        BY <3>3 DEF LayoutInv, DiskInv, BeforeSplit
      <4>2. /\ WholeDevice.start = 0 /\ WholeDevice.length = config.volumeSize
            /\ WholeDevice.file = e.file /\ WholeDevice.at = partitions.data.start
        BY <3>2, <3>3, <4>1 DEF Partitioned, WholeDevice
      <4>3. e.at = partitions.data.start + e.from /\ partitions.data.start \in Nat
        BY <2>3, <3>3 DEF Place, DiskFormats, LayoutTypeOK, Ranges
      <4>4. Shows(WholeDevice, e)
        BY <2>2, <4>2, <4>3 DEF Shows
      <4> QED
        BY <3>1, <4>4
    <3>4. CASE config.format \notin DiskFormats
      <4>1. WholeSectors(config.volumeSize) = config.volumeSize
        BY <2>2, AllSectors DEF Aligned
      <4>2. /\ WholeDevice.start = 0 /\ WholeDevice.length = config.volumeSize
            /\ WholeDevice.file = e.file /\ WholeDevice.at = 0
        BY <3>2, <3>4, <4>1 DEF WholeDevice
      <4>3. e.at = e.from
        <5>1. config.format \in {"BIN", "IMAGE"}
          BY <3>4, Sizes DEF Formats, LayoutTypeOK
        <5>2. CASE config.format = "IMAGE"
          BY <2>3, <5>2 DEF Place
        <5>3. CASE config.format = "BIN"
          <6>1. e.session = 1 /\ segments # <<>>
            <7>1. Len(segments) = 1 /\ e.session \in 1 .. Len(segments)
              BY <2>3, <2>5, <5>3 DEF Numbers
            <7>2. Len(<<>>) = 0
              OBVIOUS
            <7> QED
              BY <7>1, <7>2
          <6>2. segments[1].offset = 0
            BY <6>1 DEF LayoutInv, SplitInv
          <6>3. e.at = e.from - segments[e.session].offset
            BY <2>3, <5>3 DEF Place
          <6> QED
            BY <2>2, <6>1, <6>2, <6>3
        <5> QED
          BY <5>1, <5>2, <5>3
      <4>4. Shows(WholeDevice, e)
        BY <2>2, <4>2, <4>3 DEF Shows
      <4> QED
        BY <3>1, <4>4
    <3> QED
      BY <3>3, <3>4
  <2> QED
    BY <2>4, <2>5 DEF LayoutInv, DeviceInv
<1> QED
  BY <1>1, Invariant, PTL
=============================================================================
