# A TLA+ model of VolumeBackup

VolumeBackup copies block devices: a *backup* reads a volume and writes a copy
(data files, checksum files, a JSON description), a *restore* writes a copy back
to a volume, and a copy can be *mounted*. This directory holds TLA+ modules that
model it, TLC configurations that check them, and TLAPS proofs about them.
Paths below are those of the repository; `PROJECT.json` lists for every
definition the lines it models.

## 1. Inventory

| Component | State | Operations | Talks to |
|---|---|---|---|
| `VolumeBlockReader` | status, `m_abort`, `m_pause`, `m_currentIndex` | `Start`, `Pause`, `Resume`, `MainThread` | pool (alloc), `hashingQueue` or `writeQueue` (push, finish), `processedBitmap` (test) |
| `VolumeBlockHasher` | status, `m_abort`, `m_workersRunning` | `Start`, `WorkerThread` x n | `hashingQueue` (pop), checksum tables, pool (free), `processedBitmap` (set), `writeQueue` (push, finish) |
| `VolumeBlockWriter` | status, `m_abort`, `m_failed` | `Start`, `Flush`, `MainThread` | `writeQueue` (pop), both bitmaps (set), pool (free), the target |
| `VolumeBlockAllocator` | `m_allocTable` | `BlockAlloc`, `BlockFree` | mutex |
| `BlockingQueue` | `m_queue`, `m_finished` | `BlockingPush`, `BlockingPop`, `Finish`, `Try...` | mutex, two condition variables |
| `Bitmap`, `SessionCounter`, `BlockHashingContext` | bits, counters, tables | `Set`, `Test`, `FirstIndexUnset` ... | read and written by four kinds of threads, bitmaps and tables without a lock |
| `VolumeTaskCheckpointTrait` | checksum file, checkpoint file, `m_lastUpdate` | refresh, flush, restore | pauses the reader, reads bitmaps and table, `fsync`s the target |
| `VolumeBackupTask`, `VolumeRestoreTask`, `VolumeZeroCopyRestoreTask` | status, `m_abort`, queue of sessions, meta file | `Start`/`Prepare`, `Abort`, `ThreadFunc`, `WaitSessionTerminate`, `PerformZeroCopyRestore` | one session at a time: builds, starts, watches, aborts and joins its sub-tasks; `sendfile` for zero copy |
| `TaskResourceManager` | data files of a copy, an attached virtual disk with a partition table | `PrepareCopyResource`, create, attach, initialise, detach | file system, Windows virtual disks |
| Raw I/O (`PosixRawIO`, `Win32RawIO`) | open files, virtual disks | create, size, partition, read and write at an offset of the volume | kernel |
| Mount providers | record files in an output directory, a mount record per copy | `Mount`, `Rollback`, `Umount`, `LoadResidual...` | loop and dm control, mount utilities |
| `LoopDeviceControl`, `DeviceMapperControl`, `LinuxMountUtils` | none of their own but descriptors that stay open; loop devices, dm devices and `/proc/mounts` are the kernel's | attach, detach, create, load, remove, mount, umount, `UmountAll` | kernel |
| JSON, path helpers | file names shared by tasks and copies | one call each | everything above |
| CLI, bindings | - | one process for each task or mount | - |

What is hard here, and what makes each part right:

* the **pipeline** of reader, workers and writer: no block lost, doubled or
  dropped at the end of a queue, no buffer given out twice, no thread that
  waits for ever when another one failed, timed out or was aborted;
* the **checkpoint**: what is recorded is done and stays done, through crashes
  between any two of its steps; a task that says SUCCEED made a complete copy;
* the **task**: its verdict agrees with what its sub-tasks report, although it
  looks at three unlocked status fields one after the other;
* the **chain of tasks** on one copy: files and checkpoints that a failed or
  killed task left behind are found by the next one, which may be of another
  kind; still every backup that succeeds equals its snapshot;
* the **queue**: no lost wakeup, and the end of the queue reaches everyone;
* the **layout**: the volume is cut into sessions and blocks, spread over files
  or put on a partition, and put together again by arithmetic of its own;
* the **mounts**: multi-step changes of the system which a failure or a crash
  leaves half done, with records by which they are found again, and other
  processes doing the same at the same time.

`PROJECT.json` lists the hazards one by one ("hazards") with the line where each
bites and the properties that cover it, and all parts ("components").

## 2. Modules

```
AtomicQueue <-- implemented by --  BlockingQueue <-- BlockingQueue_proof
     :  (its operations are the atomic steps of)
SessionPipeline <-- EXTENDS -- BackupSession -- implements --> ResumableCopy
     |                              |   :
SessionPipeline_proof               |   :  (one session of it is a few steps of)
     |                              |   :
SessionOwnership_proof              | CopyTasks -- implements --> CopyChain
     |                              |   |    \__ EXTENDS --> CopyResource
SessionContents_proof               | CopyTasks_proof
     \______ BackupSession_proof ____/

CopyLayout  <-- EXTENDS --  CopyLayout_proof

BlockDevices <-- EXTENDS -- CopyMount <-- EXTENDS -- CopyMount_proof
```

* **SessionPipeline** models one session: `VolumeBlockReader`,
  `VolumeBlockHasher`, `VolumeBlockWriter` and `VolumeTaskSharedContext`. A
  thread is a program counter (`readerPc`, `workerPc[w]`, `writerPc`) and its
  locals; an action is the code between two accesses of shared state. So
  `Bitmap::Set` on `processedBitmap`, which two kinds of threads do without a
  lock, is two actions (load the byte, store it: `WorkerDrop`/`WorkerMark`,
  `WriterMark`/`WriterStore`), `HandleWorkerTerminate` is two (decrement, look),
  while an operation under a mutex is one. Blocks carry the index and the
  buffer; what a buffer holds is in `pool`, so that a buffer used twice shows up
  as wrong data. Failures are actions: `ReaderReadFail`, `ReaderAllocTimeout`,
  `WriterWriteFail`, `OpenMayFail` in `Start...`. The environment, the task's
  thread, starts, pauses and aborts at any time. A session begins from the
  beginning or from a checkpoint (`loaded`, kept for the properties): `Attempts`
  are the bitmaps, checksums and blocks that earlier attempts may have left, each
  from a moment of its own, and `CheckpointLeft` says which go together.
* **BackupSession** adds that thread: `VolumeBackupTask::ThreadFunc` and
  `WaitSessionTerminate`, and `VolumeTaskCheckpointTrait`. It extends
  SessionPipeline and conjoins its actions (`StartSession`, `AbortSession`,
  `Resume`) with the task's program counter `mainPc`. Files have three states:
  missing, saved, torn (truncated, being rewritten). `durable` is what an
  `fsync` has put on the medium. `Crash` kills the process at any step,
  `RunAgain` is the user who starts a failed backup again. A restore runs the
  same loop without a hasher.
* **ResumableCopy** is what such a task promises, in three actions: it works on
  blocks that are not recorded, it records blocks that are done, and it reports
  success when the target equals the source.
* **BlockingQueue** is the queue thread by thread: asleep on a condition
  variable, awake but without the mutex, or running; with spurious wakeups and
  a `Finish` at any time. **AtomicQueue** is the queue as SessionPipeline uses
  it, and BlockingQueue is shown to implement it, fairness included.
* **CopyResource** is `TaskResourceManager`: find the files of a copy, create
  them one by one (`CreateFragmentBinaryBackupCopy` and the others), attach the
  virtual disk, write its partition table, detach it in the destructor. One
  action is one call of the system. POSIX and Windows differ in what creating
  an existing file does (`MayCreate`).
* **CopyTasks** extends it with the tasks themselves, one after the other, on
  one copy: `Prepare` (resources, `ValidateIncrementBackup`, the meta file), the
  loop over sessions, checkpoints and their removal, SUCCEED; for full and
  incremental backups, restores and zero-copy restores. `Crash` and the failures
  of each call may come anywhere; `StartBackup`, `StartRestore` and
  `NextSnapshot` are the user. A session, BackupSession's subject, is here open -
  copy - save checksums - save bitmap, with `Refresh` in between. A read or write
  of it that fails (`ReadFails`, `WriteFails`) is first known to the sub-task
  alone: `failing`. `WaitSessionTerminate` then sees it (`SessionFails`) or does
  not (`FailureMissed`), and in the second case the task goes on to SUCCEED; a
  refresh may meanwhile record a session whose write failed as done. A checkpoint
  that cannot be removed stays and is not missed (`ClearAllCheckpoints`), and a
  meta file that cannot be written stays torn (`SaveMeta`). `checksums` and
  `checkpoint` are the files a task leaves to the next, under the names the path
  helpers give them. The variable `spoilt` is the model's own: the sessions in
  which a call has failed since they were last written in full. No action of the
  program depends on it; the properties except these sessions.
* **CopyChain** is what a chain of backups promises: work on the copy while the
  backup of a snapshot is not complete, sparing what is unchanged; report that
  it is complete when the copy equals the snapshot, but for the sessions that
  failed calls may have cost (`lost`), at most one for each (`LosesAtMostOne`) and
  only until it is written in full; take the next snapshot.
* **CopyLayout** follows every byte: the virtual disk's size and partitions, the
  split into sessions, the blocks of a session, the place in the copy each
  format gives them, and the device a mount makes of the copy. Sums are taken
  modulo `Word`.
* **BlockDevices** is the kernel as the code drives it: loop devices with
  autoclear, open descriptors, dm tables, the mount table, attached disks.
  **CopyMount** extends it with the processes: `Mount`, its rollback and
  `Umount` of the loopback, device-mapper and Windows providers, call by call,
  and the record files they leave. Several processes run side by side; they
  crash; a desktop service mounts what appears.
* **MC...** modules give the constants values; **..._proof** modules hold the
  theorems.

Definitions called `Name_Variant` (say `Finish_Forgotten`) are `Name` with a
plausible mistake. Nothing uses them; `PROJECT.json` ("mutants") says which
property notices when one takes the place of `Name`.

### Abstractions

* The content of a block (in CopyTasks: of a session) is a model value; SHA-256
  is injective. A checksum is missing (`NoHash`) where the table has zeros.
* Byte counts come from `SessionSize` and `BlockSize`, so that a short last
  block is one in the model (`Length`, `LoadedPreviousTable`, `BytesOf`,
  `SessionLength`).
* Waiting is a guard; timeouts are choices: the minute of `FetchBlockBuffer`
  may pass whenever no buffer is free, the minute between two refreshes at any
  look. Error codes and logging are left out.
* Crashes keep what was written to files (the process dies, not the machine),
  but the write under way may be cut short. A power loss is only asked about
  through `durable`.
* In CopyMount one mount, `System`, stands for `/proc`, `/sys` and `/dev`.

### What the caller is trusted with

The models assume what the code leaves to its caller: a snapshot is backed up
again until that has succeeded, and only then is the next one taken; a restore
is resumed only if nothing has written to copy or volume since, and otherwise
goes to an empty volume; backups and restores use different checkpoint
directories (`CheckpointDir_Shared` is what happens otherwise); at most one task
works on a copy, and at most one process mounts or unmounts it. The checkpoint is
cleared when a task has succeeded (`clearCheckpointsOnSucceed`, the default).

### What is assumed of checkpoints and files

* SessionPipeline starts from any combination of bitmaps and checksums that earlier
  attempts on the same source can leave *in which no write failed*: a block may be
  written and not processed, and processed without a checksum, but what is processed
  and had to be written is on the target. After a failed write this is not so
  (`finding_failed_write`); what such a checkpoint does to the tasks that follow is in
  CopyTasks. BackupSession makes its checkpoints itself and assumes nothing of them.
* A block that a checkpoint calls processed and has no checksum for stays without
  one: `Hole`. `ProcessedIsDone` and `SuccessIsComplete` except its checksum, and
  `ExactlyOnce` the `written` bits of blocks that are read again.
* Files the models say nothing else about can be opened; the calls that may fail are
  those that create, write, remove, mount, attach or detach something, reads and writes
  of volumes and copies, and the mount table. `fsync` is taken to work.
* A JSON file (meta data, mount record) that was cut short is taken to be refused when
  it is read: the JSON library is not part of the sources. One cut short so that it
  still reads as a whole, with other contents, is not modelled.

## 3. Runs

| Run | What it shows | Bounds |
|---|---|---|
| `pipeline_backup` | `BuffersIntact`, `ExactlyOnce`, `NoPushAfterFinish`, `PushNeverWaits`, `ProcessedIsDone`, `SuccessIsComplete`, `StatisticsAddUp` for an incremental session, started from no checkpoint or one of six whose bitmaps and checksums do or do not go together | 3 blocks (one unchanged, one empty and changed, one short), 2 buffers, queues of 2, 2 workers |
| `pipeline_live` | `ThreadsTerminate`: whatever fails or is aborted, all threads end | 2 blocks, 1 buffer, 2 workers |
| `session_backup` | `CopySpec`: the session with crashes and failing saves implements ResumableCopy; `SucceedIsDurable`, `ChecksumsDescribeCopy` | 2 blocks, 1 worker, 1 restart |
| `session_restore` | `CheckpointIsSound`, `TaskEnds` with aborts, crashes, read failures, timeouts | 2 blocks, 1 buffer, 1 restart |
| `queue` | `NoLostWakeup`, `AtomicFairSpec` | 2 producers of 3 items, 2 consumers, capacity 2 |
| `tasks` | `ChainSpec`: tasks that fail, crash and are run again, whose failures are seen or missed, implement CopyChain; `CheckpointHolds`, `RestoredIsCopy`; `BackupCompletes`: a backup that is run again and again succeeds | 7 layouts (every format, both platforms, 1 and 2 sessions), 2 contents, 2 faults (1 for the image of two sessions), any number of tasks |
| `mount` | `MountsOwnFiles`, `LeaksAreFaults`, `CallsEnd` | 2 processes, 3 loop devices, 1 dm device, 8 worlds with 0 to 3 faults, 3 rounds of `UmountAll` |
| `layout` | `CopiedOnce`, `PartitionFits`, `MountShowsVolume` | all six formats; volumes of 1 to 8, sessions of 1 to 6 and of the largest word, blocks of 1 to 3, sectors of 2, words of 64 |

Why these are enough.

* *Sessions.* More blocks than buffers makes the reader wait and buffers be
  reused; two workers make the race for the last item, for the last exit and for
  a byte of the bitmap; three blocks in a byte share it with writer and workers.
  The pool has no more buffers than a queue has places, as the defaults (32 and
  64) do; `PushNeverWaits` depends on that. (With exactly as many it only speaks of
  the time up to the first failed write: the writer frees the buffer of a block it
  could not write twice, the second time it may be another block's, and then one
  block more is under way than there are buffers in use. The proof found this;
  the bound of the property is what can be proved.) One restart is one recovery from
  every state a first attempt can leave; a second one meets the same files. In
  `session_backup` the user does not abort: an abort that races the end of the
  task overwrites SUCCEED with ABORTING (see "Deviations"), which no
  specification of a copy allows.
* *Tasks.* Two faults are a crash and a second one, or a failing call, while the
  task that follows recovers: a checkpoint that could not be removed and a crash of
  the next backup, say, or a failed write and a crash after the refresh that records
  it. Tasks without a fault are not counted, so that backups and restores alternate
  as long as they like. Two sessions make a checkpoint of one and none of the other;
  two contents make a session changed or unchanged. Two layouts have a last session
  shorter than a block, one a block size of its own. The image of two sessions
  gets one fault: with two it has more than two million states.
* *Checkpoints.* The six checkpoints of `pipeline_backup` are a part of the session,
  all of it, and four with blocks that are written and not processed (with and
  without a checksum), processed without a checksum, or half written, in several
  combinations; the theorems are for all of them.
* *Mounts.* A world fixes what is mounted and which faults there are; each is
  there for a question: copies that share an output directory, with and without
  unmounts; a fault (a crash, a failing call, a record that is not written, a mount
  table that is not read) beside another mount; two faults in one mount; mounts that
  can all be taken away; a service that mounts what appears; Windows. Three loop
  devices hold an image and a copy of two fragments, and let a device be taken
  twice. All faults in all worlds at once are out of reach.
* *Layout.* All sizes are small multiples and non-multiples of one another; a
  session size of `Word - 1` makes the sum in the split overflow; the maximum
  sizes of disks are such that some volumes fit and some do not.

`CHECK_DEADLOCK FALSE` is set where the system may stop: a session that is over,
producers and consumers that are done, a layout that is mounted, a world whose
unmounts are done or whose faults took `/proc` away. `tasks` checks for
deadlock: a user can always start something.

Properties that exclude something say so by name. `BuffersIntact` and
`ProcessedIsDone` hold up to the first failed write (`~m_failed`); `CopySpec` and
`CheckpointIsSound` are checked with `WriteMayFail = FALSE`, because of what
`finding_failed_write` shows. `CheckpointHolds`, `RestoredIsCopy` and `ChainSpec`
except the sessions a failed call may have cost (`spoilt`). `BackupCompletes`
excepts the backups that never succeed (`NeverSucceeds`) and a restore that never
ends (`Spinning`); `RestoredIsCopy` zero-copy restores of several sessions; `MountShowsVolume` sizes
that are not whole sectors; `LeaksAreFaults` shared directories and a system
without `/proc`. Each is a deviation of section 5.

### Findings

These runs check what a comment or test of the repository says, and TLC finds
it violated by what the code does.

* `finding_failed_write`: `VolumeBlockWriter::MainThread` sets the bits of a
  block whose write failed; a refresh records it, the next attempt skips it.
* `finding_failure_missed`: `WaitSessionTerminate` asks `IsFailed`, then
  `IsTerminated`; a failure between the two questions ends in SUCCEED.
* `finding_sparse_incremental`: `skipEmptyBlock` in an incremental backup leaves
  the old content where the volume became empty.
* `finding_umount_all`: `GetAllMounts` ignores the device it is asked for, so
  that `UmountAll` unmounts everything, `/proc` included.

### Fairness

`FairSpec` and `FairSessionSpec` (SessionPipeline, BackupSession) assume what the
operating system's scheduler and the task's own loop give: every thread that can
go on does (weak fairness per thread), the task's thread starts what it has to
start and gets on with its loop. The reader gets strong fairness: it is disabled
while paused, a pause is over after a handful of writes and comes once a minute,
the reader looks every second. In BlockingQueue, a thread inside a call that is
not asleep gets the mutex; a sleeping one is owed nothing, so that a lost wakeup
is a violation. `FairTasksSpec`: a task that runs goes on (weakly fair, without
counting a refresh, which comes once a minute and ends), and a user whose backup
has not succeeded starts it again sooner or later (strong fairness, because other
tasks come in between; it is an assumption about the user, not the code).
CopyMount: a process that runs goes on. Crashes, failures, aborts, timeouts, the
desktop service and new mounts get no fairness anywhere.

## 4. Proofs

**`SessionPipeline_proof`** proves, for every session and block size, pool and
queue size, any finite set of workers and every setting (`SizesAssumption`,
`ConfigAssumption`, `DataAssumption`):

* `TypeCorrect`: `Spec => []TypeOK`. TypeOK is inductive as it stands, because
  it also says that a thread at a step that uses a block has one.
* `PushBeforeFinish`: `Spec => []NoPushAfterFinish`. The argument: the hashing
  queue is finished by the reader alone, after its last push (`ReaderOrder`). The
  write queue is finished by a worker that sees the counter at zero; that
  the counter is zero means that no worker is between its start and its exit
  (`RunningCount`: the counter is the number of such workers), and a worker
  leaves only when the hasher was aborted or the hashing queue is finished and
  empty (`QuitForCause`), so that one that starts later finds nothing to push
  either (`WriteFinished`). `WorkersTogether` says that the workers leave "idle"
  at once. The conjunction `FinishInv` is inductive relative to TypeOK.

**`SessionOwnership_proof`** and **`SessionContents_proof`** prove the rest of the
run `pipeline_backup`, under the same assumptions. Each item in flight is a triple of
holder, place and block (`InFlight`); a step carries the items along an injection
(`Carried`), lets one leave (`Leaves`) or lets the reader add one.

* `DeliveredOnce`: `Spec => []ExactlyOnce`. No two items have the same index, and
  all of them are behind the reader (`OnePlace`, `Frontier`); what is processed, or
  was in a checkpoint, is not in flight (`SettledInv`, `WrittenInv`). The bits are
  set by unlocked read-modify-writes: `IsSettled` speaks of the bit and of the byte
  a thread is about to store at once, which is why a lost bit does no harm here. All
  of it starts from what `CheckpointLeft` allows: a block that the checkpoint calls
  written and not processed is taken up again, and the theorem says that no other is.
* `BuffersAreIntact`: `Spec => []BuffersIntact`, from `BuffersInv`: up to the first
  failed write the items in flight and the reader have allocated buffers, one each.
* `MarkedIsDone` and `SuccessMeansComplete`: `ProcessedIsDone` and
  `SuccessIsComplete`, from `CopyInv` and `HashInv` (what is put away is on the target
  and has its checksum, or is a hole of the checkpoint), `CopiedSoFar` and `HashedSoFar` (what the reader is past is
  in flight, or that), `VerdictInv` (a sub-task that says SUCCEED has come to the end
  of its input, and a failed write is counted before the writer looks) and
  `AllocInv`. Both assume `SkippedIsEmpty`: where the source is empty and
  `skipEmptyBlock` is set, so is the target beforehand. A new sparse file is; an
  incremental copy need not be, which is `finding_sparse_incremental`.
* `PushFindsRoom`: `AllocatorBlockNum <= QueueSize => (Spec => []PushNeverWaits)`, by
  counting: there are no more items in flight than buffers allocated, but for the
  one a failed write frees twice (`FlightCount`).
* `StatisticsAreComplete`: `Spec => []StatisticsAddUp`, without hypotheses. What is
  announced and not done yet is what waits: blocks in or before the hands of a worker
  (`HashCount`), bytes in the write queue or on either side of it (`WriteCount`, up to
  the first failed write), less the one block that the reader has pushed and not yet
  counted. The bytes of a set of blocks are its size times `BlockSize`, less what the
  last block lacks (`Weight`), so that no sum is needed. `ReadCount` says that what
  was read makes up for the blocks the reader is past and for those of the checkpoint
  still ahead, whose number changes only where the reader skips one (`AheadStays`),
  although other threads set and lose bits of the same bitmap. A restart counts a
  shorter last block as a whole one: hence `>=` for the bytes read.

**`BackupSession_proof`** proves, for any number of crashes and restarts,
`TaskTypeCorrect`, `CheckpointHolds`, `SuccessIsDurable`, `ChecksumsAreOfTheCopy` and
`SessionImplementsCopy` (`SessionSpec => CopySpec`: every step is a step of
ResumableCopy or leaves its variables alone). A step of the task is a step of the
session or builds a new context (`PipelineStep`), so that the invariants above hold
in every attempt (`ContextInv`) if they hold of what an attempt starts with. To them
come: where the task's thread is and that the reader is paused only there
(`PlaceInv`), that a checkpoint has a checksum file (`FilesInv`), that what is in a
snapshot or a saved checkpoint is on the target and nobody will touch it
(`RecordedInv`; an interrupted write hits neither that nor an unchanged block,
`CrashSpares`), that nobody has been aborted or failed while the task is at work
(`TroubleInv`, `FinalInv`), and what is on the medium after the last flush
(`DurableInv`, `TableInv`). The hypotheses are what the findings force:
`SkippedIsEmpty`; `~WriteMayFail` for `CheckpointHolds`, because a failed write marks
its block (`finding_failed_write`); for the other three no failing read, write or
allocation at all (`NoMediaErrors`), because a task may say SUCCEED although a
sub-task failed between its two looks (`finding_failure_missed`); and for the
refinement no abort by the user, which may overwrite SUCCEED (section 5). Crashes,
restarts, and saves of files that fail are in all of them.

**`BlockingQueue_proof`** proves, for any producers, consumers, items and capacity,
`QueueTypeCorrect`, `WakeupsSuffice` (`Spec => []NoLostWakeup`) and `QueueIsAtomic`
(`Spec => Atomic!Spec`). NoLostWakeup is inductive together with who may sleep where
(`WaitInv`): a sleeper beside an item has an awake thread of its kind for that item,
and each action takes at most one of the two away.

**`CopyMount_proof`** proves, for any processes, devices, copies and faults, any number
of rounds of `UmountAll`, and copies that share a directory or do not
(`DevicesAssumption`, `MountAssumption`):

* `MountTypeCorrect` and `TargetsShowTheirFiles` (`Spec => []MountsOwnFiles`). The
  inductive invariant `MountInv` says which process is where for which copy, no two
  for one copy (`JobInv`); what a process keeps of its devices (`DeviceInv`); that the
  devices it has attached are open and show its files (`AttachedInv`); that the name
  of a dm device is its process's own until it is mounted (`NameInv`); and that what
  is mounted on a target shows that copy's files (`MountsInv`). A device that stays in
  use keeps its file (`FilesStay`), whatever is detached: that is all a rollback that
  reaches other mounts leaves of the argument, and it is enough.
* `LeaksArePaidFor`: `Spec => []LeaksAreFaults`. `Unrecorded` itself may grow without a
  fault: a process that exits closes a device. `Lost` contains it and cannot: it has
  what no record names, open or not, except what its process is about to record, and
  leaves out a record that is about to be removed; a disk whose record could not be
  written, which nobody notices, is in it before it is attached. Every step leaves `Lost` alone or
  adds one to it and to the faults (`LeakPaid`); with a directory shared by copies,
  where one process removes what another has written, it does not hold.

**`CopyTasks_proof`** proves, for every set of layouts and of contents and any
number of faults (`ResourceAssumption`, `ChecksumAssumption`):

* `TasksImplementChain`: `TasksSpec => ChainSpec`, the step simulation of
  CopyChain with the mapping `base <- prevChecksums`, `lost <- spoilt["backup"]`,
  `failures <- faults`;
* `CheckpointsHold`, `RestoresAreCopies`, `TasksTypeCorrect`: the other
  invariants of the run `tasks`.

None of them is inductive. `TasksInv` is, and its parts say why a task may trust
what it finds, outside the sessions that failed calls have spoilt: a file that is
missing holds nothing, and one that is being created held nothing before
(`FileInv`), so that creating files destroys nothing a checkpoint speaks of; a
checksum is that of the snapshot or says nothing, and where the one of the backup
before equals it the copy has the content already (`ChecksumInv`), so that an
incremental backup may skip it; sessions a backup has passed are copied, and the
session at hand is before its bitmap is saved (`BackupInv`, `InCopy`, `InTarget`); a
bitmap that says "done" has a checksum file beside it, so that a restart does not
tear what it could have skipped, and none is left when the snapshot changes
(`RecordInv`); no restore's checkpoint survives the start of another kind of task
(`RestoreInv`). `FailureInv` is what makes the exceptions small: a sub-task fails
only in a session that is not recorded, and that session is spoilt from then on, so
that whatever is recorded of it without being there is paid for by a fault.
`ProgramInv` is the control: which kind of task can be where. Every action has a
lemma, `<Action>Step`.

**`CopyLayout_proof`** proves the four properties of the run `layout` for every
size of volume, session, block, sector, word and disk (`LayoutAssumption`):
`LayoutTypeCorrect`, `EachByteCopiedOnce`, `VirtualDiskHasRoom`,
`MountedCopyIsVolume`. The inductive invariant `LayoutInv` says how far the loops
have come: the segments so far are the volume up to `sessionOffset`, one behind
the other (`SplitInv`); the extents so far lie in the sessions passed and in the
current one up to `position`, apart from each other, and cover everything behind
(`CopyInv`); the disk is padded and the partitions are where the constants put
them (`DiskInv`); if volume and session size are whole sectors, so is each segment
(`AlignInv`); the device so far is a table of the segments (`DeviceInv`). The
properties themselves speak of the end of the loops and are not inductive. The
assumption that twice the volume's size and what a disk adds to it is less than a
word is what keeps the sums from overflowing.

Model-checked only: all liveness (`ThreadsTerminate`, `TaskEnds`, `BackupCompletes`,
`CallsEnd`, the fairness part of `AtomicFairSpec`), which is out of the prover's reach.
Every safety property of a passing run is stated by a theorem.

## 5. Deviations

What the models show or assume beyond the findings, where the code does not do
what its callers, comments or documents would expect. No run checks these: the
models do as the code does, and the properties except what follows from it.

* **Abort may last for ever.** `StatefulTask::Abort` (`src/src/VolumeProtector.cpp:159`)
  tests the status and then stores ABORTING; if the task reports its end in
  between, ABORTING stays, and `vbackup`, which polls `IsTerminated`, polls for
  ever. BackupSession has both steps; `session_restore` checks `TaskEnds`, about
  the thread, with aborts.
* **A checkpoint may name what is not flushed.** `FlushSessionBitmap`
  (`src/src/task/VolumeProtectTaskContext.cpp:431`) takes a snapshot younger
  than the `fsync` before it. It matters when the machine, not the process, dies.
* **What a failing call leaves behind.** `JsonSerialize`
  (`src/include/common/VolumeUtils.h:138`) does not look whether it could write: a
  backup may succeed with a meta file that was cut short, and every incremental
  backup after it fails (`NeverSucceeds`). `ClearAllCheckpoints`
  (`src/src/task/VolumeBackupTask.cpp:376`) does not look whether a checkpoint was
  removed: it may serve a later backup, which then skips a session that has changed
  (`spoilt`). A mount table that cannot be read (`LinuxMountUtils.cpp:239-294`) is one
  where nothing is mounted.
* **Checksums that never come.** A checkpoint file younger than the checksum file
  beside it (the snapshot at `VolumeProtectTaskContext.cpp:431`, or a crash while the
  table is rewritten) has blocks that are processed without a checksum. The session
  that resumes from it skips them and succeeds with holes in its table; the next
  incremental backup writes these blocks whether they have changed or not.
* **Fragments have one name.** `SplitFragmentBinaryBackupCopy`
  (`src/src/native/TaskResourceManager.cpp:45`) never increments `sessionIndex`:
  every fragment is created under the name of the first, which POSIX refuses the
  second time. The picture in `src/src/VolumeProtector.cpp:37-51` has
  `.part1`, `.part2`, `.part3`. Hence `NeverSucceeds`. CopyMount and CopyLayout
  treat copies of several fragments all the same, as the mount code does.
* **A BIN copy cannot be mounted to the end.** `LinuxDeviceMapperMountProvider::Mount`
  (`src/src/native/linux/LinuxDeviceMapperMountProvider.cpp:186`) calls
  `JsonDeserialize` where its comment says "save mount record": the file is not
  there, the mount fails and is rolled back, but the rollback does not unmount.
  The records that `LinuxDeviceMapperUmountProvider` needs never exist.
* **Rollback reaches other mounts.** `RollbackClearResidue` (line 194) goes by
  every record of the output directory: where mounts share it, it detaches what
  another process has attached, and it removes a record after another process has
  attached the same loop device again (322-334). `MountsOwnFiles` holds all the
  same, because `Attach` and `Detach` never close the device they open: it keeps
  its file until the process ends (the mutant `SetFd_Closed` takes that away).
* **Records of mounts stay.** `Umount` never removes the mount record, so that a
  second `Umount` of a copy may detach a device that is somebody else's by now;
  `Win32VirtualDiskMountProvider::MountRollback`
  (`src/src/native/win32/Win32VirtualDiskMountProvider.cpp:136`) detaches a disk
  whoever has attached it. `JsonDeserialize` (`src/include/common/VolumeUtils.h:162`)
  reads a record up to the first white space. `vcopymount` uses the provider that
  `Build` returns without looking whether there is one.
* **Sizes.** A session size of 0 keeps `VolumeBackupTask::Prepare` splitting for
  ever (`src/src/task/VolumeBackupTask.cpp:101`). Sessions that are not whole
  sectors make a dm table with gaps (`LinuxDeviceMapperMountProvider.cpp:286`). The
  copy's meta data records `DEFAULT_BLOCK_SIZE` whatever block size was used
  (`VolumeBackupTask.cpp:84`), so that a copy made with another one is never
  continued. A last session shorter than a block fails every incremental backup
  (`VolumeBackupTask.cpp:327`).
* **A picture of a partition.** The picture at
  `src/src/native/win32/Win32RawIO.cpp:57-66` draws the usable part of the disk up to
  its end; `InitVirtualDiskGPT` ends it before the backup partition table, and that is
  what `PartitionFits` is about.
* **Statistics of a resumed session.** `RestoreSessionCounter`
  (`src/src/task/VolumeProtectTaskContext.cpp:512`) counts a short last block as a whole
  one, so that a resumed session may report more bytes read than it has.
  `StatisticsAddUp` asks of the bytes read only that they reach the session's size.
* **Zero copy.** `PerformZeroCopyRestore`
  (`src/src/task/VolumeZeroCopyRestoreTask.cpp:163`) writes each session at the
  beginning of the volume, goes round for ever at the end of a copy that is too
  short, and does not look at `m_abort`.

## 6. Not modelled

* `LinuxDeviceMapperUmountProvider::Umount`: nothing the code can do reaches it
  (see above). `Mount2` and `ParseMountOptions`: no provider calls them.
* `BlockProbeUtils`, the enumeration of Windows volumes and drives, reading sizes
  of volumes and sectors: they return what the system says and change nothing.
* `vshow`, `vchecksum`, `GetOption`, the language bindings, the JSON text, the
  logger, the sums of statistics over sessions: formatting without behaviour of
  its own. The 32-bit sizes of the checksum tables: the models count blocks.
* `clearCheckpointsOnSucceed` switched off at the level of the tasks (a checkpoint
  then stays by intention), checksum and checkpoint files that exist and cannot be
  opened, a failing `fsync`, JSON cut short that still reads as a whole.
* Memory ordering weaker than interleaving (the status flags are plain fields),
  and volumes that change while they are read.

## 7. Plan

1. Step properties of the tasks beyond the refinements: what a step may never do to a
   file that another task has left.
2. The checkpoint up to the first failed write: the theorem `CheckpointHolds` of
   BackupSession_proof assumes that no write fails, while the session's own theorems ask it only of the attempt they speak of.
