---------------------------- MODULE MCCopyTasks ----------------------------
(***************************************************************************)
(* Values of the constants for model checking the tasks on a copy.         *)
(***************************************************************************)
EXTENDS CopyTasks

CONSTANTS c1, c2

MCContents == {c1, c2}

Layout(format, platform, volumeSize, sessionSize, blockSize, maxFaults) ==
  [format |-> format, platform |-> platform, volumeSize |-> volumeSize,
   sessionSize |-> sessionSize, blockSize |-> blockSize, recordedBlockSize |-> 2,
   maxFaults |-> maxFaults]

\* One session and two, with every format and both platforms; a last session
\* shorter than a block; a block size that is not the one recorded.  Two faults,
\* but one in the image of two sessions, whose states are many.
MCLayouts ==
  { Layout("BIN", "posix", 3, 4, 2, 2), Layout("BIN", "win32", 8, 4, 2, 2),
    Layout("BIN", "posix", 8, 4, 2, 2),
    Layout("IMAGE", "posix", 7, 4, 2, 1), Layout("IMAGE", "win32", 1, 4, 2, 2),
    Layout("VHD", "win32", 3, 4, 2, 2), Layout("VHD", "win32", 4, 4, 1, 2) }
=============================================================================
