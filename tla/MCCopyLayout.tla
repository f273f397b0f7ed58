---------------------------- MODULE MCCopyLayout ----------------------------
(***************************************************************************)
(* Values of the constants for model checking where a copy's bytes lie.    *)
(***************************************************************************)
EXTENDS CopyLayout

\* Sizes with and without remainders; a session as large as a word can count;
\* disks that are too large for their format.
MCConfigs ==
  [format : Formats, volumeSize : 1 .. 8, sessionSize : {1, 2, 3, 4, 6, Word - 1},
   blockSize : {1, 2, 3}]

MCMaxDiskSize == [f \in DiskFormats |-> IF f = "VHD_DYNAMIC" THEN 12 ELSE 16]
=============================================================================
