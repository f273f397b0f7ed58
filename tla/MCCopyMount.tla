----------------------------- MODULE MCCopyMount -----------------------------
(***************************************************************************)
(* Values of the constants for model checking the mounting of copies.      *)
(***************************************************************************)
EXTENDS CopyMount

CONSTANTS image, bin, fragments, vhd, i0, b0, f0, f1, v0

MCFormat == (image :> "IMAGE") @@ (bin :> "BIN") @@ (fragments :> "BIN") @@ (vhd :> "VHD")
MCFiles == (image :> <<i0>>) @@ (bin :> <<b0>>) @@ (fragments :> <<f0, f1>>) @@ (vhd :> <<v0>>)

World(copies, unmounts, pinned, shared, loopDevices, autoMounted, maxFaults) ==
  [copies |-> copies, unmounts |-> unmounts, pinned |-> pinned, shared |-> shared,
   loopDevices |-> loopDevices, autoMounted |-> autoMounted, maxFaults |-> maxFaults]

\* Two copies whose mounts share records, without and with unmounts; two that
\* do not, one of which may crash; one copy with more faults; mounts that can
\* all be taken away; a desktop service; Windows.
MCWorlds ==
  { World({image, fragments}, FALSE, {System}, TRUE, 0 .. 2, {}, 0),
    World({image, fragments}, TRUE, {System}, TRUE, 0 .. 1, {}, 0),
    World({image, fragments}, FALSE, {System}, FALSE, 0 .. 2, {}, 1),
    World({fragments}, FALSE, {System}, FALSE, 0 .. 2, {}, 2),
    World({image, bin}, TRUE, {}, FALSE, 0 .. 1, {}, 1),
    World({image, fragments}, TRUE, {}, FALSE, 0 .. 2, {}, 0),
    World({image}, TRUE, {System}, FALSE, 0 .. 2, 0 .. 2, 1),
    World({vhd}, TRUE, {System}, FALSE, {}, {}, 3) }

MCOneImage == {World({image}, TRUE, {}, FALSE, 0 .. 1, {}, 0)}
=============================================================================
