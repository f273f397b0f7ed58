------------------------- MODULE MCSessionPipeline -------------------------
(***************************************************************************)
(* Values of the constants for model checking a session: five bytes in     *)
(* blocks of two, that is three blocks of which the last is shorter, and   *)
(* fewer buffers than blocks so that the reader has to wait for one.       *)
(***************************************************************************)
EXTENDS SessionPipeline, TLC

CONSTANTS zero, d1, d2

MCData == {zero, d1, d2}

Content(x, y, z) == [b \in Blocks |-> CASE b = 0 -> x [] b = 1 -> y [] OTHER -> z]

\* The volume has three different blocks, one of them empty.
MCSource == {Content(d1, zero, d2)}

\* A new copy file is sparse: zeros everywhere.
MCNewTarget == {Content(zero, zero, zero)}

\* The copy an incremental backup starts from: the first block is unchanged,
\* the second changed, the last one unchanged but too short for a checksum.
MCPreviousCopy == {Content(d1, d2, d2)}

Attempt(p, w, h, torn) ==
  [loaded |-> [processed |-> p, written |-> w, hashed |-> h],
   left |-> [b \in Blocks |-> IF b \in w THEN "new"
                              ELSE IF b \in torn THEN "torn" ELSE "old"]]

MCFirstAttempt == {Attempt({}, {}, {}, {})}

\* For the incremental backup, where block 0 is unchanged: no checkpoint, a
\* part of the session, all of it; and checkpoints with blocks that are written
\* and not processed, processed and without a checksum, or begun and not
\* finished.
MCAttempts ==
  { Attempt({}, {}, {}, {}), Attempt({0, 1}, {1}, {0, 1}, {}),
    Attempt({0, 1, 2}, {1, 2}, {0, 1, 2}, {}),
    Attempt({0}, {1}, {}, {2}), Attempt({1}, {1, 2}, {2}, {}),
    Attempt({0, 2}, {2}, {0}, {1}), Attempt({0, 1, 2}, {1, 2}, {1}, {}) }

WorkerSymmetry == Permutations(Workers)
=============================================================================
