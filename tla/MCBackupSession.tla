-------------------------- MODULE MCBackupSession --------------------------
(***************************************************************************)
(* Values of the constants for model checking a backup of one session.     *)
(***************************************************************************)
EXTENDS BackupSession, TLC

CONSTANTS zero, d1, d2

MCData == {zero, d1, d2}

\* Blocks 0, 1, 2, ... hold d1, d2, d1, ... : neighbours differ.
MCSource == {[b \in Blocks |-> IF b % 2 = 0 THEN d1 ELSE d2]}

\* A new copy file is sparse: zeros everywhere.
MCNewTarget == {[b \in Blocks |-> zero]}

\* A previous copy whose first block is still current.
MCPreviousCopy == {[b \in Blocks |-> IF b = 0 THEN d1 ELSE zero]}

\* The first attempt is in the model, and so are those that follow it.
MCFirstAttempt ==
  {[loaded |-> NoCheckpoint, left |-> [b \in Blocks |-> "old"]]}

WorkerSymmetry == Permutations(Workers)
=============================================================================
