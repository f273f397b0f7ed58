--------------------------- MODULE ResumableCopy ---------------------------
(***************************************************************************)
(* What a backup or restore that may be interrupted and resumed promises   *)
(* about its target, seen from outside: it copies the source; it records   *)
(* blocks that are done, and from then on does not touch them; it reports  *)
(* success once, when the target equals the source.                        *)
(***************************************************************************)
CONSTANTS Blocks, Contents

VARIABLES
  source, target,
  recorded,     \* the blocks a later attempt may skip
  succeeded

copyVars == <<source, target, recorded, succeeded>>

Init ==
  /\ source \in [Blocks -> Contents]
  /\ target \in [Blocks -> Contents]
  /\ recorded = {} /\ succeeded = FALSE

\* Blocks that are not recorded may be written, or damaged by a failure.
Work ==
  /\ ~succeeded
  /\ target' \in [Blocks -> Contents]
  /\ \A b \in recorded : target'[b] = target[b]
  /\ UNCHANGED <<source, recorded, succeeded>>

\* A set of blocks is recorded in place of the one before.
Record ==
  /\ ~succeeded
  /\ recorded' \in SUBSET {b \in Blocks : target[b] = source[b]}
  /\ UNCHANGED <<source, target, succeeded>>

Succeed ==
  /\ target = source
  /\ succeeded' = TRUE
  /\ UNCHANGED <<source, target, recorded>>

Next == Work \/ Record \/ Succeed

Spec == Init /\ [][Next]_copyVars
=============================================================================
