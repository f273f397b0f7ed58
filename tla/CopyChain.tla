----------------------------- MODULE CopyChain -----------------------------
(***************************************************************************)
(* What a chain of backups into one copy promises, seen from outside.  Each *)
(* backup is of one snapshot of the volume; it is complete when the copy    *)
(* equals the snapshot, and from then on the copy does not change until the *)
(* next snapshot is taken.  An incremental backup works in place: what is   *)
(* as it was in the snapshot before, it leaves alone, however often it is   *)
(* interrupted.  Restores do not change the copy at all.  Calls may fail: a *)
(* failure costs at most one session, until that is written in full.        *)
(***************************************************************************)
EXTENDS Integers

CONSTANTS Contents, Stored

VARIABLES
  volume,      \* the snapshot that is backed up
  base,        \* the snapshot before, where the backup builds on it
  copy,
  complete,    \* the backup of this snapshot has said so
  lost,        \* the sessions a failure may have cost
  failures     \* how many there were

chainVars == <<volume, base, copy, complete, lost, failures>>

Init ==
  /\ volume \in [DOMAIN volume -> Contents]
  /\ copy \in [DOMAIN volume -> Stored]
  /\ complete = FALSE
  /\ lost = {} /\ failures = 0

LosesAtMostOne ==
  \/ lost' \subseteq lost
  \/ failures' > failures /\ \E s \in DOMAIN volume : lost' \subseteq lost \cup {s}

\* The backup writes, or a crash or failure damages what it was writing.
Work ==
  /\ ~complete
  /\ copy' \in [DOMAIN volume -> Stored]
  /\ \A s \in DOMAIN volume \ (lost \cup lost') : base[s] = volume[s] => copy'[s] = copy[s]
  /\ failures' >= failures /\ LosesAtMostOne
  /\ \A s \in lost \ lost' : copy'[s] = volume[s]
  /\ UNCHANGED <<volume, base, complete>>

Complete ==
  /\ ~complete /\ \A s \in DOMAIN volume \ lost : copy[s] = volume[s]
  /\ complete' = TRUE
  /\ UNCHANGED <<volume, base, copy, lost, failures>>

\* Something else fails.
FailElsewhere ==
  /\ failures' > failures
  /\ UNCHANGED <<volume, base, copy, complete, lost>>

\* What an incremental backup takes for the snapshot before is that, or
\* unknown.
Snapshot ==
  /\ complete
  /\ complete' = FALSE
  /\ volume' \in [DOMAIN volume -> Contents]
  /\ \A s \in DOMAIN volume \ lost : base'[s] \in Contents => base'[s] = copy[s]
  /\ UNCHANGED <<copy, lost, failures>>

Next == Work \/ Complete \/ FailElsewhere \/ Snapshot

Spec == Init /\ [][Next]_chainVars
=============================================================================
