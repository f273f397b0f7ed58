---------------------------- MODULE AtomicQueue ----------------------------
(***************************************************************************)
(* A bounded queue whose operations are atomic steps, as SessionPipeline   *)
(* uses BlockingQueue: a push waits for room and is refused once the queue *)
(* is finished, a pop waits for an item and reports the end of a finished  *)
(* and empty queue.  Only the pushes that are under way when the queue is  *)
(* finished may still come through.                                        *)
(***************************************************************************)
EXTENDS Naturals, Sequences

CONSTANTS Producers, Consumers, MaxSize, Items

VARIABLES
  queue, finished,
  late,         \* the producers that were waiting when the queue was finished
  pushed,       \* how many items each producer has pushed
  gone          \* the threads whose last call returned false

atomicVars == <<queue, finished, late, pushed, gone>>

Init ==
  /\ queue = <<>> /\ finished = FALSE /\ late = {}
  /\ pushed = [p \in Producers |-> 0] /\ gone = {}

Push(p) ==
  /\ p \notin gone /\ pushed[p] < Items
  /\ ~finished \/ p \in late
  /\ Len(queue) < MaxSize
  /\ queue' = Append(queue, <<p, pushed[p] + 1>>)
  /\ pushed' = [pushed EXCEPT ![p] = @ + 1]
  /\ late' = late \ {p}
  /\ UNCHANGED <<finished, gone>>

Refuse(p) ==
  /\ p \notin gone \cup late /\ pushed[p] < Items /\ finished
  /\ gone' = gone \cup {p}
  /\ UNCHANGED <<queue, finished, late, pushed>>

Pop(c) ==
  /\ c \notin gone /\ queue # <<>>
  /\ queue' = Tail(queue)
  /\ UNCHANGED <<finished, late, pushed, gone>>

End(c) ==
  /\ c \notin gone /\ finished /\ queue = <<>>
  /\ gone' = gone \cup {c}
  /\ UNCHANGED <<queue, finished, late, pushed>>

Finish ==
  /\ ~finished /\ finished' = TRUE
  /\ late' \in SUBSET {p \in Producers \ gone : pushed[p] < Items}
  /\ UNCHANGED <<queue, pushed, gone>>

Produce == \E p \in Producers : Push(p) \/ Refuse(p)
Consume == \E c \in Consumers : Pop(c) \/ End(c)

Next == Produce \/ Consume \/ Finish

Spec == Init /\ [][Next]_atomicVars

\* Whoever can go on does: no call waits while the queue would let one through.
FairSpec == Spec /\ WF_atomicVars(Produce) /\ WF_atomicVars(Consume)
=============================================================================
