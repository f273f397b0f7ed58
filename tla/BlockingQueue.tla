--------------------------- MODULE BlockingQueue ---------------------------
(***************************************************************************)
(* BlockingQueue<T>: a bounded queue with one mutex and two condition      *)
(* variables.  What a thread does while it holds the mutex is one step;    *)
(* waiting releases the mutex and puts the thread to sleep, a notification *)
(* makes it runnable again, and only when it has the mutex back does it    *)
(* look at the predicate, and maybe goes back to sleep.  Threads may also  *)
(* wake up for no reason.                                                  *)
(*                                                                         *)
(* The clients are those of a session: producers that push what they have  *)
(* until they are refused, consumers that pop until they are told the end, *)
(* and a call of Finish at any time.                                       *)
(*                                                                         *)
(* A definition Name_Variant is Name with a plausible mistake in it (see   *)
(* SessionPipeline).                                                       *)
(***************************************************************************)
EXTENDS Naturals, Sequences, FiniteSets

CONSTANTS
  Producers, Consumers,
  MaxSize,        \* m_maxSize
  Items,          \* how many items each producer pushes
  Polling         \* the clients may use TryBlockingPush and TryBlockingPop

ASSUME QueueAssumption ==
  /\ IsFiniteSet(Producers) /\ IsFiniteSet(Consumers)
  /\ Producers \cap Consumers = {}
  /\ MaxSize \in Nat \ {0} /\ Items \in Nat
  /\ Polling \in BOOLEAN

VARIABLES
  m_queue, m_finished,
  notFull, notEmpty,   \* the threads asleep on each condition variable
  awake,               \* the threads that left one and want the mutex back
  pushed, gone

clients == <<pushed, gone>>
queueVars == <<m_queue, m_finished, notFull, notEmpty, awake, clients>>

Threads == Producers \cup Consumers

Init ==
  /\ m_queue = <<>> /\ m_finished = FALSE
  /\ notFull = {} /\ notEmpty = {} /\ awake = {}
  /\ pushed = [p \in Producers |-> 0] /\ gone = {}

\* A thread that makes a new call, or one that comes back from a wait.
Running(t) == t \notin notFull \cup notEmpty \cup awake \cup gone
Resuming(t) == t \in awake

\* What notify_one may do to the sleepers: wake any one of them.
NotifyOne_Forgotten(sleepers) == {{}}
NotifyOne(sleepers) ==
  IF sleepers = {} THEN {{}} ELSE {{t} : t \in sleepers}

-----------------------------------------------------------------------------
HasMore(p) == pushed[p] < Items
Full == Len(m_queue) >= MaxSize
CanPop == m_queue # <<>> \/ m_finished

\* BlockingPush looks at m_finished before it waits, and only then.
PushRefused(p) ==
  /\ Running(p) /\ HasMore(p) /\ m_finished
  /\ gone' = gone \cup {p}
  /\ UNCHANGED <<m_queue, m_finished, notFull, notEmpty, awake, pushed>>

PushWait_NotEmpty(p) ==
  /\ \/ Running(p) /\ HasMore(p) /\ ~m_finished
     \/ Resuming(p)
  /\ Full
  /\ notEmpty' = notEmpty \cup {p}
  /\ awake' = awake \ {p}
  /\ UNCHANGED <<m_queue, m_finished, notFull, clients>>

PushWait(p) ==
  /\ \/ Running(p) /\ HasMore(p) /\ ~m_finished
     \/ Resuming(p)
  /\ Full
  /\ notFull' = notFull \cup {p}
  /\ awake' = awake \ {p}
  /\ UNCHANGED <<m_queue, m_finished, notEmpty, clients>>

Push(p) ==
  /\ \/ Running(p) /\ HasMore(p) /\ ~m_finished
     \/ Resuming(p)
  /\ ~Full
  /\ m_queue' = Append(m_queue, <<p, pushed[p] + 1>>)
  /\ pushed' = [pushed EXCEPT ![p] = @ + 1]
  /\ \E woken \in NotifyOne(notEmpty) :
       /\ notEmpty' = notEmpty \ woken
       /\ awake' = (awake \ {p}) \cup woken
  /\ UNCHANGED <<m_finished, notFull, gone>>

\* TryBlockingPush: the same without waiting; without room it returns false
\* and nothing changes.
TryPush(p) ==
  /\ Polling /\ Running(p) /\ HasMore(p) /\ ~m_finished
  /\ Push(p)

-----------------------------------------------------------------------------
PopWait(c) ==
  /\ Running(c) \/ Resuming(c)
  /\ ~CanPop
  /\ notEmpty' = notEmpty \cup {c}
  /\ awake' = awake \ {c}
  /\ UNCHANGED <<m_queue, m_finished, notFull, clients>>

PopEnd(c) ==
  /\ Running(c) \/ Resuming(c)
  /\ m_queue = <<>> /\ m_finished
  /\ gone' = gone \cup {c}
  /\ awake' = awake \ {c}
  /\ UNCHANGED <<m_queue, m_finished, notFull, notEmpty, pushed>>

Pop(c) ==
  /\ Running(c) \/ Resuming(c)
  /\ m_queue # <<>>
  /\ m_queue' = Tail(m_queue)
  /\ \E woken \in NotifyOne(notFull) :
       /\ notFull' = notFull \ woken
       /\ awake' = (awake \ {c}) \cup woken
  /\ UNCHANGED <<m_finished, notEmpty, clients>>

\* TryBlockingPop: returns false on an empty queue, finished or not.
TryPop(c) ==
  /\ Polling /\ Running(c)
  /\ Pop(c)

-----------------------------------------------------------------------------
Finish_Silent ==
  /\ ~m_finished /\ m_finished' = TRUE
  /\ UNCHANGED <<m_queue, notFull, notEmpty, awake, clients>>

Finish ==
  /\ ~m_finished /\ m_finished' = TRUE
  /\ awake' = awake \cup notFull \cup notEmpty
  /\ notFull' = {} /\ notEmpty' = {}
  /\ UNCHANGED <<m_queue, clients>>

SpuriousWakeup(t) ==
  /\ t \in notFull \cup notEmpty
  /\ notFull' = notFull \ {t} /\ notEmpty' = notEmpty \ {t}
  /\ awake' = awake \cup {t}
  /\ UNCHANGED <<m_queue, m_finished, clients>>

Produce(p) == PushRefused(p) \/ PushWait(p) \/ Push(p)
Consume(c) == PopWait(c) \/ PopEnd(c) \/ Pop(c)

Next ==
  \/ \E p \in Producers : Produce(p) \/ TryPush(p)
  \/ \E c \in Consumers : Consume(c) \/ TryPop(c)
  \/ Finish
  \/ \E t \in Threads : SpuriousWakeup(t)

Spec == Init /\ [][Next]_queueVars

\* Threads that are inside a call and not asleep get the mutex.
FairSpec ==
  /\ Spec
  /\ \A p \in Producers : WF_queueVars(Produce(p))
  /\ \A c \in Consumers : WF_queueVars(Consume(c))

-----------------------------------------------------------------------------
(* Properties.                                                             *)

TypeOK ==
  /\ m_queue \in Seq(Producers \X (1 .. Items)) /\ m_finished \in BOOLEAN
  /\ notFull \subseteq Producers /\ notEmpty \subseteq Consumers
  /\ awake \subseteq Threads
  /\ pushed \in [Producers -> 0 .. Items] /\ gone \subseteq Threads

\* No wakeup is lost: while consumers sleep, there is an awake consumer for
\* every item, and while producers sleep, an awake producer for every free
\* place; and nobody sleeps on a queue that is finished.
NoLostWakeup ==
  /\ notEmpty # {} => /\ Len(m_queue) <= Cardinality(awake \cap Consumers)
                      /\ ~m_finished
  /\ notFull # {} => MaxSize - Len(m_queue) <= Cardinality(awake \cap Producers)

\* The queue is the atomic queue the session's model assumes, also in that no
\* call waits without need; the producers that wait when Finish is called may
\* push afterwards.
Atomic == INSTANCE AtomicQueue WITH
  queue <- m_queue,
  finished <- m_finished,
  late <- IF m_finished THEN notFull \cup (awake \cap Producers) ELSE {}

AtomicFairSpec == Atomic!FairSpec

=============================================================================
