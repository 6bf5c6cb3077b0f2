------------------------ MODULE ProducerConsumerQueue ------------------------
(***************************************************************************)
(* The blocking queue the map updater and the database pools are built on: *)
(* a queue, a condition variable and a shutdown flag behind one mutex.     *)
(* Each action is a critical section of that mutex; the modules that use   *)
(* the queue instantiate this one and say what its threads do in between.  *)
(***************************************************************************)
EXTENDS Naturals, Sequences

CONSTANTS
  Consumers,     \* threads that call WaitAndPop
  Values         \* what the queue holds pointers to

VARIABLES
  queue,         \* _queue
  waiting,       \* the threads blocked in _condition.wait
  shutdown       \* _shutdown

qvars == <<queue, waiting, shutdown>>

QueueTypeOK ==
  /\ queue \in Seq(Values)
  /\ waiting \subseteq Consumers
  /\ shutdown \in BOOLEAN

QueueInit ==
  /\ queue = <<>>
  /\ waiting = {}
  /\ shutdown = FALSE

NotifyNobody == UNCHANGED waiting                                   \* mutant
notify_one ==
  \/ waiting = {} /\ UNCHANGED waiting
  \/ \E c \in waiting : waiting' = waiting \ {c}

Push(v) ==
  /\ queue' = Append(queue, v)
  /\ notify_one
  /\ UNCHANGED shutdown

(* WaitAndPop by a thread that holds the mutex: it blocks, gets a value,   *)
(* or finds the queue shut down and gets none.                             *)
Running(c) == c \notin waiting

Wait(c) ==
  /\ Running(c)
  /\ queue = <<>>
  /\ ~shutdown
  /\ waiting' = waiting \cup {c}
  /\ UNCHANGED <<queue, shutdown>>

PopEvenIfShutDown(c) ==                                             \* mutant
  /\ Running(c)
  /\ queue # <<>>
  /\ queue' = Tail(queue)
  /\ UNCHANGED <<waiting, shutdown>>

Pop(c) ==
  /\ Running(c)
  /\ queue # <<>>
  /\ ~shutdown
  /\ queue' = Tail(queue)
  /\ UNCHANGED <<waiting, shutdown>>

PopNothing(c) ==
  /\ Running(c)
  /\ shutdown
  /\ UNCHANGED qvars

(* A condition variable may wake up by itself.                             *)
SpuriousWakeup(c) ==
  /\ c \in waiting
  /\ waiting' = waiting \ {c}
  /\ UNCHANGED <<queue, shutdown>>

CancelSilently ==                                                   \* mutant
  /\ queue' = <<>>
  /\ shutdown' = TRUE
  /\ UNCHANGED waiting

(* The values still queued are deleted, and everyone is notified.          *)
Cancel ==
  /\ queue' = <<>>
  /\ shutdown' = TRUE
  /\ waiting' = {}

=============================================================================
