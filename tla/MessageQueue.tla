---------------------------- MODULE MessageQueue ----------------------------
(***************************************************************************)
(* What the users of an MPSCQueue rely on: what the consumer gets is what  *)
(* was put in first, each thing once.  An attempt to get something may     *)
(* fail at any time, also when the queue is not empty.                     *)
(***************************************************************************)
EXTENDS Sequences

CONSTANTS
  Nodes,
  NoNode

VARIABLES
  queue,
  result         \* what the last attempt got

Init ==
  /\ queue = <<>>
  /\ result = NoNode

Put(n) ==
  /\ queue' = Append(queue, n)
  /\ UNCHANGED result

Get ==
  /\ queue # <<>>
  /\ result' = Head(queue)
  /\ queue' = Tail(queue)

GetNothing ==
  /\ result' = NoNode
  /\ UNCHANGED queue

Next ==
  \/ \E n \in Nodes : Put(n)
  \/ Get
  \/ GetNothing

Spec == Init /\ [][Next]_<<queue, result>>

=============================================================================
