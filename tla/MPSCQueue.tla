------------------------------ MODULE MPSCQueue ------------------------------
(***************************************************************************)
(* MPSCQueueIntrusive: a list linked through the nodes themselves, which   *)
(* any thread may enqueue to and one thread dequeues from, without a lock. *)
(* A producer first makes its node the head and only then links the node   *)
(* before to it, so the list is broken in between; and a dummy node, put   *)
(* back behind the last one, keeps the list from becoming empty.           *)
(* One action is one access to memory that another thread may see.         *)
(***************************************************************************)
EXTENDS Naturals, Sequences, Functions

CONSTANTS
  Threads,
  Consumer,
  Nodes,         \* each is allocated, enqueued once and deleted by the consumer
  Dummy,         \* _dummyPtr
  NoNode         \* nullptr

ASSUME QueueAssumption ==
  /\ Consumer \in Threads
  /\ Dummy \notin Nodes
  /\ NoNode \notin Nodes \cup {Dummy}

VARIABLES
  link,          \* IntrusiveLink of every node
  head,          \* _head, where producers enqueue
  tail,          \* _tail, where the consumer dequeues
  enq,           \* input and prevHead of a call of Enqueue under way
  deq,           \* where the consumer is in Dequeue
  result,        \* what Dequeue returned last
  order,         \* the nodes enqueued so far, in the order of the exchanges
  taken,         \* how many of them were dequeued
  dummyAt        \* how many of them were in front of the dummy when it was enqueued

mvars == <<link, head, tail, enq, deq, result, order, taken, dummyAt>>

AllNodes == Nodes \cup {Dummy}
NoCall == [node |-> NoNode, prev |-> NoNode]
Calling(t) == enq[t].node # NoNode
Returned == deq \in {"got", "none"}

QueueTypeOK ==
  /\ link \in [AllNodes -> AllNodes \cup {NoNode}]
  /\ head \in AllNodes
  /\ tail \in AllNodes
  /\ enq \in [Threads -> [node : AllNodes \cup {NoNode}, prev : AllNodes \cup {NoNode}]]
  /\ deq \in {"next", "head", "exchange", "link", "again", "got", "none"}
  /\ result \in Nodes \cup {NoNode}
  /\ order \in Seq(Nodes)
  /\ taken \in 0 .. Len(order)
  /\ dummyAt \in 0 .. Len(order)

QueueInit ==
  /\ link = [n \in AllNodes |-> NoNode]
  /\ head = Dummy
  /\ tail = Dummy
  /\ enq = [t \in Threads |-> NoCall]
  /\ deq = "none"
  /\ result = NoNode
  /\ order = <<>>
  /\ taken = 0
  /\ dummyAt = 0

-----------------------------------------------------------------------------
(* Enqueue, up to the exchange of the head.                                *)
Exchange(t, n) ==
  /\ ~Calling(t)
  /\ link' = [link EXCEPT ![n] = NoNode]
  /\ enq' = [enq EXCEPT ![t] = [node |-> n, prev |-> head]]
  /\ head' = n

Enqueue(t, n) ==
  /\ n \notin Range(order)
  /\ Exchange(t, n)
  /\ order' = Append(order, n)
  /\ UNCHANGED <<tail, deq, result, taken, dummyAt>>

LinkCurrentHead(t) ==                                               \* mutant
  /\ Calling(t)
  /\ link' = [link EXCEPT ![enq[t].prev] = head]
  /\ enq' = [enq EXCEPT ![t] = NoCall]
  /\ deq' = IF enq[t].node = Dummy THEN "again" ELSE deq
  /\ UNCHANGED <<head, tail, result, order, taken, dummyAt>>

(* The rest of Enqueue; the consumer that has enqueued the dummy goes on   *)
(* with its Dequeue.                                                       *)
Link(t) ==
  /\ Calling(t)
  /\ link' = [link EXCEPT ![enq[t].prev] = enq[t].node]
  /\ enq' = [enq EXCEPT ![t] = NoCall]
  /\ deq' = IF enq[t].node = Dummy THEN "again" ELSE deq
  /\ UNCHANGED <<head, tail, result, order, taken, dummyAt>>

-----------------------------------------------------------------------------
(* Dequeue                                                                 *)
Dequeue ==
  /\ Returned
  /\ ~Calling(Consumer)
  /\ deq' = "next"
  /\ UNCHANGED <<link, head, tail, enq, result, order, taken, dummyAt>>

Return ==
  /\ tail' = link[tail]
  /\ result' = tail
  /\ deq' = "got"
  /\ taken' = taken + 1
  /\ UNCHANGED <<link, head, enq, order, dummyAt>>

ReturnNothing ==
  /\ deq' = "none"
  /\ result' = NoNode
  /\ UNCHANGED <<link, head, tail, enq, order, taken, dummyAt>>

SkipDummy ==
  /\ deq = "next"
  /\ tail = Dummy
  /\ IF link[tail] = NoNode
       THEN ReturnNothing
       ELSE /\ tail' = link[tail]
            /\ UNCHANGED <<link, head, enq, deq, result, order, taken, dummyAt>>

LoadNext ==
  /\ deq = "next"
  /\ tail # Dummy
  /\ IF link[tail] # NoNode
       THEN Return
       ELSE /\ deq' = "head"
            /\ UNCHANGED <<link, head, tail, enq, result, order, taken, dummyAt>>

LoadNoHead == deq = "head" /\ ReturnNothing                          \* mutant

LoadHead ==
  /\ deq = "head"
  /\ IF tail # head
       THEN ReturnNothing
       ELSE /\ deq' = "exchange"
            /\ UNCHANGED <<link, head, tail, enq, result, order, taken, dummyAt>>

ExchangeDummy ==
  /\ deq = "exchange"
  /\ Exchange(Consumer, Dummy)
  /\ deq' = "link"
  /\ dummyAt' = Len(order)
  /\ UNCHANGED <<tail, result, order, taken>>

LoadAgainBlindly == deq = "again" /\ Return                         \* mutant

(* A producer that came in between the load of the head and the exchange   *)
(* may not have linked its node to the tail yet.                           *)
LoadAgain ==
  /\ deq = "again"
  /\ IF link[tail] # NoNode THEN Return ELSE ReturnNothing

DequeueStep == SkipDummy \/ LoadNext \/ LoadHead \/ ExchangeDummy \/ LoadAgain

QueueNext ==
  \/ \E t \in Threads, n \in Nodes :
       (t = Consumer => Returned) /\ Enqueue(t, n)
  \/ \E t \in Threads : Link(t)
  \/ Dequeue
  \/ DequeueStep

QueueSpec == QueueInit /\ [][QueueNext]_mvars

-----------------------------------------------------------------------------
Pending == SubSeq(order, taken + 1, Len(order))

MQ == INSTANCE MessageQueue WITH queue <- Pending

(* For every interleaving of the producers with the consumer, Dequeue      *)
(* returns what was enqueued first and is not dequeued yet, in the order   *)
(* of the exchanges, each node once, or nothing (MPSCQueue.h:117-160).     *)
ImplementsQueue == MQ!Spec

=============================================================================
