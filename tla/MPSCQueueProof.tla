--------------------------- MODULE MPSCQueueProof ---------------------------
(***************************************************************************)
(* Proofs about MPSCQueue, for any threads and any nodes: the list is      *)
(* never broken but where a call of Enqueue is under way, so no node is    *)
(* cut off, and the queue implements MessageQueue.                         *)
(***************************************************************************)
EXTENDS MPSCQueue, SequenceTheorems, TLAPS

(* The list: what was enqueued and is not dequeued, and the dummy when it  *)
(* is where the consumer stands or somewhere behind.                       *)
InList == tail = Dummy \/ dummyAt > taken
Positions == taken + 1 .. Len(order)
Listed(n) == (n = Dummy /\ InList) \/ \E i \in Positions : n = order[i]

(* b is the node that belongs behind a.                                    *)
Follows(a, b) ==
  \/ a = Dummy /\ InList /\ dummyAt < Len(order) /\ b = order[dummyAt + 1]
  \/ \E i \in Positions :
       /\ a = order[i]
       /\ IF InList /\ dummyAt = i THEN b = Dummy ELSE i < Len(order) /\ b = order[i + 1]

Distinct == \A i, j \in 1 .. Len(order) : order[i] = order[j] => i = j

TailFirst ==
  IF tail = Dummy THEN dummyAt = taken
                  ELSE taken < Len(order) /\ tail = order[taken + 1]

HeadLast ==
  IF InList /\ dummyAt = Len(order)
    THEN head = Dummy
    ELSE Len(order) > taken /\ head = order[Len(order)]

(* A link that is set leads to the node behind; one that is not yet set is *)
(* that of a call, and no two calls are about the same node.               *)
Links == \A n \in AllNodes : Listed(n) /\ link[n] # NoNode => Follows(n, link[n])

CallsLink ==
  \A t \in Threads : Calling(t) =>
    /\ enq[t].prev \in AllNodes
    /\ Listed(enq[t].prev)
    /\ Follows(enq[t].prev, enq[t].node)
    /\ link[enq[t].prev] = NoNode

CallsDiffer ==
  \A t, u \in Threads : Calling(t) /\ Calling(u) /\ enq[t].node = enq[u].node => t = u

(* Only the consumer enqueues the dummy, when it is not in the list.       *)
DummyOnce ==
  /\ \A t \in Threads : enq[t].node = Dummy => t = Consumer /\ deq = "link"
  /\ deq \in {"head", "exchange", "link", "again"} => tail # Dummy
  /\ deq = "exchange" => dummyAt <= taken

IInv ==
  /\ QueueTypeOK
  /\ Distinct
  /\ TailFirst
  /\ HeadLast
  /\ Links
  /\ CallsLink
  /\ CallsDiffer
  /\ DummyOnce

-----------------------------------------------------------------------------
LEMMA Order ==
  ASSUME QueueTypeOK
  PROVE  /\ Len(order) \in Nat /\ taken \in Nat /\ dummyAt \in Nat
         /\ taken <= Len(order) /\ dummyAt <= Len(order)
         /\ \A i \in 1 .. Len(order) : order[i] \in Nodes /\ order[i] # Dummy /\ order[i] # NoNode
         /\ \A i \in Positions : i \in 1 .. Len(order) /\ i > taken
BY QueueAssumption DEF QueueTypeOK, QueueAssumption, Positions

(* The node behind another is in the list, and there is only one.          *)
LEMMA FollowsOne ==
  ASSUME QueueTypeOK, Distinct, NEW a, NEW b, NEW c, Follows(a, b), Follows(a, c)
  PROVE  b = c
BY Order DEF Follows, Distinct

LEMMA FollowsListed ==
  ASSUME QueueTypeOK, TailFirst, NEW a, NEW b, Follows(a, b)
  PROVE  /\ b = Dummy \/ \E i \in 1 .. Len(order) : b = order[i]
         /\ b # NoNode
         /\ Listed(a)
BY Order, QueueAssumption DEF Follows, TailFirst, InList, Positions, QueueAssumption, Listed

(* Nothing is behind the head, so that its link is not set.                *)
LEMMA HeadHasNone ==
  ASSUME IInv
  PROVE  /\ Listed(head)
         /\ \A b : ~Follows(head, b)
         /\ link[head] = NoNode
<1>1. QueueTypeOK /\ Distinct /\ HeadLast /\ TailFirst /\ Links /\ head \in AllNodes
  BY DEF IInv, QueueTypeOK
<1>2. Listed(head)
  BY <1>1, Order DEF HeadLast, Listed, Positions
<1>3. ASSUME NEW b, Follows(head, b) PROVE FALSE
  BY <1>1, <1>3, Order DEF HeadLast, Follows, Positions, Distinct
<1>4. link[head] = NoNode
  BY <1>1, <1>2, <1>3 DEF Links
<1> QED
  BY <1>2, <1>3, <1>4

-----------------------------------------------------------------------------
LEMMA InitInv == QueueInit => IInv
<1> SUFFICES ASSUME QueueInit PROVE IInv
  OBVIOUS
<1>1. QueueTypeOK
  BY QueueAssumption DEF QueueInit, QueueTypeOK, AllNodes, NoCall, QueueAssumption
<1>2. Len(order) = 0 /\ taken = 0 /\ dummyAt = 0 /\ tail = Dummy /\ head = Dummy /\ order = <<>>
  BY DEF QueueInit
<1>3. \A t \in Threads : ~Calling(t) /\ enq[t].node # Dummy
  BY QueueAssumption DEF QueueInit, Calling, NoCall, QueueAssumption
<1>4. Distinct /\ TailFirst /\ HeadLast
  BY <1>2 DEF Distinct, TailFirst, HeadLast, InList
<1>5. \A n \in AllNodes : link[n] = NoNode
  BY DEF QueueInit
<1> QED
  BY <1>1, <1>2, <1>3, <1>4, <1>5 DEF IInv, Links, CallsLink, CallsDiffer, DummyOnce, QueueInit

-----------------------------------------------------------------------------
(* Enqueue: the node becomes the one behind the old head.                  *)
LEMMA EnqueueInv ==
  ASSUME IInv, NEW t \in Threads, NEW n \in Nodes, Enqueue(t, n)
  PROVE  IInv'
<1> USE DEF IInv
<1>0. /\ order' = Append(order, n) /\ head' = n
      /\ tail' = tail /\ taken' = taken /\ dummyAt' = dummyAt /\ deq' = deq /\ result' = result
      /\ link' = [link EXCEPT ![n] = NoNode]
      /\ enq' = [enq EXCEPT ![t] = [node |-> n, prev |-> head]]
      /\ ~Calling(t)
  BY DEF Enqueue, Exchange
<1>1. /\ Len(order') = Len(order) + 1
      /\ order'[Len(order) + 1] = n
      /\ \A i \in 1 .. Len(order) : order'[i] = order[i]
      /\ order' \in Seq(Nodes)
  BY <1>0 DEF QueueTypeOK
<1>2. \A i \in 1 .. Len(order) : order[i] # n
  BY DEF Enqueue, Range, QueueTypeOK
<1>3. QueueTypeOK'
  BY <1>0, <1>1, QueueAssumption DEF QueueTypeOK, AllNodes
<1>4. Distinct'
  BY <1>1, <1>2, Order DEF Distinct
<1>5. TailFirst'
  BY <1>0, <1>1, Order DEF TailFirst
<1>6. HeadLast'
  BY <1>0, <1>1, Order DEF HeadLast
<1>7. InList' <=> InList
  BY <1>0 DEF InList
<1>8. \A i : i \in Positions' <=> i \in Positions \/ i = Len(order) + 1
  BY <1>0, <1>1, Order DEF Positions
<1>9. \A a, b : Follows(a, b) => Follows(a, b)'
  <2> SUFFICES ASSUME NEW a, NEW b, Follows(a, b) PROVE Follows(a, b)'
    OBVIOUS
  <2>1. CASE a = Dummy /\ InList /\ dummyAt < Len(order) /\ b = order[dummyAt + 1]
    <3>1. dummyAt + 1 \in 1 .. Len(order) /\ dummyAt < Len(order')
      BY <2>1, <1>1, Order
    <3> QED
      BY <2>1, <3>1, <1>0, <1>1, <1>7 DEF Follows
  <2>2. CASE \E i \in Positions :
               /\ a = order[i]
               /\ IF InList /\ dummyAt = i THEN b = Dummy ELSE i < Len(order) /\ b = order[i + 1]
    <3>1. PICK i \in Positions :
            /\ a = order[i]
            /\ IF InList /\ dummyAt = i THEN b = Dummy ELSE i < Len(order) /\ b = order[i + 1]
      BY <2>2
    <3>2. i \in Positions' /\ i \in 1 .. Len(order)
      BY <1>8, Order
    <3>3. a = order'[i]
      BY <3>1, <3>2, <1>1
    <3>4. IF InList' /\ dummyAt' = i THEN b = Dummy ELSE i < Len(order') /\ b = order'[i + 1]
      <4>1. CASE InList /\ dummyAt = i
        BY <4>1, <3>1, <1>0, <1>7
      <4>2. CASE ~(InList /\ dummyAt = i)
        <5>1. i + 1 \in 1 .. Len(order) /\ i < Len(order')
          BY <4>2, <3>1, <3>2, <1>1, Order
        <5> QED
          BY <4>2, <5>1, <3>1, <1>0, <1>1, <1>7
      <4> QED
        BY <4>1, <4>2
    <3> QED
      BY <3>2, <3>3, <3>4 DEF Follows
  <2> QED
    BY <2>1, <2>2 DEF Follows
<1>10. \A a : a = head => Follows(a, n)'
  <2> SUFFICES ASSUME NEW a, a = head PROVE Follows(a, n)'
    OBVIOUS
  <2>1. CASE InList /\ dummyAt = Len(order)
    BY <2>1, <1>0, <1>1, <1>7, Order DEF HeadLast, Follows
  <2>2. CASE ~(InList /\ dummyAt = Len(order))
    <3>1. Len(order) \in Positions' /\ head = order'[Len(order)]
      BY <2>2, <1>0, <1>1, <1>8, Order DEF HeadLast, Positions
    <3>2. Len(order) < Len(order') /\ n = order'[Len(order) + 1] /\ ~(InList' /\ dummyAt' = Len(order))
      BY <2>2, <1>0, <1>1, <1>7, Order
    <3> QED
      BY <3>1, <3>2 DEF Follows
  <2> QED
    BY <2>1, <2>2
<1>11. \A a : Listed(a)' <=> Listed(a) \/ a = n
  BY <1>0, <1>1, <1>7, <1>8, Order DEF Listed
<1>12. ~Listed(n)
  BY <1>2, Order, QueueAssumption DEF Listed, QueueAssumption
<1>13. Links'
  <2>1. ASSUME NEW m \in AllNodes, m # n PROVE link'[m] = link[m]
    BY <1>0, <2>1 DEF QueueTypeOK
  <2>2. link'[n] = NoNode
    BY <1>0 DEF QueueTypeOK, AllNodes
  <2> QED
    BY <2>1, <2>2, <1>9, <1>11 DEF Links, AllNodes
<1>14. CallsLink'
  <2>1. enq'[t].prev = head /\ enq'[t].node = n
    BY <1>0 DEF QueueTypeOK
  <2>2. head \in AllNodes /\ link'[head] = NoNode /\ Listed(head)
    BY <1>0, HeadHasNone DEF QueueTypeOK
  <2>3. ASSUME NEW u \in Threads, u # t PROVE enq'[u] = enq[u]
    BY <1>0, <2>3 DEF QueueTypeOK
  <2>4. \A m \in AllNodes : link[m] = NoNode => link'[m] = NoNode
    BY <1>0 DEF QueueTypeOK
  <2> QED
    BY <2>1, <2>2, <2>3, <2>4, <1>9, <1>10, <1>11 DEF CallsLink, Calling, AllNodes
<1>15. ASSUME NEW u \in Threads, Calling(u) PROVE enq[u].node # n
  BY <1>15, <1>2, FollowsListed, QueueAssumption DEF CallsLink, QueueAssumption
<1>16. /\ enq'[t].node = n
       /\ \A u \in Threads : u # t => enq'[u] = enq[u]
  BY <1>0 DEF QueueTypeOK
<1>17. CallsDiffer'
  BY <1>15, <1>16 DEF CallsDiffer, Calling
<1>18. DummyOnce'
  BY <1>0, <1>16, QueueAssumption DEF DummyOnce, QueueAssumption
<1> QED
  BY <1>3, <1>4, <1>5, <1>6, <1>13, <1>14, <1>17, <1>18

(* The rest of a call sets the link of the node it found as the head.      *)
LEMMA LinkInv ==
  ASSUME IInv, NEW t \in Threads, Link(t)
  PROVE  IInv'
<1> USE DEF IInv
<1> DEFINE p == enq[t].prev
<1>0. /\ Calling(t)
      /\ link' = [link EXCEPT ![p] = enq[t].node]
      /\ enq' = [enq EXCEPT ![t] = NoCall]
      /\ deq' = IF enq[t].node = Dummy THEN "again" ELSE deq
      /\ head' = head /\ tail' = tail /\ result' = result /\ order' = order
      /\ taken' = taken /\ dummyAt' = dummyAt
  BY DEF Link
<1>1. p \in AllNodes /\ Listed(p) /\ Follows(p, enq[t].node) /\ link[p] = NoNode
  BY <1>0 DEF CallsLink
<1>2. \A a, b : Follows(a, b)' <=> Follows(a, b)
  BY <1>0 DEF Follows, InList, Positions
<1>3. \A a : Listed(a)' <=> Listed(a)
  BY <1>0 DEF Listed, InList, Positions
<1>4. QueueTypeOK'
  <2>1. enq[t].node \in AllNodes \cup {NoNode}
    BY DEF QueueTypeOK
  <2> QED
    BY <1>0, <1>1, <2>1 DEF QueueTypeOK, NoCall
<1>5. Distinct' /\ TailFirst' /\ HeadLast'
  BY <1>0 DEF Distinct, TailFirst, HeadLast, InList
<1>6. /\ link'[p] = enq[t].node
      /\ \A m \in AllNodes : m # p => link'[m] = link[m]
  BY <1>0, <1>1 DEF QueueTypeOK
<1>7. Links'
  BY <1>1, <1>2, <1>3, <1>6 DEF Links, AllNodes
<1>8. /\ enq'[t] = NoCall
      /\ \A u \in Threads : u # t => enq'[u] = enq[u]
  BY <1>0 DEF QueueTypeOK
<1>9. ASSUME NEW u \in Threads, Calling(u)' PROVE u # t /\ Calling(u) /\ enq'[u] = enq[u]
  BY <1>8, <1>9 DEF Calling, NoCall
<1>10. ASSUME NEW u \in Threads, u # t, Calling(u) PROVE enq[u].prev # p
  <2>1. Follows(enq[u].prev, enq[u].node) /\ enq[u].node # enq[t].node
    BY <1>0, <1>10 DEF CallsLink, CallsDiffer
  <2> QED
    BY <2>1, <1>1, FollowsOne
<1>11. CallsLink'
  BY <1>2, <1>3, <1>6, <1>9, <1>10 DEF CallsLink, AllNodes
<1>12. CallsDiffer'
  BY <1>9 DEF CallsDiffer
<1>13. DummyOnce'
  BY <1>0, <1>8, QueueAssumption DEF DummyOnce, NoCall, QueueAssumption, Calling, CallsDiffer
<1> QED
  BY <1>4, <1>5, <1>7, <1>11, <1>12, <1>13

-----------------------------------------------------------------------------
(* Steps of Dequeue that leave the list alone.                             *)
LEMMA SameListInv ==
  ASSUME IInv,
         UNCHANGED <<link, head, tail, enq, order, taken, dummyAt>>,
         deq' \in {"next", "head", "exchange", "got", "none"},
         result' \in Nodes \cup {NoNode},
         deq # "link",
         deq' \in {"head", "exchange"} => tail # Dummy,
         deq' = "exchange" => dummyAt <= taken
  PROVE  IInv'
<1>1. QueueTypeOK' /\ Distinct' /\ TailFirst' /\ HeadLast'
  BY DEF IInv, QueueTypeOK, Distinct, TailFirst, HeadLast, InList
<1>2. Links' /\ CallsLink' /\ CallsDiffer'
  BY DEF IInv, Links, CallsLink, CallsDiffer, Listed, Follows, InList, Positions, Calling, AllNodes
<1>3. DummyOnce'
  BY DEF IInv, DummyOnce
<1> QED
  BY <1>1, <1>2, <1>3 DEF IInv

(* The consumer steps over the dummy.                                      *)
LEMMA SkipInv ==
  ASSUME IInv, deq = "next", tail = Dummy, link[tail] # NoNode, tail' = link[tail],
         UNCHANGED <<link, head, enq, deq, result, order, taken, dummyAt>>
  PROVE  IInv'
<1> USE DEF IInv
<1>1. tail \in AllNodes /\ Listed(tail) /\ dummyAt = taken /\ InList
  BY DEF QueueTypeOK, Listed, InList, TailFirst
<1>2. Follows(Dummy, tail')
  BY <1>1 DEF Links
<1>3. taken < Len(order) /\ tail' = order[taken + 1] /\ tail' \in Nodes /\ tail' # Dummy
  BY <1>1, <1>2, Order DEF Follows, Positions
<1>4. ~InList' /\ Positions' = Positions
  BY <1>1, <1>3, Order DEF InList, Positions
<1>5. QueueTypeOK' /\ Distinct' /\ TailFirst'
  BY <1>3 DEF QueueTypeOK, Distinct, TailFirst, AllNodes
<1>6. HeadLast'
  BY <1>1, <1>3, <1>4, Order DEF HeadLast
<1>7. \A a : Listed(a)' => Listed(a) /\ a # Dummy
  BY <1>4, Order DEF Listed
<1>8. \A a, b : a # Dummy => (Follows(a, b)' <=> Follows(a, b))
  BY <1>1, <1>4, Order DEF Follows
<1>9. \A a : Listed(a) /\ a # Dummy => Listed(a)'
  BY <1>4 DEF Listed
<1>10. Links'
  BY <1>7, <1>8 DEF Links, AllNodes
<1>11. ASSUME NEW u \in Threads, Calling(u) PROVE enq[u].prev # Dummy
  BY <1>11 DEF CallsLink
<1>12. CallsLink'
  BY <1>8, <1>9, <1>11 DEF CallsLink, Calling, AllNodes
<1>13. CallsDiffer' /\ DummyOnce'
  BY <1>3 DEF CallsDiffer, Calling, DummyOnce
<1> QED
  BY <1>5, <1>6, <1>10, <1>12, <1>13

(* Dequeue returns the first node and goes on to the next, which may be    *)
(* the dummy.                                                              *)
LEMMA ReturnFirst ==
  ASSUME IInv, tail # Dummy, link[tail] # NoNode
  PROVE  /\ taken < Len(order)
         /\ tail = order[taken + 1]
         /\ tail \in Nodes
         /\ Follows(tail, link[tail])
         /\ IF dummyAt = taken + 1
              THEN link[tail] = Dummy
              ELSE taken + 1 < Len(order) /\ link[tail] = order[taken + 2]
<1>1. taken < Len(order) /\ tail = order[taken + 1] /\ QueueTypeOK /\ Distinct
  BY DEF IInv, TailFirst
<1>2. taken + 1 \in Positions /\ tail \in Nodes
  BY <1>1, Order DEF Positions
<1>3. Follows(tail, link[tail])
  BY <1>1, <1>2 DEF IInv, Links, Listed, AllNodes
<1>4. PICK i \in Positions :
        /\ tail = order[i]
        /\ IF InList /\ dummyAt = i THEN link[tail] = Dummy
                                   ELSE i < Len(order) /\ link[tail] = order[i + 1]
  BY <1>3 DEF Follows
<1>5. i = taken + 1
  BY <1>1, <1>2, <1>4, Order DEF Distinct
<1>6. dummyAt = taken + 1 => InList
  BY <1>1, Order DEF InList
<1> QED
  BY <1>1, <1>2, <1>3, <1>4, <1>5, <1>6, Order

LEMMA ReturnInv ==
  ASSUME IInv, deq \in {"next", "again"}, tail # Dummy, link[tail] # NoNode, Return
  PROVE  IInv'
<1> USE DEF IInv
<1>1. /\ taken < Len(order)
      /\ tail = order[taken + 1]
      /\ tail \in Nodes
      /\ IF dummyAt = taken + 1
           THEN link[tail] = Dummy
           ELSE taken + 1 < Len(order) /\ link[tail] = order[taken + 2]
  BY ReturnFirst
<1>2. /\ tail' = link[tail] /\ taken' = taken + 1 /\ result' = tail /\ deq' = "got"
      /\ UNCHANGED <<link, head, enq, order, dummyAt>>
  BY DEF Return
<1>3. IF dummyAt = taken + 1 THEN tail' = Dummy
                             ELSE /\ taken + 1 < Len(order)
                                  /\ tail' = order[taken + 2]
                                  /\ tail' # Dummy /\ tail' \in Nodes
  BY <1>1, <1>2, Order
<1>4. QueueTypeOK'
  BY <1>1, <1>2, <1>3, Order DEF QueueTypeOK, AllNodes
<1>5. Distinct' /\ TailFirst'
  BY <1>2, <1>3, Order DEF Distinct, TailFirst
<1>6. InList' <=> InList
  BY <1>2, <1>3, Order DEF InList
<1>7. HeadLast'
  BY <1>2, <1>3, <1>6, Order DEF HeadLast, InList
<1>8. \A i : i \in Positions' <=> i \in Positions /\ i # taken + 1
  BY <1>2, Order DEF Positions
<1>9. \A a : Listed(a)' <=> Listed(a) /\ a # tail
  <2>1. \A i \in Positions : order[i] = tail <=> i = taken + 1
    BY <1>1, Order DEF Distinct
  <2> QED
    BY <1>2, <1>6, <1>8, <2>1 DEF Listed
<1>10. \A a, b : a # tail => (Follows(a, b)' <=> Follows(a, b))
  BY <1>1, <1>2, <1>6, <1>8 DEF Follows
<1>11. Links'
  BY <1>2, <1>9, <1>10 DEF Links, AllNodes
<1>12. ASSUME NEW u \in Threads, Calling(u) PROVE enq[u].prev # tail
  BY <1>12 DEF CallsLink
<1>13. CallsLink'
  BY <1>2, <1>9, <1>10, <1>12 DEF CallsLink, Calling, AllNodes
<1>14. CallsDiffer' /\ DummyOnce'
  BY <1>2 DEF CallsDiffer, Calling, DummyOnce
<1> QED
  BY <1>4, <1>5, <1>7, <1>11, <1>13, <1>14

(* The dummy is enqueued again, behind whatever is the head by now.        *)
LEMMA ExchangeDummyInv ==
  ASSUME IInv, ExchangeDummy
  PROVE  IInv'
<1> USE DEF IInv
<1>0. /\ deq = "exchange" /\ deq' = "link" /\ head' = Dummy /\ dummyAt' = Len(order)
      /\ link' = [link EXCEPT ![Dummy] = NoNode]
      /\ enq' = [enq EXCEPT ![Consumer] = [node |-> Dummy, prev |-> head]]
      /\ UNCHANGED <<tail, result, order, taken>>
  BY DEF ExchangeDummy, Exchange
<1>1. tail # Dummy /\ ~InList /\ taken < Len(order) /\ tail = order[taken + 1]
  BY <1>0, Order DEF DummyOnce, InList, TailFirst
<1>2. InList' /\ Positions' = Positions
  BY <1>0, <1>1, Order DEF InList, Positions
<1>3. QueueTypeOK'
  BY <1>0, QueueAssumption, Order DEF QueueTypeOK, AllNodes, QueueAssumption
<1>4. Distinct' /\ TailFirst' /\ HeadLast'
  BY <1>0, <1>1, <1>2, Order DEF Distinct, TailFirst, HeadLast
<1>5. head = order[Len(order)] /\ head # Dummy /\ Len(order) \in Positions
  BY <1>1, Order DEF HeadLast, Positions
<1>6. \A a : Listed(a)' <=> Listed(a) \/ a = Dummy
  BY <1>0, <1>1, <1>2 DEF Listed
<1>7. \A a, b : Follows(a, b) => Follows(a, b)'
  BY <1>0, <1>1, <1>2, Order DEF Follows
<1>8. \A a : a = head => Follows(a, Dummy)'
  <2> SUFFICES ASSUME NEW a, a = head PROVE Follows(a, Dummy)'
    OBVIOUS
  <2> QED
    BY <1>0, <1>2, <1>5 DEF Follows
<1>9. ~Listed(Dummy)
  BY <1>1, Order DEF Listed
<1>10. /\ link'[Dummy] = NoNode
       /\ \A m \in AllNodes : m # Dummy => link'[m] = link[m]
  BY <1>0 DEF QueueTypeOK, AllNodes
<1>11. Links'
  BY <1>6, <1>7, <1>10 DEF Links, AllNodes
<1>12. enq'[Consumer].prev = head /\ enq'[Consumer].node = Dummy
  BY <1>0, QueueAssumption DEF QueueTypeOK, QueueAssumption
<1>13. ASSUME NEW u \in Threads, u # Consumer PROVE enq'[u] = enq[u]
  BY <1>0, <1>13 DEF QueueTypeOK
<1>14. CallsLink'
  <2>1. head \in AllNodes /\ link'[head] = NoNode /\ Listed(head)
    BY <1>5, <1>10, HeadHasNone DEF QueueTypeOK
  <2> QED
    BY <2>1, <1>6, <1>7, <1>8, <1>10, <1>12, <1>13 DEF CallsLink, Calling, AllNodes
<1>15. ASSUME NEW u \in Threads, Calling(u) PROVE enq[u].node # Dummy
  BY <1>0 DEF DummyOnce
<1>16. CallsDiffer' /\ DummyOnce'
  BY <1>0, <1>1, <1>12, <1>13, <1>15 DEF CallsDiffer, Calling, DummyOnce
<1> QED
  BY <1>3, <1>4, <1>11, <1>14, <1>16

-----------------------------------------------------------------------------
LEMMA LoadHeadInv ==
  ASSUME IInv, LoadHead
  PROVE  IInv'
<1>1. CASE tail # head
  BY <1>1, SameListInv DEF LoadHead, ReturnNothing
<1>2. CASE tail = head
  <2>1. deq = "head" /\ tail # Dummy /\ TailFirst /\ HeadLast /\ Distinct /\ QueueTypeOK
    BY DEF LoadHead, IInv, DummyOnce
  <2>2. dummyAt <= taken
    BY <1>2, <2>1, Order DEF TailFirst, HeadLast, Distinct, InList
  <2>3. /\ deq' = "exchange"
        /\ UNCHANGED <<link, head, tail, enq, result, order, taken, dummyAt>>
        /\ result \in Nodes \cup {NoNode}
    BY <1>2, <2>1 DEF LoadHead, QueueTypeOK
  <2> QED
    BY <2>1, <2>2, <2>3, SameListInv
<1> QED
  BY <1>1, <1>2

LEMMA DequeueStepInv ==
  ASSUME IInv, DequeueStep
  PROVE  IInv'
<1>0. result \in Nodes \cup {NoNode}
  BY DEF IInv, QueueTypeOK
<1>1. CASE SkipDummy
  BY <1>1, SkipInv, SameListInv DEF SkipDummy, ReturnNothing
<1>2. CASE LoadNext
  BY <1>0, <1>2, ReturnInv, SameListInv DEF LoadNext
<1>3. CASE LoadHead
  BY <1>3, LoadHeadInv
<1>4. CASE ExchangeDummy
  BY <1>4, ExchangeDummyInv
<1>5. CASE LoadAgain
  <2>1. tail # Dummy /\ deq = "again"
    BY <1>5 DEF LoadAgain, IInv, DummyOnce
  <2> QED
    BY <1>5, <2>1, ReturnInv, SameListInv DEF LoadAgain, ReturnNothing
<1> QED
  BY <1>1, <1>2, <1>3, <1>4, <1>5 DEF DequeueStep

LEMMA NextInv == IInv /\ [QueueNext]_mvars => IInv'
<1> SUFFICES ASSUME IInv, [QueueNext]_mvars PROVE IInv'
  OBVIOUS
<1>1. ASSUME NEW t \in Threads, NEW n \in Nodes, Enqueue(t, n) PROVE IInv'
  BY <1>1, EnqueueInv
<1>2. ASSUME NEW t \in Threads, Link(t) PROVE IInv'
  BY <1>2, LinkInv
<1>3. CASE Dequeue
  BY <1>3, SameListInv DEF Dequeue, Returned, IInv, QueueTypeOK
<1>4. CASE DequeueStep
  BY <1>4, DequeueStepInv
<1>5. CASE UNCHANGED mvars
  BY <1>5 DEF mvars, IInv, QueueTypeOK, Distinct, TailFirst, HeadLast, Links, CallsLink, CallsDiffer,
              DummyOnce, Listed, Follows, InList, Positions, Calling, AllNodes
<1> QED
  BY <1>1, <1>2, <1>3, <1>4, <1>5 DEF QueueNext

(* For any threads and any number of nodes the list is whole but where a   *)
(* call of Enqueue is about to set its link, the dummy is in it once at    *)
(* most, and no call holds a node that the consumer has deleted.           *)
THEOREM QueueInvariant == QueueSpec => []IInv
<1>1. QueueInit => IInv
  BY InitInv
<1>2. IInv /\ [QueueNext]_mvars => IInv'
  BY NextInv
<1> QED
  BY <1>1, <1>2, PTL DEF QueueSpec

-----------------------------------------------------------------------------
(* What the steps do to the sequence of the nodes not dequeued yet.        *)
LEMMA TailOfSequence ==
  ASSUME NEW s \in Seq(Nodes), NEW k \in 0 .. Len(s)
  PROVE  /\ SubSeq(s, k + 1, Len(s)) \in Seq(Nodes)
         /\ Len(SubSeq(s, k + 1, Len(s))) = Len(s) - k
         /\ \A i \in 1 .. Len(s) - k : SubSeq(s, k + 1, Len(s))[i] = s[k + i]
OBVIOUS

LEMMA PendingAppended ==
  ASSUME QueueTypeOK, NEW n \in Nodes, order' = Append(order, n), taken' = taken
  PROVE  Pending' = Append(Pending, n)
<1>1. /\ order \in Seq(Nodes) /\ order' \in Seq(Nodes) /\ Len(order') = Len(order) + 1
      /\ order'[Len(order) + 1] = n
      /\ \A i \in 1 .. Len(order) : order'[i] = order[i]
      /\ taken \in Nat /\ Len(order) \in Nat /\ taken <= Len(order)
  BY DEF QueueTypeOK
<1>2. /\ Pending' \in Seq(Nodes)
      /\ Len(Pending') = Len(order) + 1 - taken
      /\ \A i \in 1 .. Len(order) + 1 - taken : Pending'[i] = order'[taken + i]
  <2>1. Pending' = SubSeq(order', taken + 1, Len(order'))
    BY <1>1 DEF Pending
  <2>2. order' \in Seq(Nodes) /\ taken \in 0 .. Len(order')
    BY <1>1
  <2> HIDE DEF Pending
  <2> QED
    BY <1>1, <2>1, <2>2, TailOfSequence, SMTT(20)
<1>3. /\ Pending \in Seq(Nodes)
      /\ Len(Pending) = Len(order) - taken
      /\ \A i \in 1 .. Len(order) - taken : Pending[i] = order[taken + i]
  BY <1>1 DEF Pending
<1>4. /\ Append(Pending, n) \in Seq(Nodes)
      /\ Len(Append(Pending, n)) = Len(order) + 1 - taken
      /\ \A i \in 1 .. Len(order) - taken : Append(Pending, n)[i] = order[taken + i]
      /\ Append(Pending, n)[Len(order) - taken + 1] = n
  BY <1>1, <1>3
<1>5. ASSUME NEW i \in 1 .. Len(order) + 1 - taken
      PROVE  Pending'[i] = Append(Pending, n)[i]
  <2>1. CASE i = Len(order) + 1 - taken
    <3>1. taken + i = Len(order) + 1 /\ i = Len(order) - taken + 1
      BY <1>1, <2>1
    <3> QED
      BY <1>1, <1>2, <1>4, <3>1
  <2>2. CASE i # Len(order) + 1 - taken
    <3>0. taken \in Nat /\ Len(order) \in Nat /\ taken <= Len(order)
      BY <1>1
    <3>1. i \in 1 .. Len(order) - taken /\ taken + i \in 1 .. Len(order)
      <4>1. i \in Nat /\ 1 <= i /\ i < Len(order) + 1 - taken
        BY <2>2, <3>0
      <4> QED
        BY <3>0, <4>1
    <3> QED
      BY <1>1, <1>2, <1>4, <3>1
  <2> QED
    BY <2>1, <2>2
<1> QED
  BY <1>1, <1>2, <1>4, <1>5, SeqEqual

LEMMA PendingTaken ==
  ASSUME QueueTypeOK, taken < Len(order), order' = order, taken' = taken + 1
  PROVE  /\ Pending # <<>>
         /\ Head(Pending) = order[taken + 1]
         /\ Pending' = Tail(Pending)
<1>1. order \in Seq(Nodes) /\ taken \in Nat /\ Len(order) \in Nat
  BY DEF QueueTypeOK
<1>2. Len(Pending) = Len(order) - taken
  BY <1>1 DEF Pending
<1>3. Pending # <<>>
  BY <1>1, <1>2
<1>4. Head(Pending) = order[taken + 1] /\ Tail(Pending) = SubSeq(order, taken + 2, Len(order))
  BY <1>1, HeadTailOfSubSeq DEF Pending
<1> QED
  BY <1>1, <1>3, <1>4, SMTT(20) DEF Pending

LEMMA ReturnGets ==
  ASSUME IInv, tail # Dummy, link[tail] # NoNode, Return
  PROVE  MQ!Get
<1>1. taken < Len(order) /\ tail = order[taken + 1]
  BY ReturnFirst
<1> QED
  BY <1>1, PendingTaken DEF IInv, Return, MQ!Get

LEMMA StepImplements ==
  ASSUME IInv, [QueueNext]_mvars
  PROVE  [MQ!Next]_<<Pending, result>>
<1>1. ASSUME NEW t \in Threads, NEW n \in Nodes, Enqueue(t, n)
      PROVE  MQ!Put(n)
  BY <1>1, PendingAppended DEF IInv, Enqueue, MQ!Put
<1>2. ASSUME UNCHANGED <<order, taken, result>>
      PROVE  UNCHANGED <<Pending, result>>
  BY <1>2 DEF Pending
<1>3. ASSUME ReturnNothing PROVE MQ!GetNothing
  BY <1>3 DEF ReturnNothing, MQ!GetNothing, Pending
<1>4. CASE DequeueStep
  <2>1. CASE SkipDummy
    BY <2>1, <1>2, <1>3 DEF SkipDummy, MQ!Next
  <2>2. CASE LoadNext
    BY <2>2, <1>2, ReturnGets DEF LoadNext, MQ!Next
  <2>3. CASE LoadHead
    BY <2>3, <1>2, <1>3 DEF LoadHead, MQ!Next
  <2>4. CASE ExchangeDummy
    BY <2>4, <1>2 DEF ExchangeDummy
  <2>5. CASE LoadAgain
    BY <2>5, <1>3, ReturnGets DEF LoadAgain, MQ!Next, IInv, DummyOnce
  <2> QED
    BY <1>4, <2>1, <2>2, <2>3, <2>4, <2>5 DEF DequeueStep
<1>5. CASE \E t \in Threads : Link(t)
  BY <1>5, <1>2 DEF Link
<1>6. CASE Dequeue \/ UNCHANGED mvars
  BY <1>6, <1>2 DEF Dequeue, mvars
<1> QED
  BY <1>1, <1>4, <1>5, <1>6 DEF QueueNext, MQ!Next

(* The lock-free queue is a queue: for any number of producers, however    *)
(* they come between the steps of the consumer, Dequeue returns the nodes  *)
(* in the order of the exchanges, each once, or nothing.                   *)
THEOREM QueueImplements == QueueSpec => ImplementsQueue
<1>1. QueueInit => MQ!Init
  <2> SUFFICES ASSUME QueueInit PROVE MQ!Init
    OBVIOUS
  <2>1. order = <<>> /\ taken = 0 /\ result = NoNode
    BY DEF QueueInit
  <2>2. Pending = <<>>
    BY <2>1 DEF Pending
  <2> QED
    BY <2>1, <2>2 DEF MQ!Init
<1>2. IInv /\ [QueueNext]_mvars => [MQ!Next]_<<Pending, result>>
  BY StepImplements
<1> QED
  BY <1>1, <1>2, QueueInvariant, PTL DEF QueueSpec, ImplementsQueue, MQ!Spec

-----------------------------------------------------------------------------
(* No node is cut off *)

(* A link that is missing in the middle of the list belongs to a call,     *)
(* which will set it.                                                      *)
MissingLinks ==
  \A n \in AllNodes :
    Listed(n) /\ n # head /\ link[n] = NoNode =>
      \E t \in Threads : Calling(t) /\ enq[t].prev = n

(* The dummy that Dequeue has put back is behind the tail.                 *)
DummyBehind == deq \in {"link", "again"} => dummyAt > taken

(* When no call of Enqueue is under way, each node that was enqueued and   *)
(* not dequeued is reached from the tail, in order.                        *)
NothingCutOff ==
  (\A t \in Threads : ~Calling(t)) =>
    \A n \in AllNodes : Listed(n) /\ n # head => Follows(n, link[n])

(* Dequeue gives up although there are nodes only where a producer is      *)
(* between its exchange and its store, or was when Dequeue looked.         *)
GivesUpForACall ==
  [][deq \notin {"got", "none"} /\ deq' = "none" /\ taken < Len(order) =>
       \/ \E t \in Threads : Calling(t) /\ enq[t].prev = tail
       \/ deq = "head" /\ link[tail] # NoNode]_mvars

WholeInv == MissingLinks /\ DummyBehind

LEMMA InitWhole == QueueInit => WholeInv
BY QueueAssumption
DEF QueueInit, WholeInv, MissingLinks, DummyBehind, Listed, InList, Positions,
    QueueAssumption

LEMMA EnqueueWhole ==
  ASSUME IInv, WholeInv, NEW t \in Threads, NEW n \in Nodes, Enqueue(t, n)
  PROVE  WholeInv'
<1>1. /\ order' = Append(order, n) /\ head' = n
      /\ tail' = tail /\ taken' = taken /\ dummyAt' = dummyAt /\ deq' = deq
      /\ link' = [link EXCEPT ![n] = NoNode]
      /\ enq' = [enq EXCEPT ![t] = [node |-> n, prev |-> head]]
      /\ ~Calling(t)
  BY DEF Enqueue, Exchange
<1>2. QueueTypeOK /\ order \in Seq(Nodes)
  BY DEF IInv, QueueTypeOK
<1>3. /\ Len(order') = Len(order) + 1 /\ order'[Len(order) + 1] = n
      /\ \A i \in 1 .. Len(order) : order'[i] = order[i]
  BY <1>1, <1>2
<1>4. ASSUME NEW m, Listed(m)', m # n PROVE Listed(m)
  BY <1>1, <1>2, <1>3, <1>4, Order DEF Listed, InList, Positions
<1>5. Calling(t)' /\ enq'[t].prev = head
  BY <1>1, <1>2, QueueAssumption DEF QueueTypeOK, Calling, QueueAssumption
<1>6. ASSUME NEW u \in Threads, Calling(u) PROVE Calling(u)' /\ enq'[u] = enq[u]
  BY <1>1, <1>2, <1>6 DEF QueueTypeOK, Calling
<1>7. ASSUME NEW m \in AllNodes, Listed(m)', m # head', link'[m] = NoNode
      PROVE  \E u \in Threads : Calling(u)' /\ enq'[u].prev = m
  <2>1. Listed(m) /\ link[m] = NoNode
    BY <1>1, <1>2, <1>4, <1>7 DEF QueueTypeOK
  <2>2. CASE m = head
    BY <1>5, <2>2
  <2>3. CASE m # head
    BY <1>6, <2>1, <2>3 DEF WholeInv, MissingLinks
  <2> QED
    BY <2>2, <2>3
<1>8. MissingLinks'
  BY <1>7 DEF MissingLinks, Calling, AllNodes
<1> QED
  BY <1>1, <1>8 DEF WholeInv, DummyBehind

LEMMA LinkWhole ==
  ASSUME IInv, WholeInv, NEW t \in Threads, Link(t)
  PROVE  WholeInv'
<1> DEFINE p == enq[t].prev
<1>1. /\ Calling(t)
      /\ link' = [link EXCEPT ![p] = enq[t].node]
      /\ enq' = [enq EXCEPT ![t] = NoCall]
      /\ deq' = IF enq[t].node = Dummy THEN "again" ELSE deq
      /\ UNCHANGED <<head, tail, order, taken, dummyAt>>
  BY DEF Link
<1>2. p \in AllNodes /\ enq[t].node # NoNode /\ QueueTypeOK
  BY <1>1 DEF IInv, CallsLink, Calling
<1>3. link'[p] # NoNode /\ \A m \in AllNodes : m # p => link'[m] = link[m]
  BY <1>1, <1>2 DEF QueueTypeOK
<1>4. ASSUME NEW u \in Threads, Calling(u), u # t PROVE Calling(u)' /\ enq'[u] = enq[u]
  BY <1>1, <1>2, <1>4 DEF QueueTypeOK, Calling
<1>5. \A m : Listed(m)' <=> Listed(m)
  BY <1>1 DEF Listed, InList, Positions
<1>6. ASSUME NEW m \in AllNodes, Listed(m)', m # head', link'[m] = NoNode
      PROVE  \E u \in Threads : Calling(u)' /\ enq'[u].prev = m
  <2>1. m # p /\ Listed(m) /\ m # head /\ link[m] = NoNode
    BY <1>1, <1>3, <1>5, <1>6
  <2>2. PICK u \in Threads : Calling(u) /\ enq[u].prev = m
    BY <2>1 DEF WholeInv, MissingLinks
  <2>3. u # t
    BY <2>1, <2>2
  <2> QED
    BY <1>4, <2>2, <2>3
<1>7. MissingLinks'
  BY <1>6 DEF MissingLinks, Calling, AllNodes
<1>8. DummyBehind'
  BY <1>1 DEF IInv, DummyOnce, WholeInv, DummyBehind
<1> QED
  BY <1>7, <1>8 DEF WholeInv

(* Dequeue takes nodes from the front and adds none but the dummy.         *)
LEMMA FrontWhole ==
  ASSUME WholeInv, UNCHANGED <<link, head, enq>>,
         \A m \in AllNodes : Listed(m)' => Listed(m),
         deq' \in {"link", "again"} => dummyAt' > taken'
  PROVE  WholeInv'
BY DEF WholeInv, MissingLinks, DummyBehind, Calling, AllNodes

LEMMA ExchangeDummyWhole ==
  ASSUME IInv, WholeInv, ExchangeDummy
  PROVE  WholeInv'
<1>1. /\ deq = "exchange" /\ head' = Dummy /\ dummyAt' = Len(order)
      /\ link' = [link EXCEPT ![Dummy] = NoNode]
      /\ enq' = [enq EXCEPT ![Consumer] = [node |-> Dummy, prev |-> head]]
      /\ ~Calling(Consumer)
      /\ UNCHANGED <<tail, order, taken>>
  BY DEF ExchangeDummy, Exchange
<1>2. QueueTypeOK /\ taken < Len(order) /\ Consumer \in Threads
  BY <1>1, QueueAssumption DEF IInv, DummyOnce, TailFirst, QueueAssumption
<1>3. ASSUME NEW m, Listed(m)', m # Dummy PROVE Listed(m)
  BY <1>1, <1>3 DEF Listed, Positions
<1>4. Calling(Consumer)' /\ enq'[Consumer].prev = head
  BY <1>1, <1>2, QueueAssumption DEF QueueTypeOK, Calling, QueueAssumption
<1>5. ASSUME NEW u \in Threads, Calling(u) PROVE Calling(u)' /\ enq'[u] = enq[u]
  BY <1>1, <1>2, <1>5 DEF QueueTypeOK, Calling
<1>6. ASSUME NEW m \in AllNodes, Listed(m)', m # head', link'[m] = NoNode
      PROVE  \E u \in Threads : Calling(u)' /\ enq'[u].prev = m
  <2>1. Listed(m) /\ link[m] = NoNode
    BY <1>1, <1>2, <1>3, <1>6 DEF QueueTypeOK
  <2>2. CASE m = head
    BY <1>2, <1>4, <2>2
  <2>3. CASE m # head
    BY <1>5, <2>1, <2>3 DEF WholeInv, MissingLinks
  <2> QED
    BY <2>2, <2>3
<1>7. MissingLinks'
  BY <1>6 DEF MissingLinks, Calling, AllNodes
<1>8. DummyBehind'
  BY <1>1, <1>2 DEF DummyBehind
<1> QED
  BY <1>7, <1>8 DEF WholeInv

LEMMA ReturnWhole ==
  ASSUME IInv, WholeInv, tail # Dummy, link[tail] # NoNode, Return
  PROVE  WholeInv'
<1>1. /\ tail' = link[tail] /\ taken' = taken + 1 /\ deq' = "got"
      /\ UNCHANGED <<link, head, enq, order, dummyAt>>
  BY DEF Return
<1>2. /\ QueueTypeOK
      /\ IF dummyAt = taken + 1
           THEN link[tail] = Dummy
           ELSE taken + 1 < Len(order) /\ link[tail] = order[taken + 2]
  BY ReturnFirst DEF IInv
<1>3. InList' => InList
  BY <1>1, <1>2, Order DEF InList
<1>4. \A m \in AllNodes : Listed(m)' => Listed(m)
  BY <1>1, <1>2, <1>3, Order DEF Listed, Positions
<1> QED
  BY <1>1, <1>4, FrontWhole

LEMMA NextWhole == IInv /\ WholeInv /\ [QueueNext]_mvars => WholeInv'
<1> SUFFICES ASSUME IInv, WholeInv, [QueueNext]_mvars PROVE WholeInv'
  OBVIOUS
<1>1. ASSUME UNCHANGED <<link, head, tail, enq, order, taken, dummyAt>>,
             deq' \in {deq, "next", "head", "exchange", "none"}
      PROVE  WholeInv'
  <2>1. \A m : Listed(m)' <=> Listed(m)
    BY <1>1 DEF Listed, InList, Positions
  <2> QED
    BY <1>1, <2>1, FrontWhole DEF WholeInv, DummyBehind
<1>2. CASE SkipDummy
  <2>1. CASE link[tail] = NoNode
    BY <1>1, <1>2, <2>1 DEF SkipDummy, ReturnNothing
  <2>2. CASE link[tail] # NoNode
    <3>1. /\ deq = "next" /\ tail = Dummy /\ tail' = link[tail]
          /\ UNCHANGED <<link, head, enq, deq, order, taken, dummyAt>>
      BY <1>2, <2>2 DEF SkipDummy
    <3>2. \A m : Listed(m)' => Listed(m)
      BY <3>1 DEF Listed, InList, Positions
    <3> QED
      BY <3>1, <3>2, FrontWhole
  <2> QED
    BY <2>1, <2>2
<1>3. CASE LoadNext
  BY <1>1, <1>3, ReturnWhole DEF LoadNext
<1>4. CASE LoadHead
  BY <1>1, <1>4 DEF LoadHead, ReturnNothing
<1>5. CASE LoadAgain
  BY <1>1, <1>5, ReturnWhole DEF LoadAgain, ReturnNothing, IInv, DummyOnce
<1>6. CASE Dequeue \/ UNCHANGED mvars
  BY <1>1, <1>6 DEF Dequeue, mvars
<1> QED
  BY <1>2, <1>3, <1>4, <1>5, <1>6, EnqueueWhole, LinkWhole, ExchangeDummyWhole
  DEF QueueNext, DequeueStep

LEMMA WholeNothingCutOff == IInv /\ WholeInv => NothingCutOff
BY DEF IInv, Links, WholeInv, MissingLinks, NothingCutOff

LEMMA GivesUp ==
  ASSUME IInv, WholeInv, [QueueNext]_mvars, deq \notin {"got", "none"},
         deq' = "none", taken < Len(order)
  PROVE  \/ \E t \in Threads : Calling(t) /\ enq[t].prev = tail
         \/ deq = "head" /\ link[tail] # NoNode
<1>1. QueueTypeOK /\ TailFirst /\ HeadLast /\ Distinct /\ DummyOnce /\ tail \in AllNodes
  BY DEF IInv, QueueTypeOK
<1>2. /\ SkipDummy \/ LoadHead \/ LoadAgain
      /\ deq # "head" => link[tail] = NoNode
      /\ deq = "head" => tail # head
  <2>1. ASSUME NEW t \in Threads, NEW n \in Nodes, Enqueue(t, n) PROVE FALSE
    BY <2>1 DEF Enqueue
  <2>2. ASSUME NEW t \in Threads, Link(t) PROVE FALSE
    BY <2>2 DEF Link
  <2>3. CASE DequeueStep
    BY <2>3 DEF DequeueStep, SkipDummy, LoadNext, LoadHead, ExchangeDummy, LoadAgain,
       Return, ReturnNothing
  <2>4. CASE Dequeue \/ UNCHANGED mvars
    BY <2>4 DEF Dequeue, Returned, mvars
  <2> QED
    BY <2>1, <2>2, <2>3, <2>4 DEF QueueNext
<1>3. tail # head /\ Listed(tail)
  <2>1. CASE tail = Dummy
    BY <1>1, <2>1, Order DEF TailFirst, HeadLast, InList, Listed
  <2>2. CASE tail # Dummy
    <3>1. tail = order[taken + 1] /\ taken + 1 \in Positions
      BY <1>1, <2>2, Order DEF TailFirst, Positions
    <3>2. deq = "again" => dummyAt > taken
      BY DEF WholeInv, DummyBehind
    <3>3. deq = "head" \/ deq = "again"
      BY <1>2, <2>2 DEF SkipDummy, LoadHead, LoadAgain
    <3>4. deq = "again" => tail # head
      BY <1>1, <2>2, <3>1, <3>2, Order DEF HeadLast, Distinct, InList
    <3> QED
      BY <1>2, <3>1, <3>3, <3>4 DEF Listed
  <2> QED
    BY <2>1, <2>2
<1> QED
  BY <1>1, <1>2, <1>3 DEF WholeInv, MissingLinks

(* No packet is cut off from the list: when no Enqueue is under way, the   *)
(* links lead from the tail through all that was enqueued and not          *)
(* dequeued, the dummy included, whatever interleaving of the exchanges    *)
(* and stores of any number of producers came before.                      *)
THEOREM NoNodeIsCutOff == QueueSpec => []NothingCutOff
<1>1. QueueInit => IInv /\ WholeInv
  BY InitInv, InitWhole
<1>2. IInv /\ WholeInv /\ [QueueNext]_mvars => IInv' /\ WholeInv'
  BY NextInv, NextWhole
<1> QED
  BY <1>1, <1>2, WholeNothingCutOff, PTL DEF QueueSpec

(* Dequeue returns nothing from a queue that is not empty only because of  *)
(* a producer that is between its exchange and its store, or was when      *)
(* Dequeue looked: the caller that tries again later misses nothing.       *)
THEOREM GivesUpOnlyForACall == QueueSpec => GivesUpForACall
<1>1. QueueInit => IInv /\ WholeInv
  BY InitInv, InitWhole
<1>2. IInv /\ WholeInv /\ [QueueNext]_mvars => IInv' /\ WholeInv'
  BY NextInv, NextWhole
<1>3. IInv /\ WholeInv /\ [QueueNext]_mvars =>
        [deq \notin {"got", "none"} /\ deq' = "none" /\ taken < Len(order) =>
           \/ \E t \in Threads : Calling(t) /\ enq[t].prev = tail
           \/ deq = "head" /\ link[tail] # NoNode]_mvars
  BY GivesUp
<1> QED
  BY <1>1, <1>2, <1>3, PTL DEF QueueSpec, GivesUpForACall
==============================================================================
