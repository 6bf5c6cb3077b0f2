-------------------------- MODULE MapUpdaterProof --------------------------
(***************************************************************************)
(* Proofs about MapUpdater, for any maps and any finite set of threads:    *)
(* the barrier between the updates of the maps and what the world thread   *)
(* does alone, that no notification is lost and nobody waits for nothing,  *)
(* and that the threads implement MapTick.                                 *)
(***************************************************************************)
EXTENDS MapUpdater, SequenceTheorems, FiniteSetTheorems, TLAPS

(* The requests the threads hold.                                          *)
Busy == {w \in Workers : request[w] # NoRequest}

(* The token and the shutdown of the queue belong to the end.              *)
TokenAtEnd ==
  /\ shutdown => _cancelationToken /\ world \in {"join", "end"}
  /\ _cancelationToken => world \in {"deactivate", "cancel", "join", "end"}
  /\ world \in {"deactivate", "cancel", "join"} => _cancelationToken

(* A thread only comes back without a request from a queue shut down.      *)
Requests ==
  \A w \in Workers :
    /\ worker[w] \in {"call", "finish"} => request[w] # NoRequest
    /\ worker[w] \in {"pop", "exited"} => request[w] = NoRequest
    /\ worker[w] = "check" /\ request[w] = NoRequest => shutdown

(* The count is that of the requests queued and held, and is 0 whenever    *)
(* the world thread is neither in its loop nor waiting.                    *)
Pending == pending_requests = Len(queue) + Cardinality(Busy)
AtRest ==
  world \notin {"iterate", "wait"} \/ ~Activated => pending_requests = 0

(* A map has one request at most, queued or held, and only after the loop  *)
(* has come to it.                                                         *)
OneOwner ==
  /\ toVisit \subseteq maps
  /\ world # "iterate" => toVisit = {}
  /\ \A i \in 1 .. Len(queue) : queue[i] \in maps \ toVisit
  /\ \A i, j \in 1 .. Len(queue) : queue[i] = queue[j] => i = j
  /\ \A w \in Busy : request[w] \in maps \ toVisit
  /\ \A w \in Busy : \A i \in 1 .. Len(queue) : queue[i] # request[w]
  /\ \A v, w \in Busy : request[v] = request[w] => v = w

IInv ==
  /\ TypeOK
  /\ TokenAtEnd
  /\ Requests
  /\ Pending
  /\ AtRest
  /\ OneOwner

LEMMA BusyFinite ==
  /\ IsFiniteSet(Busy)
  /\ Cardinality(Busy) \in Nat
<1>1. Busy \in SUBSET Workers
  BY DEF Busy
<1> QED
  BY <1>1, MapUpdaterAssumption, FS_Subset, FS_CardinalityType
  DEF MapUpdaterAssumption

(* With nothing pending nothing is queued and no thread has a request.     *)
LEMMA NothingUnderWay ==
  ASSUME TypeOK, Pending, pending_requests = 0
  PROVE  /\ queue = <<>>
         /\ Busy = {}
         /\ \A w \in Workers : request[w] = NoRequest
<1>1. Len(queue) \in Nat /\ queue \in Seq(Maps)
  BY DEF TypeOK, Q!QueueTypeOK
<1>2. Len(queue) = 0 /\ Cardinality(Busy) = 0
  BY <1>1, BusyFinite DEF Pending
<1>3. queue = <<>>
  BY <1>1, <1>2, EmptySeq
<1>4. Busy = {}
  BY <1>2, BusyFinite, FS_EmptySet
<1> QED
  BY <1>3, <1>4 DEF Busy

(* Threads are created before the first update and never replaced.         *)
LEMMA SameThreads ==
  ASSUME \A w \in Workers : worker'[w] = "none" <=> worker[w] = "none"
  PROVE  Activated' <=> Activated
BY DEF Activated

LEMMA InitIInv == Init => IInv
<1> SUFFICES ASSUME Init PROVE IInv
  OBVIOUS
<1> USE DEF Init, Q!QueueInit
<1>1. TypeOK
  BY EmptySeq DEF TypeOK, Q!QueueTypeOK
<1>2. Busy = {}
  BY DEF Busy
<1>3. Pending
  BY <1>2, FS_EmptySet, EmptySeq DEF Pending
<1> QED
  BY <1>1, <1>2, <1>3 DEF IInv, TokenAtEnd, Requests, AtRest, OneOwner

-----------------------------------------------------------------------------
(* Steps of the world thread that leave the queue and the threads alone *)

LEMMA WorldAloneStep ==
  ASSUME IInv, UNCHANGED <<queue, waiting, shutdown, workerVars,
                           pending_requests>>,
         \/ \E m \in Maps : CreateMap(m) \/ DestroyMap(m) \/ UpdateHere(m)
         \/ StartUpdate \/ LoopDone \/ WaitBlocks \/ WaitOver
         \/ DelayedUpdate \/ UnloadAll \/ JoinWorkers
  PROVE  IInv'
<1> USE DEF workerVars, queueVars, updaterVars, worldVars
<1>1. TypeOK /\ TokenAtEnd /\ Requests /\ Pending /\ AtRest /\ OneOwner
  BY DEF IInv
<1>2. TypeOK'
  <2>1. ASSUME NEW m \in Maps, CreateMap(m) \/ DestroyMap(m) \/ UpdateHere(m)
        PROVE  TypeOK'
    BY <1>1, <2>1
    DEF TypeOK, Q!QueueTypeOK, CreateMap, DestroyMap, UpdateHere, Visit
  <2>2. CASE StartUpdate \/ LoopDone \/ WaitBlocks \/ WaitOver
    BY <1>1, <2>2
    DEF TypeOK, Q!QueueTypeOK, StartUpdate, LoopDone, WaitBlocks, WaitOver
  <2>3. CASE DelayedUpdate \/ UnloadAll \/ JoinWorkers
    BY <1>1, <2>3
    DEF TypeOK, Q!QueueTypeOK, DelayedUpdate, UnloadAll, JoinWorkers, Activated
  <2> QED
    BY <2>1, <2>2, <2>3
<1>3. TokenAtEnd'
  BY <1>1 DEF TokenAtEnd, CreateMap, DestroyMap, UpdateHere, Visit,
              StartUpdate, LoopDone, WaitBlocks, WaitOver, DelayedUpdate,
              UnloadAll, JoinWorkers
<1>4. Requests' /\ Pending' /\ Busy' = Busy /\ (Activated' <=> Activated)
  BY <1>1, SameThreads DEF Requests, Pending, Busy
<1>5. AtRest'
  BY <1>1, <1>4 DEF AtRest, CreateMap, DestroyMap, UpdateHere, Visit,
              StartUpdate, LoopDone, WaitBlocks, WaitOver, DelayedUpdate,
              UnloadAll, JoinWorkers, NothingPending
<1>6. OneOwner'
  <2>1. CASE StartUpdate \/ UnloadAll
    <3>1. pending_requests = 0
      BY <1>1, <2>1 DEF AtRest, StartUpdate, UnloadAll
    <3>2. queue' = <<>> /\ Busy' = {}
      BY <1>1, <1>4, <3>1, NothingUnderWay
    <3>3. toVisit' \subseteq maps' /\ (world' # "iterate" => toVisit' = {})
      BY <1>1, <2>1 DEF OneOwner, StartUpdate, UnloadAll
    <3> QED
      BY <3>2, <3>3 DEF OneOwner
  <2>2. ASSUME NEW m \in Maps, DestroyMap(m)
        PROVE  OneOwner'
    BY <1>1, <1>4, <2>2 DEF OneOwner, DestroyMap, Visit
  <2>3. ASSUME NEW m \in Maps, CreateMap(m) \/ UpdateHere(m)
        PROVE  OneOwner'
    BY <1>1, <1>4, <2>3 DEF OneOwner, CreateMap, UpdateHere, Visit
  <2>4. CASE LoopDone \/ WaitBlocks \/ WaitOver \/ DelayedUpdate \/ JoinWorkers
    BY <1>1, <1>4, <2>4 DEF OneOwner, LoopDone, NothingLeft, WaitBlocks,
       WaitOver, DelayedUpdate, JoinWorkers
  <2> QED
    BY <2>1, <2>2, <2>3, <2>4
<1> QED
  BY <1>2, <1>3, <1>4, <1>5, <1>6 DEF IInv

LEMMA ScheduleStep ==
  ASSUME IInv, NEW m \in Maps, schedule_update(m)
  PROVE  IInv'
<1> USE DEF workerVars
<1>1. TypeOK /\ TokenAtEnd /\ Requests /\ Pending /\ AtRest /\ OneOwner
  BY DEF IInv
<1>2. /\ world = "iterate" /\ world' = world /\ Activated
      /\ m \in toVisit /\ toVisit' = toVisit \ {m}
      /\ pending_requests' = pending_requests + 1
      /\ UNCHANGED <<maps, shutdown, _cancelationToken, asleep, worker, request>>
  BY DEF schedule_update, Visit, Q!Push, OneMore
<1>3. queue \in Seq(Maps) /\ Len(queue) \in Nat
  BY <1>1 DEF TypeOK, Q!QueueTypeOK
<1>4. /\ queue' \in Seq(Maps)
      /\ Len(queue') = Len(queue) + 1
      /\ \A i \in 1 .. Len(queue) : queue'[i] = queue[i]
      /\ queue'[Len(queue) + 1] = m
  BY <1>3, AppendProperties DEF schedule_update, Q!Push
<1>5. waiting' \subseteq Workers
  BY <1>1 DEF TypeOK, Q!QueueTypeOK, schedule_update, Q!Push, Q!notify_one
<1>6. TypeOK'
  BY <1>1, <1>2, <1>4, <1>5 DEF TypeOK, Q!QueueTypeOK
<1>7. TokenAtEnd' /\ Requests' /\ AtRest' /\ Busy' = Busy
  BY <1>1, <1>2, SameThreads DEF TokenAtEnd, Requests, AtRest, Busy
<1>8. Pending'
  BY <1>1, <1>2, <1>3, <1>4, <1>7, BusyFinite DEF Pending, TypeOK
<1>9. OneOwner'
  <2>1. m \in maps /\ \A i \in 1 .. Len(queue) : queue[i] # m
    BY <1>1, <1>2 DEF OneOwner
  <2>2. \A i \in 1 .. Len(queue') : queue'[i] \in maps' \ toVisit'
    BY <1>1, <1>2, <1>3, <1>4, <2>1 DEF OneOwner
  <2>3. \A i, j \in 1 .. Len(queue') : queue'[i] = queue'[j] => i = j
    BY <1>1, <1>3, <1>4, <2>1 DEF OneOwner
  <2>4. \A w \in Busy : \A i \in 1 .. Len(queue') : queue'[i] # request[w]
    BY <1>1, <1>2, <1>3, <1>4 DEF OneOwner
  <2> QED
    BY <1>1, <1>2, <1>7, <2>2, <2>3, <2>4 DEF OneOwner
<1> QED
  BY <1>6, <1>7, <1>8, <1>9 DEF IInv

(* Cancel finds an empty queue.                                            *)
LEMMA CancelStep ==
  ASSUME IInv, CancelQueue
  PROVE  IInv'
<1> USE DEF workerVars, updaterVars
<1>1. TypeOK /\ TokenAtEnd /\ Requests /\ Pending /\ AtRest /\ OneOwner
  BY DEF IInv
<1>2. /\ world = "cancel" /\ world' = "join"
      /\ queue' = <<>> /\ shutdown' = TRUE /\ waiting' = {}
      /\ UNCHANGED <<maps, toVisit, pending_requests, _cancelationToken, asleep,
                     worker, request>>
  BY DEF CancelQueue, Q!Cancel
<1>3. queue = <<>> /\ pending_requests = 0
  BY <1>1, <1>2, NothingUnderWay DEF AtRest
<1>4. TypeOK' /\ Busy' = Busy
  BY <1>1, <1>2, EmptySeq DEF TypeOK, Q!QueueTypeOK, Busy
<1>5. Requests' /\ AtRest' /\ Pending' /\ OneOwner'
  BY <1>1, <1>2, <1>3, <1>4, SameThreads DEF Requests, AtRest, Pending, OneOwner
<1>6. _cancelationToken
  BY <1>1, <1>2 DEF IInv, TokenAtEnd
<1> QED
  BY <1>1, <1>2, <1>4, <1>5, <1>6 DEF IInv, TokenAtEnd

-----------------------------------------------------------------------------
(* Steps of the threads *)

LEMMA SleepStep ==
  ASSUME IInv,
         SpuriousWakeup \/ \E w \in Workers : WorkerWaits(w)
  PROVE  IInv'
<1>1. /\ UNCHANGED <<worldVars, queue, shutdown, pending_requests,
                     _cancelationToken, workerVars>>
      /\ waiting' \subseteq Workers
      /\ asleep' \in BOOLEAN
  <2>1. waiting \subseteq Workers /\ asleep \in BOOLEAN
    BY DEF IInv, TypeOK, Q!QueueTypeOK
  <2>2. ASSUME NEW w \in Workers, WorkerWaits(w)
        PROVE  /\ UNCHANGED <<worldVars, queue, shutdown, pending_requests,
                               _cancelationToken, workerVars>>
               /\ waiting' \subseteq Workers
               /\ asleep' \in BOOLEAN
    BY <2>1, <2>2 DEF WorkerWaits, Q!Wait, updaterVars
  <2>3. CASE SpuriousWakeup
    BY <2>1, <2>3 DEF SpuriousWakeup, Q!SpuriousWakeup, updaterVars, queueVars
  <2> QED
    BY <2>2, <2>3
<1>2. TypeOK'
  BY <1>1 DEF IInv, TypeOK, Q!QueueTypeOK, worldVars, workerVars
<1>3. Busy' = Busy
  BY <1>1 DEF Busy, workerVars
<1>4. Activated' <=> Activated
  BY <1>1, SameThreads DEF workerVars
<1> QED
  BY <1>1, <1>2, <1>3, <1>4 DEF IInv, worldVars, workerVars, TokenAtEnd, Requests,
     Pending, AtRest, OneOwner

(* The head of the queue passes to the thread.                             *)
LEMMA PopStep ==
  ASSUME IInv, NEW w \in Workers, WorkerPops(w)
  PROVE  IInv'
<1> USE DEF worldVars, updaterVars
<1>1. TypeOK /\ TokenAtEnd /\ Requests /\ Pending /\ AtRest /\ OneOwner
  BY DEF IInv
<1>2. /\ worker[w] = "pop" /\ request[w] = NoRequest /\ w \notin Busy
      /\ worker' = [worker EXCEPT ![w] = "check"]
      /\ UNCHANGED <<maps, world, toVisit, pending_requests, _cancelationToken,
                     asleep, waiting, shutdown>>
  BY <1>1 DEF WorkerPops, Requests, Q!Pop, Q!PopNothing, Q!qvars, Busy
<1>3. queue \in Seq(Maps) /\ request \in [Workers -> Maps \cup {NoRequest}]
  BY <1>1 DEF TypeOK, Q!QueueTypeOK
<1>4. TokenAtEnd' /\ AtRest'
  BY <1>1, <1>2, SameThreads DEF TokenAtEnd, AtRest, TypeOK
<1>5. CASE Q!Pop(w)
  <2> DEFINE m == Head(queue)
  <2>1. /\ queue # <<>> /\ ~shutdown /\ queue' = Tail(queue)
        /\ request' = [request EXCEPT ![w] = m]
    BY <1>5 DEF WorkerPops, Q!Pop, Q!PopNothing
  <2>2. /\ m \in Maps /\ m = queue[1] /\ Len(queue) \in Nat \ {0}
        /\ queue' \in Seq(Maps)
        /\ Len(queue') = Len(queue) - 1
        /\ \A i \in 1 .. Len(queue') : queue'[i] = queue[i + 1]
    BY <1>3, <2>1, HeadTailProperties
  <2>3. m # NoRequest
    BY <2>2, MapUpdaterAssumption DEF MapUpdaterAssumption
  <2> HIDE DEF m
  <2>4. /\ request'[w] = m
        /\ \A v \in Workers \ {w} : request'[v] = request[v]
        /\ Busy' = Busy \cup {w}
    BY <1>3, <2>1, <2>3 DEF Busy
  <2>5. TypeOK'
    BY <1>1, <1>2, <2>1, <2>2 DEF TypeOK, Q!QueueTypeOK
  <2>6. Requests'
    BY <1>1, <1>2, <2>1, <2>3, <2>4 DEF Requests, TypeOK
  <2>7. Pending'
    <3>1. Cardinality(Busy') = Cardinality(Busy) + 1
      BY <1>2, <2>4, BusyFinite, FS_AddElement
    <3> QED
      BY <1>1, <1>2, <2>2, <3>1, BusyFinite DEF Pending
  <2>8. OneOwner'
    <3>1. m \in maps \ toVisit /\ \A v \in Busy : request[v] # m
      BY <1>1, <2>2 DEF OneOwner
    <3>2. /\ \A i \in 1 .. Len(queue') : queue'[i] \in maps' \ toVisit'
          /\ \A i \in 1 .. Len(queue') : queue'[i] # m
          /\ \A i, j \in 1 .. Len(queue') : queue'[i] = queue'[j] => i = j
          /\ \A v \in Busy : \A i \in 1 .. Len(queue') : queue'[i] # request[v]
      <4>1. /\ 1 \in 1 .. Len(queue)
            /\ \A i \in 1 .. Len(queue') :
                 i + 1 \in 1 .. Len(queue) /\ i + 1 # 1
        BY <2>2
      <4>2. \A i, j \in 1 .. Len(queue') : i + 1 = j + 1 => i = j
        BY <2>2
      <4>3. /\ \A i \in 1 .. Len(queue') : queue'[i] \in maps' \ toVisit'
            /\ \A v \in Busy : \A i \in 1 .. Len(queue') : queue'[i] # request[v]
        BY <1>1, <1>2, <2>2, <4>1 DEF OneOwner
      <4>4. \A i \in 1 .. Len(queue') : queue'[i] # m
        BY <1>1, <2>2, <4>1 DEF OneOwner
      <4>5. \A i, j \in 1 .. Len(queue') : queue'[i] = queue'[j] => i = j
        BY <1>1, <2>2, <4>1, <4>2 DEF OneOwner
      <4> QED
        BY <4>3, <4>4, <4>5
    <3>3. \A v \in Busy' : v = w \/ (v \in Busy /\ v # w /\ request'[v] = request[v])
      BY <1>2, <2>4 DEF Busy
    <3> QED
      BY <1>1, <1>2, <2>4, <3>1, <3>2, <3>3 DEF OneOwner
  <2> QED
    BY <1>4, <2>5, <2>6, <2>7, <2>8 DEF IInv
<1>6. CASE Q!PopNothing(w) /\ request' = request
  <2>1. shutdown /\ queue' = queue /\ Busy' = Busy
    BY <1>6 DEF Q!PopNothing, Q!qvars, Busy
  <2>2. TypeOK'
    BY <1>1, <1>2, <1>6, <2>1 DEF TypeOK, Q!QueueTypeOK
  <2>3. Requests'
    BY <1>1, <1>2, <1>6, <2>1 DEF Requests, TypeOK
  <2>4. Pending' /\ OneOwner'
    BY <1>1, <1>2, <1>6, <2>1 DEF Pending, OneOwner
  <2> QED
    BY <1>4, <2>2, <2>3, <2>4 DEF IInv
<1> QED
  BY <1>5, <1>6 DEF WorkerPops

LEMMA CallStep ==
  ASSUME IInv, NEW w \in Workers, WorkerChecks(w) \/ MapUpdated(w)
  PROVE  IInv'
<1> USE DEF worldVars, updaterVars, queueVars
<1>1. TypeOK /\ TokenAtEnd /\ Requests /\ Pending /\ AtRest /\ OneOwner
  BY DEF IInv
<1>2. UNCHANGED <<maps, world, toVisit, queue, waiting, shutdown,
                  pending_requests, _cancelationToken, asleep, request>>
  BY DEF WorkerChecks, MapUpdated
<1>3. TypeOK'
  BY <1>1, <1>2 DEF TypeOK, Q!QueueTypeOK, WorkerChecks, MapUpdated
<1>4. Busy' = Busy
  BY <1>2 DEF Busy
<1>5. Activated' <=> Activated
  BY <1>1, SameThreads DEF WorkerChecks, MapUpdated, TypeOK
<1>7. Pending' /\ OneOwner' /\ TokenAtEnd' /\ AtRest'
  BY <1>1, <1>2, <1>4, <1>5 DEF Pending, OneOwner, TokenAtEnd, AtRest
<1>6. Requests'
  <2>1. CASE WorkerChecks(w) /\ ~_cancelationToken
    BY <1>1, <1>2, <2>1
    DEF WorkerChecks, Canceled, Requests, TokenAtEnd, TypeOK
  <2>2. CASE WorkerChecks(w) /\ _cancelationToken
    <3>1. request[w] = NoRequest
      BY <1>1, <2>2, NothingUnderWay DEF TokenAtEnd, AtRest
    <3> QED
      BY <1>1, <1>2, <2>2, <3>1 DEF WorkerChecks, Canceled, Requests, TypeOK
  <2>3. CASE MapUpdated(w)
    BY <1>1, <1>2, <2>3 DEF MapUpdated, Requests, TypeOK
  <2> QED
    BY <2>1, <2>2, <2>3
<1> QED
  BY <1>3, <1>6, <1>7 DEF IInv

LEMMA FinishStep ==
  ASSUME IInv, NEW w \in Workers, update_finished(w)
  PROVE  IInv'
<1> USE DEF worldVars, queueVars
<1>1. TypeOK /\ TokenAtEnd /\ Requests /\ Pending /\ AtRest /\ OneOwner
  BY DEF IInv
<1>2. /\ worker[w] = "finish" /\ w \in Busy
      /\ pending_requests' = pending_requests - 1
      /\ worker' = [worker EXCEPT ![w] = "pop"]
      /\ request' = [request EXCEPT ![w] = NoRequest]
      /\ asleep' = FALSE
      /\ UNCHANGED <<maps, world, toVisit, queue, waiting, shutdown,
                     _cancelationToken>>
  BY <1>1 DEF update_finished, notify_all, Requests, Busy
<1>3. /\ Busy' = Busy \ {w}
      /\ request'[w] = NoRequest
      /\ \A v \in Workers \ {w} : request'[v] = request[v]
  BY <1>1, <1>2 DEF Busy, TypeOK
<1>4. Cardinality(Busy') = Cardinality(Busy) - 1 /\ Cardinality(Busy') \in Nat
  BY <1>2, <1>3, BusyFinite, FS_RemoveElement, FS_CardinalityType
<1>5. Len(queue) \in Nat
  BY <1>1 DEF TypeOK, Q!QueueTypeOK
<1>6. Pending' /\ pending_requests # 0
  BY <1>1, <1>2, <1>4, <1>5, BusyFinite DEF Pending
<1>7. TypeOK'
  <2>1. pending_requests' \in Nat
    BY <1>1, <1>2, <1>6 DEF TypeOK
  <2>2. worker' \in [Workers -> {"none", "pop", "check", "call", "finish", "exited"}]
    BY <1>1, <1>2 DEF TypeOK
  <2>3. request' \in [Workers -> Maps \cup {NoRequest}]
    BY <1>1, <1>2 DEF TypeOK
  <2> QED
    BY <1>1, <1>2, <2>1, <2>2, <2>3 DEF TypeOK, Q!QueueTypeOK
<1>8. Requests' /\ TokenAtEnd'
  BY <1>1, <1>2, <1>3 DEF Requests, TokenAtEnd, TypeOK
<1>9. AtRest'
  BY <1>1, <1>2, <1>6, SameThreads DEF AtRest, TypeOK
<1>10. OneOwner'
  BY <1>1, <1>2, <1>3 DEF OneOwner, Busy
<1> QED
  BY <1>6, <1>7, <1>8, <1>9, <1>10 DEF IInv

LEMMA NextIInv == IInv /\ [Next]_vars => IInv'
<1> SUFFICES ASSUME IInv, [Next]_vars PROVE IInv'
  OBVIOUS
<1>1. ASSUME NEW m \in Maps,
             CreateMap(m) \/ DestroyMap(m) \/ UpdateHere(m)
      PROVE  IInv'
  BY <1>1, WorldAloneStep DEF CreateMap, DestroyMap, UpdateHere, queueVars,
     updaterVars
<1>2. ASSUME NEW m \in Maps, schedule_update(m)
      PROVE  IInv'
  BY <1>2, ScheduleStep
<1>3. CASE StartUpdate \/ LoopDone \/ WaitBlocks \/ WaitOver \/ DelayedUpdate
             \/ UnloadAll \/ JoinWorkers
  BY <1>3, WorldAloneStep DEF StartUpdate, LoopDone, WaitBlocks, WaitOver,
     DelayedUpdate, UnloadAll, JoinWorkers, queueVars, updaterVars
<1>4. CASE CancelQueue
  BY <1>4, CancelStep
<1>5. ASSUME NEW w \in Workers, Worker(w)
      PROVE  IInv'
  BY <1>5, SleepStep, PopStep, CallStep, FinishStep DEF Worker
<1>6. CASE SpuriousWakeup
  BY <1>6, SleepStep
<1>7. CASE UNCHANGED vars
  BY <1>7, SameThreads DEF vars, worldVars, queueVars, updaterVars, workerVars, IInv, TypeOK,
     Q!QueueTypeOK, TokenAtEnd, Requests, Pending, AtRest, OneOwner, Busy
<1>8. CASE Ended
  BY <1>7, <1>8 DEF Ended
<1> QED
  BY <1>1, <1>2, <1>3, <1>4, <1>5, <1>6, <1>7, <1>8
  DEF Next, World, WorldGoesOn

-----------------------------------------------------------------------------
(* What the invariant says of the updates *)

LEMMA BarrierInv == IInv => Barrier
<1> SUFFICES ASSUME IInv, world \notin {"iterate", "wait"} PROVE Barrier
  BY DEF Barrier
<1>1. queue = <<>> /\ \A w \in Workers : request[w] = NoRequest
  BY NothingUnderWay DEF IInv, AtRest
<1>2. Queued = {}
  BY <1>1 DEF Queued
<1>3. \A w \in Workers : worker[w] # "call"
  BY <1>1 DEF IInv, Requests
<1> QED
  BY <1>2, <1>3 DEF Barrier

LEMMA OneUpdaterInv == IInv => OneUpdater
<1> SUFFICES ASSUME IInv, NEW m \in Maps
             PROVE  /\ Cardinality(Updating(m)) <= 1
                    /\ Updating(m) # {} => m \in maps /\ m \notin Queued
  BY DEF OneUpdater
<1>1. Requests /\ OneOwner
  BY DEF IInv
<1>2. \A v \in Updating(m) : v \in Busy /\ request[v] = m
  BY <1>1 DEF Updating, Busy, Requests
<1>3. queue \in Seq(Maps)
  BY DEF IInv, TypeOK, Q!QueueTypeOK
<1>4. CASE Updating(m) = {}
  BY <1>4, FS_EmptySet
<1>5. CASE Updating(m) # {}
  <2>1. PICK w : w \in Updating(m)
    BY <1>5
  <2>2. Updating(m) = {w}
    BY <1>1, <1>2, <2>1 DEF OneOwner
  <2>3. Cardinality(Updating(m)) = 1
    BY <2>2, FS_Singleton
  <2>4. m \in maps /\ m \notin Queued
    BY <1>1, <1>2, <1>3, <2>1 DEF OneOwner, Queued
  <2> QED
    BY <2>3, <2>4
<1> QED
  BY <1>4, <1>5

(* The count of requests, the requests themselves, the queue and the maps  *)
(* keep their types: in particular the unsigned pending_requests never     *)
(* goes below 0.                                                           *)
THEOREM MapTypeCorrect == Spec => []TypeOK
<1>1. IInv => TypeOK
  BY DEF IInv
<1> QED
  BY InitIInv, NextIInv, <1>1, PTL DEF Spec

(* No DelayedUpdate, no change of the map list and no unloading overlaps   *)
(* with the update of a map, whatever the threads do and however often     *)
(* they wake up for nothing.                                               *)
THEOREM BarrierHolds == Spec => []Barrier
BY InitIInv, NextIInv, BarrierInv, PTL DEF Spec

(* No two threads update the same map, and no map is destroyed while a     *)
(* thread updates it.                                                      *)
THEOREM OneUpdaterHolds == Spec => []OneUpdater
BY InitIInv, NextIInv, OneUpdaterInv, PTL DEF Spec

(* No thread calls a null request.                                         *)
THEOREM NullIsNotCalled == Spec => []NullNotCalled
<1>1. IInv => NullNotCalled
  BY DEF IInv, Requests, NullNotCalled
<1> QED
  BY InitIInv, NextIInv, <1>1, PTL DEF Spec

-----------------------------------------------------------------------------
(* The threads implement MapTick                                           *)

(* The maps owed, by where their request is.                               *)
LEMMA OwedMeaning ==
  ASSUME IInv
  PROVE  \A m : m \in Owed <=>
                  \/ m \in toVisit
                  \/ \E i \in 1 .. Len(queue) : queue[i] = m
                  \/ \E w \in Busy : /\ worker[w] \in {"check", "call"}
                                     /\ request[w] = m
<1>1. DOMAIN queue = 1 .. Len(queue)
  BY DEF IInv, TypeOK, Q!QueueTypeOK
<1> QED
  BY <1>1 DEF Owed, Queued, Busy

(* Nothing is owed between updates.                                        *)
LEMMA NothingOwed ==
  ASSUME IInv, pending_requests = 0, toVisit = {}
  PROVE  Owed = {}
<1>1. queue = <<>> /\ Busy = {}
  BY NothingUnderWay DEF IInv
<1> QED
  BY <1>1, OwedMeaning

LEMMA InitTick == Init => Tick!Init
<1> SUFFICES ASSUME Init PROVE Tick!Init
  OBVIOUS
<1>1. IInv /\ pending_requests = 0 /\ toVisit = {}
  BY InitIInv DEF Init
<1>2. Owed = {}
  BY <1>1, NothingOwed
<1> QED
  BY <1>2 DEF Init, Tick!Init, Phase

LEMMA OwedMeaningNext ==
  ASSUME IInv'
  PROVE  \A m : m \in Owed' <=>
                  \/ m \in toVisit'
                  \/ \E i \in 1 .. Len(queue') : queue'[i] = m
                  \/ \E w \in Busy' : /\ worker'[w] \in {"check", "call"}
                                      /\ request'[w] = m
<1>1. DOMAIN queue' = 1 .. Len(queue')
  BY DEF IInv, TypeOK, Q!QueueTypeOK
<1> QED
  BY <1>1 DEF Owed, Queued, Busy

(* Two states with the same queue, requests and maps to visit owe the same. *)
LEMMA SameOwed ==
  ASSUME UNCHANGED <<queue, toVisit, request>>,
         \A w \in Workers :
           worker'[w] \in {"check", "call"} <=> worker[w] \in {"check", "call"}
  PROVE  Owed' = Owed
BY DEF Owed, Queued

LEMMA WorldTick ==
  ASSUME IInv, IInv', World
  PROVE  [Tick!Next]_(Tick!tickVars)
<1> USE DEF worldVars, queueVars, updaterVars, workerVars
<1>1. TypeOK /\ TokenAtEnd /\ Requests /\ Pending /\ AtRest /\ OneOwner
  BY DEF IInv
<1>2. queue \in Seq(Maps)
  BY <1>1 DEF TypeOK, Q!QueueTypeOK
<1>3. ASSUME NEW m \in Maps, CreateMap(m)
      PROVE  Tick!Create(m)
  BY <1>3, SameOwed DEF CreateMap, Tick!Create, Phase
<1>4. ASSUME NEW m \in Maps, DestroyMap(m) \/ UpdateHere(m)
      PROVE  Tick!Settle(m) \/ Tick!Destroy(m)
  <2>1. /\ m \in toVisit /\ toVisit' = toVisit \ {m}
        /\ maps' \in {maps, maps \ {m}}
        /\ world = "iterate" /\ world' = "iterate"
        /\ UNCHANGED <<queue, worker, request>>
    BY <1>4 DEF DestroyMap, UpdateHere, Visit
  <2>2. m \in Owed
    BY <2>1, OwedMeaning
  <2>3. \A x : x \in Owed' <=> x \in Owed \ {m}
    BY <1>1, <2>1, OwedMeaning, OwedMeaningNext DEF OneOwner, Busy
  <2>4. Owed' = Owed \ {m}
    BY <2>3
  <2> QED
    BY <2>1, <2>2, <2>4 DEF Tick!Settle, Tick!Destroy, Phase
<1>5. ASSUME NEW m \in Maps, schedule_update(m)
      PROVE  UNCHANGED Tick!tickVars
  <2>1. /\ m \in toVisit /\ toVisit' = toVisit \ {m}
        /\ queue' = Append(queue, m)
        /\ UNCHANGED <<world, maps, worker, request>>
    BY <1>5 DEF schedule_update, Visit, Q!Push
  <2>2. /\ Len(queue) \in Nat
        /\ Len(queue') = Len(queue) + 1
        /\ \A i \in 1 .. Len(queue) : queue'[i] = queue[i]
        /\ queue'[Len(queue) + 1] = m
    BY <1>2, <2>1, AppendProperties
  <2>3. Busy' = Busy
    BY <2>1 DEF Busy
  <2>4. \A x : (\E i \in 1 .. Len(queue') : queue'[i] = x)
               <=> x = m \/ \E i \in 1 .. Len(queue) : queue[i] = x
    BY <2>2
  <2>5. \A x : x \in Owed' <=> x \in Owed
    BY <2>1, <2>3, <2>4, OwedMeaning, OwedMeaningNext
  <2> QED
    BY <2>1, <2>5 DEF Tick!tickVars, Phase
<1>6. CASE StartUpdate
  <2>1. Owed' = maps
    <3>1. queue' = <<>> /\ Busy' = {} /\ toVisit' = maps
      BY <1>1, <1>6, NothingUnderWay DEF StartUpdate, AtRest, Busy
    <3> QED
      BY <3>1, OwedMeaningNext
  <2> QED
    BY <1>6, <2>1 DEF StartUpdate, Tick!Next, Tick!Begin, Phase
<1>7. CASE LoopDone \/ WaitBlocks \/ WaitOver
  <2>1. Owed' = Owed
    BY <1>7, SameOwed DEF LoopDone, WaitBlocks, WaitOver
  <2>2. CASE pending_requests = 0 /\ toVisit = {}
    <3>1. Owed = {}
      BY <2>2, NothingOwed
    <3> QED
      BY <1>7, <2>1, <3>1 DEF LoopDone, WaitBlocks, WaitOver, Tick!Next,
         Tick!Delay, Tick!tickVars, Phase
  <2>3. CASE ~(pending_requests = 0 /\ toVisit = {})
    BY <1>1, <1>7, <2>1, <2>3 DEF LoopDone, WaitBlocks, WaitOver, AtRest,
       OneOwner, NothingLeft, NothingPending, Tick!tickVars, Phase
  <2> QED
    BY <2>2, <2>3
<1>8. CASE DelayedUpdate \/ UnloadAll
  <2>1. Owed' = Owed
    BY <1>8, SameOwed DEF DelayedUpdate, UnloadAll
  <2> QED
    BY <1>8, <2>1 DEF DelayedUpdate, UnloadAll, Tick!Next, Tick!End,
       Tick!UnloadAll, Phase
<1>9. CASE CancelQueue \/ JoinWorkers
  <2>1. queue' = queue
    BY <1>1, <1>9, NothingUnderWay
    DEF CancelQueue, JoinWorkers, Q!Cancel, AtRest
  <2>2. Owed' = Owed
    BY <1>9, <2>1, SameOwed DEF CancelQueue, JoinWorkers
  <2> QED
    BY <1>9, <2>2 DEF CancelQueue, JoinWorkers, Tick!tickVars, Phase
<1> QED
  BY <1>3, <1>4, <1>5, <1>6, <1>7, <1>8, <1>9
  DEF World, WorldGoesOn, Tick!Next

LEMMA WorkerTick ==
  ASSUME IInv, IInv', NEW w \in Workers, Worker(w)
  PROVE  [Tick!Next]_(Tick!tickVars)
<1> USE DEF worldVars, queueVars, updaterVars, workerVars
<1>1. TypeOK /\ TokenAtEnd /\ Requests /\ Pending /\ AtRest /\ OneOwner
  BY DEF IInv
<1>2. UNCHANGED <<world, maps, toVisit>>
  BY DEF Worker, WorkerWaits, WorkerPops, WorkerChecks, MapUpdated,
     update_finished
<1>3. CASE WorkerWaits(w) \/ update_finished(w)
  <2>1. \A m : m \in Owed' <=> m \in Owed
    BY <1>1, <1>3, OwedMeaning, OwedMeaningNext
    DEF WorkerWaits, Q!Wait, update_finished, Busy, TypeOK
  <2> QED
    BY <1>2, <2>1 DEF Tick!tickVars, Phase
<1>4. CASE WorkerPops(w)
  <2>1. \A m : m \in Owed' <=> m \in Owed
    <3>1. worker[w] = "pop" /\ worker' = [worker EXCEPT ![w] = "check"]
      BY <1>4 DEF WorkerPops
    <3>2. CASE Q!Pop(w)
      <4>1. /\ queue # <<>> /\ queue' = Tail(queue) /\ queue \in Seq(Maps)
            /\ request' = [request EXCEPT ![w] = Head(queue)]
        BY <1>1, <1>4, <3>2 DEF WorkerPops, Q!Pop, Q!PopNothing, TypeOK,
           Q!QueueTypeOK
      <4>2. /\ Head(queue) = queue[1] /\ Head(queue) \in Maps
            /\ Len(queue) \in Nat \ {0}
            /\ Len(queue') = Len(queue) - 1
            /\ \A i \in 1 .. Len(queue') : queue'[i] = queue[i + 1]
        BY <4>1, HeadTailProperties
      <4>3. \A m : (\E i \in 1 .. Len(queue) : queue[i] = m)
                   <=> \/ m = Head(queue)
                       \/ \E i \in 1 .. Len(queue') : queue'[i] = m
        <5> TAKE m
        <5>1. ASSUME NEW i \in 1 .. Len(queue), queue[i] = m, m # Head(queue)
              PROVE  \E j \in 1 .. Len(queue') : queue'[j] = m
          <6>1. i - 1 \in 1 .. Len(queue') /\ (i - 1) + 1 = i
            BY <4>2, <5>1
          <6> QED
            BY <4>2, <5>1, <6>1
        <5>2. ASSUME NEW i \in 1 .. Len(queue'), queue'[i] = m
              PROVE  \E j \in 1 .. Len(queue) : queue[j] = m
          <6>1. i + 1 \in 1 .. Len(queue)
            BY <4>2, <5>2
          <6> QED
            BY <4>2, <5>2, <6>1
        <5>3. 1 \in 1 .. Len(queue)
          BY <4>2
        <5> QED
          BY <4>2, <5>1, <5>2, <5>3
      <4>4. Head(queue) # NoRequest
        BY <4>2, MapUpdaterAssumption DEF MapUpdaterAssumption
      <4>5. \A m : (\E v \in Busy' : /\ worker'[v] \in {"check", "call"}
                                     /\ request'[v] = m)
                   <=> \/ m = Head(queue)
                       \/ \E v \in Busy : /\ worker[v] \in {"check", "call"}
                                          /\ request[v] = m
        BY <1>1, <3>1, <4>1, <4>4 DEF Busy, TypeOK, Requests
      <4> QED
        BY <1>2, <4>3, <4>5, OwedMeaning, OwedMeaningNext
    <3>3. CASE Q!PopNothing(w) /\ request' = request
      <4>1. queue' = queue /\ request[w] = NoRequest
        BY <1>1, <3>1, <3>3 DEF Q!PopNothing, Q!qvars, Requests
      <4> QED
        BY <1>1, <1>2, <3>1, <3>3, <4>1, OwedMeaning, OwedMeaningNext
        DEF Busy, TypeOK
    <3> QED
      BY <1>4, <3>2, <3>3 DEF WorkerPops
  <2> QED
    BY <1>2, <2>1 DEF Tick!tickVars, Phase
<1>5. CASE WorkerChecks(w)
  <2>1. _cancelationToken => request[w] = NoRequest
    BY <1>1, NothingUnderWay DEF TokenAtEnd, AtRest
  <2>2. \A m : m \in Owed' <=> m \in Owed
    BY <1>1, <1>2, <1>5, <2>1, OwedMeaning, OwedMeaningNext
    DEF WorkerChecks, Canceled, Busy, TypeOK
  <2> QED
    BY <1>2, <2>2 DEF Tick!tickVars, Phase
<1>6. CASE MapUpdated(w)
  <2> DEFINE m == request[w]
  <2>1. /\ worker[w] = "call" /\ w \in Busy /\ m \in Maps
        /\ worker' = [worker EXCEPT ![w] = "finish"]
        /\ UNCHANGED <<queue, request>>
    BY <1>1, <1>6 DEF MapUpdated, Requests, Busy, TypeOK
  <2>2. m \in Owed
    BY <2>1, OwedMeaning
  <2>3. \A x : x \in Owed' <=> x \in Owed \ {m}
    BY <1>1, <1>2, <2>1, OwedMeaning, OwedMeaningNext DEF OneOwner, Busy, TypeOK
  <2>4. world \in {"iterate", "wait"}
    BY <1>1, <2>1, NothingUnderWay DEF AtRest
  <2> QED
    BY <1>2, <2>1, <2>2, <2>3, <2>4 DEF Tick!Settle, Tick!Next, Phase
<1> QED
  BY <1>3, <1>4, <1>5, <1>6 DEF Worker

LEMMA NextTick ==
  ASSUME IInv, IInv', [Next]_vars
  PROVE  [Tick!Next]_(Tick!tickVars)
<1>1. CASE SpuriousWakeup
  <2>1. UNCHANGED <<world, maps, toVisit, queue, worker, request>>
    BY <1>1 DEF SpuriousWakeup, Q!SpuriousWakeup, worldVars, workerVars,
       queueVars
  <2> QED
    BY <2>1, SameOwed DEF Tick!tickVars, Phase
<1>2. CASE UNCHANGED vars
  <2>1. UNCHANGED <<world, maps, toVisit, queue, worker, request>>
    BY <1>2 DEF vars, worldVars, queueVars, workerVars
  <2> QED
    BY <2>1, SameOwed DEF Tick!tickVars, Phase
<1>3. CASE Ended
  BY <1>2, <1>3 DEF Ended
<1> QED
  BY <1>1, <1>2, <1>3, WorldTick, WorkerTick DEF Next

(* The world thread and its helpers, in any interleaving, do what one loop *)
(* over the maps would do: every map is settled exactly once in an update, *)
(* and before the delayed updates begin.                                   *)
THEOREM TickImplemented == Spec => ImplementsTick
BY InitIInv, NextIInv, InitTick, NextTick, PTL
DEF Spec, ImplementsTick, Tick!Spec

-----------------------------------------------------------------------------
(* No notification is lost, and nobody waits for nothing *)

(* The threads that will look at the queue without being notified.         *)
Awake == {w \in Workers : worker[w] = "pop" /\ w \notin waiting}

(* Who blocks does so where a notification is due: a thread in WaitAndPop  *)
(* of a queue not shut down, the world thread in wait with requests        *)
(* pending.  A thread ends only after the token was set.                   *)
Blocked ==
  /\ \A w \in waiting : worker[w] = "pop"
  /\ shutdown => waiting = {}
  /\ world = "join" => shutdown
  /\ asleep => world \in {"wait", "deactivate"} /\ pending_requests # 0
  /\ \A w \in Workers : worker[w] = "exited" => _cancelationToken

(* A thread stays blocked only while there is another one awake for each   *)
(* request queued: notify_one for each Push is enough.                     *)
WakeupsKept == waiting # {} => Len(queue) <= Cardinality(Awake)

(* Whoever the world thread waits for goes on by itself: in wait a thread  *)
(* has a request, or one is queued and a thread comes to take it; when the *)
(* threads are joined, none of them is blocked.                            *)
NothingHangs ==
  /\ asleep => Busy # {} \/ (queue # <<>> /\ Awake # {})
  /\ world = "join" => waiting = {} /\ shutdown

LEMMA AwakeFinite ==
  /\ IsFiniteSet(Awake)
  /\ Cardinality(Awake) \in Nat
<1>1. Awake \in SUBSET Workers
  BY DEF Awake
<1> QED
  BY <1>1, MapUpdaterAssumption, FS_Subset, FS_CardinalityType
  DEF MapUpdaterAssumption

LEMMA AwakeFiniteNext == Cardinality(Awake') \in Nat
<1>1. Awake' \in SUBSET Workers
  BY DEF Awake
<1> QED
  BY <1>1, MapUpdaterAssumption, FS_Subset, FS_CardinalityType
  DEF MapUpdaterAssumption

LEMMA BlockedStep ==
  ASSUME IInv, IInv', Blocked, [Next]_vars
  PROVE  Blocked'
<1> USE DEF worldVars, queueVars, updaterVars, workerVars
<1>1. /\ TypeOK /\ TokenAtEnd /\ Requests /\ AtRest
      /\ waiting \subseteq Workers
      /\ TokenAtEnd' /\ AtRest'
  BY DEF IInv, TypeOK, Q!QueueTypeOK
<1>2. ASSUME NEW m \in Maps, CreateMap(m) \/ DestroyMap(m) \/ UpdateHere(m)
      PROVE  Blocked'
  BY <1>1, <1>2 DEF Blocked, CreateMap, DestroyMap, UpdateHere, Visit
<1>3. ASSUME NEW m \in Maps, schedule_update(m)
      PROVE  Blocked'
  <2>1. world = "iterate" /\ ~shutdown /\ waiting' \subseteq waiting
    BY <1>1, <1>3 DEF schedule_update, Visit, TokenAtEnd, Q!Push, Q!notify_one
  <2> QED
    BY <1>3, <2>1 DEF Blocked, schedule_update, Visit, Q!Push
<1>4. CASE StartUpdate \/ LoopDone \/ DelayedUpdate \/ UnloadAll \/ JoinWorkers
  BY <1>1, <1>4 DEF Blocked, TokenAtEnd, StartUpdate, LoopDone, DelayedUpdate,
     UnloadAll, JoinWorkers
<1>5. CASE WaitBlocks \/ WaitOver
  BY <1>1, <1>5 DEF Blocked, WaitBlocks, WaitOver, NothingPending
<1>6. CASE CancelQueue
  BY <1>1, <1>6 DEF Blocked, CancelQueue, Q!Cancel
<1>7. ASSUME NEW w \in Workers, WorkerWaits(w)
      PROVE  Blocked'
  BY <1>1, <1>7 DEF Blocked, WorkerWaits, Q!Wait
<1>8. ASSUME NEW w \in Workers, WorkerPops(w)
      PROVE  Blocked'
  <2>1. w \notin waiting /\ worker[w] = "pop" /\ worker' = [worker EXCEPT ![w] = "check"]
        /\ UNCHANGED <<waiting, shutdown, worldVars, updaterVars>>
    BY <1>8 DEF WorkerPops, Q!Pop, Q!PopNothing, Q!Running, Q!qvars
  <2> QED
    BY <1>1, <2>1 DEF Blocked, TypeOK
<1>9. ASSUME NEW w \in Workers, WorkerChecks(w) \/ MapUpdated(w)
      PROVE  Blocked'
  BY <1>1, <1>9 DEF Blocked, WorkerChecks, MapUpdated, Canceled, TypeOK
<1>10. ASSUME NEW w \in Workers, update_finished(w)
       PROVE  Blocked'
  BY <1>1, <1>10 DEF Blocked, update_finished, notify_all, TypeOK
<1>11. CASE SpuriousWakeup
  BY <1>1, <1>11 DEF Blocked, SpuriousWakeup, Q!SpuriousWakeup
<1>12. CASE UNCHANGED vars \/ Ended
  BY <1>12 DEF Blocked, Ended, vars
<1> QED
  BY <1>2, <1>3, <1>4, <1>5, <1>6, <1>7, <1>8, <1>9, <1>10, <1>11, <1>12
  DEF Next, World, WorldGoesOn, Worker

(* A thread more is awake, and at most one request more is queued.         *)
LEMMA OneMoreAwake ==
  ASSUME IInv, IInv', WakeupsKept, NEW w \in Workers, w \notin Awake,
         Awake' = Awake \cup {w}, Len(queue') <= Len(queue) + 1,
         waiting # {}
  PROVE  WakeupsKept'
<1>1. Len(queue) \in Nat /\ Len(queue') \in Nat
  BY DEF IInv, TypeOK, Q!QueueTypeOK
<1>2. Cardinality(Awake') = Cardinality(Awake) + 1
  BY AwakeFinite, FS_AddElement
<1> QED
  BY <1>1, <1>2, AwakeFinite DEF WakeupsKept

LEMMA WakeupsStep ==
  ASSUME IInv, IInv', Blocked, WakeupsKept, [Next]_vars
  PROVE  WakeupsKept'
<1> USE DEF worldVars, queueVars, updaterVars, workerVars
<1>1. /\ TypeOK /\ queue \in Seq(Maps) /\ Len(queue) \in Nat
      /\ queue' \in Seq(Maps) /\ Len(queue') \in Nat
      /\ waiting \subseteq Workers
  BY DEF IInv, TypeOK, Q!QueueTypeOK
<1>2. CASE UNCHANGED <<queue, waiting, worker>>
  BY <1>2 DEF WakeupsKept, Awake
<1>3. ASSUME NEW m \in Maps, schedule_update(m)
      PROVE  WakeupsKept'
  <2>1. queue' = Append(queue, m) /\ worker' = worker /\ Q!notify_one
    BY <1>3 DEF schedule_update, Q!Push
  <2>2. Len(queue') = Len(queue) + 1
    BY <1>1, <2>1, AppendProperties
  <2>3. CASE waiting = {} /\ waiting' = waiting
    BY <2>3 DEF WakeupsKept
  <2>4. ASSUME NEW w \in waiting, waiting' = waiting \ {w}
        PROVE  WakeupsKept'
    <3>1. w \in Workers /\ w \notin Awake /\ Awake' = Awake \cup {w}
      BY <1>1, <2>1, <2>4 DEF Awake, Blocked
    <3> QED
      BY <1>1, <2>2, <2>4, <3>1, OneMoreAwake
  <2> QED
    BY <2>1, <2>3, <2>4 DEF Q!notify_one
<1>4. CASE CancelQueue
  BY <1>4 DEF CancelQueue, Q!Cancel, WakeupsKept
<1>5. ASSUME NEW w \in Workers, WorkerWaits(w)
      PROVE  WakeupsKept'
  <2>1. Len(queue') = 0
    BY <1>5, EmptySeq DEF WorkerWaits, Q!Wait
  <2>2. Cardinality(Awake') \in Nat
    BY AwakeFiniteNext
  <2> QED
    BY <2>1, <2>2 DEF WakeupsKept
<1>6. ASSUME NEW w \in Workers, WorkerPops(w)
      PROVE  WakeupsKept'
  <2>1. /\ w \in Awake /\ worker' = [worker EXCEPT ![w] = "check"]
        /\ waiting' = waiting
    BY <1>6 DEF WorkerPops, Q!Pop, Q!PopNothing, Q!Running, Q!qvars, Awake
  <2>2. CASE Q!Pop(w)
    <3>1. Awake' = Awake \ {w}
      BY <1>1, <2>1 DEF Awake, TypeOK
    <3>2. Cardinality(Awake') = Cardinality(Awake) - 1
      BY <2>1, <3>1, AwakeFinite, FS_RemoveElement
    <3>3. Len(queue') = Len(queue) - 1
      BY <1>1, <2>2, HeadTailProperties DEF Q!Pop
    <3> QED
      BY <1>1, <2>1, <3>2, <3>3, AwakeFinite DEF WakeupsKept
  <2>3. CASE Q!PopNothing(w)
    BY <2>1, <2>3 DEF Q!PopNothing, Blocked, WakeupsKept
  <2> QED
    BY <1>6, <2>2, <2>3 DEF WorkerPops
<1>7. ASSUME NEW w \in Workers, WorkerChecks(w) \/ MapUpdated(w)
      PROVE  WakeupsKept'
  <2>1. Awake' = Awake /\ UNCHANGED <<queue, waiting>>
    BY <1>1, <1>7 DEF WorkerChecks, MapUpdated, Awake, TypeOK
  <2> QED
    BY <2>1 DEF WakeupsKept
<1>8. ASSUME NEW w \in Workers, update_finished(w)
      PROVE  WakeupsKept'
  <2>1. /\ w \notin Awake /\ w \notin waiting
        /\ Awake' = Awake \cup {w} /\ UNCHANGED <<queue, waiting>>
    BY <1>1, <1>8 DEF update_finished, Awake, Blocked, TypeOK
  <2>2. CASE waiting = {}
    BY <2>1, <2>2 DEF WakeupsKept
  <2>3. CASE waiting # {}
    BY <1>1, <2>1, <2>3, OneMoreAwake
  <2> QED
    BY <2>2, <2>3
<1>9. ASSUME NEW w \in Workers, Q!SpuriousWakeup(w), worker' = worker
      PROVE  WakeupsKept'
  <2>1. /\ w \notin Awake /\ waiting # {} /\ queue' = queue
        /\ Awake' = Awake \cup {w}
    BY <1>9 DEF Q!SpuriousWakeup, Awake, Blocked
  <2> QED
    BY <1>1, <2>1, OneMoreAwake
<1>10. CASE SpuriousWakeup
  BY <1>2, <1>9, <1>10 DEF SpuriousWakeup
<1>11. CASE UNCHANGED vars \/ Ended
  BY <1>2, <1>11 DEF Ended, vars
<1>12. CASE \/ \E m \in Maps : CreateMap(m) \/ DestroyMap(m) \/ UpdateHere(m)
            \/ StartUpdate \/ LoopDone \/ WaitBlocks \/ WaitOver
            \/ DelayedUpdate \/ UnloadAll \/ JoinWorkers
  BY <1>2, <1>12 DEF CreateMap, DestroyMap, UpdateHere, Visit, StartUpdate,
     LoopDone, WaitBlocks, WaitOver, DelayedUpdate, UnloadAll, JoinWorkers
<1> QED
  BY <1>3, <1>4, <1>5, <1>6, <1>7, <1>8, <1>10, <1>11, <1>12
  DEF Next, World, WorldGoesOn, Worker

LEMMA HangInv == IInv /\ Blocked /\ WakeupsKept => NothingHangs
<1> SUFFICES ASSUME IInv, Blocked, WakeupsKept PROVE NothingHangs
  OBVIOUS
<1>1. TypeOK /\ TokenAtEnd /\ Requests /\ Pending /\ AtRest
  BY DEF IInv
<1>2. Len(queue) \in Nat /\ queue \in Seq(Maps)
  BY <1>1 DEF TypeOK, Q!QueueTypeOK
<1>3. ASSUME asleep, Busy = {}
      PROVE  queue # <<>> /\ Awake # {}
  <2>1. pending_requests # 0 /\ Activated /\ world = "wait"
    BY <1>1, <1>3 DEF Blocked, AtRest
  <2>2. Len(queue) # 0
    BY <1>1, <1>2, <1>3, <2>1, FS_EmptySet DEF Pending
  <2>3. queue # <<>>
    BY <2>2, EmptySeq
  <2>4. CASE waiting = {}
    <3>1. ~_cancelationToken /\ ~shutdown
      BY <1>1, <2>1 DEF TokenAtEnd
    <3>2. PICK w \in Workers : worker[w] # "none"
      BY <2>1 DEF Activated
    <3>3. request[w] = NoRequest
      BY <1>3 DEF Busy
    <3>4. worker[w] = "pop"
      BY <1>1, <3>1, <3>2, <3>3 DEF TypeOK, Requests, Blocked
    <3> QED
      BY <2>3, <2>4, <3>4 DEF Awake
  <2>5. CASE waiting # {}
    <3>1. Cardinality(Awake) # 0
      BY <1>2, <2>2, <2>5, AwakeFinite DEF WakeupsKept
    <3> QED
      BY <2>3, <3>1, FS_EmptySet
  <2> QED
    BY <2>4, <2>5
<1> QED
  BY <1>3 DEF NothingHangs, Blocked

LEMMA WakeupsInv == Spec => [](IInv /\ Blocked /\ WakeupsKept)
<1>1. Init => Blocked /\ WakeupsKept
  BY DEF Init, Q!QueueInit, Blocked, WakeupsKept
<1> QED
  BY <1>1, InitIInv, NextIInv, BlockedStep, WakeupsStep, PTL DEF Spec

(* notify_one for each request is enough: a thread is left blocked in      *)
(* WaitAndPop only while there is another one awake for each request that  *)
(* is queued, with any number of threads and of requests.                  *)
THEOREM NoWakeupIsLost == Spec => []WakeupsKept
BY WakeupsInv, PTL

(* The world thread never waits for nothing: while it sleeps in wait, a    *)
(* thread has a request or comes to take one, without any spurious wakeup; *)
(* and when it joins the threads, none of them is left blocked.            *)
THEOREM NobodyHangs == Spec => []NothingHangs
BY WakeupsInv, HangInv, PTL
==============================================================================
