----------------------------- MODULE MapUpdater -----------------------------
(***************************************************************************)
(* MapManager::Update and the MapUpdater threads it shares the maps with.  *)
(*                                                                         *)
(* The world thread walks through the maps, destroys those that may be     *)
(* unloaded and schedules the others, then waits until the threads have    *)
(* updated them all; with no threads it updates them itself.  At the end   *)
(* it deletes the maps and stops the threads.  pending_requests has a      *)
(* mutex and condition variable of its own, beside those of the queue; the *)
(* actions are their critical sections.                                    *)
(***************************************************************************)
EXTENDS Naturals, FiniteSets, SequencesExt

CONSTANTS
  Maps,          \* keys of i_maps
  Workers,       \* MapUpdater threads: MapUpdate.Threads of them, or none
  NoRequest      \* null pointer

ASSUME MapUpdaterAssumption ==
  /\ IsFiniteSet(Workers)
  /\ NoRequest \notin Maps

VARIABLES
  maps,              \* MapManager::i_maps
  queue, waiting, shutdown,                            \* MapUpdater::_queue
  pending_requests,  \* MapUpdater::pending_requests
  _cancelationToken, \* MapUpdater::_cancelationToken
  asleep,            \* the world thread blocks in MapUpdater::wait
  world,             \* where the world thread is
  toVisit,           \* the maps its loop has still to come to
  worker,            \* where each thread is
  request            \* the request each thread popped: its map

queueVars == <<queue, waiting, shutdown>>
workerVars == <<worker, request>>
updaterVars == <<pending_requests, _cancelationToken, asleep>>
worldVars == <<maps, world, toVisit>>
vars == <<worldVars, queueVars, updaterVars, workerVars>>

Q == INSTANCE ProducerConsumerQueue
       WITH Consumers <- Workers, Values <- Maps

(* The threads that were created, which may have ended again.              *)
Activated == \E w \in Workers : worker[w] # "none"

Init ==
  /\ maps = {}
  /\ Q!QueueInit
  /\ pending_requests = 0
  /\ _cancelationToken = FALSE
  /\ asleep = FALSE
  /\ world = "idle"
  /\ toVisit = {}
  /\ worker \in [Workers -> {"pop", "none"}]
  /\ request = [w \in Workers |-> NoRequest]

-----------------------------------------------------------------------------
(* World thread, outside of MapManager::Update                             *)

CreateMap(m) ==
  /\ world = "idle"
  /\ m \notin maps
  /\ maps' = maps \cup {m}
  /\ UNCHANGED <<world, toVisit, queueVars, updaterVars, workerVars>>

(* MapManager::Update once its timer has passed.                           *)
StartUpdate ==
  /\ world = "idle"
  /\ world' = "iterate"
  /\ toVisit' = maps
  /\ UNCHANGED <<maps, queueVars, updaterVars, workerVars>>

-----------------------------------------------------------------------------
(* World thread, in the loop of MapManager::Update                         *)

Visit(m) ==
  /\ world = "iterate"
  /\ m \in toVisit
  /\ toVisit' = toVisit \ {m}
  /\ UNCHANGED world

(* CanUnload: the map is destroyed, or kept for the players it could not   *)
(* send away; it is not updated in either case.                            *)
DestroyMap(m) ==
  /\ Visit(m)
  /\ maps' \in {maps, maps \ {m}}
  /\ UNCHANGED <<queueVars, updaterVars, workerVars>>

CountBeforeLocking == pending_requests                              \* mutant
OneMore == pending_requests + 1

(* The request is queued under the lock of pending_requests.               *)
schedule_update(m) ==
  /\ Activated
  /\ Visit(m)
  /\ pending_requests' = OneMore
  /\ Q!Push(m)
  /\ UNCHANGED <<maps, _cancelationToken, asleep, workerVars>>

UpdateHere(m) ==
  /\ ~Activated
  /\ Visit(m)
  /\ UNCHANGED <<maps, queueVars, updaterVars, workerVars>>

OneLeft == Cardinality(toVisit) <= 1                                \* mutant
NothingLeft == toVisit = {}

LoopDone ==
  /\ world = "iterate"
  /\ NothingLeft
  /\ world' = IF Activated THEN "wait" ELSE "delayed"
  /\ UNCHANGED <<maps, toVisit, queueVars, updaterVars, workerVars>>

LastOneOut == pending_requests <= 1                                 \* mutant
NothingPending == pending_requests = 0

(* MapUpdater::wait, in Update and in deactivate.                          *)
WaitBlocks ==
  /\ world \in {"wait", "deactivate"}
  /\ ~asleep
  /\ ~NothingPending
  /\ asleep' = TRUE
  /\ UNCHANGED <<worldVars, queueVars, pending_requests, _cancelationToken,
                 workerVars>>

WaitOver ==
  /\ world \in {"wait", "deactivate"}
  /\ ~asleep
  /\ NothingPending
  /\ world' = IF world = "wait" THEN "delayed" ELSE "cancel"
  /\ UNCHANGED <<maps, toVisit, queueVars, updaterVars, workerVars>>

(* DelayedUpdate of every map.                                             *)
DelayedUpdate ==
  /\ world = "delayed"
  /\ world' = "idle"
  /\ UNCHANGED <<maps, toVisit, queueVars, updaterVars, workerVars>>

-----------------------------------------------------------------------------
(* World thread, at the end: MapManager::UnloadAll                         *)

(* The maps are deleted, and deactivate begins.                            *)
UnloadAll ==
  /\ world = "idle"
  /\ maps' = {}
  /\ world' = IF Activated THEN "deactivate" ELSE "end"
  /\ _cancelationToken' = Activated
  /\ UNCHANGED <<toVisit, queueVars, pending_requests, asleep, workerVars>>

CancelQueue ==
  /\ world = "cancel"
  /\ Q!Cancel
  /\ world' = "join"
  /\ UNCHANGED <<maps, toVisit, updaterVars, workerVars>>

JoinWorkers ==
  /\ world = "join"
  /\ \A w \in Workers : worker[w] \in {"exited", "none"}
  /\ world' = "end"
  /\ UNCHANGED <<maps, toVisit, queueVars, updaterVars, workerVars>>

Ended ==
  /\ world = "end"
  /\ UNCHANGED vars

-----------------------------------------------------------------------------
(* MapUpdater::WorkerThread                                                *)

WorkerWaits(w) ==
  /\ worker[w] = "pop"
  /\ Q!Wait(w)
  /\ UNCHANGED <<worldVars, updaterVars, workerVars>>

WorkerPops(w) ==
  /\ worker[w] = "pop"
  /\ \/ Q!Pop(w) /\ request' = [request EXCEPT ![w] = Head(queue)]
     \/ Q!PopNothing(w) /\ UNCHANGED request
  /\ worker' = [worker EXCEPT ![w] = "check"]
  /\ UNCHANGED <<worldVars, updaterVars>>

NoCheck == FALSE                                                    \* mutant
Canceled == _cancelationToken

WorkerChecks(w) ==
  /\ worker[w] = "check"
  /\ worker' = [worker EXCEPT ![w] = IF Canceled THEN "exited" ELSE "call"]
  /\ UNCHANGED <<worldVars, queueVars, updaterVars, request>>

(* request->call() runs Map::Update, and then:                             *)
MapUpdated(w) ==
  /\ worker[w] = "call"
  /\ worker' = [worker EXCEPT ![w] = "finish"]
  /\ UNCHANGED <<worldVars, queueVars, updaterVars, request>>

FinishSilently == UNCHANGED asleep                                  \* mutant
notify_all == asleep' = FALSE

update_finished(w) ==
  /\ worker[w] = "finish"
  /\ pending_requests' = pending_requests - 1
  /\ notify_all
  /\ worker' = [worker EXCEPT ![w] = "pop"]
  /\ request' = [request EXCEPT ![w] = NoRequest]
  /\ UNCHANGED <<worldVars, queueVars, _cancelationToken>>

(* Both condition variables may wake up by themselves.                     *)
SpuriousWakeup ==
  \/ /\ \E w \in Workers : Q!SpuriousWakeup(w)
     /\ UNCHANGED <<worldVars, updaterVars, workerVars>>
  \/ /\ asleep
     /\ asleep' = FALSE
     /\ UNCHANGED <<worldVars, queueVars, pending_requests,
                    _cancelationToken, workerVars>>

-----------------------------------------------------------------------------

(* The steps of an update or of the end that has begun.                    *)
WorldGoesOn ==
  \/ \E m \in Maps : DestroyMap(m) \/ schedule_update(m) \/ UpdateHere(m)
  \/ LoopDone \/ WaitBlocks \/ WaitOver \/ DelayedUpdate
  \/ CancelQueue \/ JoinWorkers

World ==
  \/ \E m \in Maps : CreateMap(m)
  \/ StartUpdate
  \/ UnloadAll
  \/ WorldGoesOn

Worker(w) ==
  \/ WorkerWaits(w) \/ WorkerPops(w) \/ WorkerChecks(w) \/ MapUpdated(w)
  \/ update_finished(w)

Next ==
  \/ World
  \/ \E w \in Workers : Worker(w)
  \/ SpuriousWakeup
  \/ Ended

Spec == Init /\ [][Next]_vars

(* Every thread that can go on does, Map::Update included.                 *)
FairSpec ==
  /\ Spec
  /\ WF_vars(WorldGoesOn)
  /\ \A w \in Workers : WF_vars(Worker(w))

-----------------------------------------------------------------------------
(* Properties *)

TypeOK ==
  /\ maps \subseteq Maps
  /\ Q!QueueTypeOK
  /\ pending_requests \in Nat
  /\ _cancelationToken \in BOOLEAN
  /\ asleep \in BOOLEAN
  /\ world \in {"idle", "iterate", "wait", "delayed", "deactivate", "cancel",
                "join", "end"}
  /\ toVisit \subseteq Maps
  /\ worker \in [Workers -> {"none", "pop", "check", "call", "finish", "exited"}]
  /\ request \in [Workers -> Maps \cup {NoRequest}]

Queued == {queue[i] : i \in DOMAIN queue}
Updating(m) == {w \in Workers : worker[w] = "call" /\ request[w] = m}

(* DelayedUpdate, the map list and the end of a map belong to the world    *)
(* thread alone: outside of the loop and the wait after it, no request is  *)
(* queued and no thread is in Map::Update, by the count alone.             *)
Barrier ==
  world \notin {"iterate", "wait"} =>
    /\ Queued = {}
    /\ \A w \in Workers : worker[w] # "call"

(* A map is updated by one thread at a time, and is not destroyed while a  *)
(* request for it is queued or under way.                                  *)
OneUpdater ==
  \A m \in Maps :
    /\ Cardinality(Updating(m)) <= 1
    /\ Updating(m) # {} => m \in maps /\ m \notin Queued

(* The null pointer a thread comes back with from a queue that was shut    *)
(* down is never called: the token is set first.                           *)
NullNotCalled ==
  \A w \in Workers : worker[w] = "call" => request[w] # NoRequest

(* What MapTick calls owed: still to be visited, queued, or popped and not *)
(* updated yet.                                                            *)
Owed ==
  toVisit \cup Queued
    \cup {request[w] : w \in {v \in Workers : worker[v] \in {"check", "call"}
                                              /\ request[v] # NoRequest}}
Phase ==
  CASE world \in {"iterate", "wait"} -> "update"
    [] world = "delayed" -> "delayed"
    [] world = "idle" -> "idle"
    [] OTHER -> "end"

Tick == INSTANCE MapTick WITH phase <- Phase, live <- maps, owed <- Owed

(* The threads together do what one loop over the maps would do: each map  *)
(* is settled once in each update, and all before the delayed updates.     *)
ImplementsTick == Tick!Spec

(* An update that has begun ends, and so does the server: no notification  *)
(* is lost, and no thread is left behind.                                  *)
UpdateEnds == world = "iterate" ~> world = "idle"
DeactivateEnds == world = "deactivate" ~> world = "end"

=============================================================================
