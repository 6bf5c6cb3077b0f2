-------------------------- MODULE DatabasePoolProof --------------------------
(***************************************************************************)
(* Proofs about DatabasePool, for any workers, callers, connections and    *)
(* operations: no session of the server is shared by two transactions,     *)
(* what is queued is executed in order and never forgotten, no worker      *)
(* waits for nothing, and, while no connection is lost, the pool           *)
(* implements TransactionStore; a lost connection spoils nothing but       *)
(* transactions that were begun.                                           *)
(***************************************************************************)
EXTENDS DatabasePool, FiniteSetTheorems, SequenceTheorems, TLAPS

Resting == {"none", "pop", "exited", "idle"}
Busy(x) == operation[x] # Nothing

(* Where a thread may be, and whether it has an operation there.           *)
InPlace ==
  /\ \A w \in Workers : pc[w] # "idle"
  /\ \A x \in Callers :
       /\ pc[x] \in {"idle", "begin", "statement", "commit", "succeeded",
                     "failed", "deadlocked"}
       /\ pc[x] # "idle" <=> connection[x] # Nothing
  /\ \A x \in Threads :
       /\ pc[x] \in Resting => ~Busy(x)
       /\ pc[x] \notin Resting \cup {"check"} => Busy(x)
       /\ pc[x] = "commit" => operation[x] \in Transactions
  /\ \A x, y \in Callers :
       connection[x] = connection[y] /\ connection[x] # Nothing => x = y
  /\ step # "none" => joining \in Workers

(* An operation is in one place of the queue or in one thread, and has no  *)
(* outcome yet; it came through the queue or from a caller.                *)
OneOwner ==
  /\ \A i \in 1 .. Len(queue) :
       outcome[queue[i]] = "none" /\ queue[i] \in ToSet(issued)
  /\ \A i, j \in 1 .. Len(queue) : queue[i] = queue[j] => i = j
  /\ \A x \in Threads : Busy(x) =>
       /\ outcome[operation[x]] = "none"
       /\ \A i \in 1 .. Len(queue) : queue[i] # operation[x]
  /\ \A w \in Workers : Busy(w) => operation[w] \in ToSet(issued)
  /\ \A x, y \in Threads : Busy(x) /\ operation[x] = operation[y] => x = y

(* A connection nobody executes on has nothing open.                       *)
SessionsClosed ==
  /\ \A c \in SyncConnections :
       (\A x \in Callers : connection[x] # c) => session[c] = Autocommit
  /\ \A c \in Connections : ~session[c].open => session[c] = Autocommit
  /\ \A x \in Threads : ConnectionOf(x) # Nothing =>
       /\ pc[x] \notin {"statement", "commit"} \/ operation[x] \in Statements =>
            session[ConnectionOf(x)] = Autocommit
       /\ \A row \in session[ConnectionOf(x)].writes : row[1] = operation[x]

IInv == TypeOK /\ InPlace /\ OneOwner /\ SessionsClosed

(* What a thread has written so far, if its connection was not lost.       *)
WrittenBy(x) ==
  /\ pc[x] = "statement" /\ operation[x] \in Transactions =>
       /\ statement[x] \in 1 .. Size[operation[x]]
       /\ session[ConnectionOf(x)] =
            [open |-> TRUE, writes |-> {operation[x]} \X (1 .. statement[x] - 1)]
  /\ pc[x] = "statement" /\ operation[x] \in Statements =>
       /\ statement[x] = 1
       /\ session[ConnectionOf(x)] = Autocommit
  /\ pc[x] = "commit" =>
       session[ConnectionOf(x)] = [open |-> TRUE, writes |-> RowsOf(operation[x])]
Written == \A x \in Threads : ConnectionOf(x) # Nothing => WrittenBy(x)

(* An operation is stored once it has succeeded, and not before.           *)
Succeeded(t) ==
  \/ outcome[t] = "done"
  \/ \E x \in Threads : operation[x] = t /\ pc[x] = "succeeded"
StoredWhole ==
  \A t \in Operations :
    /\ Succeeded(t) => RowsOf(t) \subseteq stored
    /\ ~Succeeded(t) => RowsOf(t) \cap stored = {}

SInv == IInv /\ Written /\ StoredWhole

-----------------------------------------------------------------------------
(* Types *)

LEMMA Distinct ==
  /\ Workers \cap Callers = {} /\ Workers \cap SyncConnections = {}
  /\ Transactions \cap Statements = {}
  /\ Nothing \notin Operations /\ Nothing \notin Connections
  /\ Nothing \notin Threads /\ Nothing \notin Workers
  /\ Nothing \notin SyncConnections
  /\ Size \in [Operations -> Nat]
  /\ \A s \in Statements : Size[s] = 1
BY DatabasePoolAssumption DEF DatabasePoolAssumption, Connections, Threads

LEMMA SessionTypes ==
  /\ Autocommit \in Session /\ Opened \in Session
  /\ Autocommit.open = FALSE /\ Opened.open = TRUE
  /\ Autocommit.writes = {} /\ Opened.writes = {}
  /\ \A s \in Session, row \in Operations \X Nat :
       [s EXCEPT !.writes = s.writes \cup {row}] \in Session
BY DEF Autocommit, Opened, Session

(* The connection a thread works on is its own.                            *)
LEMMA OwnConnection ==
  ASSUME TypeOK, InPlace
  PROVE  /\ \A x \in Threads : ConnectionOf(x) \in Connections \cup {Nothing}
         /\ \A x \in Threads : pc[x] # "idle" => ConnectionOf(x) \in Connections
         /\ \A x, y \in Threads :
              ConnectionOf(x) = ConnectionOf(y) /\ ConnectionOf(x) # Nothing => x = y
<1> USE Distinct DEF ConnectionOf, Connections, Threads
<1>1. \A x \in Callers : connection[x] \in SyncConnections \cup {Nothing}
  BY DEF TypeOK
<1>2. \A x \in Threads : ConnectionOf(x) \in Connections \cup {Nothing}
  BY <1>1
<1>3. \A x \in Threads : pc[x] # "idle" => ConnectionOf(x) \in Connections
  BY <1>1 DEF InPlace
<1>4. \A x, y \in Threads :
        ConnectionOf(x) = ConnectionOf(y) /\ ConnectionOf(x) # Nothing => x = y
  BY <1>1 DEF InPlace
<1> QED
  BY <1>2, <1>3, <1>4

LEMMA InitIInv == Init => IInv
<1> SUFFICES ASSUME Init PROVE IInv
  OBVIOUS
<1> USE Distinct, EmptySeq DEF Init, Q!QueueInit
<1>1. TypeOK
  <2>1. queue \in Seq(Operations) /\ issued \in Seq(Operations)
    OBVIOUS
  <2>2. pc \in [Threads -> Places] /\ operation \in [Threads -> Operations \cup {Nothing}]
    BY DEF Places
  <2>3. session \in [Connections -> Session]
    BY SessionTypes
  <2>4. /\ outcome \in [Operations -> {"none", "done", "failed", "dropped"}]
        /\ statement \in [Threads -> Nat]
        /\ retries \in [Callers -> 0..DirectRetries]
    BY DEF DirectRetries
  <2>5. database \in {"exists", "missing"}
    OBVIOUS
  <2> QED
    BY <2>1, <2>2, <2>3, <2>4, <2>5 DEF TypeOK, Q!QueueTypeOK
<1>2. InPlace
  BY DEF InPlace, Busy, Resting, Threads
<1>3. OneOwner
  <2>1. Len(queue) = 0
    OBVIOUS
  <2>2. \A x \in Threads : ~Busy(x)
    BY DEF Busy
  <2> QED
    BY <2>1, <2>2 DEF OneOwner, Threads
<1>4. SessionsClosed
  BY SessionTypes DEF SessionsClosed, Connections, Threads, ConnectionOf
<1> QED
  BY <1>1, <1>2, <1>3, <1>4 DEF IInv

LEMMA TypeQueue ==
  ASSUME TypeOK, Next
  PROVE  Q!QueueTypeOK' /\ issued' \in Seq(Operations)
<1> USE DEF vars, queueVars, closeVars, threadVars, serverVars
<1>1. queue \in Seq(Operations) /\ waiting \subseteq Workers /\ shutdown \in BOOLEAN
      /\ issued \in Seq(Operations)
  BY DEF TypeOK, Q!QueueTypeOK
<1>2. ASSUME NEW t \in Operations, Enqueue(t)
      PROVE  Q!QueueTypeOK' /\ issued' \in Seq(Operations)
  BY <1>1, <1>2, AppendProperties DEF Enqueue, Q!Push, Q!notify_one, Q!QueueTypeOK
<1>3. ASSUME NEW w \in Workers, WorkerPops(w)
      PROVE  Q!QueueTypeOK' /\ issued' \in Seq(Operations)
  BY <1>1, <1>3, HeadTailProperties
  DEF WorkerPops, Q!Pop, Q!PopNothing, Q!qvars, Q!QueueTypeOK
<1>4. ASSUME NEW w \in Workers, WorkerWaits(w) \/ SpuriousWakeup(w)
      PROVE  Q!QueueTypeOK' /\ issued' \in Seq(Operations)
  BY <1>1, <1>4 DEF WorkerWaits, SpuriousWakeup, Q!Wait, Q!SpuriousWakeup, Q!QueueTypeOK
<1>5. CASE CancelQueue
  BY <1>1, <1>5, EmptySeq DEF CancelQueue, Q!Cancel, Q!QueueTypeOK
<1>6. CASE UNCHANGED <<queueVars, issued>>
  BY <1>1, <1>6 DEF Q!QueueTypeOK
<1>7. ASSUME NEW x \in Threads, ExecuteTransaction(x)
      PROVE  UNCHANGED <<queueVars, issued>>
  BY <1>7 DEF ExecuteTransaction, BeginTransaction, BeginStatement, BeginEmpty,
              Execute, ExecuteFails, CommitTransaction
<1>8. ASSUME NEW w \in Workers, TransactionTask(w)
      PROVE  UNCHANGED <<queueVars, issued>>
  BY <1>8 DEF TransactionTask, TaskSucceeds, TaskFails, TaskEnds, TaskDeadlocks,
              LockDeadlock, RetryAgain, RetryTimeOver
<1>9. ASSUME NEW x \in Callers, DirectCommitTransaction(x)
      PROVE  UNCHANGED <<queueVars, issued>>
  BY <1>9 DEF DirectCommitTransaction, DirectSucceeds, DirectRetriesOnce, DirectFails,
              DirectEnds
<1>10. CASE Close \/ OpenOrClose \/ Ended
  BY <1>5, <1>6, <1>10
  DEF Close, OpenOrClose, Ended, OpenConnection, CancelWorker, ConnectionsOpen,
      Join, Closed, CreateDatabase
<1>11. ASSUME NEW w \in Workers, WorkerStops(w) \/ WorkerStarts(w)
       PROVE  UNCHANGED <<queueVars, issued>>
  BY <1>11 DEF WorkerStops, WorkerStarts
<1>12. ASSUME NEW x \in Callers, NEW c \in SyncConnections, NEW t \in Operations,
              GetFreeConnection(x, c, t)
       PROVE  UNCHANGED <<queueVars, issued>>
  BY <1>12 DEF GetFreeConnection
<1>13. ASSUME NEW c \in Connections, LoseConnection(c)
       PROVE  UNCHANGED <<queueVars, issued>>
  BY <1>13 DEF LoseConnection
<1>14. ASSUME NEW x \in Threads, LoseAnswer(x)
       PROVE  UNCHANGED <<queueVars, issued>>
  BY <1>14 DEF LoseAnswer
<1> QED
  BY <1>2, <1>3, <1>4, <1>6, <1>7, <1>8, <1>9, <1>10, <1>11, <1>12, <1>13, <1>14
  DEF Next, Worker, Caller, Threads


-----------------------------------------------------------------------------
(* The steps that change neither what the threads execute nor the queue    *)

LEMMA QuietStep ==
  ASSUME IInv, UNCHANGED <<operation, outcome, issued, connection, queue>>,
         \/ \E w \in Workers : OpenConnection(w) \/ CancelWorker(w)
                               \/ WorkerWaits(w) \/ SpuriousWakeup(w)
         \/ \E c \in Connections : LoseConnection(c)
         \/ ConnectionsOpen \/ Close \/ Join \/ Closed \/ CreateDatabase
         \/ UNCHANGED vars,
         Q!QueueTypeOK'
  PROVE  IInv'
<1> USE DEF vars, queueVars, closeVars, threadVars, serverVars, Goto
<1>1. TypeOK /\ InPlace /\ OneOwner /\ SessionsClosed
  BY DEF IInv
<1>2. joining \in Workers \cup {Nothing} /\ pc \in [Threads -> Places]
      /\ session \in [Connections -> Session]
      /\ _cancelationToken \in [Workers -> BOOLEAN]
      /\ (step # "none" => joining \in Workers)
  BY <1>1 DEF TypeOK, InPlace
<1>3. /\ pc' = pc \/ \E w \in Workers :
           \/ pc[w] = "none" /\ pc' = [pc EXCEPT ![w] = "pop"]
           \/ pc[w] = "exited" /\ pc' = [pc EXCEPT ![w] = "none"]
      /\ pool' \in {"opening", "failed", "open", "closing", "closed"}
      /\ _cancelationToken' \in [Workers -> BOOLEAN]
      /\ step' # "none" => joining' \in Workers
      /\ joining' \in Workers \cup {Nothing}
      /\ step' \in {"none", "cancel", "join"}
      /\ database' \in {"exists", "missing"}
      /\ UNCHANGED <<statement, retries, _deadlockLock, stored>>
  <2>1. ASSUME NEW w \in Workers, OpenConnection(w) \/ CancelWorker(w)
                                  \/ WorkerWaits(w) \/ SpuriousWakeup(w)
        PROVE  <1>3!:
    BY <1>1, <1>2, <2>1 DEF OpenConnection, CancelWorker, WorkerWaits, SpuriousWakeup,
       TypeOK
  <2>2. ASSUME NEW c \in Connections, LoseConnection(c)
        PROVE  <1>3!:
    BY <1>1, <1>2, <2>2 DEF LoseConnection, TypeOK
  <2>3. CASE ConnectionsOpen \/ Close \/ Closed \/ CreateDatabase \/ UNCHANGED vars
    BY <1>1, <1>2, <2>3
    DEF ConnectionsOpen, Close, Closed, CreateDatabase, AllDestroyed, TypeOK
  <2>4. CASE Join
    BY <1>1, <1>2, <2>4 DEF Join, TypeOK
  <2> QED
    BY <2>1, <2>2, <2>3, <2>4
<1>4. \/ session' = session
      \/ \E c \in Connections : session' = [session EXCEPT ![c] = Autocommit]
  BY DEF OpenConnection, CancelWorker, WorkerWaits, SpuriousWakeup, LoseConnection,
         ConnectionsOpen, Close, Join, Closed, CreateDatabase
<1>5. pc' \in [Threads -> Places] /\ session' \in [Connections -> Session]
  BY <1>2, <1>3, <1>4, SessionTypes DEF Threads, Places
<1>6. TypeOK'
  BY <1>1, <1>3, <1>5 DEF TypeOK
<1>7. InPlace'
  BY <1>1, <1>2, <1>3, Distinct DEF InPlace, Busy, Resting, Threads
<1>8. OneOwner'
  BY <1>1 DEF OneOwner, Busy
<1>9. SessionsClosed'
  <2>1. \A x \in Threads : ConnectionOf(x)' = ConnectionOf(x)
    BY DEF ConnectionOf
  <2>2. \A x \in Threads : pc'[x] \notin {"statement", "commit"} =>
                           pc[x] \notin {"statement", "commit"}
    BY <1>2, <1>3 DEF Threads
  <2>3. \A c \in Connections : session'[c] \in {session[c], Autocommit}
    BY <1>2, <1>4
  <2> QED
    BY <1>1, <2>1, <2>2, <2>3, SessionTypes, OwnConnection
    DEF SessionsClosed, Connections
<1> QED
  BY <1>6, <1>7, <1>8, <1>9 DEF IInv

-----------------------------------------------------------------------------
(* The steps of the queue *)

LEMMA EnqueueStep ==
  ASSUME IInv, NEW t \in Operations, Enqueue(t), Q!QueueTypeOK'
  PROVE  IInv'
<1> USE DEF queueVars, closeVars, threadVars, serverVars
<1>1. TypeOK /\ InPlace /\ OneOwner /\ SessionsClosed
  BY DEF IInv
<1>2. /\ Fresh(t) /\ queue' = Append(queue, t) /\ issued' = Append(issued, t)
      /\ UNCHANGED <<closeVars, threadVars, serverVars, outcome>>
  BY DEF Enqueue, Q!Push
<1>3. queue \in Seq(Operations) /\ issued \in Seq(Operations)
  BY <1>1 DEF TypeOK, Q!QueueTypeOK
<1>4. /\ Len(queue) \in Nat /\ Len(queue') = Len(queue) + 1
      /\ \A i \in 1 .. Len(queue) : queue'[i] = queue[i]
      /\ queue'[Len(queue) + 1] = t
  BY <1>2, <1>3, AppendProperties
<1>5. issued' \in Seq(Operations) /\ ToSet(issued') = ToSet(issued) \cup {t}
  <2>1. /\ issued' \in Seq(Operations) /\ Len(issued') = Len(issued) + 1
        /\ \A i \in 1 .. Len(issued) : issued'[i] = issued[i]
        /\ issued'[Len(issued) + 1] = t
        /\ Len(issued) \in Nat
    BY <1>2, <1>3, AppendProperties
  <2>2. DOMAIN issued = 1 .. Len(issued) /\ DOMAIN issued' = 1 .. Len(issued')
    BY <1>3, <2>1, LenProperties
  <2> QED
    BY <2>1, <2>2 DEF ToSet
<1>6. /\ t \notin ToSet(issued) /\ outcome[t] = "none"
      /\ \A x \in Callers : operation[x] # t
  BY <1>2 DEF Fresh
<1>7. TypeOK'
  BY <1>1, <1>2, <1>5 DEF TypeOK
<1>8. InPlace' /\ SessionsClosed'
  BY <1>1, <1>2 DEF InPlace, SessionsClosed, Busy, ConnectionOf
<1>9. OneOwner'
  <2>1. \A i \in 1 .. Len(queue) : queue[i] # t
    BY <1>1, <1>6 DEF OneOwner
  <2>2. \A x \in Threads : Busy(x) => operation[x] # t
    BY <1>1, <1>6 DEF OneOwner, Threads
  <2>3. \A i \in 1 .. Len(queue') :
          \/ i \in 1 .. Len(queue) /\ queue'[i] = queue[i]
          \/ i = Len(queue) + 1 /\ queue'[i] = t
    BY <1>4
  <2>4. \A i \in 1 .. Len(queue') :
          outcome'[queue'[i]] = "none" /\ queue'[i] \in ToSet(issued)'
    BY <1>1, <1>2, <1>5, <1>6, <2>3 DEF OneOwner
  <2>5. \A i, j \in 1 .. Len(queue') : queue'[i] = queue'[j] => i = j
    BY <1>1, <2>1, <2>3 DEF OneOwner
  <2>6. \A x \in Threads : Busy(x)' =>
          /\ outcome'[operation'[x]] = "none"
          /\ \A i \in 1 .. Len(queue') : queue'[i] # operation'[x]
    BY <1>1, <1>2, <2>2, <2>3 DEF OneOwner, Busy
  <2>7. \A w \in Workers : Busy(w)' => operation'[w] \in ToSet(issued)'
    BY <1>1, <1>2, <1>5 DEF OneOwner, Busy
  <2>8. \A x, y \in Threads : Busy(x)' /\ operation'[x] = operation'[y] => x = y
    BY <1>1, <1>2 DEF OneOwner, Busy
  <2> QED
    BY <2>4, <2>5, <2>6, <2>7, <2>8 DEF OneOwner
<1> QED
  BY <1>7, <1>8, <1>9 DEF IInv

LEMMA PopStep ==
  ASSUME IInv, NEW w \in Workers, WorkerPops(w), Q!QueueTypeOK'
  PROVE  IInv'
<1> USE DEF queueVars, closeVars, threadVars, serverVars, Goto
<1>1. TypeOK /\ InPlace /\ OneOwner /\ SessionsClosed
  BY DEF IInv
<1>2. /\ pc[w] = "pop" /\ pc' = [pc EXCEPT ![w] = "check"]
      /\ UNCHANGED <<closeVars, statement, retries, connection, _deadlockLock,
                     serverVars, outcome, issued>>
  BY DEF WorkerPops
<1>3. /\ queue \in Seq(Operations) /\ pc \in [Threads -> Places]
      /\ operation \in [Threads -> Operations \cup {Nothing}]
      /\ w \in Threads /\ w \notin Callers
  BY <1>1, Distinct DEF TypeOK, Q!QueueTypeOK, Threads
<1>4. operation[w] = Nothing
  BY <1>1, <1>2, <1>3 DEF InPlace, Resting, Busy
<1>5. \/ /\ queue # <<>> /\ queue' = Tail(queue)
         /\ operation' = [operation EXCEPT ![w] = Head(queue)]
      \/ queue' = queue /\ operation' = operation
  BY DEF WorkerPops, Q!Pop, Q!PopNothing, Q!qvars
<1>6. ASSUME queue # <<>>
      PROVE  /\ Head(queue) = queue[1] /\ 1 \in 1 .. Len(queue)
             /\ Head(queue) \in Operations
             /\ Len(queue) \in Nat /\ Len(Tail(queue)) = Len(queue) - 1
             /\ \A i \in 1 .. Len(Tail(queue)) : Tail(queue)[i] = queue[i + 1]
  BY <1>3, <1>6, HeadTailProperties, LenProperties
<1>7. /\ operation' \in [Threads -> Operations \cup {Nothing}]
      /\ \A x \in Threads : x # w => operation'[x] = operation[x]
      /\ operation'[w] = Nothing \/ operation'[w] \in Operations
  BY <1>3, <1>5, <1>6
<1>8. TypeOK'
  BY <1>1, <1>2, <1>3, <1>7 DEF TypeOK, Places
<1>9. InPlace'
  BY <1>1, <1>2, <1>3, <1>7, Distinct DEF InPlace, Busy, Resting, Threads
<1>10. OneOwner'
  <2>1. CASE queue' = queue /\ operation' = operation
    BY <1>1, <1>2, <2>1 DEF OneOwner, Busy
  <2>2. CASE queue # <<>> /\ queue' = Tail(queue)
             /\ operation' = [operation EXCEPT ![w] = Head(queue)]
    <3>1. \A i \in 1 .. Len(queue') : i + 1 \in 1 .. Len(queue) /\ queue'[i] = queue[i + 1]
      BY <1>6, <2>2
    <3>2. operation'[w] = queue[1]
      BY <1>3, <1>6, <2>2
    <3>3. \A i \in 1 .. Len(queue') :
            /\ outcome'[queue'[i]] = "none" /\ queue'[i] \in ToSet(issued)'
            /\ queue'[i] # queue[1]
      BY <1>1, <1>2, <1>6, <2>2, <3>1 DEF OneOwner
    <3>4. \A i, j \in 1 .. Len(queue') : queue'[i] = queue'[j] => i = j
      BY <1>1, <3>1 DEF OneOwner
    <3>5. /\ outcome'[queue[1]] = "none" /\ queue[1] \in ToSet(issued)'
          /\ \A x \in Threads : Busy(x) => operation[x] # queue[1]
          /\ queue[1] # Nothing
      BY <1>1, <1>2, <1>6, <2>2, Distinct DEF OneOwner
    <3>6. \A x \in Threads : Busy(x)' =>
            /\ outcome'[operation'[x]] = "none"
            /\ \A i \in 1 .. Len(queue') : queue'[i] # operation'[x]
      BY <1>1, <1>2, <1>7, <3>1, <3>2, <3>3, <3>5 DEF OneOwner, Busy
    <3>7. \A v \in Workers : Busy(v)' => operation'[v] \in ToSet(issued)'
      BY <1>1, <1>2, <1>7, <3>2, <3>5 DEF OneOwner, Busy, Threads
    <3>8. \A x, y \in Threads : Busy(x)' /\ operation'[x] = operation'[y] => x = y
      BY <1>1, <1>7, <3>2, <3>5 DEF OneOwner, Busy
    <3> QED
      BY <3>3, <3>4, <3>6, <3>7, <3>8 DEF OneOwner
  <2> QED
    BY <1>5, <2>1, <2>2
<1>11. SessionsClosed'
  <2>1. \A x \in Threads : ConnectionOf(x)' = ConnectionOf(x)
    BY <1>2 DEF ConnectionOf
  <2>2. session[ConnectionOf(w)].writes = {}
    BY <1>1, <1>2, <1>3, SessionTypes, OwnConnection, Distinct
    DEF SessionsClosed, ConnectionOf
  <2> QED
    BY <1>1, <1>2, <1>3, <1>7, <2>1, <2>2 DEF SessionsClosed
<1> QED
  BY <1>8, <1>9, <1>10, <1>11 DEF IInv

LEMMA CancelQueueStep ==
  ASSUME IInv, CancelQueue, Q!QueueTypeOK'
  PROVE  IInv'
<1> USE DEF queueVars, closeVars, threadVars, serverVars
<1>1. TypeOK /\ InPlace /\ OneOwner /\ SessionsClosed
  BY DEF IInv
<1>2. /\ queue' = <<>> /\ step' = "join" /\ step = "cancel"
      /\ outcome' = [t \in Operations |->
                       IF t \in ToSet(queue) THEN "dropped" ELSE outcome[t]]
      /\ UNCHANGED <<_cancelationToken, pool, joining, database, threadVars,
                     serverVars, issued>>
  BY DEF CancelQueue, Q!Cancel
<1>3. Len(queue') = 0
  BY <1>2, EmptySeq
<1>4. TypeOK'
  BY <1>1, <1>2 DEF TypeOK
<1>5. InPlace'
  BY <1>1, <1>2 DEF InPlace, Busy
<1>6. OneOwner'
  <2>1. DOMAIN queue = 1 .. Len(queue)
    BY <1>1, LenProperties DEF TypeOK, Q!QueueTypeOK
  <2>2. \A x \in Threads : Busy(x) =>
          operation[x] \in Operations /\ operation[x] \notin ToSet(queue)
    BY <1>1, <2>1 DEF OneOwner, ToSet, TypeOK, Busy
  <2> QED
    BY <1>1, <1>2, <1>3, <2>2 DEF OneOwner, Busy
<1>7. SessionsClosed'
  BY <1>1, <1>2 DEF SessionsClosed, ConnectionOf
<1> QED
  BY <1>4, <1>5, <1>6, <1>7 DEF IInv

-----------------------------------------------------------------------------
(* The steps of a thread that executes an operation *)

Goes(x, place) ==
  /\ pc' = [pc EXCEPT ![x] = place]
  /\ UNCHANGED <<operation, connection, queue, outcome, issued, joining, step>>

(* It stays the owner of what it executes.                                 *)
LEMMA MovingStep ==
  ASSUME TypeOK, InPlace, OneOwner, NEW x \in Threads, NEW place, Goes(x, place),
         pc[x] \notin Resting, Busy(x),
         place \in {"begin", "statement", "commit", "succeeded", "failed",
                    "deadlocked", "lock"},
         place = "lock" => x \in Workers,
         place = "commit" => operation[x] \in Transactions
  PROVE  InPlace' /\ OneOwner'
<1>1. pc \in [Threads -> Places]
  BY DEF TypeOK
<1>2. InPlace'
  BY <1>1, Distinct DEF InPlace, Goes, Busy, Resting, Threads
<1>3. OneOwner'
  BY DEF OneOwner, Goes, Busy
<1> QED
  BY <1>2, <1>3

(* Only its own session changes.                                           *)
LEMMA OwnSessionStep ==
  ASSUME TypeOK, InPlace, SessionsClosed, NEW x \in Threads, NEW place, Goes(x, place),
         pc[x] \notin Resting, NEW s \in Session,
         session' = [session EXCEPT ![ConnectionOf(x)] = s],
         ~s.open => s = Autocommit,
         place \notin {"statement", "commit"} \/ operation[x] \in Statements =>
           s = Autocommit,
         \A row \in s.writes : row[1] = operation[x]
  PROVE  SessionsClosed' /\ session' \in [Connections -> Session]
<1> DEFINE c == ConnectionOf(x)
<1>1. /\ c \in Connections /\ c # Nothing
      /\ \A y \in Threads : y # x => ConnectionOf(y) # c
      /\ \A y \in Threads : ConnectionOf(y) \in Connections \cup {Nothing}
  BY OwnConnection, Distinct DEF Resting
<1>2. session \in [Connections -> Session] /\ pc \in [Threads -> Places]
  BY DEF TypeOK
<1>3. /\ session'[c] = s
      /\ \A d \in Connections : d # c => session'[d] = session[d]
      /\ session' \in [Connections -> Session]
  BY <1>1, <1>2
<1>4. /\ pc'[x] = place
      /\ \A y \in Threads : y # x => pc'[y] = pc[y]
      /\ \A y \in Threads : ConnectionOf(y)' = ConnectionOf(y)
      /\ operation' = operation /\ connection' = connection
  BY <1>2 DEF Goes, ConnectionOf
<1>5. ASSUME NEW d \in SyncConnections, \A y \in Callers : connection'[y] # d
      PROVE  session'[d] = Autocommit
  <2>1. d # c
    BY <1>4, <1>5, Distinct DEF ConnectionOf, Threads
  <2> QED
    BY <1>3, <1>4, <1>5, <2>1 DEF SessionsClosed, Connections
<1>6. \A d \in Connections : ~session'[d].open => session'[d] = Autocommit
  BY <1>3 DEF SessionsClosed
<1>7. ASSUME NEW y \in Threads, ConnectionOf(y)' # Nothing
      PROVE  /\ pc'[y] \notin {"statement", "commit"} \/ operation'[y] \in Statements =>
                  session'[ConnectionOf(y)'] = Autocommit
             /\ \A row \in session'[ConnectionOf(y)'].writes : row[1] = operation'[y]
  <2>1. CASE y = x
    BY <1>3, <1>4, <2>1
  <2>2. CASE y # x
    <3>1. ConnectionOf(y) \in Connections /\ session'[ConnectionOf(y)] = session[ConnectionOf(y)]
      BY <1>1, <1>3, <1>4, <1>7, <2>2
    <3> QED
      BY <1>4, <1>7, <2>2, <3>1 DEF SessionsClosed
  <2> QED
    BY <2>1, <2>2
<1> HIDE DEF c
<1>8. SessionsClosed'
  BY <1>4, <1>5, <1>6, <1>7 DEF SessionsClosed
<1> QED
  BY <1>3, <1>8

(* The session need not change.                                            *)
LEMMA SameSessionStep ==
  ASSUME TypeOK, InPlace, SessionsClosed, NEW x \in Threads, NEW place, Goes(x, place),
         pc[x] \notin Resting, session' = session,
         place \notin {"statement", "commit"} => session[ConnectionOf(x)] = Autocommit
  PROVE  SessionsClosed'
<1>1. ConnectionOf(x) \in Connections /\ session \in [Connections -> Session]
      /\ ConnectionOf(x) # Nothing
  BY OwnConnection, Distinct DEF Resting, TypeOK
<1>2. session[ConnectionOf(x)] \in Session
      /\ session' = [session EXCEPT ![ConnectionOf(x)] = session[ConnectionOf(x)]]
  BY <1>1
<1>3. /\ ~session[ConnectionOf(x)].open => session[ConnectionOf(x)] = Autocommit
      /\ \A row \in session[ConnectionOf(x)].writes : row[1] = operation[x]
      /\ operation[x] \in Statements => session[ConnectionOf(x)] = Autocommit
  BY <1>1 DEF SessionsClosed
<1> QED
  BY <1>2, <1>3, OwnSessionStep

LEMMA ExecuteStep ==
  ASSUME IInv, NEW x \in Threads, ExecuteTransaction(x), Q!QueueTypeOK'
  PROVE  IInv'
<1> USE DEF queueVars, closeVars, serverVars, Goto
<1>1. TypeOK /\ InPlace /\ OneOwner /\ SessionsClosed
  BY DEF IInv
<1>2. /\ session \in [Connections -> Session] /\ statement \in [Threads -> Nat]
      /\ stored \subseteq Operations \X Nat
      /\ pc \in [Threads -> Places]
      /\ operation \in [Threads -> Operations \cup {Nothing}]
  BY <1>1 DEF TypeOK
<1>3. pc[x] \in {"begin", "statement", "commit"}
  BY DEF ExecuteTransaction, BeginTransaction, BeginStatement, BeginEmpty, Execute,
         ExecuteFails, CommitTransaction
<1>4. /\ operation[x] \in Operations /\ Busy(x) /\ pc[x] \notin Resting
      /\ ConnectionOf(x) \in Connections /\ ConnectionOf(x) # Nothing
      /\ session[ConnectionOf(x)] \in Session
  BY <1>1, <1>2, <1>3, OwnConnection, Distinct DEF InPlace, Resting, Busy
<1>5. /\ \A row \in session[ConnectionOf(x)].writes : row[1] = operation[x]
      /\ session[ConnectionOf(x)].writes \subseteq Operations \X Nat
      /\ ~session[ConnectionOf(x)].open => session[ConnectionOf(x)] = Autocommit
      /\ pc[x] = "begin" => session[ConnectionOf(x)] = Autocommit
      /\ operation[x] \in Statements => session[ConnectionOf(x)] = Autocommit
  BY <1>1, <1>4 DEF SessionsClosed, Session
<1>6. /\ UNCHANGED <<closeVars, queueVars, operation, connection, retries, _deadlockLock,
                     outcome, issued>>
      /\ statement' \in [Threads -> Nat]
  BY <1>2 DEF ExecuteTransaction, BeginTransaction, BeginStatement, BeginEmpty,
              Execute, ExecuteFails, CommitTransaction
<1>7. ASSUME NEW place \in {"statement", "commit", "succeeded", "failed", "deadlocked"},
             pc' = [pc EXCEPT ![x] = place],
             place = "commit" => operation[x] \in Transactions,
             SessionsClosed', session' \in [Connections -> Session],
             stored' \subseteq Operations \X Nat
      PROVE  IInv'
  <2>1. Goes(x, place)
    BY <1>6, <1>7 DEF Goes
  <2>2. InPlace' /\ OneOwner'
    BY <1>1, <1>4, <1>7, <2>1, MovingStep
  <2>3. pc' \in [Threads -> Places]
    BY <1>2, <1>7 DEF Places
  <2>4. TypeOK'
    BY <1>1, <1>6, <1>7, <2>3 DEF TypeOK
  <2> QED
    BY <1>7, <2>2, <2>4 DEF IInv
<1>8. ASSUME NEW place, pc' = [pc EXCEPT ![x] = place]
      PROVE  Goes(x, place)
  BY <1>6, <1>8 DEF Goes
<1>9. CASE BeginTransaction(x)
  <2>1. SessionsClosed' /\ session' \in [Connections -> Session]
    <3>1. /\ Goes(x, "statement")
          /\ session' = [session EXCEPT ![ConnectionOf(x)] = Opened]
          /\ operation[x] \notin Statements
          /\ \A row \in Opened.writes : row[1] = operation[x]
      BY <1>8, <1>9, SessionTypes, Distinct DEF BeginTransaction
    <3> QED
      BY <1>1, <1>4, <3>1, SessionTypes, OwnSessionStep
  <2>2. stored' \subseteq Operations \X Nat
    BY <1>2, <1>5, <1>9 DEF BeginTransaction
  <2> QED
    BY <1>7, <1>9, <2>1, <2>2 DEF BeginTransaction
<1>10. CASE BeginStatement(x)
  <2>1. SessionsClosed'
    BY <1>1, <1>4, <1>8, <1>10, SameSessionStep DEF BeginStatement
  <2> QED
    BY <1>2, <1>7, <1>10, <2>1 DEF BeginStatement
<1>11. CASE BeginEmpty(x)
  <2>1. SessionsClosed'
    BY <1>1, <1>4, <1>5, <1>8, <1>11, SameSessionStep DEF BeginEmpty
  <2> QED
    BY <1>2, <1>7, <1>11, <2>1 DEF BeginEmpty
<1>12. CASE ExecuteFails(x)
  <2>1. PICK place \in {"failed", "deadlocked"} : pc' = [pc EXCEPT ![x] = place]
    BY <1>12 DEF ExecuteFails
  <2>2. session' = [session EXCEPT ![ConnectionOf(x)] = Autocommit] /\ stored' = stored
    BY <1>12 DEF ExecuteFails, RollbackTransaction
  <2>3. SessionsClosed' /\ session' \in [Connections -> Session]
    BY <1>1, <1>4, <1>8, <2>1, <2>2, SessionTypes, OwnSessionStep
  <2> QED
    BY <1>2, <1>7, <2>1, <2>2, <2>3
<1>13. CASE CommitTransaction(x)
  <2>1. SessionsClosed' /\ session' \in [Connections -> Session]
    BY <1>1, <1>4, <1>8, <1>13, SessionTypes, OwnSessionStep DEF CommitTransaction
  <2>2. stored' \subseteq Operations \X Nat
    BY <1>2, <1>5, <1>13 DEF CommitTransaction
  <2> QED
    BY <1>7, <1>13, <2>1, <2>2 DEF CommitTransaction
<1>14. CASE Execute(x)
  <2> DEFINE row == <<operation[x], statement[x]>>
             old == session[ConnectionOf(x)]
             new == [old EXCEPT !.writes = old.writes \cup {row}]
  <2>1. row \in Operations \X Nat /\ row[1] = operation[x]
    BY <1>2, <1>4
  <2>2. PICK place \in {"statement", "commit", "succeeded"} :
          /\ pc' = [pc EXCEPT ![x] = place]
          /\ place = "commit" => operation[x] \in Transactions
          /\ place = "succeeded" => operation[x] \notin Transactions
    <3>1. CASE statement[x] = Size[operation[x]] /\ operation[x] \in Transactions
      BY <1>14, <3>1 DEF Execute
    <3>2. CASE statement[x] = Size[operation[x]] /\ operation[x] \notin Transactions
      BY <1>14, <3>2 DEF Execute
    <3>3. CASE statement[x] # Size[operation[x]]
      <4>1. pc' = pc /\ pc[x] = "statement"
        BY <1>14, <3>3 DEF Execute
      <4>2. pc' = [pc EXCEPT ![x] = "statement"]
        BY <1>2, <4>1
      <4> QED
        BY <4>2
    <3> QED
      BY <3>1, <3>2, <3>3
  <2>3. CASE old.open
    <3>1. session' = [session EXCEPT ![ConnectionOf(x)] = new] /\ stored' = stored
      BY <1>4, <1>14, <2>3, <1>2 DEF Execute, Write
    <3>2. /\ new \in Session /\ new.open /\ new.writes = old.writes \cup {row}
      BY <1>4, <2>1, <2>3, SessionTypes DEF Session
    <3>3. operation[x] \notin Statements /\ place # "succeeded"
      BY <1>4, <1>5, <2>2, <2>3, SessionTypes DEF Operations
    <3>4. \A r \in new.writes : r[1] = operation[x]
      BY <1>5, <2>1, <3>2
    <3>5. SessionsClosed' /\ session' \in [Connections -> Session]
      BY <1>1, <1>4, <1>8, <2>2, <3>1, <3>2, <3>3, <3>4, OwnSessionStep
    <3> QED
      BY <1>2, <1>7, <2>2, <3>1, <3>5
  <2>4. CASE ~old.open
    <3>1. session' = session /\ stored' = stored \cup {row}
      BY <1>14, <2>4 DEF Execute, Write
    <3>2. SessionsClosed'
      BY <1>1, <1>4, <1>5, <1>8, <2>2, <2>4, <3>1, SameSessionStep
    <3> QED
      BY <1>2, <1>7, <2>1, <2>2, <3>1, <3>2
  <2> QED
    BY <2>3, <2>4
<1> QED
  BY <1>9, <1>10, <1>11, <1>12, <1>13, <1>14 DEF ExecuteTransaction

-----------------------------------------------------------------------------
(* The steps in which a thread stops executing, or begins *)

(* An operation is over: it gets its outcome, and the thread is free.      *)
Ends(x, place, result) ==
  /\ pc' = [pc EXCEPT ![x] = place]
  /\ operation' = [operation EXCEPT ![x] = Nothing]
  /\ \A t \in Operations : t # operation[x] => outcome'[t] = outcome[t]
  /\ UNCHANGED <<queue, issued, joining, step, session>>

LEMMA EndingStep ==
  ASSUME TypeOK, InPlace, OneOwner, SessionsClosed, NEW x \in Threads,
         NEW place, NEW result, Ends(x, place, result),
         pc[x] \notin {"statement", "commit"},
         IF x \in Workers THEN place \in {"pop", "exited"} /\ connection' = connection
         ELSE place = "idle" /\ connection' = [connection EXCEPT ![x] = Nothing]
  PROVE  InPlace' /\ OneOwner' /\ SessionsClosed'
<1>1. /\ pc \in [Threads -> Places] /\ connection \in [Callers -> SyncConnections \cup {Nothing}]
      /\ operation \in [Threads -> Operations \cup {Nothing}]
      /\ queue \in Seq(Operations)
  BY DEF TypeOK, Q!QueueTypeOK
<1>2. /\ pc'[x] = place /\ operation'[x] = Nothing
      /\ \A y \in Threads : y # x => pc'[y] = pc[y] /\ operation'[y] = operation[y]
      /\ \A y \in Callers : y # x => connection'[y] = connection[y]
      /\ x \in Callers => connection'[x] = Nothing
      /\ place \in Resting
      /\ x \in Workers <=> x \notin Callers
  BY <1>1, Distinct DEF Ends, Resting, Threads
<1>3. InPlace'
  BY <1>1, <1>2, Distinct DEF InPlace, Ends, Busy, Resting, Threads
<1>4. OneOwner'
  <2>1. \A y \in Threads : Busy(y)' => y # x /\ Busy(y) /\ operation'[y] = operation[y]
                                       /\ operation[y] # operation[x]
                                       /\ operation[y] \in Operations
    BY <1>1, <1>2 DEF Busy, OneOwner
  <2>2. \A i \in 1 .. Len(queue) : queue[i] \in Operations /\ queue[i] # operation[x]
    BY <1>1, Distinct, ElementOfSeq DEF OneOwner, Busy
  <2>3. \A i \in 1 .. Len(queue) : outcome'[queue[i]] = "none"
    BY <2>2 DEF OneOwner, Ends
  <2>4. \A y \in Threads : Busy(y)' => outcome'[operation'[y]] = "none"
    BY <2>1 DEF OneOwner, Ends
  <2>5. \A v \in Workers : Busy(v)' => operation'[v] \in ToSet(issued)'
    BY <2>1 DEF OneOwner, Ends, Threads
  <2>6. \A y, z \in Threads : Busy(y)' /\ operation'[y] = operation'[z] => y = z
    BY <1>2, <2>1 DEF OneOwner, Busy
  <2>7. \A y \in Threads : Busy(y)' =>
          \A i \in 1 .. Len(queue) : queue[i] # operation'[y]
    BY <2>1 DEF OneOwner
  <2>8. queue' = queue /\ issued' = issued
    BY DEF Ends
  <2> QED
    BY <2>3, <2>4, <2>5, <2>6, <2>7, <2>8 DEF OneOwner
<1>5. SessionsClosed'
  <2>1. /\ \A y \in Threads : y # x => ConnectionOf(y)' = ConnectionOf(y)
        /\ x \in Workers => ConnectionOf(x)' = ConnectionOf(x)
        /\ x \notin Workers => ConnectionOf(x)' = Nothing
    BY <1>2 DEF ConnectionOf, Threads
  <2>2. ConnectionOf(x) # Nothing => session[ConnectionOf(x)] = Autocommit
    BY DEF SessionsClosed
  <2>3. ASSUME NEW c \in SyncConnections, \A y \in Callers : connection'[y] # c
        PROVE  session[c] = Autocommit
    <3>1. CASE x \in Callers /\ connection[x] = c
      BY <1>2, <2>2, <3>1, Distinct DEF ConnectionOf
    <3>2. CASE ~(x \in Callers /\ connection[x] = c)
      BY <1>2, <2>3, <3>2 DEF SessionsClosed
    <3> QED
      BY <3>1, <3>2
  <2>4. ASSUME NEW y \in Threads, ConnectionOf(y)' # Nothing
        PROVE  /\ pc'[y] \notin {"statement", "commit"} \/ operation'[y] \in Statements =>
                    session[ConnectionOf(y)'] = Autocommit
               /\ \A row \in session[ConnectionOf(y)'].writes : row[1] = operation'[y]
    <3>1. CASE y = x
      BY <1>2, <2>1, <2>2, <2>4, <3>1, SessionTypes
    <3>2. CASE y # x
      BY <1>2, <2>1, <2>4, <3>2 DEF SessionsClosed
    <3> QED
      BY <3>1, <3>2
  <2>5. \A c \in Connections : ~session[c].open => session[c] = Autocommit
    BY DEF SessionsClosed
  <2>6. session' = session
    BY DEF Ends
  <2> QED
    BY <2>3, <2>4, <2>5, <2>6 DEF SessionsClosed
<1> QED
  BY <1>3, <1>4, <1>5

LEMMA StopsStep ==
  ASSUME IInv, NEW w \in Workers, WorkerStops(w), Q!QueueTypeOK'
  PROVE  IInv'
<1> USE DEF queueVars, closeVars, serverVars, Goto
<1>1. TypeOK /\ InPlace /\ OneOwner /\ SessionsClosed
  BY DEF IInv
<1>2. /\ pc[w] = "check" /\ w \in Threads
      /\ Ends(w, "exited", "dropped") /\ connection' = connection
  BY <1>1 DEF WorkerStops, Ends, Threads
<1>3. InPlace' /\ OneOwner' /\ SessionsClosed'
  BY <1>1, <1>2, EndingStep
<1>4. TypeOK'
  BY <1>1, <1>2 DEF TypeOK, WorkerStops, Places
<1> QED
  BY <1>3, <1>4 DEF IInv

LEMMA StartsStep ==
  ASSUME IInv, NEW w \in Workers, WorkerStarts(w), Q!QueueTypeOK'
  PROVE  IInv'
<1> USE DEF queueVars, closeVars, serverVars, Goto
<1>1. TypeOK /\ InPlace /\ OneOwner /\ SessionsClosed
  BY DEF IInv
<1>2. /\ pc[w] = "check" /\ w \in Threads /\ Busy(w) /\ Goes(w, "begin")
      /\ pc[w] \notin Resting
  BY DEF WorkerStarts, Goes, Threads, Busy, Resting
<1>3. InPlace' /\ OneOwner'
  BY <1>1, <1>2, MovingStep
<1>4. session' = session /\ ConnectionOf(w) # Nothing
      /\ session[ConnectionOf(w)] = Autocommit
  BY <1>1, <1>2, OwnConnection, Distinct DEF WorkerStarts, SessionsClosed, Resting
<1>5. SessionsClosed'
  BY <1>1, <1>2, <1>4, SameSessionStep
<1>6. TypeOK'
  BY <1>1, <1>2 DEF TypeOK, WorkerStarts, Places
<1> QED
  BY <1>3, <1>5, <1>6 DEF IInv

LEMMA TaskStep ==
  ASSUME IInv, NEW w \in Workers, TransactionTask(w), Q!QueueTypeOK'
  PROVE  IInv'
<1> USE DEF queueVars, closeVars, serverVars, Goto
<1>1. TypeOK /\ InPlace /\ OneOwner /\ SessionsClosed
  BY DEF IInv
<1>2. /\ w \in Threads /\ pc[w] \in {"succeeded", "failed", "deadlocked", "lock"}
      /\ pc[w] \notin Resting /\ Busy(w) /\ operation[w] \in Operations
  BY <1>1, Distinct DEF TransactionTask, TaskSucceeds, TaskFails, TaskDeadlocks,
     LockDeadlock, RetryAgain, RetryFailed, RetryTimeOver, Threads, Resting, InPlace,
     TypeOK, Busy
<1>3. ConnectionOf(w) # Nothing /\ session[ConnectionOf(w)] = Autocommit
  BY <1>1, <1>2, OwnConnection, Distinct DEF SessionsClosed, Resting
<1>4. ASSUME NEW result \in {"done", "failed"}, TaskEnds(w, result)
      PROVE  IInv'
  <2>1. Ends(w, "pop", result) /\ connection' = connection
    BY <1>1, <1>4 DEF TaskEnds, Ends, TypeOK
  <2>2. InPlace' /\ OneOwner' /\ SessionsClosed'
    BY <1>1, <1>2, <2>1, EndingStep
  <2>3. TypeOK'
    BY <1>1, <1>2, <1>4 DEF TypeOK, TaskEnds, ReleaseLock, Places
  <2> QED
    BY <2>2, <2>3 DEF IInv
<1>5. ASSUME NEW place \in {"lock", "begin"}, Goes(w, place), session' = session,
             TypeOK'
      PROVE  IInv'
  <2>1. InPlace' /\ OneOwner'
    BY <1>1, <1>2, <1>5, MovingStep
  <2>2. SessionsClosed'
    BY <1>1, <1>2, <1>3, <1>5, SameSessionStep
  <2> QED
    BY <1>5, <2>1, <2>2 DEF IInv
<1>6. CASE TaskSucceeds(w) \/ TaskFails(w) \/ RetryTimeOver(w)
  BY <1>4, <1>6 DEF TaskSucceeds, TaskFails, RetryTimeOver
<1>7. CASE TaskDeadlocks(w)
  <2>1. TypeOK'
    BY <1>1, <1>7 DEF TaskDeadlocks, TypeOK, Places
  <2> QED
    BY <1>5, <1>7, <2>1 DEF TaskDeadlocks, Goes
<1>8. CASE LockDeadlock(w)
  <2>1. TypeOK'
    BY <1>1, <1>8 DEF LockDeadlock, TypeOK, Places
  <2> QED
    BY <1>5, <1>8, <2>1 DEF LockDeadlock, Goes
<1>9. CASE RetryAgain(w)
  <2>1. TypeOK'
    BY <1>1, <1>9 DEF RetryAgain, RetryFromTheStart, TypeOK, Places
  <2> QED
    BY <1>5, <1>9, <2>1 DEF RetryAgain, RetryFromTheStart, Goes
<1> QED
  BY <1>6, <1>7, <1>8, <1>9 DEF TransactionTask

LEMMA GetFreeConnectionStep ==
  ASSUME IInv, NEW x \in Callers, NEW c \in SyncConnections, NEW t \in Operations,
         GetFreeConnection(x, c, t), Q!QueueTypeOK'
  PROVE  IInv'
<1> USE DEF queueVars, closeVars, serverVars, Goto
<1>1. TypeOK /\ InPlace /\ OneOwner /\ SessionsClosed
  BY DEF IInv
<1>2. /\ pc[x] = "idle" /\ pc' = [pc EXCEPT ![x] = "begin"]
      /\ Fresh(t) /\ \A y \in Callers : connection[y] # c
      /\ connection' = [connection EXCEPT ![x] = c]
      /\ operation' = [operation EXCEPT ![x] = t]
      /\ UNCHANGED <<queueVars, closeVars, statement, _deadlockLock, serverVars,
                     outcome, issued>>
  BY DEF GetFreeConnection, LockIfReady
<1>3. /\ pc \in [Threads -> Places] /\ connection \in [Callers -> SyncConnections \cup {Nothing}]
      /\ operation \in [Threads -> Operations \cup {Nothing}]
      /\ queue \in Seq(Operations) /\ x \in Threads /\ x \notin Workers
      /\ c # Nothing /\ t # Nothing
  BY <1>1, Distinct DEF TypeOK, Q!QueueTypeOK, Threads
<1>4. /\ pc'[x] = "begin" /\ operation'[x] = t /\ connection'[x] = c
      /\ \A y \in Threads : y # x => pc'[y] = pc[y] /\ operation'[y] = operation[y]
      /\ \A y \in Callers : y # x => connection'[y] = connection[y]
  BY <1>2, <1>3
<1>5. /\ outcome[t] = "none" /\ t \notin ToSet(issued)
      /\ \A y \in Callers : operation[y] # t
  BY <1>2 DEF Fresh
<1>6. TypeOK'
  BY <1>1, <1>2, <1>3 DEF TypeOK, GetFreeConnection, DirectRetries, Places
<1>7. InPlace'
  BY <1>1, <1>2, <1>3, <1>4, Distinct DEF InPlace, Busy, Resting, Threads
<1>8. OneOwner'
  <2>1. \A y \in Threads : Busy(y) => operation[y] # t
    BY <1>1, <1>5 DEF OneOwner, Threads
  <2>2. \A i \in 1 .. Len(queue) : queue[i] # t
    BY <1>1, <1>5 DEF OneOwner
  <2>3. \A y \in Threads : Busy(y)' =>
          /\ outcome'[operation'[y]] = "none"
          /\ \A i \in 1 .. Len(queue) : queue[i] # operation'[y]
    BY <1>1, <1>2, <1>4, <1>5, <2>2 DEF OneOwner, Busy
  <2>4. \A v \in Workers : Busy(v)' => operation'[v] \in ToSet(issued)
    BY <1>1, <1>3, <1>4 DEF OneOwner, Busy, Threads
  <2>5. \A y, z \in Threads : Busy(y)' /\ operation'[y] = operation'[z] => y = z
    BY <1>1, <1>3, <1>4, <2>1 DEF OneOwner, Busy
  <2>6. queue' = queue /\ issued' = issued /\ outcome' = outcome
    BY <1>2
  <2> QED
    BY <1>1, <2>3, <2>4, <2>5, <2>6 DEF OneOwner
<1>9. SessionsClosed'
  <2>1. /\ \A y \in Threads : y # x => ConnectionOf(y)' = ConnectionOf(y)
        /\ ConnectionOf(x)' = c
    BY <1>3, <1>4 DEF ConnectionOf, Threads
  <2>2. session[c] = Autocommit /\ session' = session
    BY <1>1, <1>2 DEF SessionsClosed
  <2>3. \A d \in SyncConnections :
          (\A y \in Callers : connection'[y] # d) => session'[d] = Autocommit
    BY <1>1, <1>2, <1>3, <1>4, Distinct, <2>2 DEF SessionsClosed, InPlace
  <2>4. ASSUME NEW y \in Threads, ConnectionOf(y)' # Nothing
        PROVE  /\ pc'[y] \notin {"statement", "commit"} \/ operation'[y] \in Statements =>
                    session[ConnectionOf(y)'] = Autocommit
               /\ \A row \in session[ConnectionOf(y)'].writes : row[1] = operation'[y]
    <3>1. CASE y = x
      BY <2>1, <2>2, <3>1, SessionTypes
    <3>2. CASE y # x
      BY <1>1, <1>4, <2>1, <2>4, <3>2 DEF SessionsClosed
    <3> QED
      BY <3>1, <3>2
  <2> QED
    BY <1>1, <2>2, <2>3, <2>4 DEF SessionsClosed
<1> QED
  BY <1>6, <1>7, <1>8, <1>9 DEF IInv

LEMMA DirectStep ==
  ASSUME IInv, NEW x \in Callers, DirectCommitTransaction(x), Q!QueueTypeOK'
  PROVE  IInv'
<1> USE DEF queueVars, closeVars, serverVars, Goto
<1>1. TypeOK /\ InPlace /\ OneOwner /\ SessionsClosed
  BY DEF IInv
<1>2. /\ x \in Threads /\ pc[x] \in {"succeeded", "failed", "deadlocked"}
      /\ x \notin Workers /\ pc[x] \notin Resting /\ Busy(x)
  BY <1>1, Distinct DEF DirectCommitTransaction, DirectSucceeds, DirectRetriesOnce,
     DirectRetry, DirectFails, Threads, Resting, InPlace
<1>3. ConnectionOf(x) # Nothing /\ session[ConnectionOf(x)] = Autocommit
  BY <1>1, <1>2, OwnConnection, Distinct DEF SessionsClosed, Resting
<1>4. ASSUME NEW result \in {"done", "failed"}, DirectEnds(x, result)
      PROVE  IInv'
  <2>1. Ends(x, "idle", result) /\ connection' = [connection EXCEPT ![x] = Nothing]
    BY <1>1, <1>4 DEF DirectEnds, Ends, TypeOK
  <2>2. InPlace' /\ OneOwner' /\ SessionsClosed'
    BY <1>1, <1>2, <2>1, EndingStep
  <2>3. TypeOK'
    BY <1>1, <1>2, <1>4 DEF TypeOK, DirectEnds, Places
  <2> QED
    BY <2>2, <2>3 DEF IInv
<1>5. CASE DirectRetriesOnce(x)
  <2>1. retries' \in [Callers -> 0..DirectRetries]
    BY <1>1, <1>5 DEF DirectRetriesOnce, DirectRetry, TypeOK, DirectRetries
  <2>2. TypeOK'
    BY <1>1, <1>5, <2>1 DEF DirectRetriesOnce, TypeOK, Places
  <2>3. Goes(x, "begin") /\ session' = session
    BY <1>5 DEF DirectRetriesOnce, Goes
  <2>4. InPlace' /\ OneOwner'
    BY <1>1, <1>2, <2>3, MovingStep
  <2>5. SessionsClosed'
    BY <1>1, <1>2, <1>3, <2>3, SameSessionStep
  <2> QED
    BY <2>2, <2>4, <2>5 DEF IInv
<1> QED
  BY <1>4, <1>5 DEF DirectCommitTransaction, DirectSucceeds, DirectFails

-----------------------------------------------------------------------------
(* An answer that is lost changes nothing but what is stored.              *)
LEMMA LoseAnswerStep ==
  ASSUME IInv, NEW x \in Threads, LoseAnswer(x)
  PROVE  IInv'
<1> USE DEF queueVars, closeVars, threadVars
<1>1. TypeOK /\ InPlace /\ OneOwner /\ SessionsClosed
  BY DEF IInv
<1>2. operation[x] \in Operations /\ statement[x] \in Nat
  BY <1>1, Distinct DEF LoseAnswer, TypeOK, InPlace, Resting, Busy
<1>3. TypeOK'
  BY <1>1, <1>2 DEF LoseAnswer, TypeOK, Q!QueueTypeOK
<1>4. InPlace' /\ OneOwner' /\ SessionsClosed'
  BY <1>1 DEF LoseAnswer, InPlace, OneOwner, SessionsClosed, Busy, ConnectionOf
<1> QED
  BY <1>3, <1>4 DEF IInv

LEMMA NextIInv == IInv /\ [Next]_vars => IInv'
<1> SUFFICES ASSUME IInv, [Next]_vars PROVE IInv'
  OBVIOUS
<1> USE DEF vars, queueVars, closeVars, threadVars, serverVars
<1>1. CASE UNCHANGED vars
  BY <1>1, QuietStep DEF IInv, TypeOK, Q!QueueTypeOK
<1>2. CASE Next
  <2>1. Q!QueueTypeOK'
    BY <1>2, TypeQueue DEF IInv
  <2>2. ASSUME NEW t \in Operations, Enqueue(t)
        PROVE  IInv'
    BY <2>1, <2>2, EnqueueStep
  <2>3. ASSUME NEW x \in Callers, NEW c \in SyncConnections, NEW t \in Operations,
               GetFreeConnection(x, c, t)
        PROVE  IInv'
    BY <2>1, <2>3, GetFreeConnectionStep
  <2>4. ASSUME NEW x \in Callers, Caller(x)
        PROVE  IInv'
    BY <2>1, <2>4, ExecuteStep, DirectStep DEF Caller, Threads
  <2>5. ASSUME NEW w \in Workers, Worker(w) \/ SpuriousWakeup(w)
        PROVE  IInv'
    <3>1. CASE WorkerWaits(w) \/ SpuriousWakeup(w)
      <4>1. UNCHANGED <<operation, outcome, issued, connection, queue>>
        BY <3>1 DEF WorkerWaits, SpuriousWakeup, Q!Wait, Q!SpuriousWakeup
      <4> QED
        BY <2>1, <3>1, <4>1, QuietStep
    <3>2. CASE WorkerPops(w) \/ WorkerStops(w) \/ WorkerStarts(w)
      BY <2>1, <3>2, PopStep, StopsStep, StartsStep
    <3>3. CASE ExecuteTransaction(w) \/ TransactionTask(w)
      BY <2>1, <3>3, ExecuteStep, TaskStep DEF Threads
    <3> QED
      BY <2>5, <3>1, <3>2, <3>3 DEF Worker
  <2>6. ASSUME NEW c \in Connections, LoseConnection(c)
        PROVE  IInv'
    <3>1. UNCHANGED <<operation, outcome, issued, connection, queue>>
      BY <2>6 DEF LoseConnection
    <3> QED
      BY <2>1, <2>6, <3>1, QuietStep
  <2>7. ASSUME NEW x \in Threads, LoseAnswer(x)
        PROVE  IInv'
    BY <2>1, <2>7, LoseAnswerStep
  <2>8. CASE Close \/ OpenOrClose \/ Ended
    <3>1. CASE CancelQueue
      BY <2>1, <3>1, CancelQueueStep
    <3>2. ASSUME NEW w \in Workers, OpenConnection(w) \/ CancelWorker(w)
          PROVE  IInv'
      <4>1. UNCHANGED <<operation, outcome, issued, connection, queue>>
        BY <3>2 DEF OpenConnection, CancelWorker
      <4> QED
        BY <2>1, <3>2, <4>1, QuietStep
    <3>3. CASE Close \/ ConnectionsOpen \/ Join \/ Closed \/ CreateDatabase \/ Ended
      <4>1. UNCHANGED <<operation, outcome, issued, connection, queue>>
        BY <3>3 DEF Close, ConnectionsOpen, Join, Closed, CreateDatabase, Ended
      <4> QED
        BY <2>1, <3>3, <4>1, QuietStep DEF Ended
    <3> QED
      BY <2>8, <3>1, <3>2, <3>3 DEF OpenOrClose
  <2> QED
    BY <1>2, <2>2, <2>3, <2>4, <2>5, <2>6, <2>7, <2>8 DEF Next
<1> QED
  BY <1>1, <1>2

LEMMA Invariance == Spec => []IInv
BY InitIInv, NextIInv, PTL DEF Spec

(* The pool, its threads and the server keep their types.                  *)
THEOREM TypeCorrect == Spec => []TypeOK
<1>1. IInv => TypeOK
  BY DEF IInv
<1> QED
  BY <1>1, Invariance, PTL

(* Whatever the threads do and whichever connections are lost, a session   *)
(* of the server only ever holds what its own thread is executing.         *)
THEOREM SessionsAreNotMixed == Spec => []SessionsNotMixed
<1>1. IInv => SessionsNotMixed
  BY DEF IInv, SessionsClosed, SessionsNotMixed
<1> QED
  BY <1>1, Invariance, PTL

-----------------------------------------------------------------------------
(* What is stored, while no connection is lost *)

LEMMA Rows ==
  /\ \A t, u \in Operations : t # u => RowsOf(t) \cap RowsOf(u) = {}
  /\ \A s \in Statements : RowsOf(s) = {<<s, 1>>}
BY Distinct DEF RowsOf, Operations

(* An operation in a thread has succeeded if the thread is there.          *)
LEMMA OwnerSucceeded ==
  ASSUME IInv, NEW x \in Threads, Busy(x)
  PROVE  /\ operation[x] \in Operations
         /\ Succeeded(operation[x]) <=> pc[x] = "succeeded"
         /\ outcome[operation[x]] = "none"
<1>1. TypeOK /\ OneOwner
  BY DEF IInv
<1> QED
  BY <1>1 DEF TypeOK, OneOwner, Busy, Succeeded

LEMMA InitSInv == Init => SInv
<1> SUFFICES ASSUME Init PROVE SInv
  OBVIOUS
<1>1. Written
  BY Distinct DEF Init, Written, WrittenBy, Threads
<1>2. StoredWhole
  BY Distinct DEF Init, StoredWhole, Succeeded, Threads
<1> QED
  BY <1>1, <1>2, InitIInv DEF SInv

(* No session changes, and no thread enters a transaction.                 *)
LEMMA WrittenKept ==
  ASSUME Written, session' = session,
         \A x \in Threads : pc'[x] \in {"statement", "commit"} =>
           /\ pc'[x] = pc[x] /\ operation'[x] = operation[x]
           /\ statement'[x] = statement[x] /\ ConnectionOf(x)' = ConnectionOf(x)
  PROVE  Written'
BY DEF Written, WrittenBy

(* A thread moves on in its session: what the others wrote stays.          *)
LEMMA WrittenByOthers ==
  ASSUME IInv, Written, NEW x \in Threads, pc[x] # "idle",
         \A c \in Connections : c # ConnectionOf(x) => session'[c] = session[c],
         operation' = operation, connection' = connection,
         \A y \in Threads : y # x => pc'[y] = pc[y] /\ statement'[y] = statement[y],
         WrittenBy(x)'
  PROVE  Written'
<1>1. TypeOK /\ InPlace
  BY DEF IInv
<1>2. \A y \in Threads : ConnectionOf(y)' = ConnectionOf(y)
  BY DEF ConnectionOf
<1> SUFFICES ASSUME NEW y \in Threads, ConnectionOf(y) # Nothing, y # x
             PROVE  WrittenBy(y)'
  BY <1>2 DEF Written
<1>3. ConnectionOf(y) \in Connections /\ ConnectionOf(y) # ConnectionOf(x)
  BY <1>1, OwnConnection
<1>4. session'[ConnectionOf(y)] = session[ConnectionOf(y)]
  BY <1>3
<1>5. WrittenBy(y)
  BY DEF Written
<1> QED
  BY <1>2, <1>4, <1>5 DEF WrittenBy

(* Nothing is stored, and nothing succeeds: the store does not move.       *)
LEMMA StoreStutters ==
  ASSUME StoredWhole, stored' = stored, outcome' = outcome,
         \A x \in Threads : \/ pc'[x] = pc[x] /\ operation'[x] = operation[x]
                            \/ pc'[x] # "succeeded" /\ pc[x] # "succeeded"
  PROVE  StoredWhole' /\ [Store!Next]_<<stored, outcome>>
<1>1. \A t \in Operations : Succeeded(t)' <=> Succeeded(t)
  BY DEF Succeeded
<1> QED
  BY <1>1 DEF StoredWhole

(* An operation a thread executes is stored as a whole.                    *)
LEMMA StoreStores ==
  ASSUME IInv, StoredWhole, NEW x \in Threads, Busy(x), pc[x] # "succeeded",
         pc' = [pc EXCEPT ![x] = "succeeded"], operation' = operation,
         outcome' = outcome, stored' = stored \cup RowsOf(operation[x])
  PROVE  StoredWhole' /\ Store!Next
<1> DEFINE t == operation[x]
<1>1. t \in Operations /\ ~Succeeded(t) /\ outcome[t] = "none"
  BY OwnerSucceeded
<1>2. RowsOf(t) \cap stored = {}
  BY <1>1 DEF StoredWhole
<1>3. Store!Store(t)
  BY <1>1, <1>2 DEF Store!Store
<1>4. pc \in [Threads -> Places]
  BY DEF IInv, TypeOK
<1>5. Succeeded(t)'
  BY <1>4 DEF Succeeded
<1>6. \A u \in Operations : u # t => (Succeeded(u)' <=> Succeeded(u))
  BY <1>4 DEF Succeeded
<1>7. StoredWhole'
  <2> SUFFICES ASSUME NEW u \in Operations
               PROVE  /\ Succeeded(u)' => RowsOf(u) \subseteq stored'
                      /\ ~Succeeded(u)' => RowsOf(u) \cap stored' = {}
    BY DEF StoredWhole
  <2>1. CASE u = t
    BY <1>5, <2>1
  <2>2. CASE u # t
    <3>1. RowsOf(u) \cap RowsOf(t) = {}
      BY <1>1, <2>2, Rows
    <3> QED
      BY <1>6, <2>2, <3>1 DEF StoredWhole
  <2> QED
    BY <2>1, <2>2
<1> QED
  BY <1>1, <1>3, <1>7 DEF Store!Next

(* A thread gives the operation it executed its outcome.                   *)
LEMMA StoreEnds ==
  ASSUME IInv, StoredWhole, NEW x \in Threads, Busy(x), NEW place \in Resting,
         NEW result, result = (IF pc[x] = "succeeded" THEN "done" ELSE "failed"),
         pc' = [pc EXCEPT ![x] = place],
         operation' = [operation EXCEPT ![x] = Nothing],
         outcome' = [outcome EXCEPT ![operation[x]] = result], stored' = stored
  PROVE  StoredWhole' /\ Store!Next
<1>1. operation[x] \in Operations
  BY OwnerSucceeded
<1>2. PICK t \in Operations : t = operation[x]
  BY <1>1
<1>3. outcome[t] = "none" /\ (Succeeded(t) <=> pc[x] = "succeeded")
  BY <1>2, OwnerSucceeded
<1>4. Store!Succeed(t) \/ Store!Fail(t)
  BY <1>2, <1>3 DEF StoredWhole, Store!Succeed, Store!Fail
<1>5. /\ pc \in [Threads -> Places] /\ operation \in [Threads -> Operations \cup {Nothing}]
      /\ outcome \in [Operations -> {"none", "done", "failed", "dropped"}]
      /\ place # "succeeded"
  BY DEF IInv, TypeOK, Resting
<1>6. Succeeded(t)' <=> Succeeded(t)
  <2>1. \A y \in Threads : y # x => operation[y] # t
    BY <1>2 DEF IInv, OneOwner, Busy
  <2>2. operation'[x] = Nothing /\ \A y \in Threads : y # x => operation'[y] = operation[y]
    BY <1>5
  <2>3. \A y \in Threads : operation'[y] # t
    BY <1>2, <2>1, <2>2, Distinct
  <2>4. outcome'[t] = result
    BY <1>2, <1>5
  <2> QED
    BY <1>3, <2>3, <2>4 DEF Succeeded
<1>7. \A u \in Operations : u # t => (Succeeded(u)' <=> Succeeded(u))
  <2> TAKE u \in Operations
  <2> SUFFICES ASSUME u # t PROVE Succeeded(u)' <=> Succeeded(u)
    OBVIOUS
  <2>1. outcome'[u] = outcome[u]
    BY <1>2, <1>5
  <2>2. \A y \in Threads : operation'[y] = u /\ pc'[y] = "succeeded"
                             <=> operation[y] = u /\ pc[y] = "succeeded"
    BY <1>2, <1>5, Distinct
  <2> QED
    BY <2>1, <2>2 DEF Succeeded
<1>8. StoredWhole'
  <2> SUFFICES ASSUME NEW u \in Operations
               PROVE  Succeeded(u)' <=> Succeeded(u)
    BY DEF StoredWhole
  <2> QED
    BY <1>6, <1>7
<1> QED
  BY <1>4, <1>8 DEF Store!Next

(* Operations that no thread has executed are thrown away.                 *)
LEMMA StoreDrops ==
  ASSUME IInv, StoredWhole, NEW T \in SUBSET Operations,
         \A t \in T : outcome[t] = "none" /\ ~Succeeded(t),
         outcome' = [t \in Operations |-> IF t \in T THEN "dropped" ELSE outcome[t]],
         stored' = stored,
         \A x \in Threads : \/ pc'[x] = pc[x] /\ operation'[x] = operation[x]
                            \/ pc'[x] # "succeeded" /\ pc[x] # "succeeded"
  PROVE  StoredWhole' /\ Store!Next
<1>1. \A t \in Operations : Succeeded(t)' <=> Succeeded(t)
  <2> TAKE t \in Operations
  <2>1. outcome'[t] = IF t \in T THEN "dropped" ELSE outcome[t]
    OBVIOUS
  <2>2. outcome'[t] = "done" <=> outcome[t] = "done"
    BY <2>1
  <2> QED
    BY <2>2 DEF Succeeded
<1>2. Store!Drop(T)
  BY DEF Store!Drop, StoredWhole
<1>3. StoredWhole'
  BY <1>1 DEF StoredWhole
<1> QED
  BY <1>2, <1>3 DEF Store!Next

(* A step that neither writes nor ends anything.                           *)
LEMMA StillStep ==
  ASSUME Written, StoredWhole, session' = session, stored' = stored,
         outcome' = outcome,
         \A x \in Threads :
           \/ /\ pc'[x] = pc[x] /\ operation'[x] = operation[x]
              /\ statement'[x] = statement[x] /\ ConnectionOf(x)' = ConnectionOf(x)
           \/ pc'[x] \notin {"statement", "commit", "succeeded"} /\ pc[x] # "succeeded"
  PROVE  Written' /\ StoredWhole' /\ [Store!Next]_<<stored, outcome>>
<1>1. Written'
  BY WrittenKept
<1>2. \A x \in Threads : \/ pc'[x] = pc[x] /\ operation'[x] = operation[x]
                         \/ pc'[x] # "succeeded" /\ pc[x] # "succeeded"
  OBVIOUS
<1>3. StoredWhole' /\ [Store!Next]_<<stored, outcome>>
  BY <1>2, StoreStutters
<1> QED
  BY <1>1, <1>3

LEMMA OpenSession ==
  ASSUME NEW old \in Session, old.open, NEW row \in Operations \X Nat
  PROVE  [old EXCEPT !.writes = old.writes \cup {row}]
           = [open |-> TRUE, writes |-> old.writes \cup {row}]
<1> DEFINE new == [old EXCEPT !.writes = old.writes \cup {row}]
<1>1. new \in Session /\ old \in [open : BOOLEAN, writes : SUBSET (Operations \X Nat)]
  BY SessionTypes DEF Session
<1>2. new.open = old.open /\ new.writes = old.writes \cup {row}
  BY <1>1
<1> HIDE DEF new
<1>3. new = [open |-> new.open, writes |-> new.writes]
  BY <1>1 DEF Session
<1>4. old.open = TRUE
  BY <1>1
<1>5. new = [open |-> TRUE, writes |-> old.writes \cup {row}]
  BY <1>2, <1>3, <1>4
<1> QED
  BY <1>5 DEF new

(* A thread executes its operation: nothing is stored before the COMMIT,   *)
(* or before the statement of an operation that is only one.               *)
LEMMA ExecuteStores ==
  ASSUME IInv, Written, StoredWhole, NEW x \in Threads, ExecuteTransaction(x)
  PROVE  Written' /\ StoredWhole' /\ [Store!Next]_<<stored, outcome>>
<1>1. TypeOK /\ InPlace /\ SessionsClosed
  BY DEF IInv
<1>2. pc[x] \in {"begin", "statement", "commit"}
  BY DEF ExecuteTransaction, BeginTransaction, BeginStatement, BeginEmpty,
         Execute, ExecuteFails, CommitTransaction
<1>3. Busy(x) /\ operation[x] \in Operations /\ pc[x] # "idle"
  BY <1>1, <1>2 DEF TypeOK, InPlace, Resting, Busy
<1>4. PICK t \in Operations : t = operation[x]
  BY <1>3
<1>5. ConnectionOf(x) \in Connections
  BY <1>1, <1>3, OwnConnection
<1>6. PICK c \in Connections : c = ConnectionOf(x)
  BY <1>5
<1>7. PICK k \in Nat : k = statement[x]
  BY <1>1 DEF TypeOK
<1>8. /\ c # Nothing /\ session \in [Connections -> Session] /\ session[c] \in Session
      /\ pc \in [Threads -> Places] /\ statement \in [Threads -> Nat]
  BY <1>1, Distinct DEF TypeOK
<1>9. WrittenBy(x)
  BY <1>6, <1>8 DEF Written
<1>10. UNCHANGED <<operation, connection, outcome>>
  BY DEF ExecuteTransaction, BeginTransaction, BeginStatement, BeginEmpty,
         Execute, ExecuteFails, CommitTransaction
<1>11. ConnectionOf(x)' = c /\ operation'[x] = t
  BY <1>4, <1>6, <1>10 DEF ConnectionOf
<1>12. \A y \in Threads : y # x => pc'[y] = pc[y] /\ statement'[y] = statement[y]
  BY <1>8 DEF ExecuteTransaction, BeginTransaction, BeginStatement, BeginEmpty,
              Execute, ExecuteFails, CommitTransaction, Goto
<1>13. \A d \in Connections : d # ConnectionOf(x) => session'[d] = session[d]
  BY <1>8 DEF ExecuteTransaction, BeginTransaction, BeginStatement, BeginEmpty,
              Execute, Write, ExecuteFails, RollbackTransaction, CommitTransaction,
              serverVars
<1>14. ASSUME WrittenBy(x)' PROVE Written'
  BY <1>3, <1>10, <1>12, <1>13, <1>14, WrittenByOthers
<1>15. ASSUME stored' = stored, pc'[x] # "succeeded"
       PROVE  StoredWhole' /\ [Store!Next]_<<stored, outcome>>
  <2>1. \A y \in Threads : \/ pc'[y] = pc[y] /\ operation'[y] = operation[y]
                           \/ pc'[y] # "succeeded" /\ pc[y] # "succeeded"
    BY <1>2, <1>10, <1>12, <1>15
  <2> QED
    BY <1>10, <1>15, <2>1, StoreStutters
<1>16. ASSUME pc' = [pc EXCEPT ![x] = "succeeded"], stored' = stored \cup RowsOf(t)
       PROVE  StoredWhole' /\ [Store!Next]_<<stored, outcome>>
  BY <1>2, <1>3, <1>4, <1>10, <1>16, StoreStores
<1>17. CASE BeginTransaction(x)
  <2>1. session[c] = Autocommit
    BY <1>1, <1>6, <1>8, <1>17 DEF SessionsClosed, BeginTransaction
  <2>2. stored' = stored /\ pc'[x] = "statement" /\ statement'[x] = 1
    BY <1>6, <1>8, <1>17, <2>1, SessionTypes DEF BeginTransaction, Goto
  <2>3. session'[c] = [open |-> TRUE, writes |-> {t} \X (1 .. 0)]
    <3>1. session'[c] = Opened
      BY <1>6, <1>8, <1>17 DEF BeginTransaction
    <3>2. {t} \X (1 .. 0) = {}
      <4>1. 1 .. 0 = {}
        OBVIOUS
      <4> QED
        BY <4>1
    <3> QED
      BY <3>1, <3>2 DEF Opened
  <2>4. Size[t] \in Nat /\ Size[t] > 0 /\ t \in Transactions /\ t \notin Statements
    BY <1>4, <1>17, Distinct DEF BeginTransaction
  <2>5. WrittenBy(x)'
    BY <1>11, <2>2, <2>3, <2>4 DEF WrittenBy
  <2> QED
    BY <1>14, <1>15, <2>2, <2>5
<1>18. CASE BeginStatement(x)
  <2>1. session[c] = Autocommit /\ session' = session
    BY <1>1, <1>6, <1>8, <1>18 DEF SessionsClosed, BeginStatement, serverVars
  <2>2. /\ stored' = stored /\ pc'[x] = "statement" /\ statement'[x] = 1
        /\ t \notin Transactions
    BY <1>4, <1>8, <1>18, Distinct DEF BeginStatement, Goto, serverVars
  <2>3. WrittenBy(x)'
    BY <1>11, <2>1, <2>2 DEF WrittenBy
  <2> QED
    BY <1>14, <1>15, <2>2, <2>3
<1>19. CASE BeginEmpty(x)
  <2>1. stored' = stored /\ pc'[x] = "failed"
    BY <1>8, <1>19 DEF BeginEmpty, Goto, serverVars
  <2>2. WrittenBy(x)'
    BY <2>1 DEF WrittenBy
  <2> QED
    BY <1>14, <1>15, <2>1, <2>2
<1>20. CASE ExecuteFails(x)
  <2>1. stored' = stored /\ pc'[x] \in {"failed", "deadlocked"}
    BY <1>8, <1>20 DEF ExecuteFails, Goto
  <2>2. WrittenBy(x)'
    BY <2>1 DEF WrittenBy
  <2> QED
    BY <1>14, <1>15, <2>1, <2>2
<1>21. CASE CommitTransaction(x)
  <2>1. session[c].writes = RowsOf(t)
    BY <1>4, <1>6, <1>9, <1>21 DEF WrittenBy, CommitTransaction
  <2>2. stored' = stored \cup RowsOf(t) /\ pc' = [pc EXCEPT ![x] = "succeeded"]
    BY <1>6, <1>21, <2>1 DEF CommitTransaction, Goto
  <2>3. WrittenBy(x)'
    BY <1>8, <2>2 DEF WrittenBy
  <2> QED
    BY <1>14, <1>16, <2>2, <2>3
<1>22. CASE Execute(x) /\ t \in Transactions
  <2>1. /\ k \in 1 .. Size[t] /\ Size[t] \in Nat /\ t \notin Statements
        /\ session[c] = [open |-> TRUE, writes |-> {t} \X (1 .. k - 1)]
    BY <1>4, <1>6, <1>7, <1>9, <1>22, Distinct DEF WrittenBy, Execute
  <2>2. /\ session'[c] = [open |-> TRUE,
                           writes |-> ({t} \X (1 .. k - 1)) \cup {<<t, k>>}]
        /\ stored' = stored
    <3>1. Write(c, <<t, k>>)
      BY <1>4, <1>6, <1>7, <1>22 DEF Execute
    <3>2. session[c].open /\ session[c].writes = {t} \X (1 .. k - 1)
      BY <2>1
    <3>3. stored' = stored /\ session' = [session EXCEPT ![c].writes = @ \cup {<<t, k>>}]
      BY <3>1, <3>2 DEF Write
    <3>4. session'[c] = [session[c] EXCEPT !.writes = session[c].writes \cup {<<t, k>>}]
      BY <1>8, <3>3
    <3>5. [session[c] EXCEPT !.writes = session[c].writes \cup {<<t, k>>}]
            = [open |-> TRUE, writes |-> session[c].writes \cup {<<t, k>>}]
      BY <1>8, <3>2, OpenSession
    <3> QED
      BY <3>2, <3>3, <3>4, <3>5
  <2>3. ({t} \X (1 .. k - 1)) \cup {<<t, k>>} = {t} \X (1 .. k)
    <3>1. 1 .. k = (1 .. k - 1) \cup {k}
      BY <1>7, <2>1
    <3> QED
      BY <3>1
  <2>4. session'[c] = [open |-> TRUE, writes |-> {t} \X (1 .. k)]
    BY <2>2, <2>3
  <2>5. CASE k = Size[t]
    <3>1. pc'[x] = "commit"
      BY <1>4, <1>7, <1>8, <1>22, <2>5 DEF Execute, Goto
    <3>2. session'[c] = [open |-> TRUE, writes |-> RowsOf(t)]
      BY <2>4, <2>5 DEF RowsOf
    <3>3. WrittenBy(x)'
      BY <1>11, <3>1, <3>2 DEF WrittenBy
    <3> QED
      BY <1>14, <1>15, <2>2, <3>1, <3>3
  <2>6. CASE k # Size[t]
    <3>1. pc'[x] = "statement" /\ statement'[x] = k + 1
      BY <1>4, <1>7, <1>8, <1>22, <2>6 DEF Execute
    <3>2. k + 1 \in 1 .. Size[t] /\ 1 .. k = 1 .. (k + 1) - 1
      BY <1>7, <2>1, <2>6
    <3>3. WrittenBy(x)'
      BY <1>11, <2>1, <2>4, <3>1, <3>2 DEF WrittenBy
    <3> QED
      BY <1>14, <1>15, <2>2, <3>1, <3>3
  <2> QED
    BY <2>5, <2>6
<1>23. CASE Execute(x) /\ t \in Statements
  <2>1. /\ k = 1 /\ Size[t] = 1 /\ t \notin Transactions
        /\ session[c] = Autocommit
    BY <1>4, <1>6, <1>7, <1>9, <1>23, Distinct DEF WrittenBy, Execute
  <2>2. stored' = stored \cup {<<t, 1>>}
    BY <1>4, <1>6, <1>7, <1>23, <2>1, SessionTypes DEF Execute, Write
  <2>3. pc' = [pc EXCEPT ![x] = "succeeded"]
    BY <1>4, <1>7, <1>23, <2>1 DEF Execute, Goto
  <2>4. stored' = stored \cup RowsOf(t)
    BY <1>23, <2>2, Rows
  <2>5. WrittenBy(x)'
    BY <1>8, <2>3 DEF WrittenBy
  <2> QED
    BY <1>14, <1>16, <2>3, <2>4, <2>5
<1> QED
  BY <1>4, <1>17, <1>18, <1>19, <1>20, <1>21, <1>22, <1>23
     DEF ExecuteTransaction, Operations

(* A worker or a caller is done with its operation, or tries again.        *)
LEMMA TaskStores ==
  ASSUME IInv, Written, StoredWhole, NEW w \in Workers, TransactionTask(w)
  PROVE  Written' /\ StoredWhole' /\ [Store!Next]_<<stored, outcome>>
<1> USE DEF queueVars, closeVars, serverVars, Goto
<1>1. w \in Threads /\ pc \in [Threads -> Places]
  BY DEF IInv, TypeOK, Threads
<1>2. pc[w] \in {"succeeded", "failed", "deadlocked", "lock"} /\ Busy(w)
  BY <1>1 DEF TransactionTask, TaskSucceeds, TaskFails, TaskDeadlocks, LockDeadlock,
              RetryAgain, RetryTimeOver, RetryFailed, IInv, InPlace, Resting
<1>3. ASSUME NEW result, TaskEnds(w, result),
             result = (IF pc[w] = "succeeded" THEN "done" ELSE "failed")
      PROVE  Written' /\ StoredWhole' /\ [Store!Next]_<<stored, outcome>>
  <2>1. /\ pc' = [pc EXCEPT ![w] = "pop"] /\ "pop" \in Resting
        /\ operation' = [operation EXCEPT ![w] = Nothing]
        /\ outcome' = [outcome EXCEPT ![operation[w]] = result]
        /\ UNCHANGED <<stored, session, statement, connection>>
    BY <1>3 DEF TaskEnds, Resting
  <2>2. \A x \in Threads : pc'[x] \in {"statement", "commit"} =>
          /\ pc'[x] = pc[x] /\ operation'[x] = operation[x]
          /\ statement'[x] = statement[x] /\ ConnectionOf(x)' = ConnectionOf(x)
    BY <1>1, <2>1 DEF ConnectionOf, IInv, TypeOK
  <2>3. Written'
    BY <2>1, <2>2, WrittenKept
  <2>4. StoredWhole' /\ Store!Next
    BY <1>1, <1>2, <1>3, <2>1, StoreEnds
  <2> QED
    BY <2>3, <2>4
<1>4. CASE TaskSucceeds(w)
  BY <1>3, <1>4 DEF TaskSucceeds
<1>5. CASE TaskFails(w) \/ RetryTimeOver(w)
  BY <1>3, <1>5 DEF TaskFails, RetryTimeOver, RetryFailed
<1>6. CASE TaskDeadlocks(w) \/ LockDeadlock(w) \/ RetryAgain(w)
  <2>1. /\ UNCHANGED <<session, stored, outcome, operation, statement, connection>>
        /\ \E place \in {"lock", "begin"} : pc' = [pc EXCEPT ![w] = place]
        /\ pc[w] # "succeeded"
    BY <1>6 DEF TaskDeadlocks, LockDeadlock, RetryAgain, RetryFromTheStart, RetryFailed
  <2>2. \A x \in Threads :
          \/ /\ pc'[x] = pc[x] /\ operation'[x] = operation[x]
             /\ statement'[x] = statement[x] /\ ConnectionOf(x)' = ConnectionOf(x)
          \/ pc'[x] \notin {"statement", "commit", "succeeded"} /\ pc[x] # "succeeded"
    BY <1>1, <2>1 DEF ConnectionOf
  <2> QED
    BY <2>1, <2>2, StillStep
<1> QED
  BY <1>4, <1>5, <1>6 DEF TransactionTask

LEMMA DirectStores ==
  ASSUME IInv, Written, StoredWhole, NEW x \in Callers, DirectCommitTransaction(x)
  PROVE  Written' /\ StoredWhole' /\ [Store!Next]_<<stored, outcome>>
<1> USE DEF queueVars, closeVars, serverVars, Goto
<1>1. x \in Threads /\ pc \in [Threads -> Places] /\ x \notin Workers
  BY Distinct DEF IInv, TypeOK, Threads
<1>2. pc[x] \in {"succeeded", "failed", "deadlocked"} /\ Busy(x)
  BY <1>1 DEF DirectCommitTransaction, DirectSucceeds, DirectRetriesOnce, DirectFails,
              DirectRetry, IInv, InPlace, Resting
<1>3. ASSUME NEW result, DirectEnds(x, result),
             result = (IF pc[x] = "succeeded" THEN "done" ELSE "failed")
      PROVE  Written' /\ StoredWhole' /\ [Store!Next]_<<stored, outcome>>
  <2>1. /\ pc' = [pc EXCEPT ![x] = "idle"] /\ "idle" \in Resting
        /\ operation' = [operation EXCEPT ![x] = Nothing]
        /\ connection' = [connection EXCEPT ![x] = Nothing]
        /\ outcome' = [outcome EXCEPT ![operation[x]] = result]
        /\ UNCHANGED <<stored, session, statement>>
    BY <1>3 DEF DirectEnds, Resting
  <2>2. \A y \in Threads : pc'[y] \in {"statement", "commit"} =>
          /\ pc'[y] = pc[y] /\ operation'[y] = operation[y]
          /\ statement'[y] = statement[y] /\ ConnectionOf(y)' = ConnectionOf(y)
    <3> SUFFICES ASSUME NEW y \in Threads, y # x
                 PROVE  /\ pc'[y] = pc[y] /\ operation'[y] = operation[y]
                        /\ ConnectionOf(y)' = ConnectionOf(y)
      BY <1>1, <2>1
    <3> QED
      BY <1>1, <2>1 DEF ConnectionOf, IInv, TypeOK, Threads
  <2>3. Written'
    BY <2>1, <2>2, WrittenKept
  <2>4. StoredWhole' /\ Store!Next
    BY <1>1, <1>2, <1>3, <2>1, StoreEnds
  <2> QED
    BY <2>3, <2>4
<1>4. CASE DirectSucceeds(x)
  BY <1>3, <1>4 DEF DirectSucceeds
<1>5. CASE DirectFails(x)
  BY <1>3, <1>5 DEF DirectFails
<1>6. CASE DirectRetriesOnce(x)
  <2>1. /\ UNCHANGED <<session, stored, outcome, operation, statement, connection>>
        /\ pc' = [pc EXCEPT ![x] = "begin"] /\ pc[x] # "succeeded"
    BY <1>6 DEF DirectRetriesOnce, DirectRetry
  <2>2. \A y \in Threads :
          \/ /\ pc'[y] = pc[y] /\ operation'[y] = operation[y]
             /\ statement'[y] = statement[y] /\ ConnectionOf(y)' = ConnectionOf(y)
          \/ pc'[y] \notin {"statement", "commit", "succeeded"} /\ pc[y] # "succeeded"
    BY <1>1, <2>1 DEF ConnectionOf
  <2> QED
    BY <2>1, <2>2, StillStep
<1> QED
  BY <1>4, <1>5, <1>6 DEF DirectCommitTransaction

(* What is popped or thrown away by a worker, or by the one who closes.    *)
LEMMA WorkerStores ==
  ASSUME IInv, Written, StoredWhole, NEW w \in Workers,
         WorkerPops(w) \/ WorkerStarts(w) \/ WorkerStops(w)
  PROVE  Written' /\ StoredWhole' /\ [Store!Next]_<<stored, outcome>>
<1> USE DEF queueVars, closeVars, serverVars, Goto
<1>1. w \in Threads /\ pc \in [Threads -> Places] /\ operation \in [Threads -> Operations \cup {Nothing}]
  BY DEF IInv, TypeOK, Threads
<1>2. /\ UNCHANGED <<session, stored, statement, connection>>
      /\ \E place \in {"check", "begin", "exited"} : pc' = [pc EXCEPT ![w] = place]
      /\ pc[w] \in {"pop", "check"}
      /\ \A x \in Threads : x # w => operation'[x] = operation[x]
  BY <1>1 DEF WorkerPops, WorkerStarts, WorkerStops
<1>3. \A x \in Threads :
        \/ /\ pc'[x] = pc[x] /\ operation'[x] = operation[x]
           /\ statement'[x] = statement[x] /\ ConnectionOf(x)' = ConnectionOf(x)
        \/ pc'[x] \notin {"statement", "commit", "succeeded"} /\ pc[x] # "succeeded"
  BY <1>1, <1>2 DEF ConnectionOf
<1>4. CASE WorkerPops(w) \/ WorkerStarts(w)
  <2>1. outcome' = outcome
    BY <1>4 DEF WorkerPops, WorkerStarts
  <2> QED
    BY <1>2, <1>3, <2>1, StillStep
<1>5. CASE WorkerStops(w)
  <2> DEFINE T == {operation[w]} \cap Operations
  <2>1. \A t \in T : outcome[t] = "none" /\ ~Succeeded(t)
    <3> SUFFICES ASSUME operation[w] \in Operations
                 PROVE  outcome[operation[w]] = "none" /\ ~Succeeded(operation[w])
      OBVIOUS
    <3>1. Busy(w)
      BY Distinct DEF Busy
    <3> QED
      BY <1>1, <1>2, <3>1, OwnerSucceeded
  <2>2. outcome' = [t \in Operations |-> IF t \in T THEN "dropped" ELSE outcome[t]]
    BY <1>5 DEF WorkerStops
  <2>3. \A x \in Threads : \/ pc'[x] = pc[x] /\ operation'[x] = operation[x]
                           \/ pc'[x] # "succeeded" /\ pc[x] # "succeeded"
    BY <1>3
  <2>4. Written'
    BY <1>2, <1>3, WrittenKept
  <2>5. T \in SUBSET Operations
    OBVIOUS
  <2> HIDE DEF T
  <2>6. StoredWhole' /\ Store!Next
    BY <1>2, <2>1, <2>2, <2>3, <2>5, StoreDrops
  <2> QED
    BY <2>4, <2>6
<1> QED
  BY <1>4, <1>5

LEMMA CancelStores ==
  ASSUME IInv, Written, StoredWhole, CancelQueue
  PROVE  Written' /\ StoredWhole' /\ [Store!Next]_<<stored, outcome>>
<1> USE DEF queueVars, closeVars, serverVars, threadVars
<1>1. UNCHANGED <<session, stored, statement, connection, pc, operation>>
  BY DEF CancelQueue
<1>2. \A x \in Threads : ConnectionOf(x)' = ConnectionOf(x)
  BY <1>1 DEF ConnectionOf
<1>3. Written'
  BY <1>1, <1>2, WrittenKept
<1>4. queue \in Seq(Operations)
  BY DEF IInv, TypeOK, Q!QueueTypeOK
<1> DEFINE T == ToSet(queue)
<1>5. T \in SUBSET Operations
  BY <1>4 DEF ToSet
<1>6. \A t \in T : outcome[t] = "none" /\ ~Succeeded(t)
  <2> SUFFICES ASSUME NEW i \in 1 .. Len(queue)
               PROVE  outcome[queue[i]] = "none" /\ ~Succeeded(queue[i])
    BY <1>4 DEF ToSet
  <2>1. queue[i] \in Operations /\ outcome[queue[i]] = "none"
    BY <1>4 DEF IInv, OneOwner
  <2>2. \A x \in Threads : operation[x] # queue[i]
    BY <2>1, Distinct DEF IInv, OneOwner, Busy
  <2> QED
    BY <2>1, <2>2 DEF Succeeded
<1>7. outcome' = [t \in Operations |-> IF t \in T THEN "dropped" ELSE outcome[t]]
  BY DEF CancelQueue
<1> HIDE DEF T
<1>8. StoredWhole' /\ Store!Next
  BY <1>1, <1>5, <1>6, <1>7, StoreDrops
<1> QED
  BY <1>3, <1>8

(* The rest of the pool stores nothing and ends nothing.                   *)
LEMMA RestStores ==
  ASSUME IInv, Written, StoredWhole, ~ConnectionsBreak,
         \/ UNCHANGED vars
         \/ \E t \in Operations : Enqueue(t)
         \/ \E x \in Callers, c \in SyncConnections, t \in Operations :
              GetFreeConnection(x, c, t)
         \/ \E w \in Workers : \/ WorkerWaits(w) \/ SpuriousWakeup(w)
                               \/ OpenConnection(w) \/ CancelWorker(w)
         \/ \E c \in Connections : LoseConnection(c)
         \/ Close \/ ConnectionsOpen \/ Join \/ Closed \/ CreateDatabase \/ Ended
  PROVE  Written' /\ StoredWhole' /\ [Store!Next]_<<stored, outcome>>
<1> USE DEF vars, queueVars, closeVars, serverVars, threadVars, Goto
<1>1. /\ Workers \cap Callers = {} /\ Workers \subseteq Threads /\ Callers \subseteq Threads
      /\ pc \in [Threads -> Places] /\ operation \in [Threads -> Operations \cup {Nothing}]
      /\ connection \in [Callers -> SyncConnections \cup {Nothing}]
  BY Distinct DEF IInv, TypeOK, Threads
<1>2. UNCHANGED <<session, stored, outcome, statement>>
  BY DEF Enqueue, GetFreeConnection, WorkerWaits, SpuriousWakeup, OpenConnection,
         CancelWorker, LoseConnection, Close, ConnectionsOpen, Join, Closed,
         CreateDatabase, Ended
<1>3. ASSUME UNCHANGED <<operation, connection>>,
             \A y \in Threads : \/ pc'[y] = pc[y]
                               \/ /\ pc'[y] \notin {"statement", "commit", "succeeded"}
                                  /\ pc[y] # "succeeded"
      PROVE  Written' /\ StoredWhole' /\ [Store!Next]_<<stored, outcome>>
  <2>1. \A y \in Threads : operation'[y] = operation[y] /\ statement'[y] = statement[y]
                           /\ ConnectionOf(y)' = ConnectionOf(y)
    BY <1>2, <1>3 DEF ConnectionOf
  <2> QED
    BY <1>2, <1>3, <2>1, StillStep
<1>4. CASE \/ UNCHANGED vars
           \/ \E t \in Operations : Enqueue(t)
           \/ \E w \in Workers : WorkerWaits(w) \/ SpuriousWakeup(w) \/ CancelWorker(w)
           \/ Close \/ ConnectionsOpen \/ Closed \/ CreateDatabase \/ Ended
  <2>1. UNCHANGED <<pc, operation, connection>>
    BY <1>4 DEF Enqueue, WorkerWaits, SpuriousWakeup, CancelWorker, Close,
                ConnectionsOpen, Closed, CreateDatabase, Ended
  <2> QED
    BY <1>3, <2>1
<1>5. ASSUME NEW w \in Workers, OpenConnection(w)
      PROVE  Written' /\ StoredWhole' /\ [Store!Next]_<<stored, outcome>>
  <2>1. /\ UNCHANGED <<operation, connection>>
        /\ pc' = [pc EXCEPT ![w] = "pop"] /\ pc[w] = "none"
    BY <1>5 DEF OpenConnection
  <2> QED
    BY <1>1, <1>3, <2>1
<1>6. CASE Join
  <2>1. /\ UNCHANGED <<operation, connection>>
        /\ pc' = [pc EXCEPT ![joining] = "none"] /\ pc[joining] = "exited"
    BY <1>6 DEF Join
  <2> QED
    BY <1>1, <1>3, <2>1
<1>7. ASSUME NEW x \in Callers, NEW c \in SyncConnections, NEW t \in Operations,
             GetFreeConnection(x, c, t)
      PROVE  Written' /\ StoredWhole' /\ [Store!Next]_<<stored, outcome>>
  <2>1. /\ connection' = [connection EXCEPT ![x] = c]
        /\ operation' = [operation EXCEPT ![x] = t]
        /\ pc' = [pc EXCEPT ![x] = "begin"] /\ pc[x] = "idle"
    BY <1>7 DEF GetFreeConnection
  <2>2. \A y \in Threads :
          \/ /\ pc'[y] = pc[y] /\ operation'[y] = operation[y]
             /\ statement'[y] = statement[y] /\ ConnectionOf(y)' = ConnectionOf(y)
          \/ pc'[y] \notin {"statement", "commit", "succeeded"} /\ pc[y] # "succeeded"
    <3> SUFFICES ASSUME NEW y \in Threads, y # x
                 PROVE  /\ pc'[y] = pc[y] /\ operation'[y] = operation[y]
                        /\ statement'[y] = statement[y]
                        /\ ConnectionOf(y)' = ConnectionOf(y)
      BY <1>1, <2>1
    <3> QED
      BY <1>1, <1>2, <2>1 DEF ConnectionOf, Threads
  <2> QED
    BY <1>2, <2>2, StillStep
<1>8. ~ \E c \in Connections : LoseConnection(c)
  BY DEF LoseConnection
<1> QED
  BY <1>4, <1>5, <1>6, <1>7, <1>8

LEMMA NextStores ==
  ASSUME ~ConnectionsBreak, SInv, [Next]_vars
  PROVE  SInv' /\ [Store!Next]_<<stored, outcome>>
<1>1. IInv /\ Written /\ StoredWhole
  BY DEF SInv
<1>2. IInv'
  BY <1>1, NextIInv
<1>3. Written' /\ StoredWhole' /\ [Store!Next]_<<stored, outcome>>
  <2>1. ASSUME NEW x \in Callers, Caller(x)
        PROVE  Written' /\ StoredWhole' /\ [Store!Next]_<<stored, outcome>>
    <3>1. x \in Threads
      BY DEF Threads
    <3> QED
      BY <1>1, <2>1, <3>1, ExecuteStores, DirectStores DEF Caller
  <2>2. ASSUME NEW w \in Workers, Worker(w), ~WorkerWaits(w)
        PROVE  Written' /\ StoredWhole' /\ [Store!Next]_<<stored, outcome>>
    <3>1. w \in Threads
      BY DEF Threads
    <3>2. CASE ExecuteTransaction(w) \/ TransactionTask(w)
      BY <1>1, <3>1, <3>2, ExecuteStores, TaskStores
    <3>3. CASE WorkerPops(w) \/ WorkerStarts(w) \/ WorkerStops(w)
      BY <1>1, <3>3, WorkerStores
    <3> QED
      BY <2>2, <3>2, <3>3 DEF Worker
  <2>3. CASE CancelQueue
    BY <1>1, <2>3, CancelStores
  <2>4. CASE \/ UNCHANGED vars
             \/ \E t \in Operations : Enqueue(t)
             \/ \E x \in Callers, c \in SyncConnections, t \in Operations :
                  GetFreeConnection(x, c, t)
             \/ \E w \in Workers : \/ WorkerWaits(w) \/ SpuriousWakeup(w)
                                   \/ OpenConnection(w) \/ CancelWorker(w)
             \/ \E c \in Connections : LoseConnection(c)
             \/ Close \/ ConnectionsOpen \/ Join \/ Closed \/ CreateDatabase \/ Ended
    BY <1>1, <2>4, RestStores
  <2> QED
    BY <2>1, <2>2, <2>3, <2>4 DEF Next, OpenOrClose, LoseAnswer
<1> QED
  BY <1>2, <1>3 DEF SInv

LEMMA StoredTruly == SInv => Truthful /\ AllOrNothing
<1> SUFFICES ASSUME SInv PROVE Truthful /\ AllOrNothing
  OBVIOUS
<1>1. IInv /\ StoredWhole
  BY DEF SInv
<1>2. ASSUME NEW t \in Operations, outcome[t] \in {"failed", "dropped"}
      PROVE  ~Succeeded(t)
  <2>1. \A x \in Threads : operation[x] # t
    BY <1>1, <1>2, Distinct DEF IInv, OneOwner, Busy
  <2> QED
    BY <1>2, <2>1 DEF Succeeded
<1>3. Truthful
  BY <1>1, <1>2 DEF Truthful, StoredWhole, Succeeded
<1>4. AllOrNothing
  BY <1>1 DEF AllOrNothing, StoredWhole, Operations
<1> QED
  BY <1>3, <1>4

(* While no connection is lost, what Execute returns or the promise of a   *)
(* TransactionWithResultTask holds is what the database keeps: through     *)
(* failures, deadlocks, retries, and the closing of the pool.              *)
THEOREM OutcomesAreTrue == ASSUME ~ConnectionsBreak PROVE Spec => []Truthful
<1>1. Init => SInv
  BY InitSInv
<1>2. SInv /\ [Next]_vars => SInv'
  BY NextStores
<1>3. SInv => Truthful
  BY StoredTruly
<1> QED
  BY <1>1, <1>2, <1>3, PTL DEF Spec

(* While no connection is lost, the database never keeps a part of a       *)
(* transaction (ExecuteTransaction and its ROLLBACK).                      *)
THEOREM TransactionsAreAtomic == ASSUME ~ConnectionsBreak PROVE Spec => []AllOrNothing
<1>1. Init => SInv
  BY InitSInv
<1>2. SInv /\ [Next]_vars => SInv'
  BY NextStores
<1>3. SInv => AllOrNothing
  BY StoredTruly
<1> QED
  BY <1>1, <1>2, <1>3, PTL DEF Spec

(* While no connection is lost, the pool with its threads, retries and     *)
(* queues implements a store that executes each operation at most once and *)
(* as a whole.                                                             *)
THEOREM PoolImplementsStore == ASSUME ~ConnectionsBreak PROVE Spec => ImplementsStore
<1>1. Init => SInv /\ Store!Init
  BY InitSInv DEF Init, Store!Init
<1>2. SInv /\ [Next]_vars => SInv' /\ [Store!Next]_<<stored, outcome>>
  BY NextStores
<1> QED
  BY <1>1, <1>2, PTL DEF Spec, ImplementsStore, Store!Spec

-----------------------------------------------------------------------------
(* The order of what is executed *)

(* The queue holds the last of what was issued, in order; what it no       *)
(* longer holds is in the hand of a worker, or over.                       *)
Popped == Len(issued) - Len(queue)
InLine ==
  /\ \A i, j \in 1 .. Len(issued) : issued[i] = issued[j] => i = j
  /\ Popped >= 0
  /\ \A i \in 1 .. Len(queue) : queue[i] = issued[Popped + i]
  /\ \A i \in 1 .. Popped :
       outcome[issued[i]] = "none" => \E w \in Workers : operation[w] = issued[i]

OInv == IInv /\ InLine

LEMMA Lengths ==
  ASSUME TypeOK
  PROVE  /\ queue \in Seq(Operations) /\ issued \in Seq(Operations)
         /\ Len(queue) \in Nat /\ Len(issued) \in Nat /\ Popped \in Int
         /\ \A i \in 1 .. Len(issued) : issued[i] \in Operations
         /\ ToSet(issued) = {issued[i] : i \in 1 .. Len(issued)}
<1>1. queue \in Seq(Operations) /\ issued \in Seq(Operations)
  BY DEF TypeOK, Q!QueueTypeOK
<1>2. /\ Len(queue) \in Nat /\ Len(issued) \in Nat
      /\ DOMAIN issued = 1 .. Len(issued)
      /\ \A i \in 1 .. Len(issued) : issued[i] \in Operations
  BY <1>1
<1> QED
  BY <1>1, <1>2 DEF Popped, ToSet

LEMMA InitInLine == Init => InLine
<1> SUFFICES ASSUME Init PROVE InLine
  OBVIOUS
<1>1. Len(queue) = 0 /\ Len(issued) = 0
  BY DEF Init, Q!QueueInit
<1> QED
  BY <1>1 DEF InLine, Popped

(* A thread gives an operation up only when it is over.                    *)
LEMMA LineKept ==
  ASSUME TypeOK, InLine, UNCHANGED <<queue, issued>>,
         \A t \in Operations : outcome[t] # "none" => outcome'[t] # "none",
         \A w \in Workers : \/ operation'[w] = operation[w]
                            \/ ~Busy(w)
                            \/ outcome'[operation[w]] # "none"
  PROVE  InLine'
<1>1. ASSUME NEW i \in 1 .. Popped, outcome'[issued[i]] = "none"
      PROVE  \E w \in Workers : operation'[w] = issued[i]
  <2>1. issued[i] \in Operations
    BY Lengths DEF Popped
  <2>2. outcome[issued[i]] = "none"
    BY <1>1, <2>1
  <2>3. PICK w \in Workers : operation[w] = issued[i]
    BY <2>2 DEF InLine
  <2>4. Busy(w) /\ operation'[w] = operation[w]
    BY <1>1, <2>1, <2>3, Distinct DEF Busy
  <2> QED
    BY <2>3, <2>4
<1>2. Popped' = Popped
  BY DEF Popped
<1> QED
  BY <1>1, <1>2 DEF InLine

LEMMA EnqueueLine ==
  ASSUME TypeOK, InLine, NEW t \in Operations, Enqueue(t)
  PROVE  InLine'
<1> USE DEF threadVars
<1>1. /\ queue' = Append(queue, t) /\ issued' = Append(issued, t)
      /\ t \notin ToSet(issued)
      /\ outcome' = outcome /\ operation' = operation
  BY DEF Enqueue, Fresh, Q!Push
<1>2. /\ Len(queue') = Len(queue) + 1 /\ Len(issued') = Len(issued) + 1
      /\ \A i \in 1 .. Len(queue) : queue'[i] = queue[i]
      /\ \A i \in 1 .. Len(issued) : issued'[i] = issued[i]
      /\ queue'[Len(queue) + 1] = t /\ issued'[Len(issued) + 1] = t
  BY <1>1, Lengths, AppendProperties
<1>3. Popped' = Popped /\ Popped + Len(queue) = Len(issued)
  BY <1>2, Lengths DEF Popped
<1>4. \A i \in 1 .. Len(issued) : issued[i] # t
  BY <1>1, Lengths
<1>5. \A i, j \in 1 .. Len(issued') : issued'[i] = issued'[j] => i = j
  <2> TAKE i, j \in 1 .. Len(issued')
  <2>1. \A k \in {i, j} : k \in 1 .. Len(issued) \/ k = Len(issued) + 1
    BY <1>2, Lengths
  <2>2. CASE i \in 1 .. Len(issued) /\ j \in 1 .. Len(issued)
    BY <1>2, <2>2 DEF InLine
  <2>3. CASE i = Len(issued) + 1 \/ j = Len(issued) + 1
    BY <1>2, <1>4, <2>1, <2>3
  <2> QED
    BY <2>1, <2>2, <2>3
<1>6. \A i \in 1 .. Len(queue') : queue'[i] = issued'[Popped + i]
  <2> TAKE i \in 1 .. Len(queue')
  <2>1. CASE i = Len(queue) + 1
    BY <1>2, <1>3, <2>1, Lengths
  <2>2. CASE i # Len(queue) + 1
    <3>1. i \in 1 .. Len(queue) /\ Popped + i \in 1 .. Len(issued)
      BY <1>2, <1>3, <2>2, Lengths DEF InLine
    <3> QED
      BY <1>2, <3>1 DEF InLine
  <2> QED
    BY <2>1, <2>2
<1>7. ASSUME NEW i \in 1 .. Popped, outcome'[issued'[i]] = "none"
      PROVE  \E w \in Workers : operation'[w] = issued'[i]
  <2>1. i \in 1 .. Len(issued)
    BY <1>3, Lengths
  <2> QED
    BY <1>1, <1>2, <1>7, <2>1 DEF InLine
<1> QED
  BY <1>3, <1>5, <1>6, <1>7 DEF InLine

LEMMA PopLine ==
  ASSUME IInv, InLine, NEW w \in Workers, WorkerPops(w)
  PROVE  InLine'
<1> USE DEF queueVars
<1>1. TypeOK /\ InPlace
  BY DEF IInv
<1>2. outcome' = outcome /\ issued' = issued /\ ~Busy(w)
  BY <1>1 DEF WorkerPops, InPlace, Resting, Threads
<1>3. CASE Q!PopNothing(w) /\ operation' = operation
  <2>1. queue' = queue
    BY <1>3 DEF Q!PopNothing, Q!qvars
  <2> QED
    BY <1>1, <1>2, <1>3, <2>1, LineKept
<1>4. CASE Q!Pop(w) /\ operation' = [operation EXCEPT ![w] = Head(queue)]
  <2>1. /\ queue # <<>> /\ queue' = Tail(queue)
        /\ operation'[w] = queue[1]
        /\ \A v \in Workers : v # w => operation'[v] = operation[v]
    BY <1>1, <1>4 DEF Q!Pop, TypeOK, Threads
  <2>2. /\ Len(queue) \in Nat \ {0}
        /\ Len(queue') = Len(queue) - 1
        /\ \A i \in 1 .. Len(queue') : queue'[i] = queue[i + 1]
    BY <1>1, <2>1, Lengths, HeadTailProperties
  <2>3. Popped' = Popped + 1
    BY <1>1, <1>2, <2>2, Lengths DEF Popped
  <2>4. \A i \in 1 .. Len(queue') : queue'[i] = issued[Popped' + i]
    <3> TAKE i \in 1 .. Len(queue')
    <3>1. i + 1 \in 1 .. Len(queue) /\ Popped' + i = Popped + (i + 1)
      BY <1>1, <2>2, <2>3, Lengths
    <3> QED
      BY <2>2, <3>1 DEF InLine
  <2>5. ASSUME NEW i \in 1 .. Popped', outcome[issued[i]] = "none"
        PROVE  \E v \in Workers : operation'[v] = issued[i]
    <3>1. CASE i = Popped + 1
      <4>1. queue[1] = issued[Popped + 1]
        BY <2>2 DEF InLine
      <4> QED
        BY <2>1, <3>1, <4>1
    <3>2. CASE i # Popped + 1
      <4>1. i \in 1 .. Popped
        BY <1>1, <2>3, <3>2, Lengths
      <4>2. PICK v \in Workers : operation[v] = issued[i]
        BY <2>5, <4>1 DEF InLine
      <4>3. issued[i] \in Operations
        BY <1>1, <4>1, Lengths DEF Popped
      <4>4. v # w
        BY <1>2, <4>2, <4>3, Distinct DEF Busy
      <4> QED
        BY <2>1, <4>2, <4>4
    <3> QED
      BY <3>1, <3>2
  <2>6. Popped' >= 0
    BY <1>1, <2>3, Lengths DEF InLine
  <2> QED
    BY <1>2, <2>4, <2>5, <2>6 DEF InLine
<1> QED
  BY <1>3, <1>4 DEF WorkerPops

(* Cancel drops the end of the line.                                       *)
LEMMA CancelLine ==
  ASSUME TypeOK, InLine, CancelQueue
  PROVE  InLine'
<1> USE DEF threadVars
<1>1. /\ queue' = <<>> /\ issued' = issued /\ operation' = operation
      /\ outcome' = [t \in Operations |->
                       IF t \in ToSet(queue) THEN "dropped" ELSE outcome[t]]
  BY DEF CancelQueue, Q!Cancel
<1>2. Len(queue') = 0 /\ Popped' = Len(issued)
  BY <1>1, Lengths DEF Popped
<1>3. ASSUME NEW i \in 1 .. Len(issued), outcome'[issued[i]] = "none"
      PROVE  \E w \in Workers : operation[w] = issued[i]
  <2>1. issued[i] \in Operations
    BY Lengths
  <2>2. issued[i] \notin ToSet(queue) /\ outcome[issued[i]] = "none"
    BY <1>1, <1>3, <2>1
  <2>3. i \in 1 .. Popped
    <3> SUFFICES ASSUME i > Popped PROVE FALSE
      BY Lengths
    <3>1. i - Popped \in 1 .. Len(queue) /\ Popped + (i - Popped) = i
      BY Lengths DEF InLine, Popped
    <3>2. queue[i - Popped] = issued[i]
      BY <3>1 DEF InLine
    <3> QED
      BY <2>2, <3>1, <3>2, Lengths DEF ToSet
  <2> QED
    BY <2>2, <2>3 DEF InLine
<1> QED
  BY <1>1, <1>2, <1>3, Lengths DEF InLine

-----------------------------------------------------------------------------
(* The other steps leave the queue alone, and each operation with its      *)
(* thread unless it has an outcome.                                        *)

LEMMA ExecuteLine ==
  ASSUME TypeOK, InLine, NEW x \in Threads, ExecuteTransaction(x)
  PROVE  InLine'
<1>1. UNCHANGED <<queue, issued, outcome, operation>>
  BY DEF ExecuteTransaction, BeginTransaction, BeginStatement, BeginEmpty, Execute,
     ExecuteFails, CommitTransaction, queueVars
<1> QED
  BY <1>1, LineKept

LEMMA WorkerLine ==
  ASSUME IInv, InLine, NEW w \in Workers,
         WorkerWaits(w) \/ WorkerStops(w) \/ WorkerStarts(w) \/ TransactionTask(w)
           \/ SpuriousWakeup(w)
  PROVE  InLine'
<1> USE DEF queueVars, threadVars
<1>1. TypeOK /\ InPlace /\ w \in Threads
  BY DEF IInv, Threads
<1>2. CASE \/ WorkerWaits(w) \/ WorkerStarts(w) \/ SpuriousWakeup(w)
           \/ TaskDeadlocks(w) \/ LockDeadlock(w) \/ RetryAgain(w)
  <2>1. UNCHANGED <<queue, issued, outcome, operation>>
    BY <1>2 DEF WorkerWaits, WorkerStarts, SpuriousWakeup, TaskDeadlocks,
       LockDeadlock, RetryAgain, Q!Wait, Q!SpuriousWakeup
  <2> QED
    BY <1>1, <2>1, LineKept
<1>3. CASE WorkerStops(w)
  <2>1. /\ UNCHANGED <<queue, issued>>
        /\ operation' = [operation EXCEPT ![w] = Nothing]
        /\ outcome' = [t \in Operations |->
                         IF t = operation[w] THEN "dropped" ELSE outcome[t]]
    BY <1>3 DEF WorkerStops
  <2>2. Busy(w) => operation[w] \in Operations
    BY <1>1 DEF TypeOK, Busy
  <2>3. /\ \A t \in Operations : outcome[t] # "none" => outcome'[t] # "none"
        /\ \A v \in Workers : \/ operation'[v] = operation[v]
                              \/ ~Busy(v)
                              \/ outcome'[operation[v]] # "none"
    BY <1>1, <2>1, <2>2 DEF TypeOK
  <2> QED
    BY <1>1, <2>1, <2>3, LineKept
<1>4. ASSUME NEW result \in {"done", "failed"}, TaskEnds(w, result), Busy(w)
      PROVE  InLine'
  <2>1. /\ UNCHANGED <<queue, issued>>
        /\ operation' = [operation EXCEPT ![w] = Nothing]
        /\ outcome' = [outcome EXCEPT ![operation[w]] = result]
    BY <1>4 DEF TaskEnds
  <2>2. operation[w] \in Operations
    BY <1>1, <1>4 DEF TypeOK, Busy
  <2>3. /\ \A t \in Operations : outcome[t] # "none" => outcome'[t] # "none"
        /\ \A v \in Workers : \/ operation'[v] = operation[v]
                              \/ outcome'[operation[v]] # "none"
    BY <1>1, <2>1, <2>2 DEF TypeOK
  <2> QED
    BY <1>1, <2>1, <2>3, LineKept
<1>5. CASE TaskSucceeds(w) \/ TaskFails(w) \/ RetryTimeOver(w)
  <2>1. pc[w] \in {"succeeded", "failed", "deadlocked"}
    BY <1>5 DEF TaskSucceeds, TaskFails, RetryTimeOver, RetryFailed
  <2>2. Busy(w)
    BY <1>1, <2>1 DEF InPlace, Resting
  <2> QED
    BY <1>4, <1>5, <2>2 DEF TaskSucceeds, TaskFails, RetryTimeOver
<1> QED
  BY <1>2, <1>3, <1>5 DEF TransactionTask

LEMMA CallerLine ==
  ASSUME IInv, InLine, NEW x \in Callers,
         DirectCommitTransaction(x)
           \/ \E c \in SyncConnections, t \in Operations : GetFreeConnection(x, c, t)
  PROVE  InLine'
<1> USE DEF queueVars
<1>1. TypeOK /\ InPlace /\ x \in Threads /\ x \notin Workers
  BY Distinct DEF IInv, Threads
<1>2. CASE \/ DirectRetriesOnce(x)
           \/ \E c \in SyncConnections, t \in Operations : GetFreeConnection(x, c, t)
  <2>1. /\ UNCHANGED <<queue, issued, outcome>>
        /\ \A v \in Workers : operation'[v] = operation[v]
    BY <1>1, <1>2 DEF DirectRetriesOnce, GetFreeConnection, TypeOK, Threads
  <2> QED
    BY <1>1, <2>1, LineKept
<1>3. ASSUME NEW result \in {"done", "failed"}, DirectEnds(x, result)
      PROVE  InLine'
  <2>1. /\ UNCHANGED <<queue, issued>>
        /\ operation' = [operation EXCEPT ![x] = Nothing]
        /\ outcome' = [outcome EXCEPT ![operation[x]] = result]
    BY <1>3 DEF DirectEnds
  <2>2. /\ \A t \in Operations : outcome[t] # "none" => outcome'[t] # "none"
        /\ \A v \in Workers : operation'[v] = operation[v]
    BY <1>1, <2>1 DEF TypeOK, Threads
  <2> QED
    BY <1>1, <2>1, <2>2, LineKept
<1> QED
  BY <1>2, <1>3 DEF DirectCommitTransaction, DirectSucceeds, DirectFails

LEMMA NextOInv == OInv /\ [Next]_vars => OInv'
<1> SUFFICES ASSUME OInv, [Next]_vars PROVE InLine'
  BY NextIInv DEF OInv
<1> USE DEF queueVars, threadVars
<1>1. IInv /\ TypeOK /\ InLine
  BY DEF OInv, IInv
<1>2. ASSUME UNCHANGED <<queue, issued, outcome, operation>> PROVE InLine'
  BY <1>1, <1>2, LineKept
<1>3. CASE UNCHANGED vars \/ Ended
  BY <1>2, <1>3 DEF vars, Ended
<1>4. ASSUME NEW t \in Operations, Enqueue(t) PROVE InLine'
  BY <1>1, <1>4, EnqueueLine
<1>5. ASSUME NEW x \in Callers,
             Caller(x) \/ \E c \in SyncConnections, t \in Operations :
                            GetFreeConnection(x, c, t)
      PROVE  InLine'
  BY <1>1, <1>5, ExecuteLine, CallerLine DEF Caller, Threads
<1>6. ASSUME NEW w \in Workers, Worker(w) \/ SpuriousWakeup(w)
      PROVE  InLine'
  BY <1>1, <1>6, ExecuteLine, WorkerLine, PopLine DEF Worker, Threads
<1>7. CASE \/ \E c \in Connections : LoseConnection(c)
           \/ \E x \in Threads : LoseAnswer(x)
  BY <1>2, <1>7 DEF LoseConnection, LoseAnswer
<1>8. CASE Close \/ OpenOrClose
  <2>1. CASE CancelQueue
    BY <1>1, <2>1, CancelLine
  <2>2. ASSUME NEW w \in Workers, OpenConnection(w) \/ CancelWorker(w) PROVE InLine'
    BY <1>2, <2>2 DEF OpenConnection, CancelWorker
  <2>3. CASE Close \/ ConnectionsOpen \/ Join \/ Closed \/ CreateDatabase
    BY <1>2, <2>3 DEF Close, ConnectionsOpen, Join, Closed, CreateDatabase
  <2> QED
    BY <1>8, <2>1, <2>2, <2>3 DEF OpenOrClose
<1> QED
  BY <1>3, <1>4, <1>5, <1>6, <1>7, <1>8 DEF Next

-----------------------------------------------------------------------------

(* Of the operations issued before one that a worker executes, those that  *)
(* are not over are in the hands of the other workers.                     *)
LEMMA LineInOrder == OInv => InOrder
<1> SUFFICES ASSUME OInv, NEW j \in DOMAIN issued, Executing(issued[j])
             PROVE  Cardinality({i \in 1..j - 1 : outcome[issued[i]] = "none"})
                      < Cardinality(Workers)
  BY DEF InOrder
<1>1. TypeOK /\ InPlace /\ OneOwner /\ InLine
  BY DEF OInv, IInv
<1>2. PICK w \in Workers :
        operation[w] = issued[j] /\ pc[w] \notin {"none", "pop", "check", "exited"}
  BY DEF Executing
<1>3. j \in 1 .. Len(issued) /\ issued[j] \in Operations
  BY <1>1, Lengths
<1>4. Busy(w) /\ w \in Threads
  BY <1>2, <1>3, Distinct DEF Busy, Threads
<1>5. j \in 1 .. Popped
  <2> SUFFICES ASSUME j > Popped PROVE FALSE
    BY <1>1, <1>3, Lengths
  <2>1. j - Popped \in 1 .. Len(queue) /\ Popped + (j - Popped) = j
    BY <1>1, <1>3, Lengths DEF Popped
  <2>2. queue[j - Popped] = issued[j]
    BY <1>1, <2>1 DEF InLine
  <2> QED
    BY <1>1, <1>2, <1>4, <2>1, <2>2 DEF OneOwner
<1> DEFINE Unfinished == {i \in 1..j - 1 : outcome[issued[i]] = "none"}
           Others == Workers \ {w}
           holder == [i \in Unfinished |->
                        CHOOSE v \in Workers : operation[v] = issued[i]]
<1>6. \A i \in Unfinished : /\ i \in 1 .. Len(issued) /\ i # j
                             /\ holder[i] \in Workers
                             /\ operation[holder[i]] = issued[i]
  <2> TAKE i \in Unfinished
  <2>1. i \in 1 .. Len(issued) /\ i \in 1 .. Popped /\ i # j
    BY <1>3, <1>5, <1>1, Lengths
  <2>2. \E v \in Workers : operation[v] = issued[i]
    BY <1>1, <2>1 DEF InLine
  <2> QED
    BY <2>1, <2>2
<1>7. holder \in Injection(Unfinished, Others)
  <2> HIDE DEF holder
  <2>1. \A i \in Unfinished : holder[i] # w
    BY <1>1, <1>2, <1>3, <1>6 DEF InLine
  <2>2. \A i, k \in Unfinished : holder[i] = holder[k] => i = k
    BY <1>1, <1>6 DEF InLine
  <2>3. holder \in [Unfinished -> Others]
    BY <1>6, <2>1 DEF holder
  <2> QED
    BY <2>2, <2>3 DEF Injection, IsInjective
<1>8. IsFiniteSet(Workers) /\ IsFiniteSet(Others)
      /\ Cardinality(Others) = Cardinality(Workers) - 1
      /\ Cardinality(Workers) \in Nat /\ Cardinality(Others) \in Nat
  BY FS_RemoveElement, FS_CardinalityType, DatabasePoolAssumption
  DEF DatabasePoolAssumption
<1>9. Cardinality(Unfinished) <= Cardinality(Others) /\ IsFiniteSet(Unfinished)
  <2> HIDE DEF Unfinished, Others, holder
  <2> QED
    BY <1>7, <1>8, FS_Injection
<1>10. Cardinality(Unfinished) \in Nat
  BY <1>9, FS_CardinalityType
<1> QED
  BY <1>8, <1>9, <1>10

(* What is queued is begun in order, and with one worker finished in       *)
(* order: a deadlocked transaction keeps its worker until it is over, and  *)
(* nothing ever goes back into the queue.                                  *)
THEOREM ExecutedInOrder == Spec => []InOrder
<1>1. Init => OInv
  BY InitIInv, InitInLine DEF OInv
<1> QED
  BY <1>1, NextOInv, LineInOrder, PTL DEF Spec

-----------------------------------------------------------------------------
(* No notification is lost, and nobody waits for nothing *)

(* The workers that will look at the queue without being notified.         *)
Awake == {w \in Workers : pc[w] = "pop" /\ w \notin waiting}

(* Who blocks does so where a notification is due: in WaitAndPop of a      *)
(* queue that is not shut down, in Join after the queue was shut down, at  *)
(* the deadlock lock while the holder executes.                            *)
Blocked ==
  /\ \A w \in waiting : pc[w] = "pop"
  /\ shutdown => waiting = {}
  /\ step = "join" => shutdown
  /\ \A w \in Workers : _deadlockLock = w =>
       pc[w] \in {"begin", "statement", "commit", "succeeded", "failed", "deadlocked"}

(* A worker stays blocked only while there is another one awake for each   *)
(* operation queued: notify_one for each Push is enough.                   *)
WakeupsKept == waiting # {} => Len(queue) <= Cardinality(Awake)

(* A worker is blocked by the queue only while there is nothing for it to  *)
(* do, by the deadlock lock only while another worker executes; and what   *)
(* Close joins is not blocked by the queue.                                *)
NothingHangs ==
  /\ queue # <<>> /\ waiting # {} => Awake # {}
  /\ \A w \in Workers : pc[w] = "lock" =>
       \/ _deadlockLock = Nothing
       \/ /\ _deadlockLock \in Workers \ {w}
          /\ pc[_deadlockLock] \notin {"pop", "lock", "none", "exited"}
  /\ step = "join" => shutdown /\ waiting = {}

(* The pool was opened at once: until Close shuts the queue down, every    *)
(* worker goes on, and afterwards nothing is queued.                       *)
Manned ==
  /\ database = "exists" /\ pool # "failed"
  /\ pool \in {"opening", "open"} => step = "none"
  /\ pool = "opening" => queue = <<>>
  /\ pool = "closed" => shutdown
  /\ shutdown => queue = <<>> /\ pool \in {"closing", "closed"}
  /\ \A w \in Workers :
       /\ ~shutdown /\ pool # "opening" => pc[w] # "none"
       /\ ~shutdown /\ step = "none" => pc[w] # "exited" /\ ~_cancelationToken[w]
       /\ ~shutdown => (pc[w] = "check" => Busy(w))

(* What was queued and has no outcome yet is in the hands of a worker, or  *)
(* queued while a worker is about to take something, is executing what it  *)
(* took, or Close is about to drop the rest.                               *)
NothingForgotten ==
  \A t \in ToSet(issued) :
    outcome[t] = "none" =>
      \/ \E w \in Workers : operation[w] = t
      \/ /\ t \in ToSet(queue)
         /\ Awake # {} \/ (\E w \in Workers : Busy(w)) \/ step = "cancel"

LEMMA AwakeFinite ==
  /\ IsFiniteSet(Awake) /\ Cardinality(Awake) \in Nat
  /\ Cardinality(Awake') \in Nat
<1>1. Awake \in SUBSET Workers /\ Awake' \in SUBSET Workers
  BY DEF Awake
<1> QED
  BY <1>1, DatabasePoolAssumption, FS_Subset, FS_CardinalityType
  DEF DatabasePoolAssumption

LEMMA InitAwake == Init => Blocked /\ WakeupsKept
BY Distinct DEF Init, Q!QueueInit, Blocked, WakeupsKept

(* A thread that executes stays clear of the queue.                        *)
LEMMA RunStep ==
  ASSUME IInv, Blocked, NEW x \in Threads,
         \/ ExecuteTransaction(x)
         \/ x \in Workers /\ TransactionTask(x)
         \/ x \in Callers /\ DirectCommitTransaction(x)
         \/ x \in Callers /\ \E c \in SyncConnections, t \in Operations :
                               GetFreeConnection(x, c, t)
  PROVE  /\ UNCHANGED <<queue, waiting, shutdown, _cancelationToken, pool,
                        joining, step, database>>
         /\ pc[x] \notin {"none", "pop", "check", "exited"}
         /\ pc'[x] \notin {"none", "check", "exited"}
         /\ \A y \in Threads : y # x => pc'[y] = pc[y] /\ operation'[y] = operation[y]
         /\ Blocked'
<1> USE DEF queueVars, closeVars, threadVars, Goto
<1>1. /\ pc \in [Threads -> Places] /\ operation \in [Threads -> Operations \cup {Nothing}]
      /\ waiting \subseteq Workers /\ Workers \subseteq Threads
      /\ _deadlockLock \in Workers \cup {Nothing}
      /\ Workers \cap Callers = {}
  BY Distinct DEF IInv, TypeOK, Q!QueueTypeOK, Threads
<1>2. ASSUME UNCHANGED <<queue, waiting, shutdown, step, _deadlockLock>>,
             pc[x] # "pop",
             \A y \in Threads : y # x => pc'[y] = pc[y],
             \/ x \in Callers
             \/ pc'[x] \in {"begin", "statement", "commit", "succeeded", "failed",
                            "deadlocked"}
             \/ _deadlockLock # x
      PROVE  Blocked'
  BY <1>1, <1>2, Distinct DEF Blocked
<1>3. CASE ExecuteTransaction(x)
  <2>1. /\ UNCHANGED <<queue, waiting, shutdown, _cancelationToken, pool,
                       joining, step, database, operation, _deadlockLock>>
        /\ pc[x] \in {"begin", "statement", "commit"}
        /\ pc'[x] \in {"statement", "commit", "succeeded", "failed", "deadlocked"}
        /\ \A y \in Threads : y # x => pc'[y] = pc[y]
    BY <1>1, <1>3 DEF ExecuteTransaction, BeginTransaction, BeginStatement, BeginEmpty,
       Execute, ExecuteFails, CommitTransaction
  <2> QED
    BY <1>2, <2>1
<1>4. CASE x \in Workers /\ TransactionTask(x)
  <2>1. /\ UNCHANGED <<queue, waiting, shutdown, _cancelationToken, pool,
                       joining, step, database>>
        /\ pc[x] \in {"succeeded", "failed", "deadlocked", "lock"}
        /\ pc'[x] \in {"begin", "lock", "pop"}
        /\ \A y \in Threads : y # x => pc'[y] = pc[y] /\ operation'[y] = operation[y]
    BY <1>1, <1>4 DEF TransactionTask, TaskSucceeds, TaskFails, TaskEnds, TaskDeadlocks,
       LockDeadlock, RetryAgain, RetryTimeOver, RetryFailed, RetryFromTheStart
  <2>2. \/ _deadlockLock' = x /\ pc'[x] = "begin"
        \/ _deadlockLock' # x /\ _deadlockLock' \in {_deadlockLock, Nothing}
    BY <1>1, <1>4, Distinct DEF TransactionTask, TaskSucceeds, TaskFails, TaskEnds,
       TaskDeadlocks, LockDeadlock, RetryAgain, RetryTimeOver, RetryFailed,
       RetryFromTheStart, ReleaseLock
  <2>3. Blocked'
    BY <1>1, <2>1, <2>2, Distinct DEF Blocked
  <2> QED
    BY <2>1, <2>3
<1>5. CASE x \in Callers /\ DirectCommitTransaction(x)
  <2>1. /\ UNCHANGED <<queue, waiting, shutdown, _cancelationToken, pool,
                       joining, step, database, _deadlockLock>>
        /\ pc[x] \in {"succeeded", "failed", "deadlocked"}
        /\ pc'[x] \in {"begin", "idle"}
        /\ \A y \in Threads : y # x => pc'[y] = pc[y] /\ operation'[y] = operation[y]
    BY <1>1, <1>5 DEF DirectCommitTransaction, DirectSucceeds, DirectRetriesOnce,
       DirectRetry, DirectFails, DirectEnds
  <2> QED
    BY <1>2, <1>5, <2>1
<1>6. CASE x \in Callers /\ \E c \in SyncConnections, t \in Operations :
                              GetFreeConnection(x, c, t)
  <2>1. /\ UNCHANGED <<queue, waiting, shutdown, _cancelationToken, pool,
                       joining, step, database, _deadlockLock>>
        /\ pc[x] = "idle" /\ pc'[x] = "begin"
        /\ \A y \in Threads : y # x => pc'[y] = pc[y] /\ operation'[y] = operation[y]
    BY <1>1, <1>6 DEF GetFreeConnection
  <2> QED
    BY <1>2, <1>6, <2>1
<1> QED
  BY <1>3, <1>4, <1>5, <1>6

LEMMA BlockedStep ==
  ASSUME IInv, Blocked, [Next]_vars
  PROVE  Blocked'
<1> USE DEF queueVars, closeVars, threadVars, Goto
<1>1. /\ pc \in [Threads -> Places] /\ waiting \subseteq Workers
      /\ Workers \subseteq Threads /\ Callers \subseteq Threads
      /\ joining \in Workers \cup {Nothing}
      /\ step # "none" => joining \in Workers
  BY DEF IInv, TypeOK, Q!QueueTypeOK, InPlace, Threads
<1>2. ASSUME UNCHANGED <<shutdown, step, pc, _deadlockLock>>, waiting' \subseteq waiting
      PROVE  Blocked'
  BY <1>2 DEF Blocked
<1>3. ASSUME NEW t \in Operations, Enqueue(t)
      PROVE  Blocked'
  BY <1>2, <1>3 DEF Enqueue, Q!Push, Q!notify_one
<1>4. ASSUME NEW x \in Callers,
             Caller(x) \/ \E c \in SyncConnections, t \in Operations :
                            GetFreeConnection(x, c, t)
      PROVE  Blocked'
  BY <1>1, <1>4, RunStep DEF Caller
<1>5. ASSUME NEW w \in Workers, WorkerWaits(w)
      PROVE  Blocked'
  BY <1>5 DEF WorkerWaits, Q!Wait, Blocked
<1>6. ASSUME NEW w \in Workers, WorkerPops(w)
      PROVE  Blocked'
  BY <1>1, <1>6
  DEF WorkerPops, Q!Pop, Q!PopNothing, Q!Running, Q!qvars, Blocked
<1>7. ASSUME NEW w \in Workers, WorkerStops(w) \/ WorkerStarts(w)
      PROVE  Blocked'
  BY <1>1, <1>7 DEF WorkerStops, WorkerStarts, Blocked
<1>8. ASSUME NEW w \in Workers, SpuriousWakeup(w)
      PROVE  Blocked'
  BY <1>2, <1>8 DEF SpuriousWakeup, Q!SpuriousWakeup
<1>9. ASSUME NEW w \in Workers, ExecuteTransaction(w) \/ TransactionTask(w)
      PROVE  Blocked'
  BY <1>1, <1>9, RunStep
<1>10. ASSUME NEW w \in Workers, OpenConnection(w)
       PROVE  Blocked'
  BY <1>1, <1>10 DEF OpenConnection, Blocked
<1>11. ASSUME NEW w \in Workers, CancelWorker(w)
       PROVE  Blocked'
  BY <1>11 DEF CancelWorker, Blocked
<1>12. CASE CancelQueue
  BY <1>12 DEF CancelQueue, Q!Cancel, Blocked
<1>13. CASE Join
  BY <1>1, <1>13 DEF Join, Blocked
<1>14. CASE \/ ConnectionsOpen \/ Closed \/ CreateDatabase \/ Close \/ Ended
            \/ UNCHANGED vars \/ \E c \in Connections : LoseConnection(c)
            \/ \E x \in Threads : LoseAnswer(x)
  BY <1>2, <1>14 DEF ConnectionsOpen, Closed, CreateDatabase, Close, Ended, vars,
     LoseConnection, LoseAnswer
<1> QED
  BY <1>3, <1>4, <1>5, <1>6, <1>7, <1>8, <1>9, <1>10, <1>11, <1>12, <1>13, <1>14
  DEF Next, Worker, OpenOrClose

(* A worker more is awake, and at most one operation more is queued.       *)
LEMMA OneMoreAwake ==
  ASSUME TypeOK, TypeOK', WakeupsKept, NEW w \in Workers, w \notin Awake,
         Awake' = Awake \cup {w}, Len(queue') <= Len(queue) + 1,
         waiting # {}
  PROVE  WakeupsKept'
<1>1. Len(queue) \in Nat /\ Len(queue') \in Nat
  BY DEF TypeOK, Q!QueueTypeOK
<1>2. Cardinality(Awake') = Cardinality(Awake) + 1
  BY AwakeFinite, FS_AddElement
<1> QED
  BY <1>1, <1>2, AwakeFinite DEF WakeupsKept

(* A worker comes to the queue, or none does.                              *)
LEMMA ComesToQueue ==
  ASSUME TypeOK, TypeOK', Blocked, WakeupsKept, NEW x, pc[x] # "pop",
         \A w \in Workers : w # x => pc'[w] = pc[w], UNCHANGED <<queue, waiting>>
  PROVE  WakeupsKept'
<1>1. CASE x \in Workers /\ pc'[x] = "pop" /\ waiting # {}
  <2>1. x \notin Awake /\ Awake' = Awake \cup {x}
    BY <1>1 DEF Awake, Blocked
  <2>2. Len(queue) \in Nat
    BY DEF TypeOK, Q!QueueTypeOK
  <2> QED
    BY <1>1, <2>1, <2>2, OneMoreAwake
<1>2. CASE ~(x \in Workers /\ pc'[x] = "pop")
  <2>1. Awake' = Awake
    BY <1>2 DEF Awake
  <2> QED
    BY <2>1 DEF WakeupsKept
<1>3. CASE waiting = {}
  BY <1>3 DEF WakeupsKept
<1> QED
  BY <1>1, <1>2, <1>3

LEMMA WakeupsStep ==
  ASSUME IInv, IInv', Blocked, WakeupsKept, [Next]_vars
  PROVE  WakeupsKept'
<1> USE DEF queueVars, closeVars, threadVars, Goto
<1>1. /\ TypeOK /\ TypeOK'
      /\ pc \in [Threads -> Places] /\ waiting \subseteq Workers
      /\ Workers \subseteq Threads /\ Callers \subseteq Threads
      /\ queue \in Seq(Operations) /\ Len(queue) \in Nat
      /\ step # "none" => joining \in Workers
  <2>1. TypeOK /\ TypeOK' /\ InPlace
    BY DEF IInv
  <2>2. pc \in [Threads -> Places] /\ waiting \subseteq Workers
    BY <2>1 DEF TypeOK, Q!QueueTypeOK
  <2> QED
    BY <2>1, <2>2, Lengths DEF InPlace, Threads
<1>2. ASSUME UNCHANGED <<queue, waiting, pc>> PROVE WakeupsKept'
  BY <1>2 DEF WakeupsKept, Awake
<1>3. ASSUME NEW t \in Operations, Enqueue(t)
      PROVE  WakeupsKept'
  <2>1. queue' = Append(queue, t) /\ pc' = pc /\ Q!notify_one
    BY <1>3 DEF Enqueue, Q!Push
  <2>2. Len(queue') = Len(queue) + 1
    BY <1>1, <2>1, AppendProperties
  <2>3. CASE waiting = {} /\ waiting' = waiting
    BY <2>3 DEF WakeupsKept
  <2>4. ASSUME NEW w \in waiting, waiting' = waiting \ {w}
        PROVE  WakeupsKept'
    <3>1. w \in Workers /\ w \notin Awake /\ Awake' = Awake \cup {w}
      BY <1>1, <2>1, <2>4 DEF Awake, Blocked
    <3> QED
      BY <1>1, <2>2, <2>4, <3>1, OneMoreAwake
  <2> QED
    BY <2>1, <2>3, <2>4 DEF Q!notify_one
<1>4. ASSUME NEW x \in Callers,
             Caller(x) \/ \E c \in SyncConnections, t \in Operations :
                            GetFreeConnection(x, c, t)
      PROVE  WakeupsKept'
  BY <1>1, <1>4, RunStep, ComesToQueue DEF Caller
<1>5. ASSUME NEW w \in Workers, WorkerWaits(w)
      PROVE  WakeupsKept'
  <2>1. Len(queue') = 0
    BY <1>5, EmptySeq DEF WorkerWaits, Q!Wait
  <2> QED
    BY <2>1, AwakeFinite DEF WakeupsKept
<1>6. ASSUME NEW w \in Workers, WorkerPops(w)
      PROVE  WakeupsKept'
  <2>1. /\ w \in Awake /\ pc' = [pc EXCEPT ![w] = "check"]
        /\ waiting' = waiting
    BY <1>6 DEF WorkerPops, Q!Pop, Q!PopNothing, Q!Running, Q!qvars, Awake
  <2>2. CASE Q!Pop(w)
    <3>1. Awake' = Awake \ {w}
      BY <1>1, <2>1 DEF Awake
    <3>2. Cardinality(Awake') = Cardinality(Awake) - 1
      BY <2>1, <3>1, AwakeFinite, FS_RemoveElement
    <3>3. Len(queue') = Len(queue) - 1
      BY <1>1, <2>2, HeadTailProperties DEF Q!Pop
    <3> QED
      BY <1>1, <2>1, <3>2, <3>3, AwakeFinite DEF WakeupsKept
  <2>3. CASE Q!PopNothing(w)
    BY <2>1, <2>3 DEF Q!PopNothing, Blocked, WakeupsKept
  <2> QED
    BY <1>6, <2>2, <2>3 DEF WorkerPops
<1>7. ASSUME NEW w \in Workers, WorkerStops(w) \/ WorkerStarts(w)
      PROVE  WakeupsKept'
  <2>1. /\ pc[w] # "pop" /\ UNCHANGED <<queue, waiting>>
        /\ \A v \in Workers : v # w => pc'[v] = pc[v]
    BY <1>1, <1>7 DEF WorkerStops, WorkerStarts
  <2> QED
    BY <1>1, <2>1, ComesToQueue
<1>8. ASSUME NEW w \in Workers, SpuriousWakeup(w)
      PROVE  WakeupsKept'
  <2>1. /\ w \notin Awake /\ waiting # {} /\ queue' = queue
        /\ Awake' = Awake \cup {w}
    BY <1>8 DEF SpuriousWakeup, Q!SpuriousWakeup, Awake, Blocked
  <2> QED
    BY <1>1, <2>1, OneMoreAwake
<1>9. ASSUME NEW w \in Workers, ExecuteTransaction(w) \/ TransactionTask(w)
      PROVE  WakeupsKept'
  BY <1>1, <1>9, RunStep, ComesToQueue
<1>10. ASSUME NEW w \in Workers, OpenConnection(w)
       PROVE  WakeupsKept'
  <2>1. /\ pc[w] # "pop" /\ UNCHANGED <<queue, waiting>>
        /\ \A v \in Workers : v # w => pc'[v] = pc[v]
    BY <1>1, <1>10 DEF OpenConnection
  <2> QED
    BY <1>1, <2>1, ComesToQueue
<1>11. CASE CancelQueue
  BY <1>11 DEF CancelQueue, Q!Cancel, WakeupsKept
<1>12. CASE Join
  <2>1. /\ pc[joining] # "pop" /\ UNCHANGED <<queue, waiting>>
        /\ \A v \in Workers : v # joining => pc'[v] = pc[v]
    BY <1>1, <1>12 DEF Join
  <2> QED
    BY <1>1, <2>1, ComesToQueue
<1>13. CASE \/ ConnectionsOpen \/ Closed \/ CreateDatabase \/ Close \/ Ended
            \/ UNCHANGED vars \/ \E c \in Connections : LoseConnection(c)
            \/ \E w \in Workers : CancelWorker(w)
            \/ \E x \in Threads : LoseAnswer(x)
  BY <1>2, <1>13 DEF ConnectionsOpen, Closed, CreateDatabase, Close, Ended, vars,
     LoseConnection, LoseAnswer, CancelWorker
<1> QED
  BY <1>3, <1>4, <1>5, <1>6, <1>7, <1>8, <1>9, <1>10, <1>11, <1>12, <1>13
  DEF Next, Worker, OpenOrClose

LEMMA HangInv == IInv /\ Blocked /\ WakeupsKept => NothingHangs
<1> SUFFICES ASSUME IInv, Blocked, WakeupsKept PROVE NothingHangs
  OBVIOUS
<1>1. ASSUME queue # <<>>, waiting # {}
      PROVE  Awake # {}
  <2>1. Len(queue) \in Nat /\ Len(queue) # 0
    BY <1>1, EmptySeq DEF IInv, TypeOK, Q!QueueTypeOK
  <2>2. Cardinality(Awake) # 0
    BY <1>1, <2>1, AwakeFinite DEF WakeupsKept
  <2> QED
    BY <2>2, FS_EmptySet
<1>2. ASSUME NEW w \in Workers, pc[w] = "lock", _deadlockLock # Nothing
      PROVE  /\ _deadlockLock \in Workers \ {w}
             /\ pc[_deadlockLock] \notin {"pop", "lock", "none", "exited"}
  BY <1>2 DEF Blocked, IInv, TypeOK
<1> QED
  BY <1>1, <1>2 DEF NothingHangs, Blocked

LEMMA WakeupsInv == Spec => [](IInv /\ Blocked /\ WakeupsKept)
BY InitAwake, InitIInv, NextIInv, BlockedStep, WakeupsStep, PTL DEF Spec

(* The workers, of any number, are never left blocked for nothing: if an   *)
(* operation is queued, one is awake to take it, without any spurious      *)
(* wakeup; who has the deadlock lock executes; and when Close joins a      *)
(* worker, no worker is blocked in WaitAndPop.                             *)
THEOREM WorkersNeverHang == Spec => []NothingHangs
BY WakeupsInv, HangInv, PTL

(* For a pool whose database exists when it is opened.                     *)
LEMMA InitManned == ASSUME ~FirstStart PROVE Init => Manned
BY Distinct DEF Init, Q!QueueInit, Manned, Threads

LEMMA MannedStep ==
  ASSUME Workers # {}, IInv, Blocked, Manned, [Next]_vars
  PROVE  Manned'
<1> USE DEF queueVars, closeVars, threadVars, Goto
<1>1. /\ pc \in [Threads -> Places] /\ _cancelationToken \in [Workers -> BOOLEAN]
      /\ operation \in [Threads -> Operations \cup {Nothing}]
      /\ Workers \subseteq Threads /\ Callers \subseteq Threads
      /\ step # "none" => joining \in Workers
      /\ pool \in {"opening", "failed", "open", "closing", "closed"}
      /\ step \in {"none", "cancel", "join"}
  BY DEF IInv, TypeOK, InPlace, Threads
<1>2. ASSUME UNCHANGED <<shutdown, pool, step, database, queue, pc, operation,
                         _cancelationToken>>
      PROVE  Manned'
  BY <1>2 DEF Manned, Busy
<1>3. ASSUME NEW t \in Operations, Enqueue(t)
      PROVE  Manned'
  BY <1>3 DEF Enqueue, Q!Push, Manned, Busy
<1>4. ASSUME NEW x \in Threads,
             UNCHANGED <<queue, shutdown, _cancelationToken, pool, step, database>>,
             pc'[x] \notin {"none", "check", "exited"},
             \A y \in Threads : y # x => pc'[y] = pc[y] /\ operation'[y] = operation[y]
      PROVE  Manned'
  BY <1>1, <1>4 DEF Manned, Busy
<1>5. ASSUME NEW x \in Callers,
             Caller(x) \/ \E c \in SyncConnections, t \in Operations :
                            GetFreeConnection(x, c, t)
      PROVE  Manned'
  BY <1>1, <1>4, <1>5, RunStep DEF Caller
<1>6. ASSUME NEW w \in Workers, ExecuteTransaction(w) \/ TransactionTask(w)
      PROVE  Manned'
  BY <1>1, <1>4, <1>6, RunStep
<1>7. ASSUME NEW w \in Workers, WorkerPops(w)
      PROVE  Manned'
  <2>1. /\ UNCHANGED <<shutdown, _cancelationToken, pool, step, database>>
        /\ pc[w] = "pop" /\ pc' = [pc EXCEPT ![w] = "check"]
        /\ \A v \in Workers : v # w => operation'[v] = operation[v]
    BY <1>1, <1>7 DEF WorkerPops, Q!Pop, Q!PopNothing, Q!qvars
  <2>2. CASE Q!Pop(w) /\ operation' = [operation EXCEPT ![w] = Head(queue)]
    <3>1. queue # <<>> /\ ~shutdown /\ Head(queue) \in Operations
      BY <2>2, HeadTailProperties DEF Q!Pop, IInv, TypeOK, Q!QueueTypeOK
    <3>2. Busy(w)'
      BY <1>1, <2>2, <3>1, Distinct DEF Busy
    <3>3. pool # "opening"
      BY <3>1 DEF Manned
    <3> QED
      BY <1>1, <2>1, <3>1, <3>2, <3>3 DEF Manned, Busy
  <2>3. CASE Q!PopNothing(w)
    BY <1>1, <2>1, <2>3 DEF Q!PopNothing, Q!qvars, Manned
  <2> QED
    BY <1>7, <2>2, <2>3 DEF WorkerPops
<1>8. ASSUME NEW w \in Workers, WorkerStops(w)
      PROVE  Manned'
  BY <1>1, <1>8 DEF WorkerStops, Manned, Busy
<1>9. ASSUME NEW w \in Workers, WorkerStarts(w)
      PROVE  Manned'
  BY <1>1, <1>9 DEF WorkerStarts, Manned, Busy
<1>10. ASSUME NEW w \in Workers, OpenConnection(w)
       PROVE  Manned'
  BY <1>1, <1>10 DEF OpenConnection, Manned, Busy
<1>11. ASSUME NEW w \in Workers, CancelWorker(w)
       PROVE  Manned'
  BY <1>1, <1>11 DEF CancelWorker, Manned, Busy
<1>12. CASE CancelQueue
  BY <1>1, <1>12 DEF CancelQueue, Q!Cancel, Manned
<1>13. CASE Join
  BY <1>1, <1>13 DEF Join, Manned, Blocked
<1>14. CASE Closed \/ ConnectionsOpen \/ Close
  BY <1>1, <1>14 DEF Closed, AllDestroyed, ConnectionsOpen, Close, Manned, Busy
<1>15. CASE CreateDatabase
  BY <1>15 DEF CreateDatabase, Manned
<1>16. CASE \/ Ended \/ UNCHANGED vars \/ \E c \in Connections : LoseConnection(c)
            \/ \E x \in Threads : LoseAnswer(x)
            \/ \E w \in Workers : WorkerWaits(w) \/ SpuriousWakeup(w)
  BY <1>2, <1>16 DEF Ended, vars, LoseConnection, LoseAnswer, WorkerWaits, SpuriousWakeup,
     Q!Wait, Q!SpuriousWakeup
<1> QED
  BY <1>3, <1>5, <1>6, <1>7, <1>8, <1>9, <1>10, <1>11, <1>12, <1>13, <1>14,
     <1>15, <1>16
  DEF Next, Worker, OpenOrClose

LEMMA ForgottenInv ==
  ASSUME Workers # {}, OInv, Blocked, WakeupsKept, Manned
  PROVE  NothingForgotten
<1>1. TypeOK /\ InPlace /\ InLine
  BY DEF OInv, IInv
<1>2. SUFFICES ASSUME NEW t \in ToSet(issued), outcome[t] = "none",
                      \A w \in Workers : operation[w] # t
               PROVE  /\ t \in ToSet(queue)
                      /\ \/ Awake # {}
                         \/ \E w \in Workers : Busy(w)
                         \/ step = "cancel"
  BY DEF NothingForgotten
<1>3. PICK i \in 1 .. Len(issued) : issued[i] = t
  BY <1>1, Lengths
<1>4. i - Popped \in 1 .. Len(queue) /\ Popped + (i - Popped) = i
  <2>1. ~(i \in 1 .. Popped)
    BY <1>1, <1>2, <1>3 DEF InLine
  <2> QED
    BY <1>1, <2>1, Lengths DEF InLine, Popped
<1>5. queue[i - Popped] = t
  BY <1>1, <1>3, <1>4 DEF InLine
<1>6. t \in ToSet(queue) /\ queue # <<>> /\ Len(queue) # 0 /\ Len(queue) \in Nat
  BY <1>1, <1>4, <1>5, Lengths DEF ToSet
<1>7. ~shutdown /\ pool # "opening" /\ step # "join"
  BY <1>6 DEF Manned, Blocked
<1>8. CASE step = "none" /\ waiting = {}
  <2>1. PICK w \in Workers : TRUE
    BY <1>1
  <2>2. pc[w] \notin {"none", "exited", "idle"} /\ (pc[w] = "check" => Busy(w))
    BY <1>1, <1>7, <1>8 DEF Manned, InPlace
  <2>3. pc[w] = "pop" \/ Busy(w)
    BY <1>1, <2>2 DEF InPlace, Resting, Threads
  <2> QED
    BY <1>6, <1>8, <2>3 DEF Awake
<1>9. CASE waiting # {}
  <2>1. Cardinality(Awake) # 0
    BY <1>6, <1>9, AwakeFinite DEF WakeupsKept
  <2> QED
    BY <1>6, <2>1, FS_EmptySet
<1> QED
  BY <1>1, <1>6, <1>7, <1>8, <1>9 DEF TypeOK

(* While Close has not thrown it away, whatever was queued and has no      *)
(* outcome is in the hands of a worker or a worker will come to the queue: *)
(* no TransactionWithResultTask or query holder is forgotten, as long as   *)
(* there is a worker and the database existed when the pool was opened.    *)
THEOREM NothingIsForgotten ==
  ASSUME Workers # {}, ~FirstStart PROVE Spec => []NothingForgotten
<1>1. Init => OInv /\ Blocked /\ WakeupsKept /\ Manned
  BY InitIInv, InitInLine, InitAwake, InitManned DEF OInv
<1>2. OInv /\ Blocked /\ WakeupsKept /\ Manned /\ [Next]_vars
        => OInv' /\ Blocked' /\ WakeupsKept' /\ Manned'
  BY NextOInv, BlockedStep, WakeupsStep, MannedStep DEF OInv
<1>3. OInv /\ Blocked /\ WakeupsKept /\ Manned => NothingForgotten
  BY ForgottenInv
<1> QED
  BY <1>1, <1>2, <1>3, PTL DEF Spec
-----------------------------------------------------------------------------
(* Lost connections *)

(* What a lost connection does not spoil: a statement that is executed on  *)
(* its own and said to have succeeded is stored, and of what was thrown    *)
(* away nothing is.                                                        *)
SparedByLoss ==
  /\ \A t \in Statements : outcome[t] = "done" => RowsOf(t) \subseteq stored
  /\ \A t \in Operations : outcome[t] = "dropped" => RowsOf(t) \cap stored = {}

(* A thread has begun to execute the operation, or has ended it.           *)
Executes(x) == pc[x] \notin Resting \cup {"check"}
Begun(t) ==
  \/ outcome[t] \in {"done", "failed"}
  \/ \E x \in Threads : operation[x] = t /\ Executes(x)

Alone(x) ==
  pc[x] = "statement" /\ operation[x] \in Statements => statement[x] = 1
LossInv ==
  /\ \A x \in Threads : Alone(x)
  /\ \A t \in Statements : Succeeded(t) => <<t, 1>> \in stored
  /\ \A row \in stored : Begun(row[1])

(* A thread that executes an operation stores nothing but of that, and a   *)
(* statement before it succeeds.                                           *)
LEMMA ExecutingLoss ==
  ASSUME LossInv, NEW x \in Threads, Executes(x), Executes(x)',
         operation' = operation, outcome' = outcome,
         \A y \in Threads : y # x => pc'[y] = pc[y] /\ statement'[y] = statement[y],
         Alone(x)', stored \subseteq stored',
         \A row \in stored' : row \notin stored => row[1] = operation[x],
         operation[x] \in Statements /\ pc'[x] = "succeeded" =>
           <<operation[x], 1>> \in stored'
  PROVE  LossInv'
<1>1. \A y \in Threads : Alone(y)'
  BY DEF LossInv, Alone
<1>2. \A t \in Operations : Begun(t) => Begun(t)'
  BY DEF Begun, Executes
<1>3. ASSUME NEW t \in Statements
      PROVE  Succeeded(t)' => <<t, 1>> \in stored'
  <2>1. CASE t = operation[x] /\ pc'[x] = "succeeded"
    BY <2>1
  <2>2. CASE t # operation[x] \/ pc'[x] # "succeeded"
    <3>1. Succeeded(t)' => Succeeded(t)
      BY <2>2 DEF Succeeded
    <3> QED
      BY <3>1 DEF LossInv
  <2> QED
    BY <2>1, <2>2
<1>4. \A row \in stored' : Begun(row[1])'
  <2> SUFFICES ASSUME NEW row \in stored' PROVE Begun(row[1])'
    OBVIOUS
  <2>1. CASE row \in stored
    BY <2>1 DEF LossInv, Begun, Executes
  <2>2. CASE row \notin stored
    BY <2>2 DEF Begun
  <2> QED
    BY <2>1, <2>2
<1> QED
  BY <1>1, <1>3, <1>4 DEF LossInv

(* An operation ends as the thread that had it says.                       *)
LEMMA EndingLoss ==
  ASSUME IInv, LossInv, NEW x \in Threads, NEW place \in Resting, NEW result,
         Ends(x, place, result), stored' = stored, statement' = statement,
         Busy(x) => outcome'[operation[x]] = result,
         \/ pc[x] = "succeeded" /\ result = "done"
         \/ pc[x] = "check" /\ result = "dropped"
         \/ Executes(x) /\ pc[x] # "succeeded" /\ result = "failed"
  PROVE  LossInv'
<1>1. /\ pc \in [Threads -> Places]
      /\ operation \in [Threads -> Operations \cup {Nothing}]
      /\ outcome \in [Operations -> {"none", "done", "failed", "dropped"}]
      /\ stored \subseteq Operations \X Nat
  BY DEF IInv, TypeOK
<1>2. /\ pc'[x] = place /\ operation'[x] = Nothing
      /\ \A y \in Threads : y # x => pc'[y] = pc[y] /\ operation'[y] = operation[y]
  BY <1>1 DEF Ends
<1>3. \A y \in Threads : Alone(y)'
  BY <1>2 DEF LossInv, Alone, Resting
<1>4. \A t \in Operations : t # operation[x] =>
        /\ outcome'[t] = outcome[t]
        /\ \A y \in Threads : operation'[y] = t <=> operation[y] = t
        /\ Succeeded(t)' <=> Succeeded(t)
        /\ Begun(t)' <=> Begun(t)
  BY <1>2, Distinct DEF Ends, Succeeded, Begun, Executes
<1>5. CASE ~Busy(x)
  <2>1. \A t \in Operations : t # operation[x]
    BY <1>5, Distinct DEF Busy
  <2> QED
    BY <1>1, <1>3, <1>4, <2>1 DEF LossInv, Operations
<1>6. CASE Busy(x)
  <2>0. PICK o \in Operations : o = operation[x]
    BY <1>1, <1>6 DEF Busy
  <2>1. /\ Succeeded(o) <=> pc[x] = "succeeded"
        /\ outcome'[o] = result
        /\ \A y \in Threads : operation'[y] # o
    BY <1>1, <1>2, <1>6, <2>0, OwnerSucceeded DEF Busy, IInv, OneOwner
  <2>2. Succeeded(o)' <=> Succeeded(o)
    BY <2>1 DEF Succeeded
  <2>3. Begun(o) => Begun(o)'
    <3>1. outcome[o] = "none"
      BY <1>6, <2>0, OwnerSucceeded
    <3>2. Begun(o) => Executes(x)
      BY <1>6, <2>0, <3>1 DEF Begun, IInv, OneOwner, Executes, Busy
    <3> QED
      BY <2>1, <3>2 DEF Begun, Executes
  <2>4. \A t \in Operations : (Succeeded(t)' <=> Succeeded(t)) /\ (Begun(t) => Begun(t)')
    BY <1>4, <2>0, <2>2, <2>3
  <2> QED
    BY <1>1, <1>3, <2>4 DEF LossInv, Operations
<1> QED
  BY <1>5, <1>6

(* Nothing is stored, and no operation is begun and none ends.             *)
LEMMA RestingLoss ==
  ASSUME IInv, LossInv, stored' = stored,
         \A t \in Operations : \/ outcome'[t] = outcome[t]
                               \/ outcome[t] = "none" /\ outcome'[t] = "dropped",
         \A x \in Threads : Executes(x) => pc'[x] # "none" /\
           pc'[x] = pc[x] /\ operation'[x] = operation[x] /\ statement'[x] = statement[x],
         \A x \in Threads : ~Executes(x) => pc'[x] \notin {"statement", "succeeded"}
  PROVE  LossInv'
<1>1. stored \subseteq Operations \X Nat /\ Statements \subseteq Operations
  BY DEF IInv, TypeOK, Operations
<1>2. \A x \in Threads : Alone(x)'
  BY DEF LossInv, Alone, Executes, Resting
<1>3. \A t \in Operations : Succeeded(t)' <=> Succeeded(t)
  BY DEF Succeeded, Executes, Resting
<1>4. \A t \in Operations : Begun(t) => Begun(t)'
  BY DEF Begun, Executes
<1> QED
  BY <1>1, <1>2, <1>3, <1>4 DEF LossInv

LEMMA ExecuteLoss ==
  ASSUME IInv, LossInv, NEW x \in Threads, ExecuteTransaction(x)
  PROVE  LossInv'
<1> DEFINE c == ConnectionOf(x)
           o == operation[x]
<1> USE DEF queueVars, closeVars, serverVars, Goto
<1>1. TypeOK /\ InPlace /\ OneOwner /\ SessionsClosed
  BY DEF IInv
<1>2. /\ pc[x] \in {"begin", "statement", "commit"}
      /\ operation' = operation /\ outcome' = outcome
      /\ pc \in [Threads -> Places] /\ statement \in [Threads -> Nat]
      /\ session \in [Connections -> Session]
  BY <1>1 DEF ExecuteTransaction, BeginTransaction, BeginStatement, BeginEmpty, Execute,
         ExecuteFails, CommitTransaction, TypeOK
<1>3. Executes(x) /\ Busy(x) /\ pc[x] # "succeeded"
  BY <1>1, <1>2 DEF Executes, InPlace, Resting
<1>4. /\ c \in Connections /\ c # Nothing
      /\ \A row \in session[c].writes : row[1] = o
      /\ o \in Statements => session[c] = Autocommit
      /\ o \in Operations /\ outcome[o] = "none"
  BY <1>1, <1>2, <1>3, OwnConnection, OwnerSucceeded, Distinct
  DEF SessionsClosed, Resting
<1>5. /\ \A y \in Threads : y # x => pc'[y] = pc[y] /\ statement'[y] = statement[y]
      /\ pc'[x] \in {"statement", "commit", "succeeded", "failed", "deadlocked"}
  BY <1>2 DEF ExecuteTransaction, BeginTransaction, BeginStatement, BeginEmpty,
              Execute, ExecuteFails, CommitTransaction
<1>6. Executes(x)'
  BY <1>5 DEF Executes, Resting
<1> HIDE DEF c, o
<1>7. CASE BeginTransaction(x) \/ CommitTransaction(x)
  <2>1. /\ stored' = stored \cup session[c].writes
        /\ o \in Transactions
    BY <1>1, <1>2, <1>7 DEF BeginTransaction, CommitTransaction, InPlace, c, o
  <2>2. o \notin Statements
    BY <2>1, Distinct
  <2> QED
    BY <1>2, <1>3, <1>4, <1>5, <1>6, <2>1, <2>2, ExecutingLoss DEF Alone, o
<1>8. CASE BeginStatement(x) \/ BeginEmpty(x) \/ ExecuteFails(x)
  <2>1. stored' = stored /\ pc'[x] # "succeeded" /\ (pc'[x] = "statement" => statement'[x] = 1)
    BY <1>2, <1>8 DEF BeginStatement, BeginEmpty, ExecuteFails
  <2> QED
    BY <1>2, <1>3, <1>4, <1>5, <1>6, <2>1, ExecutingLoss DEF Alone, o
<1>9. CASE Execute(x)
  <2>1. /\ pc[x] = "statement"
        /\ Write(c, <<o, statement[x]>>)
        /\ IF statement[x] = Size[o]
           THEN pc'[x] = IF o \in Transactions THEN "commit" ELSE "succeeded"
           ELSE pc'[x] = pc[x]
    BY <1>2, <1>9 DEF Execute, c, o
  <2>2. CASE o \in Statements
    <3>1. statement[x] = 1 /\ Size[o] = 1 /\ o \notin Transactions
      BY <2>1, <2>2, Distinct DEF LossInv, Alone, o
    <3>2. stored' = stored \cup {<<o, 1>>}
      BY <1>4, <2>1, <2>2, <3>1, SessionTypes DEF Write
    <3> QED
      BY <1>2, <1>3, <1>4, <1>5, <1>6, <2>1, <3>1, <3>2, ExecutingLoss DEF Alone, o
  <2>3. CASE o \notin Statements
    <3>1. stored' = stored \/ stored' = stored \cup {<<o, statement[x]>>}
      BY <2>1 DEF Write
    <3>2. /\ stored \subseteq stored'
          /\ \A row \in stored' : row \notin stored => row[1] = o
      BY <3>1
    <3>3. Alone(x)'
      BY <1>2, <2>3 DEF Alone, o
    <3> QED
      BY <1>2, <1>3, <1>4, <1>5, <1>6, <2>3, <3>2, <3>3, ExecutingLoss DEF o
  <2> QED
    BY <2>2, <2>3
<1> QED
  BY <1>7, <1>8, <1>9 DEF ExecuteTransaction

LEMMA InitLoss == Init => LossInv
BY DEF Init, LossInv, Alone, Succeeded, Threads, Operations

LEMMA NextLoss ==
  ASSUME IInv, LossInv, [Next]_vars
  PROVE  LossInv'
<1> USE DEF queueVars, closeVars, serverVars, Goto
<1>1. TypeOK /\ InPlace /\ OneOwner
  BY DEF IInv
<1>2. /\ pc \in [Threads -> Places]
      /\ operation \in [Threads -> Operations \cup {Nothing}]
      /\ outcome \in [Operations -> {"none", "done", "failed", "dropped"}]
      /\ queue \in Seq(Operations)
      /\ Workers \subseteq Threads /\ Callers \subseteq Threads
  BY <1>1 DEF TypeOK, Q!QueueTypeOK, Threads
<1>3. ASSUME NEW x \in Threads, ExecuteTransaction(x)
      PROVE  LossInv'
  BY <1>3, ExecuteLoss
<1>4. ASSUME NEW x \in Threads, Executes(x), pc[x] # "statement", pc[x] # "succeeded",
             \E place \in {"begin", "lock"} : Goto(x, place),
             UNCHANGED <<operation, outcome, stored, statement>>
      PROVE  LossInv'
  <2>1. /\ pc'[x] \in {"begin", "lock"}
        /\ \A y \in Threads : y # x => pc'[y] = pc[y]
    BY <1>2, <1>4
  <2>2. Busy(x) /\ outcome[operation[x]] = "none"
    BY <1>1, <1>4 DEF InPlace, Executes, OneOwner
  <2> QED
    BY <1>4, <2>1, <2>2, ExecutingLoss DEF Executes, Resting, Alone
<1>5. ASSUME NEW w \in Workers, TransactionTask(w)
      PROVE  LossInv'
  <2>1. pc[w] \in {"succeeded", "failed", "deadlocked", "lock"} /\ w \in Threads
    BY <1>2, <1>5 DEF TransactionTask, TaskSucceeds, TaskFails, TaskDeadlocks,
       LockDeadlock, RetryAgain, RetryFailed, RetryTimeOver
  <2>2. Executes(w) /\ Busy(w) /\ operation[w] \in Operations
    BY <1>1, <1>2, <2>1 DEF Executes, Resting, InPlace, Busy
  <2>3. CASE TaskSucceeds(w) \/ TaskFails(w) \/ RetryTimeOver(w)
    <3>1. PICK result \in {"done", "failed"} :
            TaskEnds(w, result) /\ (result = "done" <=> pc[w] = "succeeded")
      BY <2>1, <2>3 DEF TaskSucceeds, TaskFails, RetryTimeOver, RetryFailed
    <3>2. Ends(w, "pop", result) /\ stored' = stored /\ statement' = statement
          /\ outcome'[operation[w]] = result
      BY <1>2, <2>2, <3>1 DEF TaskEnds, Ends, closeVars
    <3> QED
      BY <2>1, <2>2, <3>1, <3>2, EndingLoss DEF Resting
  <2>4. CASE TaskDeadlocks(w) \/ LockDeadlock(w) \/ RetryAgain(w)
    <3>1. /\ pc[w] # "succeeded" /\ pc[w] # "statement"
          /\ \E place \in {"begin", "lock"} : Goto(w, place)
          /\ UNCHANGED <<operation, outcome, stored, statement>>
      BY <2>4 DEF TaskDeadlocks, LockDeadlock, RetryAgain, RetryFailed, RetryFromTheStart
    <3> QED
      BY <1>4, <2>1, <2>2, <3>1
  <2> QED
    BY <1>5, <2>3, <2>4 DEF TransactionTask
<1>6. ASSUME NEW x \in Callers, DirectCommitTransaction(x)
      PROVE  LossInv'
  <2>1. pc[x] \in {"succeeded", "failed", "deadlocked"} /\ x \in Threads
    BY <1>1, <1>2, <1>6 DEF DirectCommitTransaction, DirectSucceeds, DirectRetriesOnce,
       DirectRetry, DirectFails
  <2>2. Executes(x) /\ Busy(x) /\ operation[x] \in Operations
    BY <1>1, <1>2, <2>1 DEF Executes, Resting, InPlace, Busy
  <2>3. CASE DirectSucceeds(x) \/ DirectFails(x)
    <3>1. PICK result \in {"done", "failed"} :
            DirectEnds(x, result) /\ (result = "done" <=> pc[x] = "succeeded")
      BY <2>1, <2>3 DEF DirectSucceeds, DirectFails
    <3>2. Ends(x, "idle", result) /\ stored' = stored /\ statement' = statement
          /\ outcome'[operation[x]] = result
      BY <1>2, <2>2, <3>1 DEF DirectEnds, Ends, closeVars
    <3> QED
      BY <2>1, <2>2, <3>1, <3>2, EndingLoss DEF Resting
  <2>4. CASE DirectRetriesOnce(x)
    <3>1. /\ pc[x] # "succeeded" /\ pc[x] # "statement"
          /\ \E place \in {"begin", "lock"} : Goto(x, place)
          /\ UNCHANGED <<operation, outcome, stored, statement>>
      BY <2>4 DEF DirectRetriesOnce, DirectRetry
    <3> QED
      BY <1>4, <2>1, <2>2, <3>1
  <2> QED
    BY <1>6, <2>3, <2>4 DEF DirectCommitTransaction
<1>7. ASSUME NEW w \in Workers, WorkerStops(w)
      PROVE  LossInv'
  <2>1. /\ Ends(w, "exited", "dropped") /\ stored' = stored /\ statement' = statement
        /\ pc[w] = "check"
        /\ Busy(w) => outcome'[operation[w]] = "dropped"
    BY <1>2, <1>7 DEF WorkerStops, Ends, closeVars, Busy
  <2> QED
    BY <1>2, <2>1, EndingLoss DEF Resting
<1>8. ASSUME NEW w \in Workers,
             \/ WorkerWaits(w) \/ WorkerPops(w) \/ WorkerStarts(w) \/ SpuriousWakeup(w)
             \/ OpenConnection(w) \/ CancelWorker(w)
      PROVE  LossInv'
  <2>1. /\ stored' = stored /\ outcome' = outcome /\ statement' = statement
        /\ \A y \in Threads : y # w => pc'[y] = pc[y] /\ operation'[y] = operation[y]
        /\ \/ pc'[w] = pc[w] /\ operation'[w] = operation[w]
           \/ pc[w] \in {"pop", "check", "none"} /\ pc'[w] \in {"pop", "check", "begin"}
    BY <1>2, <1>8 DEF WorkerWaits, WorkerPops, WorkerStarts, SpuriousWakeup,
       OpenConnection, CancelWorker, threadVars
  <2> QED
    BY <1>2, <2>1, RestingLoss DEF Executes, Resting
<1>9. ASSUME NEW x \in Callers, NEW c \in SyncConnections, NEW t \in Operations,
             GetFreeConnection(x, c, t)
      PROVE  LossInv'
  <2>1. /\ stored' = stored /\ outcome' = outcome /\ statement' = statement
        /\ \A y \in Threads : y # x => pc'[y] = pc[y] /\ operation'[y] = operation[y]
        /\ pc[x] = "idle" /\ pc'[x] = "begin"
    BY <1>2, <1>9 DEF GetFreeConnection
  <2> QED
    BY <1>2, <2>1, RestingLoss DEF Executes, Resting
<1>10. CASE CancelQueue
  <2>1. /\ UNCHANGED <<stored, pc, operation, statement>>
        /\ \A t \in Operations :
             outcome'[t] = IF t \in ToSet(queue) THEN "dropped" ELSE outcome[t]
    BY <1>2, <1>10 DEF CancelQueue, threadVars
  <2>2. \A t \in ToSet(queue) : outcome[t] = "none"
    BY <1>1, <1>2, LenProperties DEF ToSet, OneOwner
  <2> QED
    BY <1>2, <2>1, <2>2, RestingLoss DEF Executes, Resting
<1>11. CASE Join
  <2>1. /\ UNCHANGED <<stored, outcome, operation, statement>>
        /\ joining \in Workers /\ pc[joining] = "exited"
        /\ pc' = [pc EXCEPT ![joining] = "none"]
    BY <1>1, <1>11 DEF Join, InPlace
  <2> QED
    BY <1>2, <2>1, RestingLoss DEF Executes, Resting
<1>12. ASSUME NEW x \in Threads, LoseAnswer(x)
       PROVE  LossInv'
  <2>1. /\ UNCHANGED <<outcome, pc, operation, statement>>
        /\ stored' = stored \cup {<<operation[x], statement[x]>>}
        /\ pc[x] = "statement"
    BY <1>12 DEF LoseAnswer, threadVars
  <2>2. Executes(x) /\ Executes(x)' /\ Alone(x)'
    BY <2>1 DEF Executes, Resting, LossInv, Alone
  <2>3. /\ \A y \in Threads : y # x => pc'[y] = pc[y] /\ statement'[y] = statement[y]
        /\ stored \subseteq stored' /\ pc'[x] # "succeeded"
        /\ \A row \in stored' : row \notin stored => row[1] = operation[x]
    BY <2>1
  <2> QED
    BY <2>1, <2>2, <2>3, ExecutingLoss
<1>13. CASE \/ \E t \in Operations : Enqueue(t)
            \/ \E c \in Connections : LoseConnection(c)
            \/ Close \/ ConnectionsOpen \/ Closed \/ CreateDatabase \/ UNCHANGED vars
  <2>1. UNCHANGED <<stored, outcome, pc, operation, statement>>
    BY <1>13 DEF Enqueue, LoseConnection, Close, ConnectionsOpen, Closed,
       CreateDatabase, vars, threadVars
  <2> QED
    BY <1>2, <2>1, RestingLoss DEF Executes, Resting
<1> QED
  BY <1>2, <1>3, <1>5, <1>6, <1>7, <1>8, <1>9, <1>10, <1>11, <1>12, <1>13
  DEF Next, Caller, Worker, OpenOrClose, Ended

LEMMA LossSpares == IInv /\ LossInv => SparedByLoss
<1> SUFFICES ASSUME IInv, LossInv PROVE SparedByLoss
  OBVIOUS
<1>1. \A x \in Threads : Busy(x) => outcome[operation[x]] = "none"
  BY DEF IInv, OneOwner
<1>2. \A t \in Operations, x \in Threads : operation[x] = t => outcome[t] = "none"
  BY <1>1, Distinct DEF Busy
<1>3. \A t \in Statements : outcome[t] = "done" => RowsOf(t) \subseteq stored
  BY <1>2, Rows DEF LossInv, Succeeded, Operations
<1>4. ASSUME NEW t \in Operations, outcome[t] = "dropped"
      PROVE  RowsOf(t) \cap stored = {}
  <2>1. ~Begun(t)
    BY <1>2, <1>4 DEF Begun
  <2>2. \A row \in RowsOf(t) : row[1] = t
    BY DEF RowsOf
  <2> QED
    BY <2>1, <2>2 DEF LossInv
<1> QED
  BY <1>3, <1>4 DEF SparedByLoss

(* Lost connections or not, with any number of workers and callers: a      *)
(* statement on its own that Execute says has succeeded, after it has      *)
(* reconnected and tried again or not, is in the database; and what Close  *)
(* throws away leaves no trace there.                                      *)
THEOREM LossIsConfined == Spec => []SparedByLoss
BY InitIInv, NextIInv, InitLoss, NextLoss, LossSpares, PTL DEF Spec
==============================================================================
