---------------------------- MODULE DatabasePool ----------------------------
(***************************************************************************)
(* A DatabaseWorkerPool with its connections and the MySQL server.         *)
(*                                                                         *)
(* Operations are queued for the worker threads, each of which has a       *)
(* connection of its own, or executed at once by the calling thread on a   *)
(* synchronous connection that it locks.  A transaction whose statement    *)
(* fails is rolled back; after a deadlock it is tried again.  Closing the  *)
(* pool stops the workers one after the other and throws away what is      *)
(* still queued.  A pool that could not be opened because its database     *)
(* does not exist yet is opened again once DatabaseLoader has created it.  *)
(***************************************************************************)
EXTENDS Naturals, FiniteSets, SequencesExt

CONSTANTS
  Workers,          \* worker threads, and their connections
  Callers,          \* threads that use the synchronous connections
  SyncConnections,
  Transactions,     \* TransactionTasks, or what is committed directly
  Statements,       \* tasks of one statement, executed without transaction
  Size,             \* the number of statements of an operation
  Nothing,          \* null pointer
  ConnectionsBreak, \* the server may be lost, and found again
  FirstStart        \* the database may not exist yet

DirectRetries == 5  \* loopBreaker in DirectCommitTransaction

Operations == Transactions \cup Statements
Threads == Workers \cup Callers
Connections == Workers \cup SyncConnections

ASSUME DatabasePoolAssumption ==
  /\ IsFiniteSet(Workers)
  /\ Workers \cap Callers = {}
  /\ Workers \cap SyncConnections = {}
  /\ Transactions \cap Statements = {}
  /\ Nothing \notin Operations \cup Connections \cup Threads
  /\ Size \in [Operations -> Nat]
  /\ \A s \in Statements : Size[s] = 1
  /\ ConnectionsBreak \in BOOLEAN
  /\ FirstStart \in BOOLEAN

VARIABLES
  queue, waiting, shutdown,     \* _queue
  _cancelationToken,            \* of each DatabaseWorker
  _deadlockLock,                \* the thread that holds it
  pool,                         \* how far Open or Close is
  joining,                      \* the worker whose connection is being closed
  step,                         \* how far ~DatabaseWorker is
  database,                     \* whether the database exists
  pc,                           \* where each thread is
  operation,                    \* the operation it executes
  statement,                    \* which of its statements comes next
  retries,                      \* how often a caller has tried again
  connection,                   \* the connection a caller has locked
  session,                      \* the server's side of each connection
  stored,                       \* the rows in the database
  outcome,                      \* what Execute told, or the promise holds
  issued                        \* the operations queued so far, in order

queueVars == <<queue, waiting, shutdown>>
closeVars == <<_cancelationToken, pool, joining, step, database>>
threadVars == <<pc, operation, statement, retries, connection, _deadlockLock>>
serverVars == <<session, stored>>
vars == <<queueVars, closeVars, threadVars, serverVars, outcome, issued>>

Q == INSTANCE ProducerConsumerQueue
       WITH Consumers <- Workers, Values <- Operations

-----------------------------------------------------------------------------
(* MySQL: the session of a connection, with or without an open             *)
(* transaction, and the rows it has written but not committed.             *)

RowsOf(t) == {t} \X (1..Size[t])
Autocommit == [open |-> FALSE, writes |-> {}]
Opened == [open |-> TRUE, writes |-> {}]

Init ==
  /\ Q!QueueInit
  /\ _cancelationToken = [w \in Workers |-> FALSE]
  /\ _deadlockLock = Nothing
  /\ pool = "opening"
  /\ joining = Nothing
  /\ step = "none"
  /\ database \in {"exists"} \cup (IF FirstStart THEN {"missing"} ELSE {})
  /\ pc = [x \in Threads |-> IF x \in Workers THEN "none" ELSE "idle"]
  /\ operation = [x \in Threads |-> Nothing]
  /\ statement = [x \in Threads |-> 1]
  /\ retries = [x \in Callers |-> 0]
  /\ connection = [x \in Callers |-> Nothing]
  /\ session = [c \in Connections |-> Autocommit]
  /\ stored = {}
  /\ outcome = [t \in Operations |-> "none"]
  /\ issued = <<>>

ConnectionOf(x) == IF x \in Workers THEN x ELSE connection[x]

(* An operation object is used once.                                       *)
Fresh(t) ==
  /\ t \notin ToSet(issued)
  /\ outcome[t] = "none"
  /\ \A x \in Callers : operation[x] # t

(* Enqueue; the threads that use the pool end before it is closed.         *)
Enqueue(t) ==
  /\ pool = "open"
  /\ Fresh(t)
  /\ Q!Push(t)
  /\ issued' = Append(issued, t)
  /\ UNCHANGED <<closeVars, threadVars, serverVars, outcome>>

-----------------------------------------------------------------------------
(* MySQLConnection::ExecuteTransaction, or Execute of a single statement.  *)

Goto(x, place) == pc' = [pc EXCEPT ![x] = place]

(* START TRANSACTION commits what the session had left open.               *)
BeginTransaction(x) ==
  /\ pc[x] = "begin"
  /\ operation[x] \in Transactions
  /\ Size[operation[x]] > 0
  /\ stored' = stored \cup session[ConnectionOf(x)].writes
  /\ session' = [session EXCEPT ![ConnectionOf(x)] = Opened]
  /\ statement' = [statement EXCEPT ![x] = 1]
  /\ Goto(x, "statement")
  /\ UNCHANGED <<queueVars, closeVars, operation, retries, connection,
                 _deadlockLock, outcome, issued>>

BeginStatement(x) ==
  /\ pc[x] = "begin"
  /\ operation[x] \in Statements
  /\ statement' = [statement EXCEPT ![x] = 1]
  /\ Goto(x, "statement")
  /\ UNCHANGED <<queueVars, closeVars, operation, retries, connection,
                 _deadlockLock, serverVars, outcome, issued>>

(* A transaction without statements returns -1.                            *)
BeginEmpty(x) ==
  /\ pc[x] = "begin"
  /\ operation[x] \in Transactions
  /\ Size[operation[x]] = 0
  /\ Goto(x, "failed")
  /\ UNCHANGED <<queueVars, closeVars, operation, statement, retries,
                 connection, _deadlockLock, serverVars, outcome, issued>>

Write(c, row) ==
  IF session[c].open
  THEN /\ session' = [session EXCEPT ![c].writes = @ \cup {row}]
       /\ UNCHANGED stored
  ELSE /\ stored' = stored \cup {row}
       /\ UNCHANGED session

Execute(x) ==
  /\ pc[x] = "statement"
  /\ Write(ConnectionOf(x), <<operation[x], statement[x]>>)
  /\ IF statement[x] = Size[operation[x]]
     THEN /\ Goto(x, IF operation[x] \in Transactions THEN "commit"
                                                      ELSE "succeeded")
          /\ UNCHANGED statement
     ELSE /\ statement' = [statement EXCEPT ![x] = @ + 1]
          /\ UNCHANGED pc
  /\ UNCHANGED <<queueVars, closeVars, operation, retries, connection,
                 _deadlockLock, outcome, issued>>

NoRollback(c) == UNCHANGED session                                  \* mutant
RollbackTransaction(c) == session' = [session EXCEPT ![c] = Autocommit]

ExecuteFails(x) ==
  /\ pc[x] = "statement"
  /\ \E result \in {"failed", "deadlocked"} : Goto(x, result)
  /\ RollbackTransaction(ConnectionOf(x))
  /\ UNCHANGED <<queueVars, closeVars, operation, statement, retries,
                 connection, _deadlockLock, stored, outcome, issued>>

(* The result of COMMIT is not looked at.                                  *)
CommitTransaction(x) ==
  /\ pc[x] = "commit"
  /\ stored' = stored \cup session[ConnectionOf(x)].writes
  /\ session' = [session EXCEPT ![ConnectionOf(x)] = Autocommit]
  /\ Goto(x, "succeeded")
  /\ UNCHANGED <<queueVars, closeVars, operation, statement, retries,
                 connection, _deadlockLock, outcome, issued>>

(* The connection is lost, and with it what the session had not committed. *)
(* The next Execute on it finds that out, reconnects, and executes its     *)
(* statement in the new session: the thread does not notice.               *)
LoseConnection(c) ==
  /\ ConnectionsBreak
  /\ session[c].open
  /\ session' = [session EXCEPT ![c] = Autocommit]
  /\ UNCHANGED <<queueVars, closeVars, threadVars, stored, outcome, issued>>

(* The server executes a statement, but its answer is lost with the        *)
(* connection: Execute tries again.  (In a transaction nothing is left of  *)
(* the statement, which is LoseConnection.)                                *)
LoseAnswer(x) ==
  /\ ConnectionsBreak
  /\ pc[x] = "statement"
  /\ ~session[ConnectionOf(x)].open
  /\ stored' = stored \cup {<<operation[x], statement[x]>>}
  /\ UNCHANGED <<queueVars, closeVars, threadVars, session, outcome, issued>>

ExecuteTransaction(x) ==
  \/ BeginTransaction(x) \/ BeginStatement(x) \/ BeginEmpty(x)
  \/ Execute(x) \/ ExecuteFails(x) \/ CommitTransaction(x)

-----------------------------------------------------------------------------
(* DatabaseWorker::WorkerThread                                            *)

WorkerWaits(w) ==
  /\ pc[w] = "pop"
  /\ Q!Wait(w)
  /\ UNCHANGED <<closeVars, threadVars, serverVars, outcome, issued>>

WorkerPops(w) ==
  /\ pc[w] = "pop"
  /\ \/ Q!Pop(w) /\ operation' = [operation EXCEPT ![w] = Head(queue)]
     \/ Q!PopNothing(w) /\ UNCHANGED operation
  /\ Goto(w, "check")
  /\ UNCHANGED <<closeVars, statement, retries, connection, _deadlockLock,
                 serverVars, outcome, issued>>

(* An operation popped too late is not deleted, and not executed.          *)
WorkerStops(w) ==
  /\ pc[w] = "check"
  /\ _cancelationToken[w] \/ operation[w] = Nothing
  /\ outcome' = [t \in Operations |->
                   IF t = operation[w] THEN "dropped" ELSE outcome[t]]
  /\ Goto(w, "exited")
  /\ operation' = [operation EXCEPT ![w] = Nothing]
  /\ UNCHANGED <<queueVars, closeVars, statement, retries, connection,
                 _deadlockLock, serverVars, issued>>

WorkerStarts(w) ==
  /\ pc[w] = "check"
  /\ ~_cancelationToken[w]
  /\ operation[w] # Nothing
  /\ Goto(w, "begin")
  /\ UNCHANGED <<queueVars, closeVars, operation, statement, retries,
                 connection, _deadlockLock, serverVars, outcome, issued>>

-----------------------------------------------------------------------------
(* TransactionTask::Execute, in a worker.  Who retries holds _deadlockLock.*)

KeepLock(w) == UNCHANGED _deadlockLock                              \* mutant
ReleaseLock(w) ==
  _deadlockLock' = IF _deadlockLock = w THEN Nothing ELSE _deadlockLock

(* Execute returns, and the operation is deleted.                          *)
TaskEnds(w, result) ==
  /\ outcome' = [outcome EXCEPT ![operation[w]] = result]
  /\ operation' = [operation EXCEPT ![w] = Nothing]
  /\ ReleaseLock(w)
  /\ Goto(w, "pop")
  /\ UNCHANGED <<queueVars, closeVars, statement, retries, connection,
                 serverVars, issued>>

TaskSucceeds(w) ==
  /\ pc[w] = "succeeded"
  /\ TaskEnds(w, "done")

TaskFails(w) ==
  /\ _deadlockLock # w
  /\ \/ pc[w] = "failed"
     \/ pc[w] = "deadlocked" /\ operation[w] \in Statements
  /\ TaskEnds(w, "failed")

QueueItAgain(w) ==                                                  \* mutant
  /\ _deadlockLock # w
  /\ pc[w] = "deadlocked"
  /\ operation[w] \in Transactions
  /\ Q!Push(operation[w])
  /\ operation' = [operation EXCEPT ![w] = Nothing]
  /\ Goto(w, "pop")
  /\ UNCHANGED <<closeVars, statement, retries, connection, _deadlockLock,
                 serverVars, outcome, issued>>
TaskDeadlocks(w) ==
  /\ _deadlockLock # w
  /\ pc[w] = "deadlocked"
  /\ operation[w] \in Transactions
  /\ Goto(w, "lock")
  /\ UNCHANGED <<queueVars, closeVars, operation, statement, retries,
                 connection, _deadlockLock, serverVars, outcome, issued>>

LockDeadlock(w) ==
  /\ pc[w] = "lock"
  /\ _deadlockLock = Nothing
  /\ _deadlockLock' = w
  /\ Goto(w, "begin")
  /\ UNCHANGED <<queueVars, closeVars, operation, statement, retries,
                 connection, serverVars, outcome, issued>>

RetryFailed(w) ==
  /\ _deadlockLock = w
  /\ pc[w] \in {"failed", "deadlocked"}

(* The retry starts from the first statement, whatever the error was ...   *)
RetryWhereItFailed(w) == Goto(w, "statement")                       \* mutant
RetryFromTheStart(w) == Goto(w, "begin")

RetryAgain(w) ==
  /\ RetryFailed(w)
  /\ RetryFromTheStart(w)
  /\ UNCHANGED <<queueVars, closeVars, operation, statement, retries,
                 connection, _deadlockLock, serverVars, outcome, issued>>

(* ... until DEADLOCK_MAX_RETRY_TIME_MS have passed.                       *)
RetryTimeOver(w) ==
  /\ RetryFailed(w)
  /\ TaskEnds(w, "failed")

TransactionTask(w) ==
  \/ TaskSucceeds(w) \/ TaskFails(w) \/ TaskDeadlocks(w) \/ LockDeadlock(w)
  \/ RetryAgain(w) \/ RetryTimeOver(w)

-----------------------------------------------------------------------------
(* DirectCommitTransaction and DirectExecute, in any thread.               *)

AnyConnection(c) == TRUE                                            \* mutant
LockIfReady(c) == \A y \in Callers : connection[y] # c

GetFreeConnection(x, c, t) ==
  /\ pool = "open"
  /\ pc[x] = "idle"
  /\ Fresh(t)
  /\ LockIfReady(c)
  /\ connection' = [connection EXCEPT ![x] = c]
  /\ operation' = [operation EXCEPT ![x] = t]
  /\ retries' = [retries EXCEPT ![x] = 0]
  /\ Goto(x, "begin")
  /\ UNCHANGED <<queueVars, closeVars, statement, _deadlockLock, serverVars,
                 outcome, issued>>

DirectEnds(x, result) ==
  /\ outcome' = [outcome EXCEPT ![operation[x]] = result]
  /\ operation' = [operation EXCEPT ![x] = Nothing]
  /\ connection' = [connection EXCEPT ![x] = Nothing]
  /\ Goto(x, "idle")
  /\ UNCHANGED <<queueVars, closeVars, statement, retries, _deadlockLock,
                 serverVars, issued>>

DirectSucceeds(x) ==
  /\ pc[x] = "succeeded"
  /\ DirectEnds(x, "done")

(* Only a deadlock in the first try is retried, but then any error is.     *)
RetryTooOften(x) ==                                                 \* mutant
  /\ operation[x] \in Transactions
  /\ \/ pc[x] = "deadlocked" /\ retries[x] = 0
     \/ pc[x] \in {"failed", "deadlocked"} /\ retries[x] \in 1..DirectRetries
DirectRetry(x) ==
  /\ operation[x] \in Transactions
  /\ \/ pc[x] = "deadlocked" /\ retries[x] = 0
     \/ pc[x] \in {"failed", "deadlocked"} /\ retries[x] \in 1..DirectRetries - 1

DirectRetriesOnce(x) ==
  /\ DirectRetry(x)
  /\ retries' = [retries EXCEPT ![x] = @ + 1]
  /\ Goto(x, "begin")
  /\ UNCHANGED <<queueVars, closeVars, operation, statement, connection,
                 _deadlockLock, serverVars, outcome, issued>>

DirectFails(x) ==
  /\ pc[x] \in {"failed", "deadlocked"}
  /\ ~DirectRetry(x)
  /\ DirectEnds(x, "failed")

DirectCommitTransaction(x) ==
  DirectSucceeds(x) \/ DirectRetriesOnce(x) \/ DirectFails(x)

-----------------------------------------------------------------------------
(* DatabaseWorkerPool::Open, twice if need be, and Close.                  *)

(* Each asynchronous connection has its thread before it is connected.     *)
OpenConnection(w) ==
  /\ pool = "opening"
  /\ pc[w] = "none"
  /\ Goto(w, "pop")
  /\ _cancelationToken' = [_cancelationToken EXCEPT ![w] = FALSE]
  /\ pool' = IF database = "exists" THEN "opening" ELSE "failed"
  /\ UNCHANGED <<queueVars, joining, step, database, operation, statement,
                 retries, connection, _deadlockLock, serverVars, outcome, issued>>

ConnectionsOpen ==
  /\ pool = "opening"
  /\ \A w \in Workers : pc[w] # "none"
  /\ pool' = "open"
  /\ UNCHANGED <<queueVars, _cancelationToken, joining, step, database,
                 threadVars, serverVars, outcome, issued>>

(* No other thread uses the pool any more when it is closed.               *)
Close ==
  /\ pool = "open"
  /\ \A x \in Callers : pc[x] = "idle"
  /\ pool' = "closing"
  /\ UNCHANGED <<queueVars, _cancelationToken, joining, step, database,
                 threadVars, serverVars, outcome, issued>>

(* ~DatabaseWorker, in three steps, for one connection after the other.    *)
CancelWorker(w) ==
  /\ pool \in {"failed", "closing"}
  /\ step = "none"
  /\ pc[w] # "none"
  /\ joining' = w
  /\ step' = "cancel"
  /\ _cancelationToken' = [_cancelationToken EXCEPT ![w] = TRUE]
  /\ UNCHANGED <<queueVars, pool, database, threadVars, serverVars, outcome,
                 issued>>

CancelQueue ==
  /\ step = "cancel"
  /\ Q!Cancel
  /\ outcome' = [t \in Operations |->
                   IF t \in ToSet(queue) THEN "dropped" ELSE outcome[t]]
  /\ step' = "join"
  /\ UNCHANGED <<_cancelationToken, pool, joining, database, threadVars,
                 serverVars, issued>>

Join ==
  /\ step = "join"
  /\ pc[joining] = "exited"
  /\ Goto(joining, "none")
  /\ joining' = Nothing
  /\ step' = "none"
  /\ UNCHANGED <<queueVars, _cancelationToken, pool, database, operation,
                 statement, retries, connection, _deadlockLock, serverVars,
                 outcome, issued>>

AllDestroyed == step = "none" /\ \A w \in Workers : pc[w] = "none"

Closed ==
  /\ pool = "closing"
  /\ AllDestroyed
  /\ pool' = "closed"
  /\ UNCHANGED <<queueVars, _cancelationToken, joining, step, database,
                 threadVars, serverVars, outcome, issued>>

(* DBUpdater::Create, and Open of the same pool for the second time.       *)
CreateDatabase ==
  /\ pool = "failed"
  /\ AllDestroyed
  /\ database' = "exists"
  /\ pool' = "opening"
  /\ UNCHANGED <<queueVars, _cancelationToken, joining, step, threadVars,
                 serverVars, outcome, issued>>

Ended ==
  /\ pool = "closed"
  /\ UNCHANGED vars

OpenOrClose ==
  \/ \E w \in Workers : OpenConnection(w) \/ CancelWorker(w)
  \/ ConnectionsOpen \/ CancelQueue \/ Join \/ Closed \/ CreateDatabase

-----------------------------------------------------------------------------

SpuriousWakeup(w) ==
  /\ Q!SpuriousWakeup(w)
  /\ UNCHANGED <<closeVars, threadVars, serverVars, outcome, issued>>

Worker(w) ==
  \/ WorkerWaits(w) \/ WorkerPops(w) \/ WorkerStops(w) \/ WorkerStarts(w)
  \/ ExecuteTransaction(w) \/ TransactionTask(w)

Caller(x) == ExecuteTransaction(x) \/ DirectCommitTransaction(x)

Next ==
  \/ \E t \in Operations : Enqueue(t)
  \/ \E x \in Callers, c \in SyncConnections, t \in Operations :
       GetFreeConnection(x, c, t)
  \/ \E x \in Callers : Caller(x)
  \/ \E w \in Workers : Worker(w) \/ SpuriousWakeup(w)
  \/ \E c \in Connections : LoseConnection(c)
  \/ \E x \in Threads : LoseAnswer(x)
  \/ Close \/ OpenOrClose \/ Ended

Spec == Init /\ [][Next]_vars

(* Every thread that can go on does; time passes in the retry loop; and a  *)
(* lock that is free again and again is got in the end.                    *)
FairSpec ==
  /\ Spec
  /\ WF_vars(OpenOrClose)
  /\ \A w \in Workers :
       WF_vars(Worker(w)) /\ SF_vars(RetryTimeOver(w)) /\ SF_vars(LockDeadlock(w))
  /\ \A x \in Callers : WF_vars(Caller(x))

-----------------------------------------------------------------------------
(* Properties *)

Session == [open : BOOLEAN, writes : SUBSET (Operations \X Nat)]
Places == {"none", "pop", "check", "begin", "statement", "commit", "succeeded", "failed",
           "deadlocked", "lock", "exited", "idle"}

TypeOK ==
  /\ Q!QueueTypeOK
  /\ _cancelationToken \in [Workers -> BOOLEAN]
  /\ _deadlockLock \in Workers \cup {Nothing}
  /\ pool \in {"opening", "failed", "open", "closing", "closed"}
  /\ joining \in Workers \cup {Nothing}
  /\ step \in {"none", "cancel", "join"}
  /\ database \in {"exists", "missing"}
  /\ pc \in [Threads -> Places]
  /\ operation \in [Threads -> Operations \cup {Nothing}]
  /\ statement \in [Threads -> Nat]
  /\ retries \in [Callers -> 0..DirectRetries]
  /\ connection \in [Callers -> SyncConnections \cup {Nothing}]
  /\ session \in [Connections -> Session]
  /\ stored \subseteq Operations \X Nat
  /\ outcome \in [Operations -> {"none", "done", "failed", "dropped"}]
  /\ issued \in Seq(Operations)

(* What Execute, or the promise of a TransactionWithResultTask, says is    *)
(* what the database holds: all of a transaction or nothing of it, through *)
(* deadlocks, rollbacks, retries and the closing of the pool.              *)
Truthful ==
  \A t \in Operations :
    /\ outcome[t] = "done" => RowsOf(t) \subseteq stored
    /\ outcome[t] \in {"failed", "dropped"} => RowsOf(t) \cap stored = {}

(* "automanaged transaction pointer that will automatically rollback if    *)
(* not commited": at no time does the database keep a part of one.         *)
AllOrNothing ==
  \A t \in Transactions : RowsOf(t) \cap stored \in {{}, RowsOf(t)}

(* Transactions of different threads never share a session of the server:  *)
(* what a session has not committed belongs to the operation of the thread *)
(* that uses the connection.                                               *)
SessionsNotMixed ==
  \A x \in Threads :
    ConnectionOf(x) # Nothing =>
      \A row \in session[ConnectionOf(x)].writes : row[1] = operation[x]

(* What is queued first is begun first, deadlocks or not: while an         *)
(* operation executes, at most one queued before it per other worker is    *)
(* not over.  With one worker a load sees the saves queued before it.      *)
Executing(t) ==
  \E w \in Workers :
    operation[w] = t /\ pc[w] \notin {"none", "pop", "check", "exited"}
InOrder ==
  \A j \in DOMAIN issued :
    Executing(issued[j]) =>
      Cardinality({i \in 1..j - 1 : outcome[issued[i]] = "none"})
        < Cardinality(Workers)

(* The pool is the store its users rely on, as long as no connection is    *)
(* lost in the middle of a transaction.                                    *)
Store == INSTANCE TransactionStore
ImplementsStore == Store!Spec

(* "save and kick all players", says the shutdown that closes the pool     *)
(* next: what was queued before is executed.                               *)
SavedAtShutdown ==
  pool = "closed" => \A i \in DOMAIN issued : outcome[issued[i]] # "dropped"

(* What is queued gets its answer, by a worker that is awake, and the pool *)
(* can always be closed: no worker is left waiting for the queue or for    *)
(* the lock of the deadlocks.                                              *)
Answered == \A t \in Operations : t \in ToSet(queue) ~> outcome[t] # "none"
CloseEnds == pool = "closing" ~> pool = "closed"

=============================================================================
