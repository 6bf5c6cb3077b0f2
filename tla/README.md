# ShatterCore verification

TLA+ models of the concurrent core of ShatterCore, a World of Warcraft server
in C++: who may log in and when, what a socket delivers, which thread may touch
a map, what the database keeps, who is in combat with whom, and what two
players trade.  TLC checks small instances; TLAPS proves the invariants for all
of them, some under conditions that section 5 names.  Paths below are relative
to `src/src/` unless they begin with another directory.

    tlc -config WorldSessions_login.cfg MCWorldSessions.tla
    tlapm DatabasePoolProof.tla

## 1. The system

One `worldserver` process runs these threads:

| threads | code | what they do |
|---|---|---|
| world | `server/worldserver/Main.cpp` (`WorldUpdateLoop`), `World::Update` | one tick after the other: sessions, then maps, then everything global |
| map workers | `server/game/Maps/MapUpdater.cpp` | `Map::Update` of one map each, within a tick |
| network | `server/shared/Networking/NetworkThread.h` | sockets: reading, writing, authentication |
| database workers | `server/database/Database/DatabaseWorker.cpp` | queued operations, each on a connection of its own |
| others | command line, remote access | commands through a queue, direct queries |

### Inventory

| component | state | operations | what is hard | what makes it correct | module |
|---|---|---|---|---|---|
| session registry and player queue (`World.cpp`) | `m_sessions`, `m_QueuedPlayer`, `addSessQueue`, `_linkSocketQueue`, `m_disconnects`, `m_playerLimit` | `AddSession_`, `RemoveQueuedPlayer`, `UpdateSessions`, `KickAll`, `.server plimit` | counts taken in the middle of a removal; raw pointers in three containers; connections that arrive at any time | nobody waits for nothing, the limit holds, no dangling pointer | `WorldSessions` |
| session lifecycle (`WorldSession.cpp`, `CharacterHandler.cpp`, `MiscHandler.cpp`, `WorldSocket.cpp`) | sockets, `m_inQueue`, `m_playerLoading`, `_player`, timeouts, pending callbacks | initialisation, login over a second connection, logout, kick, idle close | network thread, world thread and query results interleave | one character online per account, everyone unloaded at shutdown | `WorldSessions` |
| producer/consumer queue (`ProducerConsumerQueue.h`) | queue, condition variable, `_shutdown` | `Push`, `WaitAndPop`, `Cancel` | lost wakeups, spurious wakeups, values popped after the shutdown | used by the next two | `ProducerConsumerQueue` |
| map updates (`MapUpdater.cpp`, `MapManager.cpp`) | `pending_requests`, `i_maps`, the queue | `schedule_update`, `wait`, `update_finished`, `deactivate`, `MapManager::Update` | two condition variables; maps are destroyed and read without a lock because nobody else runs | threads and world thread together do what one loop would do | `MapUpdater`, `MapTick` |
| database pools (`DatabaseWorkerPool.cpp`, `DatabaseWorker.cpp`, `Transaction.cpp`, `MySQLConnection.cpp`) | the queue, the connections and their locks, the deadlock lock, promises | `Execute`, `CommitTransaction`, `AsyncCommitTransaction`, `DirectCommitTransaction`, `Open`, `Close` | failing statements, deadlocks and retries, lost connections, closing while operations are queued | an operation takes effect as a whole or not at all, and its outcome says which | `DatabasePool`, `TransactionStore` |
| loader and updater (`DatabaseLoader.cpp`, `DBUpdater.cpp`) | the databases | create, open again | a pool is opened twice | as above | `DatabasePool` |
| sockets (`Socket.h`, `NetworkThread.h`, `WorldSocket.cpp`) | buffers, `_closing`, `_closed`, `_worldSession` | `Update`, `AsyncRead`, `QueuePacket`, `CloseSocket`, `DelayedCloseSocket`, the login handlers | sessions deleted by the world thread while the network thread uses them; a queue without locks; writes that would block | bytes in order; what is sent arrives; what is closed closes | `WorldSocket` |
| lock-free queue (`MPSCQueue.h`) | the intrusive list, its dummy node | `Enqueue`, `Dequeue` | a producer between its two steps breaks the list for a moment | a queue | `MPSCQueue`, `MessageQueue` |
| combat and threat (`CombatManager.cpp`, `ThreatManager.cpp`) | references held by two units, threat lists, victims | `SetInCombatWith`, `EndCombat`, `Update`, `ClearThreat`, ... | calls re-enter through the AI in the middle of loops | both sides agree whenever an AI runs (outside `EndCombat`); no iterator dangles | `CombatRefs` |
| trade (`TradeHandler.cpp`, `TradeData.cpp`) | the offers, acceptances and state indices of two players | the handlers of the client's packets | late clients; goods that change after they were accepted; checks that fail on one side | what both saw of the goods that are still there is what is done | `Trade` |
| events (`EventProcessor.cpp`) | a multimap of events | `Update`, `KillAllEvents`, `ScheduleAbort` | events that add and abort events | each runs or is aborted once | plan |
| query callbacks (`QueryCallback.cpp`, `AsyncCallbackProcessor.h`) | futures and chains | `InvokeIfReady`, `SetNextQuery` | callbacks that outlive what they point to | in order, once | partly in `WorldSessions`; plan |
| dungeon finder (`LFGQueue.cpp`, `LFGMgr.cpp`) | queue, compatibility cache, proposals | join, leave, `FindGroups`, proposals | a cache of names of sets | no stale match | plan |
| groups and loot, battlegrounds | rolls, invitations | handlers of several players | expiry against answers | what was agreed happens once | plan |
| guilds, mail, auctions, calendar | rows and maps of them | handlers on the world thread | saved asynchronously | the database pools | not planned yet |
| maps, entities, spells, AI, movement, scripts | the game | | large and data driven, sequential within a map | | no |
| battle.net server, Warden, cryptography, logging, configuration, tools | | | other processes, computations, input and output | | no |

Not part of the program's own logic and left aside: `dep/` (vendored
libraries), `sql/` (data), `src/server/scripts/` (content, except the command
`.server plimit`), `contrib/`.

### How the components meet

- A network thread authenticates a client, creates a `WorldSession` and puts it
  into `addSessQueue`; the second connection of a client arrives through
  `_linkSocketQueue`.  The world thread takes both in `World::UpdateSessions`.
- Sessions ask the databases through `AsyncQuery` and `DelayQueryHolder`; a
  database worker fulfils the promise, and the world thread finds the result
  ready when it updates the session.
- `World::Update` hands the maps to the map workers and waits for them; while
  it waits, and only then, they touch the game.
- Both kinds of worker block in a `ProducerConsumerQueue`.
- At the end the world thread kicks everyone, updates the sessions once, and
  `Main.cpp` closes the maps, then the pools (`StopDB`).

## 2. The modules

| module | models | checked by |
|---|---|---|
| `WorldSessions` | registry, player queue and sessions | `sessions_*` |
| `WorldSessionsProof`, `WorldSessionsLoginProof` | proofs | TLAPS |
| `ProducerConsumerQueue` | the queue, instantiated by the next two | with them |
| `MapUpdater` | the map workers and the tick of `MapManager` | `maps_*` |
| `MapTick` | what a tick promises (abstract) | refined by `MapUpdater` |
| `MapUpdaterProof` | proofs | TLAPS |
| `DatabasePool` | a pool, its connections and the MySQL sessions | `db_*` |
| `TransactionStore` | what users of a pool rely on (abstract) | refined by `DatabasePool` |
| `DatabasePoolProof` | proofs | TLAPS |
| `MPSCQueue` | the lock-free queue of a socket, step by step | with the next |
| `MessageQueue` | what users of that queue rely on (abstract) | refined by `MPSCQueue` and `WorldSocket` |
| `WorldSocket` | a socket, its buffers, its session; composed of `MPSCQueue` | `socket_packets` |
| `MPSCQueueProof`, `WorldSocketProof` | proofs | TLAPS |
| `CombatRefs` | combat references and threat, with reentrant AIs | `combat_refs` |
| `CombatRefsProof` | proofs | TLAPS |
| `Trade` | trades of players | `trade_accept` |
| `TradeProof` | proofs | TLAPS |
| `MC...` | names for the model values of the runs | |

### WorldSessions

The variables have the names of the members of `World`; `session` holds, for
each session object, what of its members the control depends on (its two
sockets, `m_inQueue`, the initialisation query, `m_playerLoading`, the player,
logout and kick flags, pending login queries).  Session objects are a finite
set of addresses that are reused once deleted, so a pointer left behind would
point to a different session, as in the program.

`World::UpdateSessions` is not one step: `pc` walks through its loops (links,
arrivals, then the sessions, each with its packets, its callbacks and its
end), and between any two of these steps a network thread may create a
connection, close a socket or report a failed `ConnectTo`, and a database
worker may complete a query.  One action is one critical section or one call
that no other thread can see the middle of.  `KickAll` and `stopping` are the
shutdown of `Main.cpp`.

The client is modelled by what it may send; with `LateFailure = FALSE` it does
not report a failure of a connection it made, with `TRUE` it does.

### ProducerConsumerQueue

Each action is what happens under the mutex.  `Wait` releases it and joins
`waiting`, from which `notify_one`, `Cancel` or a spurious wakeup take a
thread out; it then tests the condition again.

### MapUpdater

The world thread is in the loop of `MapManager::Update`, in `wait`, in the
delayed updates or in `deactivate`; each worker is between popping a request,
testing the token, `Map::Update` and `update_finished`.  Maps are created and
destroyed where the code does so.  `Init` chooses which threads
were created (`MapUpdate.Threads`); with none the world thread updates the
maps itself.  `MapTick` is the loop without threads.

### DatabasePool

Each worker and each caller of a synchronous connection walks through
`MySQLConnection::ExecuteTransaction` statement by statement; a statement may
succeed, fail, or fail with a deadlock at any time.  `session` is the server's
side of a connection: whether a transaction is open and which rows it has
written; `stored` are the rows the database keeps.  `TransactionTask::Execute`
and `DirectCommitTransaction` retry as in the code, the first under
`_deadlockLock` and for as long as it likes, the second five times.  A single
statement is executed in autocommit mode.  `Close` runs `~DatabaseWorker` for
one connection after the other: token, `Cancel` of the common queue, join.
With `FirstStart` the database may be missing, so that the first `Open` fails
and the pool is opened again; with `ConnectionsBreak` a connection may be lost
within a transaction, or with the answer to a statement outside of one, which
`MySQLConnection` repairs without telling its caller.  `TransactionStore` knows
only `stored` and `outcome`.

### MPSCQueue and WorldSocket

`MPSCQueue` has one action for each atomic access: `Enqueue` (the exchange of
the head), `Link` (the store to `next`), and for the consumer the loads of
`Dequeue`, which may put the dummy node back behind the last.  `order` records
the exchanges.  A node is an address: once dequeued it is not used again, so
that an access to it would show.

`WorldSocket` extends it with the rest of one socket.  `net` is the program
counter of its network thread: the update timer (`Update`, `Drain`,
`WritePacket`, `Flush`, which are the loop of `WorldSocket::Update` packet by
packet), `HandleQueue` and its asynchronous continuation, the callbacks of the
login (`phase`), the handlers of a read, and `CloseSocket` with `OnClose`.
Most packets are handled with the session lock held (`locked`); three are not:
`CMSG_ENABLE_NAGLE` looks at `_worldSession` and calls it (`nagle`), and a
second `CMSG_AUTH_SESSION` or `CMSG_AUTH_CONTINUED_SESSION` looks for the name
of a player without a look at the pointer (`duplicate`, by `try_lock`).  The
world thread links the socket to a session, kicks, forgets and deletes, setting
`_closed`, shutting the socket down (until then the network thread can still
write, `Shut`) and clearing the pointer in three steps; map threads only send.
The client sends what it likes and disconnects when it likes.

### CombatRefs

A call of a manager is not atomic: in its middle it calls an AI, which may
attack somebody or evade.  `stack` holds what the thread still has to do, the
top first; each action takes the top task and pushes what the code does next,
so that a call of an AI lies between two steps of the calls below.  Loops keep
an iterator (the task's `b`), references a pointer; `live` says that the
element still exists, and a task with a dead one is a use after free
(`Crashed`).  `React` is the AI: any of the `Reactions` of the instance, or
none.  Only units of `Evading` evade when a hook of theirs is called; those of
`Vanishing` may vanish or feign death outside of dungeons, which ends their PvE
combat and suppresses their PvP references (`CombatStop(false, false)` in
`SpellEffects.cpp:3580` and `SpellAuraEffects.cpp:2330`).

### Trade

Handlers run one after the other on the world thread; the model's
interleaving is that of the handlers, the rest of the game (stacks used up,
sent away, bought back or changed in number; items bound, or put to use and
released, which `Item::CanBeTraded` tells apart from those that can be traded;
money that comes and goes; players that leave) and the clients, which are late: `shown` are the updates sent for
states still in use, and an acceptance names any of them.  `TradeData` members
work on a triple of trades, newest index and updates, since one member calls
others (`SetItem` takes back the spells of both).  `AcceptTrade` has one
disjunct for each way through `HandleAcceptTradeOpcode`, in the order of its
checks.  Two things exist in the model only: `saw`, what a player saw when it
accepted, and `strayed`, the offered items that left the bags or came back to
them during the trade.  `TradeData` keeps GUIDs and looks for the item whenever
it is asked (`TradeData.cpp:30-33`), so it is not told of either.

## 3. The runs

| run | instance | shows |
|---|---|---|
| `sessions_admission` | 3 accounts (one may skip the queue), 4 session objects, limit 1 | no dangling or double entry in the queue, nobody stranded between queue and initialisation, nobody waits while there is room, the limit is kept, first come first served |
| `sessions_plimit` | 2 accounts, 2 session objects, the limit changing between 1 and 2, tolerance for disconnects | a queue always has an active session ahead of it; who is let in is told |
| `sessions_login` | one account, 2 objects, 2 characters of its own and one of another | one online character per account through retries, kicks and replacement; the shutdown unloads every player; a session without its client is removed |
| `sessions_tolerance` | 2 accounts, tolerance 1 | **violated**: the tolerance for disconnected players never expires |
| `maps_updates` | 4 maps, up to 3 workers or none | the barrier, one updater per map, no call of a null request; refinement of `MapTick`; each tick ends, and so does `deactivate` |
| `db_safety` | 1 worker and 2 callers with 1 synchronous connection, 3 transactions of two, one and no statements, 1 single statement, first start | outcomes are true, transactions are atomic, sessions are not shared, what is queued is executed in order; refinement of `TransactionStore` |
| `db_live` | 2 workers, 2 transactions, lost connections | everything queued is answered; the pool closes |
| `db_reconnect` | 1 worker, lost connections | **violated**: a part of a transaction is kept |
| `db_shutdown` | 1 worker | **violated**: what the shutdown queued is thrown away |
| `socket_packets` | 3 packets (one larger than the buffer), a network, a world and a map thread | packets in order and none forgotten; refinement of `MessageQueue`; the session is used only while it lives (without its lock: unless the socket was closed meanwhile); a socket marked for closing with something to write closes |
| `combat_refs` | a creature and two pets of players; one leaves and returns, one becomes unfit, one hidden; AIs that call for help and evade, three reactions to a call | both managers of a reference, the unit flags and the threat lists agree whenever an AI runs outside `EndCombat`; nothing dangles; victims are available; who leaves leaves nothing behind |
| `trade_accept` | 3 players, 2 stacks of up to 2, 1 spell, 4 states of offers, 2 events of the game | traders come in pairs; a trade moves the money, the spells and, of the items that stayed, exactly what both saw; two acceptances come to stand without a trade only where an item cannot be traded at that moment, and the offers do not change while they stand |

**Bounds.**  Two transactions and two workers (`db_live`) are the least that
can deadlock, take turns at the deadlock lock and be cancelled while the other
executes; a transaction of two statements can be half done while others use
the same or another connection (`db_safety`, whose properties are proved for
any number of workers).  Two session objects of one account are what a
reconnect needs, a third account waits meanwhile, and the fourth object skips
the queue.  With three workers and four maps one worker can be late with the
map before while two others compete for the last request; which workers exist
is chosen in the initial state, so the run also covers fewer of them and none.
`MaxLogins` bounds the links in `_linkSocketQueue` and the
login queries of a session (a link that does not fit is one the client has
not made yet); `MaxAttempts` stands for the five `ConnectTo` serials,
`ExpireTicks` for the minute a player survives its socket, `MaxTime` for the
clock.  The counters of the retries are those of the code.

In `WorldSocket` the dummy node, a large packet and two small ones are enough
for every state of the list, a buffer that overflows and one that is flushed
empty; `MaxReads` (packets of the client) is what a login and one packet more
need, `MaxBlocks` lets one write block.  In `CombatRefs` two enemies of one
creature are what makes a loop over references meet another element after the
AI ended one, the third unit one that vanishes while the first two may evade;
larger instances were run as well (four units; three controlled by players,
4.7 million states).  `Leaving`,
`Failing` and `Hiding` bound who changes, not how often; `PvPTimeout` is the
timer in updates, `MaxReactions` what the AIs do during one call from outside.
`Reactions` are those of AIs that act in the direction of the hook (help when
attacked, evade when combat ends); with AIs that end combat when it begins,
`NothingDangles` fails, since `CombatManager::Update` and the others keep their
iterator over the call.  In `Trade` a third player is what could come between
two; the owners of the two items are alike, and exchanged together with them
(`OwnersAreAlike`); `MaxIndex` bounds changes of offers, `MaxEvents` those of
the game; two players with `MaxIndex` 5, or with `MaxMoney` 2, were run as well,
and all four properties are proved for any bounds.

**Deadlock** is checked in all runs but one; a server that has stopped stutters
in an action of its own (`Ended` and the like).  `socket_packets` really stops:
when the client is gone and the session deleted, nothing is left to do.

**Fairness.**  Weak fairness of each thread: its next step is enabled until it
takes it.  Of the queries and database threads: a query once queued is
answered, as long as the pool is open.  In `WorldSocket` the timer
runs every millisecond; nothing is assumed of the client, or of the game that
kicks and deletes sessions.  These steps need strong fairness:

- `LinksDone` and `AddsDone`: `UpdateSessions` takes from a queue until it
  finds it empty, while network threads fill it; the loop ends because they
  do not fill it for ever as fast as it is emptied.
- `RetryTimeOver`: the retry loop of `TransactionTask::Execute` looks at the
  clock in each turn, and the clock advances.
- `WriteHandlerWrapper`, `Callbacks` and `ReadError` of `WorldSocket`: Asio runs
  a handler that is ready in its turn, and a query is answered; what makes them
  ready comes and goes with the other steps of the same thread.
- `LockDeadlock`: a mutex released again and again is got in the end, which
  every mutex the program runs on grants in practice.

## 4. The findings

- *Tolerance* (`World.cpp:434`).  `difftime(recorded, now)` is never positive,
  so an account that disconnected once passes the queue for ever;
  `worldserver.conf.dist` says a number of seconds.
- *Reconnect* (`MySQLConnection.cpp:183`).  The statement after a lost
  connection is executed in a new session outside of any transaction.  What is
  spoiled that way is bounded by `LossIsConfined` (section 5).
- *Shutdown* (`DatabaseWorker.cpp:34`).  `Cancel` deletes the saves the
  shutdown has just queued.

### Observations

Seen while modelling, and each shown by changing the run named; no run is kept
for them.

- *First start* (`DatabaseLoader.cpp:62`).  When the database does not exist,
  `OpenConnections` destroys the asynchronous connection it has begun, whose
  `~DatabaseWorker` cancels the queue of the pool for good; the database is
  created and the same pool opened again, and its workers end at once.  With
  `FirstStart = TRUE` in `DatabasePool_live.cfg`, `Answered` is violated.
- *Answer lost* (`MySQLConnection.cpp:183`).  A statement on its own whose answer
  is lost with the connection is executed again, and when that fails it is said
  to have failed although it is stored.  With one statement and no transactions
  in `DatabasePool_reconnect.cfg`, `Truthful` is violated.  Nobody looks at that
  outcome; but `failed_logins = failed_logins + 1` (`LoginDatabase.cpp:46`)
  counts twice.
- *Late failure* (`CharacterHandler.cpp:764`).  While the login query of the
  first link is on its way, a `CMSG_CONNECT_TO_FAILED` issues another key and
  a second login query, and `HandlePlayerLogin` runs twice for one session.
  With `LateFailure = TRUE` in `WorldSessions_login.cfg`, `OneOnlineCharacter`
  is violated.
- *Marked sockets* (`Socket.h:210`).  `Socket.h:129` says: "Marks the socket for
  closing after write buffer becomes empty".  `HandleQueue` returns before it
  looks at `_closing` when nothing is queued, and a socket that is marked reads
  no more; marked with nothing left to write it stays open until the client
  goes.  `MarkedCloses` in place of `ClosesAfterWriting` in
  `WorldSocket_packets.cfg` is violated.
- *Answers lost* (`Socket.h:244`).  `WriteHandlerWrapper` closes a marked socket
  when `_writeQueue` is empty, although the answer sent before may still be in
  `_bufferQueue` until the next `Update`; so `PacketsWritten` promises nothing
  for a socket that closes.
- *Sessions without the lock* (`WorldSocket.cpp:366`, `:386`, `:406`).
  `WorldSocket.h:123` says: "accessing WorldSession is not threadsafe, only do
  it when holding _worldSessionLock".  `CMSG_ENABLE_NAGLE` reads the pointer
  twice and calls `HandleEnableNagleAlgorithm` without it: when the world thread
  kicks or deletes the session in between, the call is of a session that is
  gone (the body, `MiscHandler.cpp:876`, touches none of its members, which is
  why nothing shows).  A duplicate authentication packet holds the lock, but
  does not look whether `OnClose` has cleared the pointer before it logs the
  player.  Both need a socket that the world thread has closed while the network
  thread was reading from it.  `UsesLiveSession` says that of uses without the
  lock exactly: alive unless the socket was closed meanwhile.  With
  `net = "nagle" => pointer` for its last conjunct it is violated (`DeleteSession`
  between `HandleEnableNagle` and `EnableNagle`), and so is `net # "crashed"`
  (`KickPlayer` before `HandleDuplicate`), in `WorldSocket_packets.cfg`.
- *Kick under the lock* (`WorldSocket.cpp:791`).  `HandleConnectToFailed` holds
  `_worldSessionLock` when it calls `AbortLogin`, which kicks a session that has
  its player already (`CharacterHandler.cpp:787-791`); `CloseSocket` then calls
  `OnClose` of the same socket, which locks the same mutex again.  It takes a
  fifth failure of `ConnectTo` while `HandlePlayerLogin` is loading the player.
  Seen in the code: `WorldSessions` has that kick, but not the lock.
- *Combat* (`CombatManager.cpp:62`).  The comment at line 59 says "sequencing
  matters here - AI might do nasty stuff, so make sure refs are in a consistent
  state before you hand off!".  `EndCombat` clears the threat first, and
  `ClearThreat` may select another victim and call `JustStartedThreateningMe`
  while one unit still has the reference and the other does not.  With
  `ReactsInEndCombat = TRUE` in `CombatRefs_refs.cfg`, `ConsistentAtHandOff` is
  violated; an AI that engages the other unit there makes a second reference,
  which the assertion at line 350 refuses.
- *Evading in a loop* (`CombatManager.cpp:131`, `:266`).  With `Controlled = {c1, p1,
  p2}`, `Threatable = {}`, `Evading = {c1, p2}` and `Vanishing = {p1, p2}` in
  `CombatRefs_refs.cfg`, `NothingDangles` is violated: a loop over `_pvpRefs` ends
  one reference while the others are suppressed, so `JustExitedCombat` is called
  for the unit whose map the loop iterates, and an AI that evades there deletes
  the reference the iterator stands at.  It takes a unit that has vanished or
  feigned death and whose AI evades when told that its combat is over; with
  `Evading \cap Vanishing = {}` nothing dangles (`NothingIsLeftDangling`).  No AI
  of the core does that: `JustExitedCombat` does nothing in `UnitAI.h:287` and
  calls `EngagementOver` in `PetAI.h:47` and `PassiveAI.h:43`, and the scripts
  that do more (`boss_halion.cpp:620`, `boss_valithria_dreamwalker.cpp:539`)
  belong to creatures that do not vanish.
- *Threat* (`ThreatManager.cpp:693-712`).  `UpdateMyTempModifiers` decides
  whether the heap entries move up or down from the first reference alone.
- *Items that cannot be traded* (`TradeHandler.cpp:296-332`).  The comment at
  line 238 says the acceptance is "set before checks for propertly undo at
  problems"; the return at an item that cannot be traded sends `TRADE_CANCELED`
  and undoes nothing, so both acceptances may stand.  The reason may be gone
  while they do: one player offers an empty bag, accepts and equips it, the
  other accepts, the first takes the bag off (`Item.cpp:689`; the same with an
  item being looted, line 695).  Then both have accepted, every item can be
  traded and no trade is made until one of them acts.  `NoForgottenDeal` allows
  the first step and nothing else; stated of states instead, with `LeftUndone`
  at any later moment, it fails by `Release`, or by `Leaves`.
- *Items silently gone* (`TradeData.cpp:30-33`).  An offered item that is sold,
  sent or put into a guild bank between the two acceptances is not found any
  more; nothing is sent and no acceptance is withdrawn, and the trade goes on
  without it at the full price.  One that comes back is traded although the
  last update showed an empty slot.  Only `Item::SetCount` and the handlers of
  trades refresh an offer.  `ExecutedAsShown` therefore excepts `strayed`;
  without the exception (`Stayed(s) == Items`) it fails by `Leaves` and `Execute`.
- *Sessions lost* (`WorldSocket.cpp`).  A client that disconnects between
  `HandleAuthSessionCallback` and `LoadSessionPermissionsCallback` leaves the
  session it was given with nobody who would delete it.

## 5. The proofs

All for any numbers of threads, maps, sessions and operations, from the
assumptions on the constants that the modules name (`...Assumption`): sets
disjoint, null pointers not members, the finite ones finite.

| theorem | invariant it rests on |
|---|---|
| `WorldSessionsProof!TypeCorrect`, `QueueIsLive` (`QueueOfLiveSessions`) | `TypeOK`, `Registered` (a listed session is listed under its account), `AtLiveSession` (where the walk of `UpdateSessions` is, there is a session), `NewSessions` (what waits in `addSessQueue` is neither listed nor queued), `QueueOfLiveSessions` |
| `WorldSessionsProof!NobodyIsStranded` | `Waits` (a session is in the queue if and only if it is marked so and its initialisation not begun) |
| `WorldSessionsProof!QueueMoves` (`QueueCanMove`), `NobodyWaits` (`NobodyWaitsForNothing`), `NobodyOvertakes` (`NoOvertaking`) | `Moves`, `Full`: what the queue says about the number of sessions listed, through each way a session is added, replaced and dropped; the last two for a limit that does not change (`FixedLimit`) |
| `WorldSessionsProof!LimitIsKept` (`LimitKept`), for a fixed limit and no tolerance | `Full`, `Waits`, and `Counted`: the accounts let in and those queued are together no more than those listed |
| `WorldSessionsLoginProof!OnlineOnce` (`OneOnlineCharacter`), while no failure of a connection arrives late (`NoLateFailure`) | `Logins`: a login under way is in one place (`OneLogin`), and nobody is in the world whom no session plays (`Played`) |
| `WorldSessionsLoginProof!ShutdownUnloads` (`ShutdownUnloadsPlayers`), under the same condition | `Logins`, and `Unloading`: once `KickAll` has run, every session listed was kicked and the walk has yet to come to it, or has no player and no login left |
| `WorldSessionsLoginProof!OneLoginAtATime`, under the same condition | `Logins`: a login under way is nowhere twice, from the client through the link queue to the database |
| `WorldSessionsLoginProof!KickedSessionsGo` (`NoKickedLeft`), for any clients | `KickedInv`: a kicked session has lost its client, is listed, and an update will come to it (`StaysComing`) |
| `MapUpdaterProof!MapTypeCorrect`, `BarrierHolds`, `OneUpdaterHolds`, `NullIsNotCalled`, `TickImplemented` | `TokenAtEnd` (the token comes before the shutdown of the queue), `Requests` (who holds a request), `Pending` (the count is the number of requests queued and held, as a cardinality), `AtRest`, `OneOwner` |
| `MapUpdaterProof!NoWakeupIsLost`, `NobodyHangs` | `WakeupsKept`: while a worker is blocked, as many are awake as requests are queued |
| `DatabasePoolProof!TypeCorrect`, `SessionsAreNotMixed` | `InPlace` (where a thread may be with what in hand), `OneOwner` (an operation is in one place, without outcome), `SessionsClosed` (a connection nobody executes on has nothing open) |
| `DatabasePoolProof!OutcomesAreTrue`, `TransactionsAreAtomic`, `PoolImplementsStore`, while no connection is lost | the above, `Written` (what an open transaction has written so far), `StoredWhole` (stored if and only if it has succeeded) |
| `MPSCQueueProof!QueueInvariant`, `QueueImplements` (`ImplementsQueue`) | `TailFirst`, `HeadLast` (where the ends of the list are), `Links`, `CallsLink` (a link leads to the next node, and the one not yet set is that of a call), `DummyOnce`, `Distinct` |
| `MPSCQueueProof!NoNodeIsCutOff`, `GivesUpOnlyForACall` | the same: `CallsLink` says whose each missing link is |
| `WorldSocketProof!SessionUsedAlive` (`UsesLiveSession`), `SocketImplementsQueue` | `SessionOfPhase`, `WhereThreadsAre`, `SocketOfSession` (a socket not closed keeps its session, and the session it), `ClosedWhileReading`, `PermissionsPending`, `DuplicateIsAuthed`; the steps of the socket are steps of `MPSCQueue` or leave it alone |
| `WorldSocketProof!PacketsInOrder` (`WireInOrder`), `SocketTypeCorrect` | the above, and `OnTheWay`: the buffers of `_writeQueue`, then the one `Update` fills, are consecutive stretches of the stream, and what the client got ends where the first goes on |
| `WorldSocketProof!NoPacketIsLost`, `MarkedSocketIsNotForgotten`, `NoPacketIsCutOff` | `OnTheWay`, and that a socket marked for closing is closed by whoever takes the last of its buffers; the last from `MPSCQueueProof` |
| `TradeProof!TradeTypeCorrect`, `TradersArePaired`, `DealsAreDone`, `TradedAsShown` | `Pairs`, `Numbered` (every index drawn is new), `ShownTrue` (an update sent for a state in use shows the offer as it is, but for items that strayed), `AcceptedShown` (an acceptance that stands is one of the state in use) |
| `CombatRefsProof!CombatTypeCorrect`, `VictimsAreAvailable` (`VictimAvailable`) | the first with the types of all tasks that may be on the stack |
| `CombatRefsProof!ReferencesAlwaysAgree` (`ReferencesAgree`), `NoSecondReference` (the assertion of `PutReference`), while AIs do nothing in the middle of `EndCombat` | `WellFormed` (the parts of an `EndCombat` stand on the stack in their order), `RefInv` (at most the pair being ended disagrees) |
| `CombatRefsProof!ThreatNeedsCombat` (`ThreatImpliesCombat`), `TheGoneAreForgotten` (`RemovedIsClean`), under the same condition and if AIs evade only when combat is over (`EvadesLate`) | the above, `ThreatIsFought`, `ClearedInOrder`, `AddedInTime` (threat that is yet to be added comes before whatever may end the combat), `GoneInv` |
| `CombatRefsProof!NothingIsLeftDangling` (`NothingDangles`), under both conditions and if no unit that vanishes has an AI that evades (`Evading \cap Vanishing = {}`) | the above, and `HoldInv`: `CallsHold` (what a call points at stays until the calls above it are done), `VanishOnly`, `FlagCovers`, `NoneFightsItself` |
| `DatabasePoolProof!WorkersNeverHang` | `Blocked` (who is blocked is where a notification is due), `WakeupsKept` |
| `DatabasePoolProof!NothingIsForgotten`, with a worker and a database that existed (`~FirstStart`) | `Manned` (every worker is there until the pool is closed), and those of the row above |
| `DatabasePoolProof!LossIsConfined`, with lost connections | `LossInv`: what is stored is of an operation that a thread has begun, and a statement succeeds after it is stored |
| `DatabasePoolProof!ExecutedInOrder` (`InOrder`) | `TypeOK`, `InPlace`, `OneOwner`, `InLine` (the queue is the end of what was issued; what was popped is over or in a worker's hand) |

None of the properties is inductive alone.  That a queue holds no dangling
pointer needs to know that the session being deleted is the one its account
lists and that one just created is in no queue; that nobody is in a map needs
the count to be exact, not only zero; that a failed transaction left nothing
behind needs to know what its session had written when it was rolled back,
and that no other thread uses that session.

`InOrder` counts: when a worker executes an operation, those issued before it
and not over are held by other workers, each by its own, so there are fewer of
them than workers.  With one worker, the default of
`CharacterDatabase.WorkerThreads`, there are none, which is what a login query
relies on that follows a save.

The player queue is the hardest to argue about, since `AddSession_` and
`RemoveQueuedPlayer` count while a session is half removed.  `AddEffect` and
`DropEffect` say what a whole critical section does, `RemoveQueuedPlayerKeeps`
that at most the first of the queue is let in and everybody else stays as he
is; `AddCounts` and `DropCounts` give the numbers before and after.  From these
follow that whoever is initialised was the first, or found the queue empty and
room below the limit.  A session that is replaced lets the first in only if it
was itself active, so that its own place is the one that becomes free.

A login passes through the client (`Asked`: it was told to connect and has not
yet), the link queue (`HasLink`: an entry whose key is current) and the
database (`logins`).  `OneLogin` says that it is in one of these only, that its
session is listed, plays nobody and loads a character of its account; so when
the character enters the world nobody else can play it, as another session of
the same account would have to be listed too.  The step that breaks this is
`HandleConnectToFailed` for a connection that was made: the login query of the
old one stays under way while the client is asked again (*Late failure* in
section 4), and the theorems exclude it by `NoLateFailure`.

The argument for `PoolImplementsStore`: the store moves in `CommitTransaction`
and in the statement of a single-statement operation (`Store`), when an
operation gets its outcome (`Succeed`, `Fail`) and when operations are thrown
away (`Drop`); every other step, retries included, leaves both variables
alone.  Without `ConnectionsBreak = FALSE` it is false, as `db_reconnect`
shows.

The argument for the queue without locks: what is in the list is what `order`
has beyond `taken`, with the dummy somewhere in it; each link that is set leads
to what follows there, and each one missing belongs to one call of `Enqueue`,
which will set it.  So the consumer either gets the first of them or gives up,
and that is a step of `MessageQueue`.  `WorldSocketProof` extends that module:
each step of the socket is a step of the queue or leaves it alone, so the
theorem carries over, and it has only to show where the session is used: the
pointer is cleared under the lock before the session is deleted, so who holds
the lock finds a session alive or none; who does not finds one alive as long as
the socket is open, since only who has closed it goes on to clear the pointer.

The argument for `PacketsInOrder`: the stream is the initializer, if it was
sent, and the packets in the order of the exchanges.  Everything between the
queue and the client is a division of that stream into stretches (`Laid`): a
packet taken from the queue is the next after the last stretch (`Got`), a
flush makes a buffer a stretch of its own, a write takes from the front of the
first.  A packet that does not fit flushes what is before it, so it overtakes
nothing; a write that is cut off leaves the rest of its stretch in front.  Once
the socket is shut down (`Shut`) or the client gone the buffers may be dropped, and nothing
is added to what the client got.

The argument for `TradedAsShown`: the members of `TradeData` are functions of a
triple (trades, newest index, updates sent).  `Update` makes a sound triple of
any in which only the offer being changed is not shown as it is, because it
draws a new index, sends the offer under it and withdraws both acceptances
(`UpdateSound`); the other members compose it (`SetItemSound`).  The steps of
the game change offers in no way but by taking an item out of the bags or
bringing it back, and then it has strayed (`StraysInv`); a stack that changes in
number goes through `SetItem` (`SetCountInv`).  So where a trade is executed, the
two indices that were accepted are in use, and what they showed is what is
offered: of an item that stayed, both that it is there and that it is not
(`ShownItem`, `WhatIsReceived`, `WhatIsCast`).  `DealsAreDone` is a property of
steps: each kind of step (`ChangedInv`, `RefusedInv`, `GameInv`) gives `Inv'` and
`DealStep` together.

The argument for `CombatRefs` is about every stack of calls under way.  A step
replaces the top of the stack by a few new tasks (`StackStep`), so an invariant
of the form "each task on the stack is such that ..." needs to be shown of the
new tasks only.  `EndCombat` is the one call that leaves a reference half
removed: it clears threat, removes one side, then the other, and these parts
are tasks that stay next to each other on the stack.  Between them only quiet
tasks run, since AIs do nothing there by assumption; so every pair but the one
being ended agrees (`AgreeBut`), and its last part brings that pair back.  Outside
`EndCombat` all pairs agree, which is where an AI may be called.  Threat is
added after the check that both units are in combat, and what lies between
cannot end it (`AddedInTime`); this is where `EvadesLate` is needed.  A unit
that leaves gets no new reference, and the loops that end its old ones stay on
the stack until its map is empty (`GoneInv`).

`NothingDangles` asks what an iterator of a loop points at.  Each task on the
stack names the pair it holds a pointer to (`PointsAt`), and `CallsHold` says
that this pair is in the maps and that no call above may end it.  An AI ends
combat only where it is told that combat is over (`EvadesLate`), and it is not
told so while its unit has a reference that counts, since the flag of such a
unit is set and stays set (`FlagCovers`).  PvE references always count; those
that do not, suppressed PvP references, only units that vanish have
(`VanishOnly`).  So the AI of any other unit, when it evades then, has
nothing to end.  Where one unit does both, TLC shows the dangling iterator
(*Evading in a loop*).

Safety halves of liveness.  That something happens in the end is checked by
TLC; that nobody waits for it in vain is proved:

- *Wakeups.*  `Push` wakes one thread even where several operations are queued.
  While a thread is blocked, each operation queued has a thread awake for it:
  `Push` adds one of each, and a thread awake that pops takes one of each away;
  a thread blocks only when the queue is empty (`WakeupsKept`).  So no map
  update is overlooked while `wait` sleeps, and nothing that is queued for a
  database while its workers sleep.  In a pool the holder of the deadlock lock
  is never itself blocked, and the queue is shut down before a worker is
  joined.  `NothingIsForgotten` needs `~FirstStart`: after a failed first start
  the queue stays shut down, and what is queued is taken by nobody
  (*First start*).
- *The queue without locks.*  Every link that is missing belongs to a call of
  `Enqueue` that has not stored it yet; so the consumer gives up only where such
  a call is under way, and what is behind it is not cut off but late.
- *The socket.*  Every packet dequeued of a socket that is open is on the wire,
  in a buffer, or in the hand of `Update`, since the stretches between what the
  client got and what was stored leave no number out; and the step that writes
  the last of a marked socket goes on to close it.
- *Kicked sessions.*  A kicked session plays on only until the update that comes
  next: it stays listed, and while `UpdateSessions` walks it stays ahead of the
  walk.

With lost connections transactions are not atomic (`db_reconnect`).
`LossIsConfined` says what users may still rely on: a statement on its own that
is said to have succeeded is stored, and what `Close` throws away has stored
nothing.  A session outside of a transaction has nothing to lose, and
whatever is stored is of an operation that a thread has begun.  That a
statement said to have failed is not stored is false (*Answer lost*).

Only model-checked: liveness under fairness (`AdmittedIsTold`,
`LostSessionIsRemoved`, `UpdateEnds`, `DeactivateEnds`, `Answered`, `CloseEnds`,
`PacketsWritten`, `ClosesAfterWriting`), since the provers handle neither
fairness nor `ENABLED`.  Every invariant and action property of a passing run is
stated by a theorem.  Nothing here is defined by recursion.

## 6. What the models leave out

- Payloads: packets other than those that change the lifecycle of a session,
  statements and their results, what `Map::Update` does.
- `WorldSessions`: bans, updates of the login database, the list of recently
  logged out players, packets put back into the queue of a session,
  `InitializeSession`'s early return (its condition cannot be met after the
  checks before it), that of `HandleContinuePlayerLogin` when
  `LoginQueryHolder::Initialize` fails (`SetPreparedQueryImpl` refuses only an
  index beyond the size the holder was given), and the instance socket overwritten by a second link.
- `MapUpdater`: instance ids, and the race of `i_maps` between its deletions
  and the lookups of other maps (the C++ containers' memory is not modelled).
- `DatabasePool`: errors of `COMMIT`, whose result the code ignores; errors
  only the prepared statement reports; the abort of the process after five
  failed reconnects; `_deadlockLock` is one per process in the code and one
  per pool here, since pools only make each other wait; the lock is released
  together with the outcome.
- `MPSCQueue` and `WorldSocket`: the memory order of the atomics (each access is
  sequentially consistent, which the acquire and release pairs of the code
  suffice for here); the bytes of packets, encryption and the parsing of
  headers; the Windows branch with completion ports; accepting sockets and
  distributing them over threads; a second authentication on one socket before
  the first has succeeded; `AbortLogin` within `HandleConnectToFailed` (*Kick
  under the lock*).
- `CombatRefs`: amounts of threat, taunts, fixation, redirection, the order of
  the heap (a victim is any entry that is online); vehicles; the rehashing of
  the maps of references when one is added.
- `Trade`: who may begin a trade (distance, faction, level, ...); the index is
  drawn by `rand32` and taken to be new; the merging of stacks when items are
  stored; reagents, and a cast that fails for its own reasons; the save of both inventories, one transaction of the
  database pool.  The error branch of `moveItems` is out of reach where a stack
  takes one slot.
- The components without a module in section 1.

## 7. Plan

Done: sessions, maps and pools with their abstract specifications, then the
queue without locks and the socket, combat references, and trade, with their
proofs.  What could follow, in this order:

1. `EventProcessor`: each event executed or aborted once, none used after it
   was deleted (`KillAllEvents` calls `Abort` of events that stay in the
   multimap it iterates).
2. `QueryCallback`: chains, holders, transactions with callbacks, and their
   owners' end.
3. `LFGQueue`: the cache against a reference definition of compatibility;
   proposals.
4. Loot rolls and battleground invitations.
5. Proofs: what of a transaction may be stored when its connection is lost (the
   rest of it, from some statement on, of each attempt); the order in which
   `Trade` and `CombatRefs` serve several units.
