----------------------------- MODULE WorldSocket -----------------------------
(***************************************************************************)
(* One WorldSocket of a client: its network thread runs the update timer   *)
(* and the handlers of reads and writes one at a time, the threads of the  *)
(* game send, link, kick and delete sessions meanwhile.  Packets go        *)
(* through _bufferQueue (MPSCQueue), the buffers of _writeQueue and the    *)
(* wire; they are numbered in the order they are enqueued.                 *)
(***************************************************************************)
EXTENDS MPSCQueue, SequencesExt, FiniteSets

CONSTANTS
  World,         \* the world thread; the others are workers of the map updater
  Large,         \* packets larger than the send buffer
  BufferSize,    \* how many of the others the send buffer has room for
  MaxReads,      \* bound on the packets of the client
  MaxBlocks      \* bound on the writes that would block

ASSUME SocketAssumption ==
  /\ World \in Threads \ {Consumer}
  /\ Nodes = 1 .. Cardinality(Nodes)
  /\ Large \subseteq Nodes
  /\ BufferSize \in Nat \ {0}
  /\ MaxReads \in Nat /\ MaxBlocks \in Nat

VARIABLES
  closed,        \* _closed
  closing,       \* _closing
  writingAsync,  \* _isWritingAsync
  writeQueue,    \* _writeQueue, buffers of packets
  reading,       \* an asynchronous read is under way
  pointer,       \* _worldSession is not null
  locked,        \* the network thread holds _worldSessionLock
  phase,         \* how far the login of the client is
  net,           \* what the network thread is doing
  return,        \* where it goes from HandleQueue and CloseSocket
  buffer,        \* the buffer of Update
  world,         \* what the world thread is doing
  session,       \* the session of the client
  attached,      \* m_Socket of the session holds this socket
  wire,          \* what the client got
  peer,          \* whether the client is still there
  reads, blocks  \* bounds

net_vars == <<net, return, buffer, reading, writingAsync, writeQueue, locked>>
state_vars == <<closed, closing, pointer, phase>>
game_vars == <<world, session, attached>>
env_vars == <<wire, peer, reads, blocks>>
svars == <<closed, closing, writingAsync, writeQueue, reading, pointer, locked, phase,
           net, return, buffer, world, session, attached, wire, peer, reads, blocks>>
vars == <<mvars, svars>>

Net == Consumer
Game == Threads \ {Net}
Initializer == 0          \* ServerConnectionInitialize, which is not a packet
IsOpen == ~closed /\ ~closing
Shut == closed /\ world \notin {"kick", "delete"}      \* nothing can be written any more
Authed == phase \in {"permissions", "established"}    \* _authed

TypeOK ==
  /\ QueueTypeOK
  /\ {closed, closing, writingAsync, reading, pointer, locked, attached} \subseteq BOOLEAN
  /\ writeQueue \in Seq(Seq(Nodes \cup {Initializer}))
  /\ buffer \in Seq(Nodes)
  /\ phase \in {"ip", "initializer", "challenge", "account", "permissions", "established",
                "continued", "link", "refused"}
  /\ net \in {"idle", "drain", "write", "callbacks", "refuse", "read", "locked", "nagle",
              "duplicate", "pong", "readDone", "close", "onclose", "removed", "crashed"}
  /\ return \in {"idle", "callbacks"}
  /\ world \in {"idle", "linking", "refusing", "kick", "kicking", "delete", "deleting"}
  /\ session \in {"none", "created", "world", "deleted"}
  /\ wire \in Seq(Nodes \cup {Initializer})
  /\ peer \in {"up", "gone"}
  /\ reads \in 0 .. MaxReads
  /\ blocks \in 0 .. MaxBlocks

(* Start has begun the query for bans of the address.                      *)
Init ==
  /\ QueueInit
  /\ closed = FALSE /\ closing = FALSE
  /\ writingAsync = FALSE
  /\ writeQueue = <<>>
  /\ reading = FALSE
  /\ pointer = FALSE
  /\ locked = FALSE
  /\ phase = "ip"
  /\ net = "idle" /\ return = "idle"
  /\ buffer = <<>>
  /\ world = "idle"
  /\ session = "none"
  /\ attached = FALSE
  /\ wire = <<>>
  /\ peer = "up"
  /\ reads = 0 /\ blocks = 0

-----------------------------------------------------------------------------
(* SendPacket, up to the exchange in _bufferQueue.  The flags are read     *)
(* before; neither of them matters to the queue, so that a socket closed   *)
(* in between behaves like one closed after the exchange.                  *)
SendPacket(t) ==
  IF IsOpen
    THEN /\ Len(order) + 1 \in Nodes
         /\ Enqueue(t, Len(order) + 1)
    ELSE UNCHANGED mvars

AsyncRead == reading' = IsOpen

(* The handler goes on when its call of SendPacket has returned.           *)
Sent(t) == ~Calling(t)

-----------------------------------------------------------------------------
(* The network thread: the update timer                                    *)
Update ==
  /\ net = "idle"
  /\ Dequeue
  /\ buffer' = <<>>
  /\ net' = "drain"
  /\ UNCHANGED <<return, reading, writingAsync, writeQueue, locked, state_vars, game_vars, env_vars>>

Drain ==
  /\ net = "drain"
  /\ DequeueStep
  /\ UNCHANGED svars

Fits(p, b) == p \notin Large /\ Len(b) < BufferSize

WriteWithoutFlush(p) ==                                             \* mutant
  IF Fits(p, buffer)
    THEN /\ buffer' = Append(buffer, p)
         /\ UNCHANGED writeQueue
    ELSE IF Fits(p, <<>>)
    THEN /\ buffer' = <<p>>
         /\ writeQueue' = Append(writeQueue, buffer)
    ELSE /\ writeQueue' = Append(writeQueue, <<p>>)
         /\ UNCHANGED buffer

(* A buffer without room for the packet is queued, even when it is empty;  *)
(* then the packet goes into a new one, or into one of its own size.       *)
Write(p) ==
  IF Fits(p, buffer)
    THEN /\ buffer' = Append(buffer, p)
         /\ UNCHANGED writeQueue
    ELSE IF Fits(p, <<>>)
    THEN /\ buffer' = <<p>>
         /\ writeQueue' = Append(writeQueue, buffer)
    ELSE /\ buffer' = <<>>
         /\ writeQueue' = writeQueue \o <<buffer, <<p>>>>

WritePacket ==
  /\ net = "drain"
  /\ deq = "got"
  /\ Write(result)
  /\ Dequeue
  /\ UNCHANGED <<net, return, reading, writingAsync, locked, state_vars, game_vars, env_vars>>

(* The queue has given nothing more: Socket::Update, up to its loop.       *)
(* NetworkThread::Update removes a socket that is closed for good.         *)
Flush ==
  /\ net = "drain"
  /\ deq = "none"
  /\ writeQueue' = IF buffer = <<>> THEN writeQueue ELSE Append(writeQueue, buffer)
  /\ buffer' = <<>>
  /\ return' = "callbacks"
  /\ net' = IF closed THEN "removed"
            ELSE IF writingAsync \/ (writeQueue' = <<>> /\ ~closing) THEN "callbacks"
            ELSE "write"
  /\ UNCHANGED <<reading, writingAsync, locked, state_vars, game_vars, env_vars, mvars>>

-----------------------------------------------------------------------------
(* HandleQueue, called by Update until it returns false and once by the    *)
(* handler of an asynchronous write.                                       *)
Delivered(s) == wire' = IF peer = "up" THEN wire \o s ELSE wire

PopAndForget(more) ==                                               \* mutant
  /\ writeQueue' = Tail(writeQueue)
  /\ net' = IF more /\ return = "callbacks" /\ writeQueue' # <<>> THEN "write" ELSE return

Popped(more) ==
  /\ writeQueue' = Tail(writeQueue)
  /\ net' = IF closing /\ writeQueue' = <<>> THEN "close"
            ELSE IF more /\ return = "callbacks" /\ writeQueue' # <<>> THEN "write"
            ELSE return

NothingQueued ==
  /\ writeQueue = <<>>
  /\ net' = return
  /\ UNCHANGED <<writeQueue, writingAsync, wire, blocks>>

Written ==
  /\ writeQueue # <<>>
  /\ Head(writeQueue) # <<>>
  /\ ~Shut
  /\ Delivered(Head(writeQueue))
  /\ Popped(TRUE)
  /\ UNCHANGED <<writingAsync, blocks>>

NothingWritten ==
  /\ writeQueue # <<>>
  /\ Head(writeQueue) = <<>> \/ Shut \/ peer = "gone"
  /\ Popped(FALSE)
  /\ UNCHANGED <<writingAsync, wire, blocks>>

(* AsyncProcessQueue: a part of the buffer, or nothing, was written.       *)
WouldBlock ==
  /\ writeQueue # <<>>
  /\ ~Shut
  /\ blocks < MaxBlocks
  /\ \E k \in 0 .. Len(Head(writeQueue)) - 1 :
       /\ Delivered(SubSeq(Head(writeQueue), 1, k))
       /\ writeQueue' = [writeQueue EXCEPT ![1] = SubSeq(@, k + 1, Len(@))]
  /\ blocks' = blocks + 1
  /\ writingAsync' = TRUE
  /\ net' = return

HandleQueue ==
  /\ net = "write"
  /\ NothingQueued \/ Written \/ NothingWritten \/ WouldBlock
  /\ UNCHANGED <<return, buffer, reading, locked, state_vars, game_vars, peer, reads, mvars>>

WriteHandlerWrapper ==
  /\ net = "idle"
  /\ writingAsync
  /\ writingAsync' = FALSE
  /\ return' = "idle"
  /\ net' = "write"
  /\ UNCHANGED <<buffer, reading, writeQueue, locked, state_vars, game_vars, env_vars, mvars>>

-----------------------------------------------------------------------------
(* CloseSocket of the network thread, and OnClose                          *)
CloseSocket ==
  /\ net = "close"
  /\ closed' = TRUE
  /\ net' = IF closed THEN return ELSE "onclose"
  /\ UNCHANGED <<return, buffer, reading, writingAsync, writeQueue, locked, closing, pointer, phase,
                 game_vars, env_vars, mvars>>

OnClose ==
  /\ net = "onclose"
  /\ pointer' = FALSE
  /\ net' = return
  /\ UNCHANGED <<return, buffer, reading, writingAsync, writeQueue, locked, closed, closing, phase,
                 game_vars, env_vars, mvars>>

-----------------------------------------------------------------------------
(* The network thread: callbacks of queries.  A query that is not finished *)
(* is looked at again in the next update.                                  *)
Callback(from) ==
  /\ net = "callbacks"
  /\ phase = from

NotReady ==
  /\ net = "callbacks"
  /\ net' = "idle"
  /\ UNCHANGED <<return, buffer, reading, writingAsync, writeQueue, locked, state_vars, game_vars, env_vars, mvars>>

(* Every callback that refuses the client sends an error and then closes   *)
(* the socket, delayed; it does not read on.                               *)
Refuse ==
  /\ \E from \in {"ip", "account", "continued"} : Callback(from)
  /\ SendPacket(Net)
  /\ phase' = "refused"
  /\ net' = "refuse"
  /\ UNCHANGED <<return, buffer, reading, writingAsync, writeQueue, locked, closed, closing, pointer,
                 game_vars, env_vars>>

DelayedCloseSocket ==
  /\ net = "refuse"
  /\ Sent(Net)
  /\ closing' = TRUE
  /\ net' = "idle"
  /\ UNCHANGED <<return, buffer, reading, writingAsync, writeQueue, locked, closed, pointer, phase,
                 game_vars, env_vars, mvars>>

CheckIpCallback ==
  /\ Callback("ip")
  /\ AsyncRead
  /\ writeQueue' = Append(writeQueue, <<Initializer>>)
  /\ phase' = "initializer"
  /\ net' = "idle"
  /\ UNCHANGED <<return, buffer, writingAsync, locked, closed, closing, pointer, game_vars, env_vars, mvars>>

HandleAuthSessionCallback ==
  /\ Callback("account")
  /\ pointer' = TRUE
  /\ session' = "created"
  /\ attached' = TRUE
  /\ AsyncRead
  /\ phase' = "permissions"
  /\ net' = "idle"
  /\ UNCHANGED <<return, buffer, writingAsync, writeQueue, locked, closed, closing, world, env_vars, mvars>>

(* The session is given to the world (AddSession).                         *)
LoadSessionPermissionsCallback ==
  /\ Callback("permissions")
  /\ session' = "world"
  /\ phase' = "established"
  /\ net' = "idle"
  /\ UNCHANGED <<return, buffer, reading, writingAsync, writeQueue, locked, closed, closing, pointer,
                 world, attached, env_vars, mvars>>

HandleAuthContinuedSessionCallback ==
  /\ Callback("continued")
  /\ AsyncRead
  /\ phase' = "link"                                   \* AddInstanceSocket
  /\ net' = "idle"
  /\ UNCHANGED <<return, buffer, writingAsync, writeQueue, locked, closed, closing, pointer,
                 game_vars, env_vars, mvars>>

-----------------------------------------------------------------------------
(* The network thread: reads                                               *)
ReadHandler ==
  /\ net = "idle"
  /\ reading
  /\ peer = "up"
  /\ reads < MaxReads
  /\ reading' = FALSE
  /\ reads' = reads + 1
  /\ return' = "idle"
  /\ net' = IF IsOpen THEN "read" ELSE "idle"
  /\ UNCHANGED <<buffer, writingAsync, writeQueue, locked, state_vars, game_vars, wire, peer, blocks, mvars>>

(* ReadHandlerInternal with an error: the client has gone.                 *)
ReadError ==
  /\ net = "idle"
  /\ reading
  /\ peer = "gone"
  /\ reading' = FALSE
  /\ return' = "idle"
  /\ net' = "close"
  /\ UNCHANGED <<buffer, writingAsync, writeQueue, locked, state_vars, game_vars, env_vars, mvars>>

(* ReadDataHandler with the packet of each phase; the error that ends it   *)
(* closes the socket.                                                      *)
Malformed ==
  /\ net = "read"
  /\ net' = "close"
  /\ UNCHANGED <<return, buffer, reading, writingAsync, writeQueue, locked, state_vars, game_vars, env_vars, mvars>>

HandleSendAuthSession ==
  /\ net = "read"
  /\ phase = "initializer"
  /\ SendPacket(Net)
  /\ phase' = "challenge"
  /\ net' = "readDone"
  /\ UNCHANGED <<return, buffer, reading, writingAsync, writeQueue, locked, closed, closing, pointer,
                 game_vars, env_vars>>

(* HandleAuthSession and HandleAuthContinuedSession begin a query, and     *)
(* nothing is read before its callback.                                    *)
HandleAuth(to) ==
  /\ net = "read"
  /\ phase = "challenge"
  /\ phase' = to
  /\ net' = "idle"
  /\ UNCHANGED <<return, buffer, reading, writingAsync, writeQueue, locked, closed, closing, pointer,
                 game_vars, env_vars, mvars>>

HandleWrongConnectionType ==
  /\ net = "read"
  /\ phase = "challenge"
  /\ SendPacket(Net)
  /\ phase' = "refused"
  /\ net' = "refuse"
  /\ UNCHANGED <<return, buffer, reading, writingAsync, writeQueue, locked, closed, closing, pointer,
                 game_vars, env_vars>>

(* Some packets are answered without the lock: CMSG_LOG_DISCONNECT and     *)
(* CMSG_KEEP_ALIVE want nothing, and CMSG_ENABLE_NAGLE nothing of a socket *)
(* that has no session, but of one that has, a call.                       *)
NothingToDo ==
  /\ net = "read"
  /\ phase # "initializer"
  /\ net' = "readDone"
  /\ UNCHANGED <<return, buffer, reading, writingAsync, writeQueue, locked, state_vars, game_vars, env_vars, mvars>>

HandleEnableNagle ==
  /\ net = "read"
  /\ phase # "initializer"
  /\ pointer
  /\ net' = "nagle"
  /\ UNCHANGED <<return, buffer, reading, writingAsync, writeQueue, locked, state_vars, game_vars, env_vars, mvars>>

EnableNagle ==
  /\ net = "nagle"
  /\ net' = "readDone"
  /\ UNCHANGED <<return, buffer, reading, writingAsync, writeQueue, locked, state_vars, game_vars, env_vars, mvars>>

(* A duplicate CMSG_AUTH_SESSION or CMSG_AUTH_CONTINUED_SESSION: try_lock  *)
(* fails, or the player of _worldSession is logged, without a look whether *)
(* there is one.  What the others do after the crash shows nothing.        *)
HandleDuplicate ==
  /\ net = "read"
  /\ Authed
  /\ \/ net' = "close" /\ UNCHANGED locked
     \/ net' = "duplicate" /\ locked' = TRUE
  /\ UNCHANGED <<return, buffer, reading, writingAsync, writeQueue, state_vars, game_vars, env_vars, mvars>>

LogDuplicate ==
  /\ net = "duplicate"
  /\ locked' = FALSE
  /\ net' = IF pointer THEN "close" ELSE "crashed"
  /\ UNCHANGED <<return, buffer, reading, writingAsync, writeQueue, state_vars, game_vars, env_vars, mvars>>

(* Any other packet needs the lock.                                        *)
LockSession ==
  /\ net = "read"
  /\ phase # "initializer"
  /\ locked' = TRUE
  /\ net' = "locked"
  /\ UNCHANGED <<return, buffer, reading, writingAsync, writeQueue, state_vars, game_vars, env_vars, mvars>>

Unlock(to) ==
  /\ net = "locked"
  /\ locked' = FALSE
  /\ net' = to
  /\ UNCHANGED <<return, buffer, reading, writingAsync, writeQueue, state_vars, game_vars, env_vars>>

QueueInSession == pointer /\ Unlock("readDone") /\ UNCHANGED mvars
HandlePing ==
  /\ pointer
  /\ Len(order) + 1 \in Nodes
  /\ Unlock("pong")
  /\ UNCHANGED mvars
NotAuthed == ~pointer /\ Unlock("close") /\ UNCHANGED mvars

(* SendConnectToInstance, of a session whose player is loading.            *)
HandleConnectToFailed ==
  /\ Unlock("readDone")
  /\ IF pointer THEN SendPacket(Net) ELSE UNCHANGED mvars

Pong ==
  /\ net = "pong"
  /\ SendPacket(Net)
  /\ net' = "readDone"
  /\ UNCHANGED <<return, buffer, reading, writingAsync, writeQueue, locked, state_vars, game_vars, env_vars>>

(* More of what was read, without a look at the flags, or the next read.   *)
ReadOn ==
  /\ net = "readDone"
  /\ Sent(Net)
  /\ reads < MaxReads
  /\ reads' = reads + 1
  /\ net' = "read"
  /\ UNCHANGED <<return, buffer, reading, writingAsync, writeQueue, locked, state_vars, game_vars,
                 wire, peer, blocks, mvars>>

ReadDone ==
  /\ net = "readDone"
  /\ Sent(Net)
  /\ AsyncRead
  /\ net' = "idle"
  /\ UNCHANGED <<return, buffer, writingAsync, writeQueue, locked, state_vars, game_vars, env_vars, mvars>>

-----------------------------------------------------------------------------
(* The threads of the game                                                 *)
WorldRuns(from) == world = from /\ Sent(World)

(* ProcessLinkInstanceSocket: the session expects the socket, or not.      *)
LinkInstanceSocket ==
  /\ WorldRuns("idle")
  /\ phase = "link"
  /\ IF IsOpen
       THEN world' = "linking" /\ UNCHANGED phase
       ELSE phase' = "refused" /\ UNCHANGED world
  /\ UNCHANGED <<closed, closing, pointer, session, attached, net_vars, env_vars, mvars>>

SetWorldSession ==
  /\ WorldRuns("linking")
  /\ ~locked
  /\ pointer' = TRUE
  /\ session' = "world"
  /\ attached' = TRUE
  /\ phase' = "established"
  /\ world' = "idle"
  /\ UNCHANGED <<closed, closing, net_vars, env_vars, mvars>>

SendAuthResponseError ==
  /\ WorldRuns("linking")
  /\ SendPacket(World)
  /\ phase' = "refused"
  /\ world' = "refusing"
  /\ UNCHANGED <<closed, closing, pointer, session, attached, net_vars, env_vars>>

DelayedCloseByWorld ==
  /\ WorldRuns("refusing")
  /\ closing' = TRUE
  /\ world' = "idle"
  /\ UNCHANGED <<closed, pointer, phase, session, attached, net_vars, env_vars, mvars>>

(* A packet for the player, from the world thread or a map (which leaves a *)
(* number to an answer that is due: the bound must not stop a handler).    *)
Send(t) ==
  /\ net = "pong" => Len(order) + 2 \in Nodes
  /\ t = World => WorldRuns("idle")
  /\ session = "world"
  /\ attached
  /\ IsOpen
  /\ SendPacket(t)
  /\ UNCHANGED svars

(* KickPlayer, and Update of a session that logs out, by the world thread  *)
(* while no map is being updated.                                          *)
MapsIdle == \A t \in Game : Sent(t)

KickPlayer ==
  /\ WorldRuns("idle") /\ MapsIdle
  /\ session = "world"
  /\ attached
  /\ ~closed
  /\ closed' = TRUE
  /\ world' = "kick"
  /\ UNCHANGED <<closing, pointer, phase, session, attached, net_vars, env_vars, mvars>>

(* CloseSocket of the world thread: after _closed is set, and before       *)
(* OnClose, the socket is shut down.                                       *)
ShutdownByWorld ==
  /\ world \in {"kick", "delete"}
  /\ world' = IF world = "kick" THEN "kicking" ELSE "deleting"
  /\ UNCHANGED <<session, attached, state_vars, net_vars, env_vars, mvars>>

OnCloseByWorld ==
  /\ world \in {"kicking", "deleting"}
  /\ ~locked
  /\ pointer' = FALSE
  /\ session' = IF world = "deleting" THEN "deleted" ELSE session
  /\ world' = "idle"
  /\ UNCHANGED <<closed, closing, phase, attached, net_vars, env_vars, mvars>>

(* WorldSession::Update lets go of a socket that is not open.              *)
ForgetSocket ==
  /\ WorldRuns("idle") /\ MapsIdle
  /\ session = "world"
  /\ attached
  /\ closed
  /\ attached' = FALSE
  /\ UNCHANGED <<world, session, state_vars, net_vars, env_vars, mvars>>

DeleteAtOnce ==                                                     \* mutant
  /\ WorldRuns("idle") /\ MapsIdle
  /\ session = "world"
  /\ attached' = FALSE
  /\ closed' = (closed \/ attached)
  /\ session' = "deleted"
  /\ UNCHANGED <<world, closing, pointer, phase, net_vars, env_vars, mvars>>

(* ~WorldSession closes the socket it still has before it is gone.         *)
DeleteSession ==
  /\ WorldRuns("idle") /\ MapsIdle
  /\ session = "world"
  /\ attached' = FALSE
  /\ closed' = (closed \/ attached)
  /\ IF attached /\ ~closed
       THEN world' = "delete" /\ UNCHANGED session
       ELSE session' = "deleted" /\ UNCHANGED world
  /\ UNCHANGED <<closing, pointer, phase, net_vars, env_vars, mvars>>

LinkNode(t) == Link(t) /\ UNCHANGED svars

(* The client                                                              *)
Disconnect ==
  /\ peer = "up"
  /\ peer' = "gone"
  /\ UNCHANGED <<wire, reads, blocks, net_vars, state_vars, game_vars, mvars>>

-----------------------------------------------------------------------------
UpdateStep == Update \/ Drain \/ WritePacket \/ Flush
Callbacks ==
  \/ Refuse
  \/ CheckIpCallback
  \/ HandleAuthSessionCallback
  \/ LoadSessionPermissionsCallback
  \/ HandleAuthContinuedSessionCallback
ReadStep ==
  \/ ReadError
  \/ Malformed
  \/ HandleSendAuthSession
  \/ HandleAuth("account")
  \/ HandleAuth("continued")
  \/ HandleWrongConnectionType
  \/ NothingToDo
  \/ HandleEnableNagle \/ EnableNagle
  \/ HandleDuplicate \/ LogDuplicate
  \/ LockSession
  \/ QueueInSession \/ HandlePing \/ NotAuthed \/ HandleConnectToFailed
  \/ Pong
  \/ ReadDone
CloseStep == CloseSocket \/ OnClose \/ DelayedCloseSocket

NetStep ==
  \/ UpdateStep
  \/ HandleQueue
  \/ WriteHandlerWrapper
  \/ CloseStep
  \/ NotReady
  \/ Callbacks
  \/ ReadHandler
  \/ ReadOn
  \/ ReadStep

WorldReturns ==
  \/ SetWorldSession \/ SendAuthResponseError \/ DelayedCloseByWorld
  \/ ShutdownByWorld \/ OnCloseByWorld

WorldStep ==
  \/ LinkInstanceSocket
  \/ WorldReturns
  \/ KickPlayer
  \/ ForgetSocket
  \/ DeleteSession

Next ==
  \/ NetStep
  \/ WorldStep
  \/ \E t \in Game : Send(t)
  \/ \E t \in Threads : LinkNode(t)
  \/ Disconnect

Spec == Init /\ [][Next]_vars

(* The network thread runs its timer every millisecond, and Asio runs a    *)
(* handler that is ready in its turn; queries are answered and a socket    *)
(* whose client is there becomes writable.  Threads go on in a call.       *)
(* Nothing is assumed of the client, or of what the game does to sessions. *)
Fairness ==
  /\ WF_vars(UpdateStep)
  /\ WF_vars(HandleQueue)
  /\ WF_vars(CloseStep)
  /\ WF_vars(NotReady)
  /\ WF_vars(ReadStep /\ net # "idle")
  /\ SF_vars(WriteHandlerWrapper)
  /\ SF_vars(Callbacks)
  /\ SF_vars(ReadError)
  /\ WF_vars(LinkInstanceSocket)
  /\ WF_vars(WorldReturns)
  /\ \A t \in Threads : WF_vars(LinkNode(t))

FairSpec == Spec /\ Fairness

-----------------------------------------------------------------------------
(* What the client gets is, from the first packet on, what was sent, in    *)
(* the order the packets entered _bufferQueue and without a gap: neither   *)
(* the buffers, nor partial writes, nor packets too large for the buffer,  *)
(* nor the network thread's own answers change the order (the encryption   *)
(* depends on it).                                                         *)
WireInOrder == IsPrefix(wire, order) \/ IsPrefix(wire, <<Initializer>> \o order)

(* The network thread uses _worldSession only while the session lives,     *)
(* whoever closes the socket or deletes the session at that moment: with   *)
(* _worldSessionLock always, without it (WorldSocket.cpp:366, 386, 406,    *)
(* and the callback of the permissions, where the pointer is not looked at *)
(* when it is used) as long as nobody has closed the socket meanwhile.     *)
(* What goes wrong on a socket that was closed meanwhile: the call of      *)
(* CMSG_ENABLE_NAGLE may find the session deleted, the log of a duplicate  *)
(* no session (LogDuplicate).                                              *)
UsesLiveSession ==
  /\ locked /\ pointer => session \in {"created", "world"}
  /\ net = "callbacks" /\ phase = "permissions" => pointer /\ session = "created"
  /\ net \in {"nagle", "duplicate"} /\ ~closed => pointer /\ session \in {"created", "world"}

(* A packet is written in the end, unless the socket is closed or the      *)
(* client gone: a Dequeue that gives up in the middle, a buffer that is    *)
(* empty or a write that would block loses none.                           *)
PacketsWritten ==
  \A n \in Nodes :
    (n \in Range(order)) ~> (n \in Range(wire) \/ closed \/ peer = "gone")

(* A socket that is marked for closing while there is something to write   *)
(* is closed in the end.                                                   *)
Unwritten == taken < Len(order) \/ buffer # <<>> \/ writeQueue # <<>>
ClosesAfterWriting == (closing /\ Unwritten) ~> closed

(* Socket.h:129: "Marks the socket for closing after write buffer becomes  *)
(* empty", so that a socket marked for closing is closed in the end.       *)
MarkedCloses == closing ~> closed

=============================================================================
