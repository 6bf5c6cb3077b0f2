-------------------------- MODULE WorldSocketProof --------------------------
(***************************************************************************)
(* Proofs about WorldSocket, for any threads and packets: the network      *)
(* thread uses the session of a socket only while it lives (without the    *)
(* lock, while the socket is open), what happens to _bufferQueue is what   *)
(* may happen to an MPSCQueue, so that the theorem about that holds here,  *)
(* the client gets the packets in the order in which they entered the      *)
(* queue, and none is lost while it can get them.                          *)
(***************************************************************************)
EXTENDS WorldSocket, MPSCQueueProof, WellFoundedInduction

NetReads == net \in {"read", "locked", "nagle", "duplicate", "pong", "readDone"}

(* How far the session is follows the login.                               *)
SessionOfPhase ==
  /\ phase \in {"ip", "initializer", "challenge", "account", "continued", "link", "refused"}
       => session = "none"
  /\ phase = "permissions" => session = "created"
  /\ phase = "established" => session \in {"world", "deleted"}
  /\ phase \in {"ip", "initializer", "challenge", "account", "continued", "link", "refused",
                "permissions", "established"}

(* Only a socket that was refused is marked for closing.                   *)
ClosingIsRefused ==
  /\ closing \/ net = "refuse" \/ world = "refusing" => phase = "refused"
  /\ return = "callbacks" /\ net \in {"close", "onclose"} => phase = "refused"
  /\ NetReads => return = "idle"

(* What the threads know where they are.                                   *)
WhereThreadsAre ==
  /\ return \in {"idle", "callbacks"}
  /\ locked <=> net \in {"locked", "duplicate"}
  /\ net = "onclose" => closed
  /\ world = "linking" => phase = "link"
  /\ world \in {"kick", "kicking", "delete", "deleting"} => closed /\ session = "world"

(* A socket that is not closed keeps its session, and the session it.      *)
SocketOfSession ==
  /\ session = "created" => attached
  /\ session = "world" /\ ~attached => closed
  /\ session = "deleted" => closed
  /\ pointer => session # "none"
  /\ (phase = "established" \/ net = "nagle") /\ ~closed => pointer

(* The network thread itself has closed no socket it reads from; if the    *)
(* world has, it is about to clear the pointer.                            *)
ClosedWhileReading ==
  /\ NetReads /\ closed => session \notin {"none", "created"}
  /\ NetReads /\ closed /\ pointer => world \in {"kick", "kicking", "delete", "deleting"}
  /\ NetReads /\ pointer => session # "deleted"

(* Nobody but the network thread closes a socket before its session is the *)
(* world's, and not between its look at _closed and the callbacks.         *)
PermissionsPending ==
  phase = "permissions" =>
    /\ ~closed => pointer
    /\ net = "callbacks" => ~closed
    /\ net = "write" /\ return = "callbacks" => ~closed

(* Nothing is read before CheckIpCallback.                                 *)
NotReadYet == phase = "ip" => ~reading /\ ~NetReads

(* A packet is a duplicate only of an authentication that succeeded.       *)
DuplicateIsAuthed == net = "duplicate" => Authed

SInv ==
  /\ DuplicateIsAuthed
  /\ SessionOfPhase
  /\ ClosingIsRefused
  /\ WhereThreadsAre
  /\ SocketOfSession
  /\ ClosedWhileReading
  /\ PermissionsPending
  /\ NotReadYet

LEMMA SInvInit == Init => SInv
BY DEF Init, SInv, SessionOfPhase, ClosingIsRefused, WhereThreadsAre, SocketOfSession,
       ClosedWhileReading, PermissionsPending, NotReadYet, DuplicateIsAuthed, Authed, NetReads

LEMMA SInvUpdate ==
  ASSUME SInv, UpdateStep \/ NotReady
  PROVE  SInv'
<1> USE DEF SInv, SessionOfPhase, ClosingIsRefused, WhereThreadsAre, SocketOfSession,
            ClosedWhileReading, PermissionsPending, NotReadYet, DuplicateIsAuthed, Authed,
            NetReads, state_vars, game_vars, env_vars
<1>1. CASE Update
  BY <1>1 DEF Update
<1>2. CASE Drain
  BY <1>2 DEF Drain, svars
<1>3. CASE WritePacket
  BY <1>3 DEF WritePacket
<1>4. CASE Flush
  BY <1>4 DEF Flush
<1>5. CASE NotReady
  BY <1>5 DEF NotReady
<1> QED
  BY <1>1, <1>2, <1>3, <1>4, <1>5 DEF UpdateStep

LEMMA SInvWrite ==
  ASSUME SInv, HandleQueue \/ WriteHandlerWrapper
  PROVE  SInv'
<1> USE DEF SInv, SessionOfPhase, ClosingIsRefused, WhereThreadsAre, SocketOfSession,
            ClosedWhileReading, PermissionsPending, NotReadYet, DuplicateIsAuthed, Authed,
            NetReads, state_vars, game_vars, env_vars
<1>1. CASE WriteHandlerWrapper
  BY <1>1 DEF WriteHandlerWrapper
<1>2. ASSUME HandleQueue
      PROVE  \/ net' = return
             \/ net' = "write" /\ return = "callbacks"
             \/ net' = "close" /\ closing
  BY <1>2 DEF HandleQueue, NothingQueued, Written, NothingWritten, WouldBlock, Popped
<1>3. CASE HandleQueue
  BY <1>2, <1>3 DEF HandleQueue
<1> QED
  BY <1>1, <1>3

LEMMA SInvClose ==
  ASSUME SInv, CloseStep
  PROVE  SInv'
<1> USE DEF SInv, SessionOfPhase, ClosingIsRefused, WhereThreadsAre, SocketOfSession,
            ClosedWhileReading, PermissionsPending, NotReadYet, DuplicateIsAuthed, Authed,
            NetReads, state_vars, game_vars, env_vars
<1>1. CASE CloseSocket
  BY <1>1 DEF CloseSocket
<1>2. CASE OnClose
  BY <1>2 DEF OnClose
<1>3. CASE DelayedCloseSocket
  BY <1>3 DEF DelayedCloseSocket
<1> QED
  BY <1>1, <1>2, <1>3 DEF CloseStep

LEMMA SInvCallbacks ==
  ASSUME SInv, Callbacks
  PROVE  SInv'
<1> USE DEF SInv, SessionOfPhase, ClosingIsRefused, WhereThreadsAre, SocketOfSession,
            ClosedWhileReading, PermissionsPending, NotReadYet, DuplicateIsAuthed, Authed,
            NetReads, state_vars, game_vars, env_vars, Callback
<1>1. CASE Refuse
  BY <1>1 DEF Refuse
<1>2. CASE CheckIpCallback
  BY <1>2 DEF CheckIpCallback
<1>3. CASE HandleAuthSessionCallback
  BY <1>3 DEF HandleAuthSessionCallback
<1>4. CASE LoadSessionPermissionsCallback
  BY <1>4 DEF LoadSessionPermissionsCallback
<1>5. CASE HandleAuthContinuedSessionCallback
  BY <1>5 DEF HandleAuthContinuedSessionCallback
<1> QED
  BY <1>1, <1>2, <1>3, <1>4, <1>5 DEF Callbacks

LEMMA SInvRead ==
  ASSUME SInv, ReadHandler \/ ReadOn \/ ReadStep
  PROVE  SInv'
<1> USE DEF SInv, SessionOfPhase, ClosingIsRefused, WhereThreadsAre, SocketOfSession,
            ClosedWhileReading, PermissionsPending, NotReadYet, DuplicateIsAuthed, Authed,
            NetReads, state_vars, game_vars, env_vars
<1>1. CASE ReadHandler
  BY <1>1 DEF ReadHandler, IsOpen
<1>2. CASE ReadOn
  BY <1>2 DEF ReadOn
<1>3. CASE ReadError
  BY <1>3 DEF ReadError
<1>4. CASE Malformed
  BY <1>4 DEF Malformed
<1>5. CASE HandleSendAuthSession
  BY <1>5 DEF HandleSendAuthSession
<1>6. ASSUME NEW to \in {"account", "continued"}, HandleAuth(to) PROVE SInv'
  BY <1>6 DEF HandleAuth
<1>7. CASE HandleWrongConnectionType
  BY <1>7 DEF HandleWrongConnectionType
<1>8. CASE LockSession
  BY <1>8 DEF LockSession
<1>9. CASE QueueInSession \/ HandlePing \/ NotAuthed \/ HandleConnectToFailed
  BY <1>9 DEF QueueInSession, HandlePing, NotAuthed, HandleConnectToFailed, Unlock
<1>10. CASE Pong
  BY <1>10 DEF Pong
<1>11. CASE ReadDone
  BY <1>11 DEF ReadDone
<1>12. CASE NothingToDo \/ HandleEnableNagle \/ EnableNagle
  BY <1>12 DEF NothingToDo, HandleEnableNagle, EnableNagle
<1>13. CASE HandleDuplicate
  BY <1>13 DEF HandleDuplicate
<1>14. CASE LogDuplicate
  BY <1>14 DEF LogDuplicate
<1> QED
  BY <1>1, <1>2, <1>3, <1>4, <1>5, <1>6, <1>7, <1>8, <1>9, <1>10, <1>11, <1>12, <1>13, <1>14 DEF ReadStep

LEMMA SInvWorld ==
  ASSUME SInv, WorldStep
  PROVE  SInv'
<1> USE DEF SInv, SessionOfPhase, ClosingIsRefused, WhereThreadsAre, SocketOfSession,
            ClosedWhileReading, PermissionsPending, NotReadYet, DuplicateIsAuthed, Authed,
            NetReads, state_vars, net_vars, env_vars, WorldRuns
<1>1. CASE LinkInstanceSocket
  BY <1>1 DEF LinkInstanceSocket
<1>2. CASE SetWorldSession
  BY <1>2 DEF SetWorldSession
<1>3. CASE SendAuthResponseError
  BY <1>3 DEF SendAuthResponseError
<1>4. CASE DelayedCloseByWorld
  BY <1>4 DEF DelayedCloseByWorld
<1>5. CASE OnCloseByWorld
  BY <1>5 DEF OnCloseByWorld
<1>6. CASE KickPlayer
  BY <1>6 DEF KickPlayer
<1>7. CASE ForgetSocket
  BY <1>7 DEF ForgetSocket
<1>8. CASE DeleteSession
  BY <1>8 DEF DeleteSession
<1>9. CASE ShutdownByWorld
  BY <1>9 DEF ShutdownByWorld
<1> QED
  BY <1>1, <1>2, <1>3, <1>4, <1>5, <1>6, <1>7, <1>8, <1>9 DEF WorldStep, WorldReturns

LEMMA SInvNext == SInv /\ [Next]_vars => SInv'
<1> SUFFICES ASSUME SInv, [Next]_vars PROVE SInv'
  OBVIOUS
<1>1. CASE NetStep
  BY <1>1, SInvUpdate, SInvWrite, SInvClose, SInvCallbacks, SInvRead DEF NetStep
<1>2. CASE WorldStep
  BY <1>2, SInvWorld
<1>3. CASE UNCHANGED svars
  BY <1>3 DEF svars, SInv, SessionOfPhase, ClosingIsRefused, WhereThreadsAre, SocketOfSession,
              ClosedWhileReading, PermissionsPending, NotReadYet, DuplicateIsAuthed, Authed, NetReads
<1>4. CASE Disconnect
  BY <1>4 DEF Disconnect, net_vars, state_vars, game_vars, SInv, SessionOfPhase, ClosingIsRefused,
              WhereThreadsAre, SocketOfSession, ClosedWhileReading, PermissionsPending, NotReadYet,
              DuplicateIsAuthed, Authed, NetReads
<1>5. ASSUME (\E t \in Game : Send(t)) \/ (\E t \in Threads : LinkNode(t)) PROVE UNCHANGED svars
  BY <1>5 DEF Send, LinkNode
<1> QED
  BY <1>1, <1>2, <1>3, <1>4, <1>5 DEF Next, vars

(* For any threads: what the network thread uses of a session under        *)
(* _worldSessionLock is alive whoever closes the socket or deletes the     *)
(* session; without the lock it finds a session, and alive, unless         *)
(* somebody has closed the socket meanwhile; and                           *)
(* LoadSessionPermissionsCallback always finds one.                        *)
THEOREM SessionUsedAlive == Spec => []UsesLiveSession
<1>1. Init => SInv
  BY SInvInit
<1>2. SInv /\ [Next]_vars => SInv'
  BY SInvNext
<1>3. SInv => UsesLiveSession
  <2>1. ASSUME SInv, locked, pointer PROVE session \in {"created", "world"}
    BY <2>1 DEF SInv, WhereThreadsAre, SessionOfPhase, SocketOfSession, ClosedWhileReading, NetReads
  <2>2. ASSUME SInv, net = "callbacks", phase = "permissions" PROVE pointer /\ session = "created"
    BY <2>2 DEF SInv, SessionOfPhase, PermissionsPending
  <2>3. ASSUME SInv, net \in {"nagle", "duplicate"}, ~closed
        PROVE  pointer /\ session \in {"created", "world"}
    BY <2>3 DEF SInv, SessionOfPhase, SocketOfSession, DuplicateIsAuthed, Authed, PermissionsPending
  <2> QED
    BY <2>1, <2>2, <2>3 DEF UsesLiveSession
<1> QED
  BY <1>1, <1>2, <1>3, PTL DEF Spec

-----------------------------------------------------------------------------
(* Outside the loop of Update the network thread is not within Dequeue, so *)
(* that it may enqueue.                                                    *)
InDequeue == net # "drain" => Returned

LEMMA SendEnqueues ==
  ASSUME NEW t \in Threads, t = Net => Returned, SendPacket(t)
  PROVE  [QueueNext]_mvars /\ deq' = deq
<1>1. CASE IsOpen
  BY <1>1 DEF SendPacket, Enqueue, QueueNext, Net
<1>2. CASE ~IsOpen
  BY <1>2 DEF SendPacket, mvars
<1> QED
  BY <1>1, <1>2

LEMMA QueueStep ==
  ASSUME IInv, InDequeue, [Next]_vars
  PROVE  [QueueNext]_mvars /\ InDequeue'
<1>0. Net \in Threads /\ World \in Threads /\ World # Net
  BY QueueAssumption, SocketAssumption DEF Net, QueueAssumption, SocketAssumption
<1>1. ASSUME UNCHANGED mvars, net # "drain" \/ net' = net
      PROVE  [QueueNext]_mvars /\ InDequeue'
  <2>1. deq' = deq /\ [QueueNext]_mvars
    BY <1>1 DEF mvars
  <2> QED
    BY <1>1, <2>1 DEF InDequeue, Returned
<1>2. ASSUME NEW t \in Threads, SendPacket(t), t = Net => net # "drain", net # "drain" \/ net' = net
      PROVE  [QueueNext]_mvars /\ InDequeue'
  <2>1. CASE t = Net
    <3>1. Returned /\ [QueueNext]_mvars /\ deq' = deq
      BY <1>2, <2>1, SendEnqueues DEF InDequeue
    <3> QED
      BY <3>1 DEF InDequeue, Returned
  <2>2. CASE t # Net
    <3>1. [QueueNext]_mvars /\ deq' = deq
      BY <1>2, <2>2, SendEnqueues
    <3> QED
      BY <1>2, <3>1 DEF InDequeue, Returned
  <2> QED
    BY <2>1, <2>2
<1>3. CASE UpdateStep
  <2>1. CASE Update
    BY <2>1 DEF Update, QueueNext, InDequeue
  <2>2. CASE Drain
    BY <2>2 DEF Drain, QueueNext, InDequeue, svars
  <2>3. CASE WritePacket
    BY <2>3 DEF WritePacket, QueueNext, InDequeue
  <2>4. CASE Flush
    <3>1. UNCHANGED mvars /\ net' # "drain"
      BY <2>4 DEF Flush
    <3>2. Returned
      BY <2>4 DEF Flush, Returned
    <3> QED
      BY <3>1, <3>2 DEF InDequeue, Returned, mvars
  <2> QED
    BY <1>3, <2>1, <2>2, <2>3, <2>4 DEF UpdateStep
<1>4. CASE HandleQueue \/ WriteHandlerWrapper \/ CloseStep \/ NotReady \/ ReadHandler \/ ReadOn
  <2>1. UNCHANGED mvars /\ net # "drain"
    BY <1>4 DEF HandleQueue, WriteHandlerWrapper, CloseStep, CloseSocket, OnClose, DelayedCloseSocket,
                NotReady, ReadHandler, ReadOn
  <2> QED
    BY <2>1 DEF InDequeue, Returned, mvars
<1>5. CASE Callbacks
  <2>1. CASE Refuse
    BY <2>1, <1>0, <1>2 DEF Refuse, Callback
  <2>2. CASE ~Refuse
    BY <1>5, <2>2, <1>1 DEF Callbacks, CheckIpCallback, HandleAuthSessionCallback,
       LoadSessionPermissionsCallback, HandleAuthContinuedSessionCallback, Callback
  <2> QED
    BY <2>1, <2>2
<1>6. CASE ReadStep
  <2>1. CASE HandleSendAuthSession \/ HandleWrongConnectionType \/ Pong
    BY <2>1, <1>0, <1>2 DEF HandleSendAuthSession, HandleWrongConnectionType, Pong
  <2>2. CASE HandleConnectToFailed
    BY <2>2, <1>0, <1>1, <1>2 DEF HandleConnectToFailed, Unlock
  <2>3. ASSUME NEW to \in {"account", "continued"}, HandleAuth(to)
        PROVE  [QueueNext]_mvars /\ InDequeue'
    BY <2>3, <1>1 DEF HandleAuth
  <2>4. CASE ReadError \/ Malformed \/ LockSession \/ QueueInSession \/ HandlePing \/ NotAuthed \/ ReadDone
    BY <2>4, <1>1 DEF ReadError, Malformed, LockSession, QueueInSession, HandlePing, NotAuthed, ReadDone, Unlock
  <2>5. CASE NothingToDo \/ HandleEnableNagle \/ EnableNagle \/ HandleDuplicate \/ LogDuplicate
    BY <2>5, <1>1 DEF NothingToDo, HandleEnableNagle, EnableNagle, HandleDuplicate, LogDuplicate
  <2> QED
    BY <1>6, <2>1, <2>2, <2>3, <2>4, <2>5 DEF ReadStep
<1>7. CASE WorldStep
  <2>1. CASE SendAuthResponseError
    BY <2>1, <1>0, <1>2 DEF SendAuthResponseError, net_vars
  <2>2. CASE ~SendAuthResponseError
    BY <1>7, <2>2, <1>1 DEF WorldStep, WorldReturns, LinkInstanceSocket, SetWorldSession, DelayedCloseByWorld,
       ShutdownByWorld, OnCloseByWorld, KickPlayer, ForgetSocket, DeleteSession, net_vars
  <2> QED
    BY <2>1, <2>2
<1>8. ASSUME NEW t \in Game, Send(t) PROVE [QueueNext]_mvars /\ InDequeue'
  BY <1>8, <1>2 DEF Send, Game, svars
<1>9. ASSUME NEW t \in Threads, LinkNode(t) PROVE [QueueNext]_mvars /\ InDequeue'
  <2>1. enq[t].node = Dummy => ~Returned
    BY DEF IInv, DummyOnce, Returned
  <2>2. QueueNext /\ net' = net /\ (deq' = deq \/ enq[t].node = Dummy)
    BY <1>9 DEF LinkNode, Link, QueueNext, svars
  <2> QED
    BY <2>1, <2>2 DEF InDequeue, Returned
<1>10. CASE Disconnect
  BY <1>10, <1>1 DEF Disconnect, net_vars
<1>11. CASE UNCHANGED vars
  BY <1>11, <1>1 DEF vars, svars
<1> QED
  BY <1>3, <1>4, <1>5, <1>6, <1>7, <1>8, <1>9, <1>10, <1>11 DEF Next, NetStep

(* For any threads and packets, the packets the network thread gets from   *)
(* _bufferQueue are those sent, in the order of the exchanges.             *)
THEOREM SocketImplementsQueue == Spec => ImplementsQueue
<1>1. Init => QueueInit /\ InDequeue
  BY DEF Init, QueueInit, InDequeue, Returned
<1>2. QueueInit => IInv
  BY InitInv
<1>3. IInv /\ InDequeue /\ [Next]_vars => [QueueNext]_mvars /\ IInv' /\ InDequeue'
  BY QueueStep, NextInv
<1>4. Spec => QueueSpec
  BY <1>1, <1>2, <1>3, PTL DEF Spec, QueueSpec
<1> QED
  BY <1>4, QueueImplements

-----------------------------------------------------------------------------
(* What is under way to the client, laid out one after another: in the     *)
(* stream that begins with the initializer, when off is 1, and goes on     *)
(* with the packets of o, the buffers of the queue q and then buffer b are *)
(* the stretches that end where the next begins.                           *)
Item(o, off, k) == IF k <= off THEN Initializer ELSE o[k - off]

Stretch(s, o, off, from, to) ==
  /\ Len(s) = to - from
  /\ \A k \in 1 .. Len(s) : s[k] = Item(o, off, from + k)

LaidOut(at, q, b, o, off, from, to) ==
  /\ at \in [1 .. Len(q) + 1 -> Nat]
  /\ at[1] = from
  /\ \A i \in 1 .. Len(q) : Stretch(q[i], o, off, at[i], at[i + 1])
  /\ Stretch(b, o, off, at[Len(q) + 1], to)
  /\ \A i \in 1 .. Len(q) + 1 : at[i] <= to

Laid(q, b, o, off, from, to) ==
  \E at \in [1 .. Len(q) + 1 -> Nat] : LaidOut(at, q, b, o, off, from, to)

Extends(o, p) == Len(o) <= Len(p) /\ \A i \in 1 .. Len(o) : p[i] = o[i]

LEMMA StretchStays ==
  ASSUME NEW S, NEW s \in Seq(S), NEW o \in Seq(S), NEW p \in Seq(S), NEW off \in {0, 1},
         NEW from \in Nat, NEW to \in Nat, to <= Len(o) + off, Extends(o, p),
         Stretch(s, o, off, from, to)
  PROVE  Stretch(s, p, off, from, to)
<1>1. Len(s) \in Nat /\ Len(o) \in Nat /\ Len(p) \in Nat /\ Len(s) = to - from
  BY DEF Stretch
<1>2. ASSUME NEW k \in 1 .. Len(s) PROVE Item(p, off, from + k) = Item(o, off, from + k)
  <2>1. CASE from + k <= off
    BY <2>1 DEF Item
  <2>2. CASE ~(from + k <= off)
    <3>1. from + k - off \in 1 .. Len(o)
      BY <1>1, <2>2
    <3> QED
      BY <2>2, <3>1 DEF Item, Extends
  <2> QED
    BY <2>1, <2>2
<1> QED
  BY <1>1, <1>2 DEF Stretch

(* More packets are enqueued.                                              *)
LEMMA LaidStays ==
  ASSUME NEW S, NEW q \in Seq(Seq(S)), NEW b \in Seq(S), NEW o \in Seq(S), NEW p \in Seq(S),
         NEW off \in {0, 1}, NEW from \in Nat, NEW to \in Nat, to <= Len(o) + off, Extends(o, p),
         Laid(q, b, o, off, from, to)
  PROVE  Laid(q, b, p, off, from, to)
<1>1. PICK at \in [1 .. Len(q) + 1 -> Nat] : LaidOut(at, q, b, o, off, from, to)
  BY DEF Laid
<1>2. Len(q) \in Nat /\ Len(o) \in Nat
  OBVIOUS
<1>3. ASSUME NEW i \in 1 .. Len(q) PROVE Stretch(q[i], p, off, at[i], at[i + 1])
  <2>0. q[i] \in Seq(S) /\ i \in 1 .. Len(q) + 1 /\ i + 1 \in 1 .. Len(q) + 1
    BY <1>2
  <2>1. /\ q[i] \in Seq(S) /\ at[i] \in Nat /\ at[i + 1] \in Nat
        /\ i + 1 \in 1 .. Len(q) + 1
        /\ Stretch(q[i], o, off, at[i], at[i + 1])
    BY <2>0, <1>1 DEF LaidOut
  <2>2. at[i + 1] <= to
    BY <1>1, <2>1 DEF LaidOut
  <2>3. at[i + 1] <= Len(o) + off
    BY <1>2, <2>1, <2>2
  <2> QED
    BY <2>1, <2>3, StretchStays
<1>4. Stretch(b, p, off, at[Len(q) + 1], to)
  <2>1. at[Len(q) + 1] \in Nat /\ Stretch(b, o, off, at[Len(q) + 1], to)
    BY <1>1, <1>2 DEF LaidOut
  <2> QED
    BY <2>1, StretchStays
<1>5. LaidOut(at, q, b, p, off, from, to)
  BY <1>1, <1>3, <1>4 DEF LaidOut
<1> QED
  BY <1>5 DEF Laid

(* A packet is written into the buffer.                                    *)
LEMMA LaidAdd ==
  ASSUME NEW S, NEW q \in Seq(Seq(S)), NEW b \in Seq(S), NEW o \in Seq(S),
         NEW off \in {0, 1}, NEW from \in Nat, NEW to \in Nat,
         Laid(q, b, o, off, from, to), NEW x \in S, x = Item(o, off, to + 1)
  PROVE  Laid(q, Append(b, x), o, off, from, to + 1)
<1>1. PICK at \in [1 .. Len(q) + 1 -> Nat] : LaidOut(at, q, b, o, off, from, to)
  BY DEF Laid
<1>2. Len(q) \in Nat /\ Len(b) \in Nat /\ at[Len(q) + 1] \in Nat
  <2>1. Len(q) \in Nat /\ Len(b) \in Nat
    OBVIOUS
  <2>2. Len(q) + 1 \in 1 .. Len(q) + 1
    BY <2>1
  <2> QED
    BY <2>1, <2>2
<1>3. /\ Len(Append(b, x)) = Len(b) + 1
      /\ \A k \in 1 .. Len(b) : Append(b, x)[k] = b[k]
      /\ Append(b, x)[Len(b) + 1] = x
  BY AppendProperties
<1>4. /\ Len(b) = to - at[Len(q) + 1]
      /\ \A k \in 1 .. Len(b) : b[k] = Item(o, off, at[Len(q) + 1] + k)
  BY <1>1 DEF LaidOut, Stretch
<1>5. at[Len(q) + 1] + (Len(b) + 1) = to + 1
  BY <1>2, <1>4
<1>6. Stretch(Append(b, x), o, off, at[Len(q) + 1], to + 1)
  <2>1. ASSUME NEW k \in 1 .. Len(b) + 1
        PROVE  Append(b, x)[k] = Item(o, off, at[Len(q) + 1] + k)
    <3>1. CASE k = Len(b) + 1
      BY <3>1, <1>3, <1>5
    <3>2. CASE k # Len(b) + 1
      <4>1. k \in 1 .. Len(b)
        BY <1>2, <3>2
      <4> QED
        BY <4>1, <1>3, <1>4
    <3> QED
      BY <3>1, <3>2
  <2> QED
    BY <2>1, <1>2, <1>3, <1>4, SMTT(20) DEF Stretch
<1>7. ASSUME NEW i \in 1 .. Len(q) + 1 PROVE at[i] <= to + 1
  <2>1. at[i] \in Nat /\ at[i] <= to
    BY <1>1 DEF LaidOut
  <2> QED
    BY <2>1
<1>8. LaidOut(at, q, Append(b, x), o, off, from, to + 1)
  BY <1>1, <1>6, <1>7 DEF LaidOut
<1> QED
  BY <1>8 DEF Laid

(* The buffer is queued.                                                   *)
LEMMA LaidQueued ==
  ASSUME NEW S, NEW q \in Seq(Seq(S)), NEW b \in Seq(S), NEW o \in Seq(S),
         NEW off \in {0, 1}, NEW from \in Nat, NEW to \in Nat,
         Laid(q, b, o, off, from, to)
  PROVE  Laid(Append(q, b), <<>>, o, off, from, to)
<1>1. PICK at \in [1 .. Len(q) + 1 -> Nat] : LaidOut(at, q, b, o, off, from, to)
  BY DEF Laid
<1> DEFINE more == [i \in 1 .. Len(q) + 2 |-> IF i <= Len(q) + 1 THEN at[i] ELSE to]
<1>2. Len(q) \in Nat
  OBVIOUS
<1>3. /\ Len(Append(q, b)) = Len(q) + 1
      /\ \A i \in 1 .. Len(q) : Append(q, b)[i] = q[i]
      /\ Append(q, b)[Len(q) + 1] = b
  BY AppendProperties
<1>4. /\ more \in [1 .. Len(q) + 2 -> Nat]
      /\ \A i \in 1 .. Len(q) + 1 : more[i] = at[i]
      /\ more[Len(q) + 2] = to
  BY <1>2
<1>5. ASSUME NEW i \in 1 .. Len(q) + 1 PROVE Stretch(Append(q, b)[i], o, off, more[i], more[i + 1])
  <2>1. CASE i = Len(q) + 1
    BY <2>1, <1>1, <1>2, <1>3, <1>4 DEF LaidOut
  <2>2. CASE i # Len(q) + 1
    <3>1. i \in 1 .. Len(q) /\ i + 1 \in 1 .. Len(q) + 1
      BY <1>2, <2>2
    <3> QED
      BY <3>1, <1>1, <1>3, <1>4 DEF LaidOut
  <2> QED
    BY <2>1, <2>2
<1>6. Stretch(<<>>, o, off, more[Len(q) + 2], to)
  BY <1>4 DEF Stretch
<1>7. \A i \in 1 .. Len(q) + 2 : more[i] <= to
  BY <1>1, <1>2 DEF LaidOut
<1>8. more[1] = from
  BY <1>1, <1>2, <1>4 DEF LaidOut
<1>9. Len(Append(q, b)) + 1 = Len(q) + 2
  BY <1>2, <1>3
<1> HIDE DEF more
<1>10. LaidOut(more, Append(q, b), <<>>, o, off, from, to)
  BY <1>3, <1>4, <1>5, <1>6, <1>7, <1>8, <1>9 DEF LaidOut
<1> QED
  BY <1>4, <1>9, <1>10 DEF Laid

(* The first buffer is popped.                                             *)
LEMMA LaidPopped ==
  ASSUME NEW S, NEW q \in Seq(Seq(S)), NEW b \in Seq(S), NEW o \in Seq(S),
         NEW off \in {0, 1}, NEW from \in Nat, NEW to \in Nat,
         Laid(q, b, o, off, from, to), q # <<>>
  PROVE  /\ Laid(Tail(q), b, o, off, from + Len(Head(q)), to)
         /\ Stretch(Head(q), o, off, from, from + Len(Head(q)))
         /\ from + Len(Head(q)) <= to
<1>1. PICK at \in [1 .. Len(q) + 1 -> Nat] : LaidOut(at, q, b, o, off, from, to)
  BY DEF Laid
<1> DEFINE rest == [i \in 1 .. Len(q) |-> at[i + 1]]
<1>2. Len(q) \in Nat \ {0} /\ Head(q) = q[1] /\ q[1] \in Seq(S) /\ Len(q[1]) \in Nat
  BY EmptySeq
<1>3. Len(Tail(q)) = Len(q) - 1 /\ \A i \in 1 .. Len(q) - 1 : Tail(q)[i] = q[i + 1]
  BY HeadTailProperties
<1>4. Stretch(q[1], o, off, at[1], at[2]) /\ at[1] = from /\ at[2] \in Nat /\ at[2] <= to
  <2>1. 1 \in 1 .. Len(q) /\ 2 \in 1 .. Len(q) + 1 /\ 1 + 1 = 2
    BY <1>2
  <2>2. Stretch(q[1], o, off, at[1], at[1 + 1])
    BY <1>1, <2>1 DEF LaidOut
  <2> QED
    BY <1>1, <2>1, <2>2 DEF LaidOut
<1>5. at[2] = from + Len(q[1])
  BY <1>2, <1>4 DEF Stretch
<1>6. rest \in [1 .. Len(q) -> Nat] /\ \A i \in 1 .. Len(q) : rest[i] = at[i + 1]
  BY <1>2
<1>7. ASSUME NEW i \in 1 .. Len(q) - 1 PROVE Stretch(Tail(q)[i], o, off, rest[i], rest[i + 1])
  <2>1. i \in 1 .. Len(q) /\ i + 1 \in 1 .. Len(q)
    BY <1>2
  <2>2. Stretch(q[i + 1], o, off, at[i + 1], at[i + 1 + 1])
    BY <1>1, <2>1 DEF LaidOut
  <2> QED
    BY <2>1, <2>2, <1>3, <1>6
<1>8. Stretch(b, o, off, rest[Len(q)], to) /\ \A i \in 1 .. Len(q) : rest[i] <= to
  BY <1>1, <1>2, <1>6 DEF LaidOut
<1>9. rest[1] = from + Len(q[1])
  BY <1>2, <1>5, <1>6
<1>10. Len(Tail(q)) + 1 = Len(q)
  BY <1>2, <1>3
<1>11. LaidOut(rest, Tail(q), b, o, off, from + Len(q[1]), to)
  BY <1>3, <1>6, <1>7, <1>8, <1>9, <1>10 DEF LaidOut
<1> QED
  BY <1>2, <1>4, <1>5, <1>6, <1>10, <1>11 DEF Laid

(* A part of the first buffer is written.                                  *)
Without(q, k) == [q EXCEPT ![1] = SubSeq(Head(q), k + 1, Len(Head(q)))]

LEMMA LaidPart ==
  ASSUME NEW S, NEW q \in Seq(Seq(S)), NEW b \in Seq(S), NEW o \in Seq(S),
         NEW off \in {0, 1}, NEW from \in Nat, NEW to \in Nat,
         Laid(q, b, o, off, from, to), q # <<>>, NEW k \in 0 .. Len(Head(q)) - 1
  PROVE  /\ Laid(Without(q, k), b, o, off, from + k, to)
         /\ Stretch(SubSeq(Head(q), 1, k), o, off, from, from + k)
         /\ Without(q, k) \in Seq(Seq(S))
<1>1. PICK at \in [1 .. Len(q) + 1 -> Nat] : LaidOut(at, q, b, o, off, from, to)
  BY DEF Laid
<1> DEFINE h == q[1]
           r == SubSeq(h, k + 1, Len(h))
           part == [q EXCEPT ![1] = r]
           there == [at EXCEPT ![1] = from + k]
<1>2. Len(q) \in Nat \ {0} /\ Head(q) = h /\ h \in Seq(S) /\ Len(h) \in Nat /\ k \in Nat /\ k < Len(h)
  <2>1. Len(q) \in Nat \ {0} /\ Head(q) = h /\ h \in Seq(S)
    BY EmptySeq
  <2> QED
    BY <2>1
<1>3. Stretch(h, o, off, at[1], at[2]) /\ at[1] = from /\ at[2] \in Nat /\ at[2] <= to
  <2>1. 1 \in 1 .. Len(q) /\ 2 \in 1 .. Len(q) + 1 /\ 1 + 1 = 2
    BY <1>2
  <2>2. Stretch(q[1], o, off, at[1], at[1 + 1])
    BY <1>1, <2>1 DEF LaidOut
  <2> QED
    BY <1>1, <2>1, <2>2 DEF LaidOut
<1>4. /\ Len(h) = at[2] - from
      /\ \A i \in 1 .. Len(h) : h[i] = Item(o, off, from + i)
  BY <1>3 DEF Stretch
<1>5. /\ r \in Seq(S) /\ Len(r) = Len(h) - k
      /\ \A i \in 1 .. Len(r) : r[i] = h[k + i]
  <2>1. \A i \in k + 1 .. Len(h) : h[i] \in S
    BY <1>2
  <2>2. k + 1 \in Int /\ Len(h) \in Int
    BY <1>2
  <2>3. /\ r \in Seq(S) /\ Len(r) = IF k + 1 <= Len(h) THEN Len(h) - (k + 1) + 1 ELSE 0
        /\ \A i \in 1 .. Len(h) - (k + 1) + 1 : r[i] = h[k + 1 + i - 1]
    BY <2>1, <2>2, SubSeqProperties, SMTT(20)
  <2>4. Len(r) = Len(h) - k
    BY <1>2, <2>3
  <2> QED
    BY <1>2, <2>3, <2>4, SMTT(20)
<1>6. Stretch(r, o, off, from + k, at[2])
  <2>1. ASSUME NEW i \in 1 .. Len(r) PROVE r[i] = Item(o, off, from + k + i)
    <3>1. k + i \in 1 .. Len(h) /\ from + (k + i) = from + k + i
      BY <1>2, <1>5
    <3> QED
      BY <3>1, <1>4, <1>5
  <2>2. Len(r) = at[2] - (from + k)
    BY <1>2, <1>3, <1>4, <1>5, SMTT(20)
  <2> QED
    BY <2>1, <2>2 DEF Stretch
<1>7. Stretch(SubSeq(h, 1, k), o, off, from, from + k)
  <2>1. \A i \in 1 .. k : h[i] \in S
    BY <1>2
  <2>2. /\ Len(SubSeq(h, 1, k)) = IF 1 <= k THEN k - 1 + 1 ELSE 0
        /\ \A i \in 1 .. k - 1 + 1 : SubSeq(h, 1, k)[i] = h[1 + i - 1]
    BY <2>1, <1>2, SubSeqProperties
  <2>3. Len(SubSeq(h, 1, k)) = k /\ \A i \in 1 .. k : SubSeq(h, 1, k)[i] = h[i] /\ i \in 1 .. Len(h)
    BY <2>2, <1>2
  <2>4. from + k - from = k
    BY <1>2
  <2> DEFINE written == SubSeq(h, 1, k)
  <2>5. Len(written) = k /\ \A i \in 1 .. k : written[i] = h[i] /\ i \in 1 .. Len(h)
    BY <2>3
  <2> HIDE DEF h, written
  <2>6. ASSUME NEW i \in 1 .. k PROVE written[i] = Item(o, off, from + i)
    BY <2>5, <1>4
  <2>7. Stretch(written, o, off, from, from + k)
    BY <2>4, <2>5, <2>6 DEF Stretch
  <2> QED
    BY <2>7 DEF written, h
<1>8. /\ part \in Seq(Seq(S)) /\ Len(part) = Len(q) /\ part[1] = r
      /\ \A i \in 2 .. Len(q) : part[i] = q[i]
  BY <1>2, <1>5, ExceptSeq, SMTT(20)
<1>9. /\ there \in [1 .. Len(q) + 1 -> Nat] /\ there[1] = from + k
      /\ \A i \in 2 .. Len(q) + 1 : there[i] = at[i]
  BY <1>2
<1>10. ASSUME NEW i \in 1 .. Len(q) PROVE Stretch(part[i], o, off, there[i], there[i + 1])
  <2>0. i + 1 \in 2 .. Len(q) + 1
    BY <1>2
  <2>1. CASE i = 1
    BY <2>0, <2>1, <1>6, <1>8, <1>9
  <2>2. CASE i # 1
    <3>1. i \in 2 .. Len(q) /\ i \in 2 .. Len(q) + 1
      BY <1>2, <2>2
    <3>2. Stretch(q[i], o, off, at[i], at[i + 1])
      BY <1>1 DEF LaidOut
    <3> QED
      BY <2>0, <3>1, <3>2, <1>8, <1>9
  <2> QED
    BY <2>1, <2>2
<1>11. Stretch(b, o, off, there[Len(q) + 1], to)
  <2>1. Len(q) + 1 \in 2 .. Len(q) + 1
    BY <1>2
  <2> QED
    BY <2>1, <1>1, <1>9 DEF LaidOut
<1>12. \A i \in 1 .. Len(q) + 1 : there[i] <= to
  <2>1. from + k <= to
    BY <1>2, <1>3, <1>4
  <2>2. ASSUME NEW i \in 1 .. Len(q) + 1, i # 1 PROVE there[i] <= to
    <3>1. i \in 2 .. Len(q) + 1
      BY <1>2, <2>2
    <3> QED
      BY <3>1, <1>1, <1>9 DEF LaidOut
  <2> QED
    BY <2>1, <2>2, <1>9
<1>13. LaidOut(there, part, b, o, off, from + k, to)
  BY <1>8, <1>9, <1>10, <1>11, <1>12 DEF LaidOut
<1>14. part = Without(q, k)
  BY <1>2 DEF Without
<1> QED
  BY <1>2, <1>7, <1>8, <1>9, <1>13, <1>14 DEF Laid

(* What the client gets goes on where it ended.                            *)
LEMMA StretchLonger ==
  ASSUME NEW S, NEW s \in Seq(S), NEW r \in Seq(S), NEW o \in Seq(S), NEW off \in {0, 1},
         NEW mid \in Nat, NEW to \in Nat,
         Stretch(s, o, off, 0, mid), Stretch(r, o, off, mid, to)
  PROVE  Stretch(s \o r, o, off, 0, to)
<1>1. /\ Len(s \o r) = Len(s) + Len(r)
      /\ \A i \in 1 .. Len(s) + Len(r) : (s \o r)[i] = IF i <= Len(s) THEN s[i] ELSE r[i - Len(s)]
  BY ConcatProperties
<1>2. Len(s) \in Nat /\ Len(r) \in Nat /\ Len(s) = mid /\ Len(r) = to - mid
  BY DEF Stretch
<1>3. ASSUME NEW i \in 1 .. Len(s) + Len(r) PROVE (s \o r)[i] = Item(o, off, 0 + i)
  <2>1. CASE i <= Len(s)
    <3>1. i \in 1 .. Len(s) /\ (s \o r)[i] = s[i]
      BY <1>1, <2>1
    <3> QED
      BY <3>1 DEF Stretch
  <2>2. CASE ~(i <= Len(s))
    <3>1. i - Len(s) \in 1 .. Len(r) /\ (s \o r)[i] = r[i - Len(s)] /\ mid + (i - Len(s)) = 0 + i
      BY <1>1, <1>2, <2>2
    <3>2. r[i - Len(s)] = Item(o, off, mid + (i - Len(s)))
      BY <3>1 DEF Stretch
    <3> QED
      BY <3>1, <3>2
  <2> QED
    BY <2>1, <2>2
<1> QED
  BY <1>1, <1>2, <1>3 DEF Stretch

-----------------------------------------------------------------------------
Packets == Nodes \cup {Initializer}

(* How many packets the network thread has stored in its buffers.          *)
Stored == IF deq = "got" THEN taken - 1 ELSE taken
Got == deq = "got" => taken > 0 /\ result = order[taken]

SocketTypes ==
  /\ writeQueue \in Seq(Seq(Packets))
  /\ buffer \in Seq(Nodes)
  /\ wire \in Seq(Packets)
  /\ peer \in {"up", "gone"}

(* Update leaves nothing in its buffer, and before the initializer nothing *)
(* is sent.                                                                *)
Drained == net # "drain" => deq = "none" /\ buffer = <<>>
NothingBefore ==
  phase = "ip" => order = <<>> /\ writeQueue = <<>> /\ buffer = <<>> /\ wire = <<>>

(* What the client got is where the first buffer goes on, unless nothing   *)
(* goes to it any more.                                                    *)
GoesOn(off, from) ==
  /\ Laid(writeQueue, buffer, order, off, from, Stored + off)
  /\ Stretch(wire, order, off, 0, Len(wire))
  /\ Len(wire) <= from
  /\ Shut \/ peer = "gone" \/ Len(wire) = from

OnTheWay == \E off \in {0, 1}, from \in Nat : GoesOn(off, from)

WInv == SocketTypes /\ Got /\ Drained /\ NothingBefore /\ OnTheWay

LEMMA Sequences ==
  ASSUME QueueTypeOK, SocketTypes, Got
  PROVE  /\ order \in Seq(Packets) /\ buffer \in Seq(Packets)
         /\ Stored \in Nat /\ Stored <= Len(order) /\ Len(order) \in Nat /\ Len(wire) \in Nat
         /\ deq = "got" => Stored + 1 = taken /\ Stored + 1 \in 1 .. Len(order)
<1>1. order \in Seq(Packets) /\ buffer \in Seq(Packets)
  BY SeqMonotonic DEF QueueTypeOK, SocketTypes, Packets
<1> QED
  BY <1>1, Order DEF Stored, Got, SocketTypes

LEMMA WInvInit == Init => WInv
<1> SUFFICES ASSUME Init PROVE WInv
  OBVIOUS
<1>1. /\ order = <<>> /\ writeQueue = <<>> /\ buffer = <<>> /\ wire = <<>>
      /\ taken = 0 /\ deq = "none" /\ peer = "up"
  BY DEF Init, QueueInit
<1>2. SocketTypes /\ Got /\ Drained /\ NothingBefore
  BY <1>1 DEF SocketTypes, Got, Drained, NothingBefore
<1>3. Stored = 0
  BY <1>1 DEF Stored
<1> DEFINE at == [i \in 1 .. 1 |-> 0]
<1>4. LaidOut(at, writeQueue, buffer, order, 0, 0, 0)
  BY <1>1 DEF LaidOut, Stretch
<1>5. at \in [1 .. Len(writeQueue) + 1 -> Nat]
  BY <1>1
<1>6. Laid(writeQueue, buffer, order, 0, 0, 0)
  BY <1>4, <1>5 DEF Laid
<1>7. GoesOn(0, 0)
  BY <1>1, <1>3, <1>6 DEF GoesOn, Stretch
<1> QED
  BY <1>2, <1>7 DEF WInv, OnTheWay

-----------------------------------------------------------------------------
(* A step that neither stores nor writes, and may enqueue one packet.      *)
LEMMA OnTheWayStays ==
  ASSUME QueueTypeOK, WInv, UNCHANGED <<writeQueue, buffer, wire>>, Stored' = Stored,
         Shut => Shut', peer' = peer \/ peer' = "gone",
         order' = order \/ \E n \in Nodes : order' = Append(order, n)
  PROVE  OnTheWay' /\ SocketTypes'
<1>0. QueueTypeOK /\ SocketTypes /\ Got
  BY DEF WInv
<1>1. PICK off \in {0, 1}, from \in Nat : GoesOn(off, from)
  BY DEF WInv, OnTheWay
<1>2. order \in Seq(Packets) /\ order' \in Seq(Packets) /\ Extends(order, order')
  <2>1. order \in Seq(Packets)
    BY <1>0, Sequences
  <2>2. CASE order' = order
    BY <2>1, <2>2 DEF Extends
  <2>3. ASSUME NEW n \in Nodes, order' = Append(order, n)
        PROVE  order' \in Seq(Packets) /\ Extends(order, order')
    <3>1. n \in Packets
      BY DEF Packets
    <3>2. /\ order' \in Seq(Packets) /\ Len(order') = Len(order) + 1
          /\ \A i \in 1 .. Len(order) : order'[i] = order[i]
      BY <2>1, <2>3, <3>1, AppendProperties
    <3> QED
      BY <2>1, <3>2 DEF Extends
  <2> QED
    BY <2>1, <2>2, <2>3
<1>3. /\ Stored + off \in Nat /\ Stored + off <= Len(order) + off
      /\ Len(wire) \in Nat /\ buffer \in Seq(Packets)
      /\ writeQueue \in Seq(Seq(Packets)) /\ wire \in Seq(Packets)
  <2>1. Stored \in Nat /\ Stored <= Len(order) /\ Len(order) \in Nat /\ Len(wire) \in Nat /\ buffer \in Seq(Packets)
    BY <1>0, Sequences
  <2> QED
    BY <2>1, <1>0 DEF SocketTypes
<1>4. Laid(writeQueue, buffer, order', off, from, Stored + off)
  <2>1. Laid(writeQueue, buffer, order, off, from, Stored + off)
    BY <1>1 DEF GoesOn
  <2> QED
    BY <1>2, <1>3, <2>1, LaidStays
<1>5. Stretch(wire, order', off, 0, Len(wire))
  <2>1. Len(wire) <= Len(order) + off
    <3>1. Len(wire) <= from /\ from <= Stored + off
      <4>1. PICK at \in [1 .. Len(writeQueue) + 1 -> Nat] :
              LaidOut(at, writeQueue, buffer, order, off, from, Stored + off)
        BY <1>1 DEF GoesOn, Laid
      <4>2. 1 \in 1 .. Len(writeQueue) + 1
        BY <1>3
      <4> QED
        BY <1>1, <4>1, <4>2 DEF GoesOn, LaidOut
    <3>2. Len(order) \in Nat
      BY <1>2
    <3> QED
      BY <3>1, <3>2, <1>3
  <2>2. Stretch(wire, order, off, 0, Len(wire)) /\ 0 \in Nat
    BY <1>1 DEF GoesOn
  <2> QED
    BY <1>2, <1>3, <2>1, <2>2, StretchStays
<1>6. GoesOn(off, from)'
  BY <1>1, <1>4, <1>5 DEF GoesOn
<1> QED
  BY <1>0, <1>6 DEF OnTheWay, SocketTypes

(* A handler that only sends: the network thread outside Update, or a      *)
(* thread of the game.                                                     *)
LEMMA QuietStep ==
  ASSUME QueueTypeOK, WInv, UNCHANGED <<writeQueue, buffer, wire, taken, deq, result>>,
         Shut => Shut', peer' = peer \/ peer' = "gone",
         net' = "drain" => net = "drain",
         net' # "drain" => net # "drain",
         \/ order' = order /\ (phase' = "ip" => phase = "ip")
         \/ (\E n \in Nodes : order' = Append(order, n)) /\ phase' # "ip"
  PROVE  WInv'
<1>1. Stored' = Stored
  BY DEF Stored
<1>2. OnTheWay' /\ SocketTypes'
  BY <1>1, OnTheWayStays
<1>3. Got'
  <2>1. CASE order' = order
    BY <2>1 DEF WInv, Got
  <2>2. ASSUME NEW n \in Nodes, order' = Append(order, n), deq = "got" PROVE order'[taken] = order[taken]
    <3>1. order \in Seq(Nodes) /\ taken \in 1 .. Len(order)
      BY <2>2 DEF WInv, Got, QueueTypeOK
    <3> QED
      BY <2>2, <3>1, AppendProperties
  <2> QED
    BY <2>1, <2>2 DEF WInv, Got
<1>4. Drained' /\ NothingBefore'
  BY DEF WInv, Drained, NothingBefore
<1> QED
  BY <1>2, <1>3, <1>4 DEF WInv

(* SendPacket, by a thread that may.                                       *)
LEMMA SendQuietly ==
  ASSUME NEW t \in Threads, SendPacket(t)
  PROVE  /\ UNCHANGED <<taken, deq, result>>
         /\ order' = order \/ \E n \in Nodes : order' = Append(order, n)
<1>1. CASE IsOpen
  BY <1>1 DEF SendPacket, Enqueue
<1>2. CASE ~IsOpen
  BY <1>2 DEF SendPacket, mvars
<1> QED
  BY <1>1, <1>2

-----------------------------------------------------------------------------
(* The loop of Update.                                                     *)
LEMMA DequeueSteps ==
  ASSUME IInv, DequeueStep
  PROVE  /\ order' = order
         /\ \/ taken' = taken /\ deq' # "got"
            \/ taken' = taken + 1 /\ deq' = "got" /\ result' = order[taken + 1]
<1>1. ASSUME ReturnNothing PROVE order' = order /\ taken' = taken /\ deq' # "got"
  BY <1>1 DEF ReturnNothing
<1>2. ASSUME tail # Dummy, link[tail] # NoNode, Return
      PROVE  order' = order /\ taken' = taken + 1 /\ deq' = "got" /\ result' = order[taken + 1]
  BY <1>2, ReturnFirst DEF Return
<1>3. CASE SkipDummy
  BY <1>1, <1>3 DEF SkipDummy
<1>4. CASE LoadNext
  BY <1>2, <1>4 DEF LoadNext
<1>5. CASE LoadHead
  BY <1>1, <1>5 DEF LoadHead
<1>6. CASE ExchangeDummy
  BY <1>6 DEF ExchangeDummy
<1>7. CASE LoadAgain
  BY <1>1, <1>2, <1>7 DEF LoadAgain, IInv, DummyOnce
<1> QED
  BY <1>3, <1>4, <1>5, <1>6, <1>7 DEF DequeueStep

LEMMA DrainWires ==
  ASSUME IInv, WInv, Drain
  PROVE  WInv'
<1>0. QueueTypeOK /\ taken \in Nat
  BY Order DEF IInv
<1>1. /\ net = "drain" /\ net' = "drain" /\ phase' = phase /\ Shut' = Shut /\ peer' = peer
      /\ UNCHANGED <<writeQueue, buffer, wire>> /\ deq # "got"
  BY DEF Drain, svars, Shut, DequeueStep, SkipDummy, LoadNext, LoadHead, ExchangeDummy, LoadAgain
<1>2. /\ order' = order
      /\ \/ taken' = taken /\ deq' # "got"
         \/ taken' = taken + 1 /\ deq' = "got" /\ result' = order[taken + 1]
  BY DequeueSteps DEF Drain
<1>3. Stored' = Stored
  BY <1>0, <1>1, <1>2 DEF Stored
<1>4. OnTheWay' /\ SocketTypes'
  BY <1>0, <1>1, <1>2, <1>3, OnTheWayStays
<1>5. Got'
  BY <1>0, <1>2 DEF Got
<1> QED
  BY <1>1, <1>2, <1>4, <1>5 DEF WInv, Drained, NothingBefore

LEMMA UpdateWires ==
  ASSUME IInv, WInv, Update
  PROVE  WInv'
<1>1. /\ deq = "none" /\ buffer = <<>> /\ deq' = "next" /\ net' = "drain" /\ buffer' = <<>>
      /\ UNCHANGED <<order, taken, writeQueue, wire, phase, Shut, peer>>
  BY DEF Update, WInv, Drained, Dequeue, state_vars, game_vars, env_vars, Shut
<1>2. Stored' = Stored
  BY <1>1 DEF Stored
<1>3. OnTheWay' /\ SocketTypes'
  BY <1>1, <1>2, OnTheWayStays DEF IInv
<1> QED
  BY <1>1, <1>3 DEF WInv, Got, Drained, NothingBefore

(* A buffer is taken up by the queue, at the end of Update or before.      *)
LEMMA WritePacketWires ==
  ASSUME IInv, WInv, WritePacket
  PROVE  WInv'
<1> DEFINE S == Packets
<1>0. QueueTypeOK /\ SocketTypes /\ Got
  BY DEF IInv, WInv
<1>1. /\ net = "drain" /\ deq = "got" /\ net' = "drain" /\ deq' = "next" /\ Write(result)
      /\ UNCHANGED <<order, taken, result, wire, phase, Shut, peer>>
  BY DEF WritePacket, Dequeue, state_vars, game_vars, env_vars, Shut
<1>2. PICK off \in {0, 1}, from \in Nat : GoesOn(off, from)
  BY DEF WInv, OnTheWay
<1>3. /\ order \in Seq(S) /\ buffer \in Seq(S) /\ writeQueue \in Seq(Seq(S)) /\ buffer \in Seq(Nodes)
      /\ Stored \in Nat /\ Stored + 1 = taken /\ Stored + 1 \in 1 .. Len(order)
  BY <1>0, <1>1, Sequences DEF SocketTypes
<1> DEFINE to == Stored + off
           p == result
<1>4. to \in Nat /\ p = order[taken] /\ p \in Nodes /\ p \in S /\ to + 1 - off = taken
  <2>1. to \in Nat /\ to + 1 - off = taken
    BY <1>3
  <2>2. p = order[taken]
    BY <1>0, <1>1 DEF Got
  <2>3. order[Stored + 1] \in Nodes
    BY <1>0, <1>3, Order
  <2> QED
    BY <2>1, <2>2, <2>3, <1>3 DEF Packets
<1>5. p = Item(order, off, to + 1)
  <2>1. ~(to + 1 <= off)
    BY <1>3
  <2> QED
    BY <2>1, <1>4 DEF Item
<1>6. Laid(writeQueue, buffer, order, off, from, to)
  BY <1>2 DEF GoesOn
<1> HIDE DEF to, p, S
<1>7. Laid(writeQueue, Append(buffer, p), order, off, from, to + 1)
  BY <1>3, <1>4, <1>5, <1>6, LaidAdd
<1>8. /\ Append(writeQueue, buffer) \in Seq(Seq(S)) /\ <<>> \in Seq(S) /\ <<>> \in Seq(Nodes)
      /\ Laid(Append(writeQueue, buffer), <<>>, order, off, from, to)
  <2>1. Append(writeQueue, buffer) \in Seq(Seq(S)) /\ <<>> \in Seq(S) /\ <<>> \in Seq(Nodes)
    BY <1>3, AppendProperties, EmptySeq
  <2> QED
    BY <2>1, <1>3, <1>4, <1>6, LaidQueued
<1>9. /\ Append(<<>>, p) = <<p>> /\ <<p>> \in Seq(S) /\ <<p>> \in Seq(Nodes)
      /\ Laid(Append(writeQueue, buffer), <<p>>, order, off, from, to + 1)
  <2>1. Append(<<>>, p) = <<p>> /\ <<p>> \in Seq(S) /\ <<p>> \in Seq(Nodes)
    BY <1>4
  <2>2. Laid(Append(writeQueue, buffer), Append(<<>>, p), order, off, from, to + 1)
    BY <1>3, <1>4, <1>5, <1>8, LaidAdd
  <2> QED
    BY <2>1, <2>2
<1>10. /\ Append(Append(writeQueue, buffer), <<p>>) = writeQueue \o <<buffer, <<p>>>>
       /\ writeQueue \o <<buffer, <<p>>>> \in Seq(Seq(S))
       /\ Laid(writeQueue \o <<buffer, <<p>>>>, <<>>, order, off, from, to + 1)
  <2>1. Append(Append(writeQueue, buffer), <<p>>) = writeQueue \o <<buffer, <<p>>>>
    <3> DEFINE two == <<buffer, <<p>>>>
               T == Seq(S)
    <3>1. two \in Seq(T) /\ <<p>> \in T /\ writeQueue \in Seq(T) /\ buffer \in T
      BY <1>3, <1>9
    <3>2. /\ Len(writeQueue \o two) = Len(writeQueue) + Len(two)
          /\ writeQueue \o two \in Seq(T)
          /\ \A i \in 1 .. Len(writeQueue) + Len(two) :
               (writeQueue \o two)[i] = IF i <= Len(writeQueue) THEN writeQueue[i] ELSE two[i - Len(writeQueue)]
      BY <3>1, ConcatProperties
    <3> DEFINE one == Append(writeQueue, buffer)
               both == Append(one, <<p>>)
    <3>3. /\ one \in Seq(T) /\ Len(one) = Len(writeQueue) + 1
          /\ \A i \in 1 .. Len(writeQueue) : one[i] = writeQueue[i]
          /\ one[Len(writeQueue) + 1] = buffer
      BY <3>1, AppendProperties
    <3>4. /\ both \in Seq(T) /\ Len(both) = Len(one) + 1
          /\ \A i \in 1 .. Len(one) : both[i] = one[i]
          /\ both[Len(one) + 1] = <<p>>
      BY <3>1, <3>3, AppendProperties
    <3>5. Len(two) = 2 /\ two[1] = buffer /\ two[2] = <<p>> /\ Len(writeQueue) \in Nat
      BY <3>1
    <3> HIDE DEF one, both, two, T
    <3>6. ASSUME NEW i \in 1 .. Len(both) PROVE both[i] = (writeQueue \o two)[i]
      <4>1. CASE i <= Len(writeQueue)
        <5>1. i \in 1 .. Len(writeQueue) /\ i \in 1 .. Len(one) /\ i \in 1 .. Len(writeQueue) + Len(two)
          BY <4>1, <3>3, <3>4, <3>5
        <5> QED
          BY <5>1, <4>1, <3>2, <3>3, <3>4
      <4>2. CASE i = Len(writeQueue) + 1
        <5>1. i \in 1 .. Len(one) /\ i \in 1 .. Len(writeQueue) + Len(two) /\ i - Len(writeQueue) = 1
              /\ ~(i <= Len(writeQueue))
          BY <4>2, <3>3, <3>4, <3>5
        <5> QED
          BY <5>1, <4>2, <3>2, <3>3, <3>4, <3>5
      <4>3. CASE i = Len(writeQueue) + 2
        <5>1. i = Len(one) + 1 /\ i \in 1 .. Len(writeQueue) + Len(two) /\ i - Len(writeQueue) = 2
              /\ ~(i <= Len(writeQueue))
          BY <4>3, <3>3, <3>4, <3>5
        <5> QED
          BY <5>1, <4>3, <3>2, <3>3, <3>4, <3>5
      <4>4. Len(both) = Len(writeQueue) + 2 /\ Len(writeQueue) \in Nat
        BY <3>3, <3>4, <3>5
      <4>5. i \in Nat /\ i <= Len(writeQueue) + 2
        BY <4>4
      <4>6. i <= Len(writeQueue) \/ i = Len(writeQueue) + 1 \/ i = Len(writeQueue) + 2
        BY <4>4, <4>5
      <4> QED
        BY <4>1, <4>2, <4>3, <4>6
    <3>7. Len(both) = Len(writeQueue \o two)
      BY <3>2, <3>3, <3>4, <3>5
    <3>8. both = writeQueue \o two
      BY <3>2, <3>4, <3>6, <3>7, SeqEqual
    <3> QED
      BY <3>8 DEF both, one, two
  <2>2. Append(Append(writeQueue, buffer), <<p>>) \in Seq(Seq(S))
    BY <1>8, <1>9, AppendProperties
  <2>3. to + 1 \in Nat
    BY <1>4
  <2>4. Laid(Append(Append(writeQueue, buffer), <<p>>), <<>>, order, off, from, to + 1)
    BY <1>3, <1>8, <1>9, <2>3, LaidQueued
  <2> QED
    BY <2>1, <2>2, <2>4
<1>11. /\ buffer' \in Seq(Nodes) /\ writeQueue' \in Seq(Seq(S))
       /\ Laid(writeQueue', buffer', order, off, from, to + 1)
  <2>1. CASE Fits(p, buffer)
    <3>1. buffer' = Append(buffer, p) /\ writeQueue' = writeQueue
      BY <1>1, <2>1 DEF Write, p
    <3>2. Append(buffer, p) \in Seq(Nodes)
      BY <1>3, <1>4, AppendProperties
    <3> QED
      BY <3>1, <3>2, <1>3, <1>7
  <2>2. CASE ~Fits(p, buffer) /\ Fits(p, <<>>)
    <3>1. buffer' = <<p>> /\ writeQueue' = Append(writeQueue, buffer)
      BY <1>1, <2>2 DEF Write, p
    <3> QED
      BY <3>1, <1>8, <1>9
  <2>3. CASE ~Fits(p, buffer) /\ ~Fits(p, <<>>)
    <3>1. buffer' = <<>> /\ writeQueue' = writeQueue \o <<buffer, <<p>>>>
      BY <1>1, <2>3 DEF Write, p
    <3> QED
      BY <3>1, <1>8, <1>10
  <2> QED
    BY <2>1, <2>2, <2>3
<1>12. Stored' + off = to + 1
  <2>1. Stored' = taken
    BY <1>1 DEF Stored
  <2> QED
    BY <2>1, <1>3, <1>4 DEF to
<1>13. GoesOn(off, from)'
  BY <1>1, <1>2, <1>11, <1>12 DEF GoesOn
<1>14. OnTheWay' /\ SocketTypes'
  BY <1>0, <1>1, <1>11, <1>13 DEF OnTheWay, SocketTypes, S
<1>15. phase' # "ip"
  <2>1. order # <<>>
    BY <1>3
  <2> QED
    BY <1>1, <2>1 DEF WInv, NothingBefore
<1> QED
  BY <1>1, <1>14, <1>15 DEF WInv, Got, Drained, NothingBefore

LEMMA FlushWires ==
  ASSUME IInv, WInv, Flush
  PROVE  WInv'
<1>0. QueueTypeOK /\ SocketTypes /\ Got
  BY DEF IInv, WInv
<1>1. /\ net = "drain" /\ deq = "none" /\ net' # "drain" /\ buffer' = <<>>
      /\ writeQueue' = IF buffer = <<>> THEN writeQueue ELSE Append(writeQueue, buffer)
      /\ UNCHANGED <<order, taken, deq, result, wire, phase, Shut, peer>>
  BY DEF Flush, mvars, state_vars, game_vars, env_vars, Shut
<1>2. PICK off \in {0, 1}, from \in Nat : GoesOn(off, from)
  BY DEF WInv, OnTheWay
<1>3. /\ order \in Seq(Packets) /\ buffer \in Seq(Packets) /\ writeQueue \in Seq(Seq(Packets))
      /\ Stored + off \in Nat
  <2>1. Stored \in Nat
    BY <1>0, Sequences
  <2> QED
    BY <2>1, <1>0, Sequences DEF SocketTypes
<1>4. Laid(writeQueue, buffer, order, off, from, Stored + off)
  BY <1>2 DEF GoesOn
<1>5. /\ writeQueue' \in Seq(Seq(Packets))
      /\ Laid(writeQueue', <<>>, order, off, from, Stored + off)
  <2>1. CASE buffer = <<>>
    BY <2>1, <1>1, <1>3, <1>4
  <2>2. CASE buffer # <<>>
    <3>1. Append(writeQueue, buffer) \in Seq(Seq(Packets))
      BY <1>3, AppendProperties
    <3>2. Laid(Append(writeQueue, buffer), <<>>, order, off, from, Stored + off)
      BY <1>3, <1>4, LaidQueued
    <3> QED
      BY <2>2, <3>1, <3>2, <1>1
  <2> QED
    BY <2>1, <2>2
<1>6. Stored' = Stored
  BY <1>1 DEF Stored
<1>7. GoesOn(off, from)'
  BY <1>1, <1>2, <1>5, <1>6 DEF GoesOn
<1>8. OnTheWay'
  BY <1>7 DEF OnTheWay
<1>9. SocketTypes'
  BY <1>0, <1>1, <1>5 DEF SocketTypes
<1> QED
  BY <1>1, <1>8, <1>9 DEF WInv, Got, Drained, NothingBefore

-----------------------------------------------------------------------------
(* HandleQueue writes the first buffer, a part of it, or nothing.          *)
LEMMA WrittenWires ==
  ASSUME IInv, WInv, HandleQueue, Written \/ NothingWritten
  PROVE  OnTheWay' /\ SocketTypes'
<1>0. QueueTypeOK /\ SocketTypes /\ Got
  BY DEF IInv, WInv
<1>1. /\ writeQueue # <<>> /\ writeQueue' = Tail(writeQueue)
      /\ UNCHANGED <<order, taken, deq, buffer, Shut, peer>>
  BY DEF HandleQueue, Written, NothingWritten, Popped, mvars, state_vars, game_vars, Shut
<1>2. PICK off \in {0, 1}, from \in Nat : GoesOn(off, from)
  BY DEF WInv, OnTheWay
<1> DEFINE h == Head(writeQueue)
<1>3. /\ order \in Seq(Packets) /\ buffer \in Seq(Packets) /\ writeQueue \in Seq(Seq(Packets))
      /\ wire \in Seq(Packets) /\ h \in Seq(Packets) /\ Stored + off \in Nat
      /\ Tail(writeQueue) \in Seq(Seq(Packets))
  <2>1. Stored \in Nat
    BY <1>0, Sequences
  <2>2. h \in Seq(Packets) /\ Tail(writeQueue) \in Seq(Seq(Packets))
    BY <1>0, <1>1, HeadTailProperties DEF SocketTypes
  <2> QED
    BY <2>1, <2>2, <1>0, Sequences DEF SocketTypes
<1>4. PICK on \in Nat : on = from + Len(h) /\ Len(h) \in Nat /\ Len(wire) \in Nat /\ (h = <<>> => Len(h) = 0)
  <2>1. Len(h) \in Nat /\ Len(wire) \in Nat /\ (h = <<>> => Len(h) = 0)
    BY <1>3
  <2> QED
    BY <2>1
<1>5. /\ Laid(Tail(writeQueue), buffer, order, off, on, Stored + off)
      /\ Stretch(h, order, off, from, on)
  <2>1. Laid(writeQueue, buffer, order, off, from, Stored + off)
    BY <1>2 DEF GoesOn
  <2> QED
    BY <2>1, <1>1, <1>3, <1>4, LaidPopped
<1>6. Stored' = Stored
  BY <1>1 DEF Stored
<1> HIDE DEF h
<1>7. CASE wire' = wire /\ (Shut \/ peer = "gone" \/ h = <<>>)
  <2>1. Len(wire) <= on /\ (Shut \/ peer = "gone" \/ Len(wire) = on)
    BY <1>2, <1>4, <1>7 DEF GoesOn
  <2>2. GoesOn(off, on)'
    BY <2>1, <1>1, <1>2, <1>5, <1>6, <1>7 DEF GoesOn
  <2> QED
    BY <2>2, <1>0, <1>1, <1>3, <1>4, <1>7 DEF OnTheWay, SocketTypes
<1>8. CASE wire' = wire \o h /\ ~Shut /\ peer # "gone"
  <2>1. Len(wire) = from
    BY <1>2, <1>8 DEF GoesOn
  <2>2. Stretch(wire, order, off, 0, from)
    BY <2>1, <1>2 DEF GoesOn
  <2>3. Stretch(wire \o h, order, off, 0, on)
    BY <2>2, <1>3, <1>4, <1>5, StretchLonger
  <2>4. wire \o h \in Seq(Packets) /\ Len(wire \o h) = Len(wire) + Len(h)
    BY <1>3, ConcatProperties
  <2>5. Len(wire \o h) = on
    BY <2>1, <2>4, <1>4
  <2>6. GoesOn(off, on)'
    BY <2>3, <2>5, <1>1, <1>4, <1>5, <1>6, <1>8 DEF GoesOn
  <2> QED
    BY <2>4, <2>6, <1>0, <1>1, <1>3, <1>4, <1>8 DEF OnTheWay, SocketTypes
<1>9. \/ wire' = wire /\ (Shut \/ peer = "gone" \/ h = <<>>)
      \/ wire' = wire \o h /\ ~Shut /\ peer # "gone"
  <2>1. CASE Written
    BY <2>1, <1>0 DEF Written, Delivered, SocketTypes, h
  <2>2. CASE NothingWritten
    BY <2>2 DEF NothingWritten, h
  <2> QED
    BY <2>1, <2>2
<1> QED
  BY <1>7, <1>8, <1>9

LEMMA WouldBlockWires ==
  ASSUME IInv, WInv, HandleQueue, WouldBlock
  PROVE  OnTheWay' /\ SocketTypes'
<1>0. QueueTypeOK /\ SocketTypes /\ Got
  BY DEF IInv, WInv
<1>1. /\ writeQueue # <<>> /\ ~Shut
      /\ UNCHANGED <<order, taken, deq, buffer, Shut, peer>>
  BY DEF HandleQueue, WouldBlock, mvars, state_vars, game_vars, Shut
<1> DEFINE h == Head(writeQueue)
<1>2. PICK k \in 0 .. Len(h) - 1 :
        /\ Delivered(SubSeq(h, 1, k))
        /\ writeQueue' = Without(writeQueue, k)
  <2>1. Head(writeQueue) = writeQueue[1]
    BY <1>0, <1>1 DEF SocketTypes
  <2> QED
    BY <2>1 DEF WouldBlock, Without
<1>3. PICK off \in {0, 1}, from \in Nat : GoesOn(off, from)
  BY DEF WInv, OnTheWay
<1>4. /\ order \in Seq(Packets) /\ buffer \in Seq(Packets) /\ writeQueue \in Seq(Seq(Packets))
      /\ wire \in Seq(Packets) /\ h \in Seq(Packets) /\ Stored + off \in Nat
  <2>1. Stored \in Nat
    BY <1>0, Sequences
  <2>2. h \in Seq(Packets)
    BY <1>0, <1>1, HeadTailProperties DEF SocketTypes
  <2> QED
    BY <2>1, <2>2, <1>0, Sequences DEF SocketTypes
<1>5. Len(h) \in Nat /\ k \in Nat /\ k <= Len(h) /\ from + k \in Nat /\ Len(wire) \in Nat
  <2>1. Len(h) \in Nat /\ Len(wire) \in Nat
    BY <1>4
  <2> QED
    BY <2>1
<1> DEFINE part == SubSeq(h, 1, k)
           left == Without(writeQueue, k)
<1>6. /\ Laid(left, buffer, order, off, from + k, Stored + off)
      /\ Stretch(part, order, off, from, from + k)
      /\ left \in Seq(Seq(Packets))
  <2>1. Laid(writeQueue, buffer, order, off, from, Stored + off)
    BY <1>3 DEF GoesOn
  <2>2. k \in 0 .. Len(Head(writeQueue)) - 1
    OBVIOUS
  <2> QED
    BY <2>1, <2>2, <1>1, <1>4, LaidPart, SMTT(20)
<1>7. part \in Seq(Packets)
  <2>1. \A i \in 1 .. k : h[i] \in Packets
    BY <1>4, <1>5
  <2> QED
    BY <2>1, <1>5, SubSeqProperties
<1>8. Len(part) = k
  BY <1>5, <1>6 DEF Stretch
<1>9. Stored' = Stored
  BY <1>1 DEF Stored
<1>10. writeQueue' = left /\ wire' = IF peer = "up" THEN wire \o part ELSE wire
  BY <1>2 DEF Delivered
<1> HIDE DEF h, part, left
<1>11. CASE peer # "gone"
  <2>1. Len(wire) = from
    BY <1>1, <1>3, <1>11 DEF GoesOn
  <2>2. Stretch(wire, order, off, 0, from)
    BY <2>1, <1>3 DEF GoesOn
  <2>3. Stretch(wire \o part, order, off, 0, from + k)
    BY <2>2, <1>4, <1>5, <1>6, <1>7, StretchLonger
  <2>4. wire \o part \in Seq(Packets) /\ Len(wire \o part) = from + k
    BY <2>1, <1>4, <1>7, <1>8, ConcatProperties
  <2>5. CASE peer = "up"
    <3>1. GoesOn(off, from + k)'
      BY <2>3, <2>4, <2>5, <1>1, <1>5, <1>6, <1>9, <1>10 DEF GoesOn
    <3> QED
      BY <2>4, <2>5, <3>1, <1>0, <1>1, <1>5, <1>6, <1>10 DEF OnTheWay, SocketTypes
  <2> QED
    BY <2>5, <1>0, <1>11 DEF SocketTypes
<1>12. CASE peer = "gone"
  <2>1. Len(wire) <= from + k
    BY <1>3, <1>5 DEF GoesOn
  <2>2. GoesOn(off, from + k)'
    BY <2>1, <1>1, <1>3, <1>6, <1>9, <1>10, <1>12 DEF GoesOn
  <2> QED
    BY <2>2, <1>0, <1>1, <1>5, <1>6, <1>10, <1>12 DEF OnTheWay, SocketTypes
<1> QED
  BY <1>11, <1>12

LEMMA HandleQueueWires ==
  ASSUME IInv, WInv, SInv, HandleQueue
  PROVE  WInv'
<1>1. /\ net = "write" /\ net' # "drain"
      /\ UNCHANGED <<order, taken, deq, result, buffer, Shut, peer, phase>>
  BY DEF HandleQueue, NothingQueued, Written, NothingWritten, WouldBlock, Popped, mvars, state_vars, game_vars,
         Shut, SInv, WhereThreadsAre
<1>2. OnTheWay' /\ SocketTypes'
  <2>1. CASE NothingQueued
    <3>1. UNCHANGED <<writeQueue, wire>> /\ Stored' = Stored
      BY <2>1, <1>1 DEF NothingQueued, Stored
    <3> QED
      BY <1>1, <3>1, OnTheWayStays DEF IInv
  <2> QED
    BY <2>1, WrittenWires, WouldBlockWires DEF HandleQueue
<1>3. NothingBefore'
  <2>1. CASE NothingQueued
    BY <2>1, <1>1 DEF NothingQueued, WInv, NothingBefore
  <2>2. CASE ~NothingQueued
    BY <2>2, <1>1 DEF HandleQueue, Written, NothingWritten, WouldBlock, WInv, NothingBefore
  <2> QED
    BY <2>1, <2>2
<1> QED
  BY <1>1, <1>2, <1>3 DEF WInv, Got, Drained

-----------------------------------------------------------------------------
(* CheckIpCallback queues the initializer before anything else is sent.    *)
LEMMA CheckIpWires ==
  ASSUME IInv, WInv, CheckIpCallback
  PROVE  WInv'
<1>0. QueueTypeOK /\ SocketTypes
  BY DEF IInv, WInv
<1>1. /\ net # "drain" /\ net' # "drain" /\ phase' # "ip"
      /\ writeQueue = <<>> /\ buffer = <<>> /\ wire = <<>> /\ order = <<>> /\ deq = "none"
      /\ writeQueue' = Append(writeQueue, <<Initializer>>)
      /\ UNCHANGED <<order, taken, deq, result, buffer, wire, Shut, peer>>
  BY DEF CheckIpCallback, Callback, WInv, Drained, NothingBefore, mvars, game_vars, env_vars, Shut
<1>2. taken = 0 /\ Stored' + 1 = 1
  <2>1. taken = 0
    BY <1>0, <1>1, Order
  <2> QED
    BY <2>1, <1>1 DEF Stored
<1> DEFINE q == <<<<Initializer>>>>
           at == [i \in 1 .. 2 |-> i - 1]
<1>3. writeQueue' = q /\ q \in Seq(Seq(Packets)) /\ Len(q) = 1
  <2>1. Initializer \in Packets
    BY DEF Packets
  <2> QED
    BY <2>1, <1>1
<1>4. Stretch(<<Initializer>>, order, 1, 0, 1)
  BY DEF Stretch, Item
<1>5. Stretch(<<>>, order, 1, 1, 1) /\ Stretch(<<>>, order, 1, 0, 0)
  BY DEF Stretch
<1>6. at \in [1 .. Len(q) + 1 -> Nat] /\ at[1] = 0 /\ at[2] = 1 /\ q[1] = <<Initializer>>
      /\ Len(q) + 1 = 2
  BY <1>3
<1>7. Laid(q, <<>>, order, 1, 0, 1)
  <2> HIDE DEF at, q
  <2>1. \A i \in 1 .. Len(q) : Stretch(q[i], order, 1, at[i], at[i + 1])
    <3>1. \A i \in 1 .. Len(q) : i = 1
      BY <1>3
    <3> QED
      BY <3>1, <1>4, <1>6
  <2>2. \A i \in 1 .. Len(q) + 1 : at[i] <= 1
    <3>1. \A i \in 1 .. 2 : i = 1 \/ i = 2
      OBVIOUS
    <3> QED
      BY <3>1, <1>6
  <2>3. LaidOut(at, q, <<>>, order, 1, 0, 1)
    BY <2>1, <2>2, <1>5, <1>6 DEF LaidOut
  <2> QED
    BY <2>3, <1>6 DEF Laid
<1> HIDE DEF q
<1>8. GoesOn(1, 0)'
  BY <1>1, <1>2, <1>3, <1>5, <1>7 DEF GoesOn
<1>9. OnTheWay' /\ SocketTypes'
  BY <1>0, <1>1, <1>3, <1>8 DEF OnTheWay, SocketTypes
<1> QED
  BY <1>1, <1>9 DEF WInv, Got, Drained, NothingBefore

LEMMA WInvQuiet ==
  ASSUME IInv, WInv, SInv,
         \/ WriteHandlerWrapper \/ CloseStep \/ NotReady \/ ReadHandler \/ ReadOn
         \/ (Callbacks /\ ~CheckIpCallback) \/ ReadStep
  PROVE  WInv'
<1>0. QueueTypeOK /\ Net \in Threads
  BY QueueAssumption DEF IInv, Net, QueueAssumption
<1> USE DEF state_vars, game_vars, env_vars
<1>1. ASSUME UNCHANGED <<writeQueue, buffer, wire, mvars>>,
             Shut => Shut', peer' = peer \/ peer' = "gone",
             net # "drain", net' # "drain", phase' = "ip" => phase = "ip"
      PROVE  WInv'
  BY <1>0, <1>1, QuietStep DEF mvars
<1>2. ASSUME UNCHANGED <<writeQueue, buffer, wire, Shut, peer>>, SendPacket(Net),
             net # "drain", net' # "drain", phase' # "ip"
      PROVE  WInv'
  BY <1>0, <1>2, SendQuietly, QuietStep
<1> USE DEF Shut
<1>3. CASE WriteHandlerWrapper \/ NotReady \/ ReadHandler \/ ReadOn
  BY <1>3, <1>1 DEF WriteHandlerWrapper, NotReady, ReadHandler, ReadOn
<1>4. CASE CloseStep
  <2>1. CASE CloseSocket
    BY <2>1, <1>1, SMTT(30) DEF CloseSocket, SInv, WhereThreadsAre
  <2>2. CASE OnClose
    BY <2>2, <1>1 DEF OnClose, SInv, WhereThreadsAre
  <2>3. CASE DelayedCloseSocket
    BY <2>3, <1>1 DEF DelayedCloseSocket
  <2> QED
    BY <1>4, <2>1, <2>2, <2>3 DEF CloseStep
<1>5. CASE Callbacks /\ ~CheckIpCallback
  <2>1. CASE Refuse
    BY <2>1, <1>2 DEF Refuse, Callback
  <2>2. CASE HandleAuthSessionCallback
    BY <2>2, <1>1 DEF HandleAuthSessionCallback, Callback
  <2>3. CASE LoadSessionPermissionsCallback
    BY <2>3, <1>1 DEF LoadSessionPermissionsCallback, Callback
  <2>4. CASE HandleAuthContinuedSessionCallback
    BY <2>4, <1>1 DEF HandleAuthContinuedSessionCallback, Callback
  <2> QED
    BY <1>5, <2>1, <2>2, <2>3, <2>4 DEF Callbacks
<1>6. CASE ReadStep
  <2>1. CASE HandleSendAuthSession
    BY <2>1, <1>2 DEF HandleSendAuthSession
  <2>2. CASE HandleWrongConnectionType
    BY <2>2, <1>2 DEF HandleWrongConnectionType
  <2>3. CASE Pong
    BY <2>3, <1>2 DEF Pong, SInv, NotReadYet, NetReads
  <2>4. CASE HandleConnectToFailed
    BY <2>4, <1>1, <1>2 DEF HandleConnectToFailed, Unlock, SInv, NotReadYet, NetReads
  <2>5. ASSUME NEW to \in {"account", "continued"}, HandleAuth(to) PROVE WInv'
    BY <2>5, <1>1 DEF HandleAuth
  <2>6. CASE ReadError \/ Malformed \/ LockSession \/ ReadDone
    BY <2>6, <1>1 DEF ReadError, Malformed, LockSession, ReadDone
  <2>7. CASE QueueInSession \/ HandlePing \/ NotAuthed
    BY <2>7, <1>1 DEF QueueInSession, HandlePing, NotAuthed, Unlock
  <2>8. CASE NothingToDo \/ HandleEnableNagle \/ EnableNagle \/ HandleDuplicate \/ LogDuplicate
    BY <2>8, <1>1 DEF NothingToDo, HandleEnableNagle, EnableNagle, HandleDuplicate, LogDuplicate
  <2> QED
    BY <1>6, <2>1, <2>2, <2>3, <2>4, <2>5, <2>6, <2>7, <2>8 DEF ReadStep
<1> QED
  BY <1>3, <1>4, <1>5, <1>6

-----------------------------------------------------------------------------
(* The threads of the game and the client.                                 *)
LEMMA WInvGame ==
  ASSUME IInv, WInv, SInv,
         WorldStep \/ (\E t \in Game : Send(t)) \/ (\E t \in Threads : LinkNode(t)) \/ Disconnect
  PROVE  WInv'
<1>0. QueueTypeOK /\ World \in Threads /\ World # Net
  BY SocketAssumption DEF IInv, Net, SocketAssumption
<1>1. ASSUME UNCHANGED <<writeQueue, buffer, wire, order, taken, deq, result, net>>,
             Shut => Shut', peer' = peer \/ peer' = "gone", phase' = "ip" => phase = "ip"
      PROVE  WInv'
  BY <1>0, <1>1, QuietStep
<1>2. ASSUME NEW t \in Threads, SendPacket(t),
             UNCHANGED <<writeQueue, buffer, wire, Shut, peer, net>>, phase' # "ip"
      PROVE  WInv'
  BY <1>0, <1>2, SendQuietly, QuietStep
<1> USE DEF Shut
<1>3. CASE WorldStep
  <2>1. CASE SendAuthResponseError
    BY <2>1, <1>0, <1>2 DEF SendAuthResponseError, WorldRuns, net_vars, env_vars
  <2>2. CASE ~SendAuthResponseError
    <3>1. UNCHANGED <<net_vars, env_vars, mvars>> /\ (Shut => Shut') /\ (phase' = "ip" => phase = "ip")
      <4>1. CASE LinkInstanceSocket \/ SetWorldSession \/ DelayedCloseByWorld
        BY <4>1 DEF LinkInstanceSocket, SetWorldSession, DelayedCloseByWorld, WorldRuns
      <4>2. CASE ShutdownByWorld \/ OnCloseByWorld
        BY <4>2 DEF ShutdownByWorld, OnCloseByWorld, state_vars
      <4>3. CASE KickPlayer \/ ForgetSocket
        BY <4>3 DEF KickPlayer, ForgetSocket, state_vars, WorldRuns
      <4>4. CASE DeleteSession
        BY <4>4 DEF DeleteSession, WorldRuns
      <4> QED
        BY <1>3, <2>2, <4>1, <4>2, <4>3, <4>4 DEF WorldStep, WorldReturns
    <3> QED
      BY <3>1, <1>1 DEF net_vars, env_vars, mvars
  <2> QED
    BY <2>1, <2>2
<1>4. ASSUME NEW t \in Game, Send(t) PROVE WInv'
  <2>1. phase # "ip"
    BY <1>4 DEF Send, SInv, SessionOfPhase
  <2> QED
    BY <2>1, <1>4, <1>2 DEF Send, Game, svars
<1>5. ASSUME NEW t \in Threads, LinkNode(t) PROVE WInv'
  <2>1. /\ UNCHANGED <<order, taken, result, svars>>
        /\ deq' = IF enq[t].node = Dummy THEN "again" ELSE deq
    BY <1>5 DEF LinkNode, Link
  <2>2. CASE deq' = deq
    BY <2>1, <2>2, <1>1 DEF svars
  <2>3. CASE deq' # deq
    <3>1. deq = "link" /\ deq' = "again"
      BY <2>1, <2>3 DEF IInv, DummyOnce
    <3>2. Stored' = Stored
      BY <2>1, <3>1 DEF Stored
    <3>3. OnTheWay' /\ SocketTypes'
      BY <2>1, <3>2, <1>0, OnTheWayStays DEF svars
    <3> QED
      BY <2>1, <3>1, <3>3 DEF svars, WInv, Got, Drained, NothingBefore
  <2> QED
    BY <2>2, <2>3
<1>6. CASE Disconnect
  BY <1>6, <1>1 DEF Disconnect, net_vars, state_vars, game_vars, mvars
<1> QED
  BY <1>3, <1>4, <1>5, <1>6

LEMMA WInvNext ==
  ASSUME IInv, WInv, SInv, [Next]_vars
  PROVE  WInv'
<1>1. CASE UpdateStep
  BY <1>1, DrainWires, UpdateWires, WritePacketWires, FlushWires DEF UpdateStep
<1>2. CASE HandleQueue
  BY <1>2, HandleQueueWires
<1>3. CASE CheckIpCallback
  BY <1>3, CheckIpWires
<1>4. CASE \/ WriteHandlerWrapper \/ CloseStep \/ NotReady \/ ReadHandler \/ ReadOn
           \/ (Callbacks /\ ~CheckIpCallback) \/ ReadStep
  BY <1>4, WInvQuiet
<1>5. CASE WorldStep \/ (\E t \in Game : Send(t)) \/ (\E t \in Threads : LinkNode(t)) \/ Disconnect
  BY <1>5, WInvGame
<1>6. CASE UNCHANGED vars
  BY <1>6 DEF vars, mvars, svars, WInv, SocketTypes, Got, Drained, NothingBefore, OnTheWay, GoesOn, Stored, Shut
<1> QED
  BY <1>1, <1>2, <1>3, <1>4, <1>5, <1>6 DEF Next, NetStep

(* What the client got is the beginning of the stream.                     *)
LEMMA WInvOrder ==
  ASSUME IInv, WInv
  PROVE  WireInOrder
<1>0. QueueTypeOK /\ SocketTypes /\ Got
  BY DEF IInv, WInv
<1>1. PICK off \in {0, 1}, from \in Nat : GoesOn(off, from)
  BY DEF WInv, OnTheWay
<1>2. /\ order \in Seq(Packets) /\ wire \in Seq(Packets) /\ Stored \in Nat
      /\ Stored <= Len(order) /\ Len(order) \in Nat /\ Len(wire) \in Nat
  BY <1>0, Sequences DEF SocketTypes
<1>3. Len(wire) <= Len(order) + off
  <2>1. PICK at \in [1 .. Len(writeQueue) + 1 -> Nat] :
          LaidOut(at, writeQueue, buffer, order, off, from, Stored + off)
    BY <1>1 DEF GoesOn, Laid
  <2>2. 1 \in 1 .. Len(writeQueue) + 1
    BY <1>0 DEF SocketTypes
  <2>3. from <= Stored + off /\ Len(wire) <= from
    BY <1>1, <2>1, <2>2 DEF GoesOn, LaidOut
  <2>4. off \in Nat
    OBVIOUS
  <2> QED
    BY <2>3, <2>4, <1>2
<1>4. ASSUME NEW k \in 1 .. Len(wire) PROVE wire[k] = Item(order, off, k)
  <2>1. Stretch(wire, order, off, 0, Len(wire))
    BY <1>1 DEF GoesOn
  <2>2. wire[k] = Item(order, off, 0 + k)
    BY <2>1 DEF Stretch
  <2>3. 0 + k = k
    BY <1>2
  <2> QED
    BY <2>2, <2>3
<1>5. ASSUME NEW s \in Seq(Packets), Len(wire) <= Len(s), \A k \in 1 .. Len(wire) : wire[k] = s[k]
      PROVE  IsPrefix(wire, s)
  <2>1. SubSeq(wire, 1, Len(wire)) = wire
    BY <1>2, SubSeqFull
  <2>2. \A k \in 1 .. Len(wire) : s[k] \in Packets
    BY <1>5, <1>2
  <2>3. /\ SubSeq(s, 1, Len(wire)) \in Seq(Packets)
        /\ Len(SubSeq(s, 1, Len(wire))) = Len(wire)
        /\ \A k \in 1 .. Len(wire) : SubSeq(s, 1, Len(wire))[k] = s[k]
    <3>1. /\ SubSeq(s, 1, Len(wire)) \in Seq(Packets)
          /\ Len(SubSeq(s, 1, Len(wire))) = IF 1 <= Len(wire) THEN Len(wire) - 1 + 1 ELSE 0
          /\ \A k \in 1 .. Len(wire) - 1 + 1 : SubSeq(s, 1, Len(wire))[k] = s[1 + k - 1]
      BY <2>2, <1>2, SubSeqProperties
    <3> QED
      BY <3>1, <1>2
  <2>4. SubSeq(s, 1, Len(wire)) = wire
    BY <2>3, <1>2, <1>5, SeqEqual
  <2> QED
    BY <2>1, <2>4, <1>5 DEF IsPrefix
<1>6. CASE off = 0
  <2>1. \A k \in 1 .. Len(wire) : wire[k] = order[k]
    BY <1>4, <1>6 DEF Item
  <2>2. IsPrefix(wire, order)
    BY <2>1, <1>2, <1>3, <1>5, <1>6
  <2> QED
    BY <2>2 DEF WireInOrder
<1>7. CASE off = 1
  <2> DEFINE s == <<Initializer>> \o order
  <2>1. Initializer \in Packets /\ <<Initializer>> \in Seq(Packets)
    BY DEF Packets
  <2>2. Len(<<Initializer>>) = 1 /\ <<Initializer>>[1] = Initializer
    OBVIOUS
  <2>3. /\ s \in Seq(Packets) /\ Len(s) = 1 + Len(order)
        /\ \A k \in 1 .. 1 + Len(order) : s[k] = IF k <= 1 THEN <<Initializer>>[k] ELSE order[k - 1]
    BY <2>1, <2>2, <1>2, ConcatProperties
  <2>4. ASSUME NEW k \in 1 .. Len(wire) PROVE wire[k] = s[k]
    <3>1. k \in 1 .. 1 + Len(order)
      BY <1>2, <1>3, <1>7
    <3>2. wire[k] = Item(order, 1, k)
      BY <1>4, <1>7
    <3> HIDE DEF s
    <3>3. CASE k <= 1
      <4>1. k = 1
        BY <3>1, <3>3
      <4> QED
        BY <4>1, <3>1, <3>2, <2>2, <2>3 DEF Item
    <3>4. CASE ~(k <= 1)
      BY <3>1, <3>2, <3>4, <2>3 DEF Item
    <3> QED
      BY <3>3, <3>4
  <2>5. Len(wire) <= Len(s)
    BY <2>3, <1>2, <1>3, <1>7
  <2> HIDE DEF s
  <2>6. IsPrefix(wire, s)
    BY <2>3, <2>4, <2>5, <1>5
  <2> QED
    BY <2>6 DEF WireInOrder, s
<1> QED
  BY <1>6, <1>7

(* For any threads and packets, any sizes of the buffer and any pattern of *)
(* partial writes, the client gets the packets in the order in which they  *)
(* entered _bufferQueue, without a gap, behind the initializer.            *)
THEOREM PacketsInOrder == Spec => []WireInOrder
<1>1. Init => QueueInit /\ InDequeue
  BY DEF Init, QueueInit, InDequeue, Returned
<1>2. QueueInit => IInv
  BY InitInv
<1>3. IInv /\ InDequeue /\ [Next]_vars => IInv' /\ InDequeue'
  BY QueueStep, NextInv
<1>4. Init => SInv /\ WInv
  BY SInvInit, WInvInit
<1>5. IInv /\ SInv /\ WInv /\ [Next]_vars => SInv' /\ WInv'
  BY SInvNext, WInvNext
<1>6. IInv /\ WInv => WireInOrder
  BY WInvOrder
<1> QED
  BY <1>1, <1>2, <1>3, <1>4, <1>5, <1>6, PTL DEF Spec

-----------------------------------------------------------------------------
FlagTypes ==
  /\ closed \in BOOLEAN /\ closing \in BOOLEAN /\ writingAsync \in BOOLEAN /\ reading \in BOOLEAN
  /\ pointer \in BOOLEAN /\ locked \in BOOLEAN /\ attached \in BOOLEAN

PlaceTypes ==
  /\ phase \in {"ip", "initializer", "challenge", "account", "permissions", "established",
                "continued", "link", "refused"}
  /\ net \in {"idle", "drain", "write", "callbacks", "refuse", "read", "locked", "nagle",
              "duplicate", "pong", "readDone", "close", "onclose", "removed", "crashed"}
  /\ return \in {"idle", "callbacks"}
  /\ world \in {"idle", "linking", "refusing", "kick", "kicking", "delete", "deleting"}
  /\ session \in {"none", "created", "world", "deleted"}
  /\ reads \in 0 .. MaxReads
  /\ blocks \in 0 .. MaxBlocks

LEMMA FlagTypesNext ==
  ASSUME FlagTypes, [Next]_vars
  PROVE  FlagTypes'
<1> USE DEF FlagTypes, net_vars, state_vars, game_vars, env_vars
<1>1. CASE UpdateStep \/ NotReady
  <2>1. CASE Update \/ Drain \/ WritePacket \/ NotReady
    BY <2>1, Zenon DEF Update, Drain, WritePacket, NotReady, svars
  <2>2. CASE Flush
    BY <2>2, Zenon DEF Flush
  <2> QED
    BY <1>1, <2>1, <2>2 DEF UpdateStep
<1>2. CASE HandleQueue
  <2>1. UNCHANGED <<return, reading, locked, state_vars, game_vars, reads>>
    BY <1>2 DEF HandleQueue
  <2>2. writingAsync' = writingAsync \/ writingAsync' = TRUE
    BY <1>2 DEF HandleQueue, NothingQueued, Written, NothingWritten, WouldBlock
  <2> QED
    BY <2>1, <2>2, Zenon
<1>3. CASE WriteHandlerWrapper \/ CloseStep
  BY <1>3, Zenon DEF WriteHandlerWrapper, CloseStep, CloseSocket, OnClose, DelayedCloseSocket
<1>4. CASE Callbacks
  <2>1. CASE Refuse \/ LoadSessionPermissionsCallback
    BY <2>1, Zenon DEF Refuse, LoadSessionPermissionsCallback
  <2>2. CASE CheckIpCallback
    BY <2>2, Zenon DEF CheckIpCallback, AsyncRead, IsOpen
  <2>3. CASE HandleAuthSessionCallback
    BY <2>3, Zenon DEF HandleAuthSessionCallback, AsyncRead, IsOpen
  <2>4. CASE HandleAuthContinuedSessionCallback
    BY <2>4, Zenon DEF HandleAuthContinuedSessionCallback, AsyncRead, IsOpen
  <2> QED
    BY <1>4, <2>1, <2>2, <2>3, <2>4 DEF Callbacks
<1>5. CASE ReadHandler \/ ReadOn
  BY <1>5, Zenon DEF ReadHandler, ReadOn
<1>6. CASE ReadStep
  <2>1. CASE ReadError \/ Malformed \/ HandleSendAuthSession \/ HandleWrongConnectionType \/ LockSession
    BY <2>1, Zenon DEF ReadError, Malformed, HandleSendAuthSession, HandleWrongConnectionType, LockSession
  <2>2. ASSUME NEW to \in {"account", "continued"}, HandleAuth(to) PROVE FlagTypes'
    BY <2>2, Zenon DEF HandleAuth
  <2>3. CASE QueueInSession \/ HandlePing \/ NotAuthed \/ HandleConnectToFailed
    BY <2>3, Zenon DEF QueueInSession, HandlePing, NotAuthed, HandleConnectToFailed, Unlock
  <2>4. CASE Pong \/ ReadDone
    BY <2>4, Zenon DEF Pong, ReadDone, AsyncRead, IsOpen
  <2>5. CASE NothingToDo \/ HandleEnableNagle \/ EnableNagle \/ HandleDuplicate \/ LogDuplicate
    BY <2>5, Zenon DEF NothingToDo, HandleEnableNagle, EnableNagle, HandleDuplicate, LogDuplicate
  <2> QED
    BY <1>6, <2>1, <2>2, <2>3, <2>4, <2>5 DEF ReadStep
<1>7. CASE WorldStep
  <2>1. CASE LinkInstanceSocket
    BY <2>1, Zenon DEF LinkInstanceSocket
  <2>2. CASE SetWorldSession \/ SendAuthResponseError \/ DelayedCloseByWorld
    BY <2>2, Zenon DEF SetWorldSession, SendAuthResponseError, DelayedCloseByWorld
  <2>3. CASE ShutdownByWorld \/ OnCloseByWorld \/ KickPlayer \/ ForgetSocket
    BY <2>3, Zenon DEF ShutdownByWorld, OnCloseByWorld, KickPlayer, ForgetSocket
  <2>4. CASE DeleteSession
    BY <2>4, Zenon DEF DeleteSession
  <2> QED
    BY <1>7, <2>1, <2>2, <2>3, <2>4 DEF WorldStep, WorldReturns
<1>8. CASE UNCHANGED svars \/ Disconnect
  BY <1>8, Zenon DEF svars, Disconnect
<1>9. ASSUME (\E t \in Game : Send(t)) \/ (\E t \in Threads : LinkNode(t)) PROVE UNCHANGED svars
  BY <1>9 DEF Send, LinkNode
<1> QED
  BY <1>1, <1>2, <1>3, <1>4, <1>5, <1>6, <1>7, <1>8, <1>9 DEF Next, NetStep, vars

LEMMA PlaceTypesNext ==
  ASSUME PlaceTypes, [Next]_vars
  PROVE  PlaceTypes'
<1> USE SocketAssumption DEF PlaceTypes, SocketAssumption, net_vars, state_vars, game_vars, env_vars
<1>1. CASE UpdateStep \/ NotReady
  <2>1. CASE Update \/ Drain \/ WritePacket \/ NotReady
    BY <2>1 DEF Update, Drain, WritePacket, NotReady, svars
  <2>2. CASE Flush
    BY <2>2 DEF Flush
  <2> QED
    BY <1>1, <2>1, <2>2 DEF UpdateStep
<1>2. CASE HandleQueue
  <2>1. UNCHANGED <<return, reading, locked, state_vars, game_vars, reads>>
    BY <1>2 DEF HandleQueue
  <2>2. net' \in {"write", "close", return} /\ blocks' \in 0 .. MaxBlocks
    BY <1>2 DEF HandleQueue, NothingQueued, Written, NothingWritten, WouldBlock, Popped
  <2> QED
    BY <2>1, <2>2
<1>3. CASE WriteHandlerWrapper \/ CloseStep
  BY <1>3 DEF WriteHandlerWrapper, CloseStep, CloseSocket, OnClose, DelayedCloseSocket
<1>4. CASE Callbacks
  <2>1. CASE Refuse \/ LoadSessionPermissionsCallback
    BY <2>1 DEF Refuse, LoadSessionPermissionsCallback
  <2>2. CASE CheckIpCallback
    BY <2>2 DEF CheckIpCallback, AsyncRead, IsOpen
  <2>3. CASE HandleAuthSessionCallback
    BY <2>3 DEF HandleAuthSessionCallback, AsyncRead, IsOpen
  <2>4. CASE HandleAuthContinuedSessionCallback
    BY <2>4 DEF HandleAuthContinuedSessionCallback, AsyncRead, IsOpen
  <2> QED
    BY <1>4, <2>1, <2>2, <2>3, <2>4 DEF Callbacks
<1>5. CASE ReadHandler \/ ReadOn
  BY <1>5 DEF ReadHandler, ReadOn
<1>6. CASE ReadStep
  <2>1. CASE ReadError \/ Malformed \/ HandleSendAuthSession \/ HandleWrongConnectionType \/ LockSession
    BY <2>1 DEF ReadError, Malformed, HandleSendAuthSession, HandleWrongConnectionType, LockSession
  <2>2. ASSUME NEW to \in {"account", "continued"}, HandleAuth(to) PROVE PlaceTypes'
    BY <2>2 DEF HandleAuth
  <2>3. CASE QueueInSession \/ HandlePing \/ NotAuthed \/ HandleConnectToFailed
    BY <2>3 DEF QueueInSession, HandlePing, NotAuthed, HandleConnectToFailed, Unlock
  <2>4. CASE Pong \/ ReadDone
    BY <2>4 DEF Pong, ReadDone, AsyncRead, IsOpen
  <2>5. CASE NothingToDo \/ HandleEnableNagle \/ EnableNagle \/ HandleDuplicate \/ LogDuplicate
    BY <2>5 DEF NothingToDo, HandleEnableNagle, EnableNagle, HandleDuplicate, LogDuplicate
  <2> QED
    BY <1>6, <2>1, <2>2, <2>3, <2>4, <2>5 DEF ReadStep
<1>7. CASE WorldStep
  <2>1. CASE LinkInstanceSocket
    BY <2>1 DEF LinkInstanceSocket
  <2>2. CASE SetWorldSession \/ SendAuthResponseError \/ DelayedCloseByWorld
    BY <2>2 DEF SetWorldSession, SendAuthResponseError, DelayedCloseByWorld
  <2>3. CASE ShutdownByWorld \/ OnCloseByWorld \/ KickPlayer \/ ForgetSocket
    BY <2>3 DEF ShutdownByWorld, OnCloseByWorld, KickPlayer, ForgetSocket
  <2>4. CASE DeleteSession
    BY <2>4 DEF DeleteSession
  <2> QED
    BY <1>7, <2>1, <2>2, <2>3, <2>4 DEF WorldStep, WorldReturns
<1>8. CASE UNCHANGED svars \/ Disconnect
  BY <1>8 DEF svars, Disconnect
<1>9. ASSUME (\E t \in Game : Send(t)) \/ (\E t \in Threads : LinkNode(t)) PROVE UNCHANGED svars
  BY <1>9 DEF Send, LinkNode
<1> QED
  BY <1>1, <1>2, <1>3, <1>4, <1>5, <1>6, <1>7, <1>8, <1>9 DEF Next, NetStep, vars

LEMMA AllTypes ==
  ASSUME IInv, WInv, FlagTypes, PlaceTypes
  PROVE  TypeOK
BY DEF IInv, WInv, SocketTypes, Packets, FlagTypes, PlaceTypes, TypeOK

(* Every variable of the socket has its type, for any threads, packets and *)
(* bounds: the packets in the buffers are ones that were enqueued.         *)
THEOREM SocketTypeCorrect == Spec => []TypeOK
<1>1. Init => QueueInit /\ InDequeue
  BY DEF Init, QueueInit, InDequeue, Returned
<1>2. QueueInit => IInv
  BY InitInv
<1>3. IInv /\ InDequeue /\ [Next]_vars => IInv' /\ InDequeue'
  BY QueueStep, NextInv
<1>4. Init => SInv /\ WInv /\ FlagTypes /\ PlaceTypes
  <2>1. Init => FlagTypes
    BY DEF Init, FlagTypes
  <2>2. Init => PlaceTypes
    BY SocketAssumption DEF Init, PlaceTypes, SocketAssumption
  <2> QED
    BY <2>1, <2>2, SInvInit, WInvInit
<1>5. IInv /\ SInv /\ WInv /\ FlagTypes /\ PlaceTypes /\ [Next]_vars => SInv' /\ WInv' /\ FlagTypes' /\ PlaceTypes'
  BY SInvNext, WInvNext, FlagTypesNext, PlaceTypesNext
<1>6. IInv /\ WInv /\ FlagTypes /\ PlaceTypes => TypeOK
  BY AllTypes
<1> QED
  BY <1>1, <1>2, <1>3, <1>4, <1>5, <1>6, PTL DEF Spec

-----------------------------------------------------------------------------
(* No packet is lost, and a socket that is to be closed not forgotten *)

(* A packet is on its way: the client has it, or a buffer, or the network  *)
(* thread has it in its hand.                                              *)
HasWay(p) ==
  \/ p \in Range(wire)
  \/ \E j \in 1 .. Len(writeQueue) : p \in Range(writeQueue[j])
  \/ p \in Range(buffer)
  \/ deq = "got" /\ result = p

NothingIsLost == ~closed /\ peer = "up" => \A i \in 1 .. taken : HasWay(order[i])

LEMMA LeastNumber ==
  ASSUME NEW N \in SUBSET Nat, N # {}
  PROVE  \E m \in N : \A k \in N : m <= k
<1>1. PICK m \in N : \A k \in N : <<k, m>> \notin OpToRel(<, Nat)
  BY WFMin, NatLessThanWellFounded, Zenon
<1>2. \A k \in N : ~(k < m)
  BY <1>1, Zenon DEF OpToRel
<1>3. \A k \in N : m <= k
  BY <1>2
<1> QED
  BY <1>3

LEMMA InRange ==
  ASSUME NEW S, NEW s \in Seq(S), NEW k \in 1 .. Len(s)
  PROVE  s[k] \in Range(s)
BY DEF Range

(* Each number between the ends is in one of the stretches.                *)
LEMMA LaidCovers ==
  ASSUME NEW S, NEW q \in Seq(Seq(S)), NEW b \in Seq(S), NEW o, NEW off \in {0, 1},
         NEW from \in Nat, NEW to \in Nat, Laid(q, b, o, off, from, to),
         NEW p \in Nat, from < p, p <= to
  PROVE  \/ \E j \in 1 .. Len(q) : Item(o, off, p) \in Range(q[j])
         \/ Item(o, off, p) \in Range(b)
<1>1. PICK at \in [1 .. Len(q) + 1 -> Nat] : LaidOut(at, q, b, o, off, from, to)
  BY DEF Laid
<1>2. Len(q) \in Nat /\ Len(b) \in Nat /\ Len(q) + 1 \in 1 .. Len(q) + 1
  OBVIOUS
<1>3. CASE at[Len(q) + 1] < p
  <2>1. at[Len(q) + 1] \in Nat
    BY <1>2
  <2>2. Len(b) = to - at[Len(q) + 1] /\ \A k \in 1 .. Len(b) : b[k] = Item(o, off, at[Len(q) + 1] + k)
    BY <1>1 DEF LaidOut, Stretch
  <2>3. /\ p - at[Len(q) + 1] \in 1 .. Len(b)
        /\ at[Len(q) + 1] + (p - at[Len(q) + 1]) = p
    BY <1>3, <2>1, <2>2
  <2>4. b[p - at[Len(q) + 1]] = Item(o, off, p)
    BY <2>2, <2>3
  <2> QED
    BY <2>3, <2>4, InRange
<1>4. CASE ~(at[Len(q) + 1] < p)
  <2> DEFINE N == {i \in 1 .. Len(q) + 1 : p <= at[i]}
  <2>1. N \in SUBSET Nat /\ Len(q) + 1 \in N
    BY <1>1, <1>2, <1>4, SMTT(20)
  <2>2. PICK m \in N : \A k \in N : m <= k
    BY <2>1, LeastNumber
  <2>3. m \in 1 .. Len(q) + 1 /\ p <= at[m] /\ at[1] = from
    BY <1>1, <2>2 DEF LaidOut
  <2>4. PICK j \in 1 .. Len(q) : j + 1 = m
    <3>1. m - 1 \in 1 .. Len(q) /\ (m - 1) + 1 = m
      BY <1>2, <2>3
    <3> QED
      BY <3>1
  <2>5. at[j] \in Nat /\ at[m] \in Nat
    <3>1. j \in 1 .. Len(q) + 1 /\ m \in 1 .. Len(q) + 1
      BY <1>2, <2>3, <2>4
    <3> QED
      BY <3>1
  <2>6. at[j] < p
    <3>1. ~(m <= j)
      BY <1>2, <2>3, <2>4
    <3>2. j \notin N /\ j \in 1 .. Len(q) + 1
      BY <1>2, <2>2, <2>4, <3>1
    <3>3. ~(p <= at[j])
      BY <3>2
    <3> QED
      BY <2>5, <3>3
  <2> HIDE DEF N
  <2>7. q[j] \in Seq(S) /\ Len(q[j]) \in Nat
    BY <2>4
  <2>8. Len(q[j]) = at[m] - at[j] /\ \A k \in 1 .. Len(q[j]) : q[j][k] = Item(o, off, at[j] + k)
    <3>1. Stretch(q[j], o, off, at[j], at[j + 1])
      BY <1>1, <2>4 DEF LaidOut
    <3> QED
      BY <2>4, <3>1 DEF Stretch
  <2>9. p - at[j] \in 1 .. Len(q[j]) /\ at[j] + (p - at[j]) = p
    BY <2>3, <2>5, <2>6, <2>7, <2>8, SMTT(20)
  <2>10. q[j][p - at[j]] = Item(o, off, p)
    BY <2>8, <2>9
  <2> QED
    BY <2>4, <2>7, <2>9, <2>10, InRange
<1> QED
  BY <1>3, <1>4

LEMMA NoneLost == IInv /\ WInv => NothingIsLost
<1> SUFFICES ASSUME IInv, WInv, ~closed, peer = "up", NEW i \in 1 .. taken
             PROVE  HasWay(order[i])
  BY DEF NothingIsLost
<1>1. QueueTypeOK /\ SocketTypes /\ Got
  BY DEF IInv, WInv
<1>2. /\ order \in Seq(Packets) /\ buffer \in Seq(Packets)
      /\ Stored \in Nat /\ Stored <= Len(order) /\ Len(order) \in Nat /\ Len(wire) \in Nat
  BY <1>1, Sequences
<1>3. taken \in Nat /\ taken <= Len(order) /\ i \in Nat /\ 1 <= i /\ i <= taken
  BY <1>1, <1>2 DEF QueueTypeOK
<1>4. CASE deq = "got" /\ i = taken
  BY <1>1, <1>4 DEF Got, HasWay
<1>5. CASE ~(deq = "got" /\ i = taken)
  <2>1. i <= Stored
    BY <1>3, <1>5 DEF Stored
  <2>2. PICK off \in {0, 1}, from \in Nat : GoesOn(off, from)
    BY DEF WInv, OnTheWay
  <2>3. Len(wire) = from /\ Stretch(wire, order, off, 0, Len(wire))
    BY <2>2 DEF GoesOn, Shut
  <2> DEFINE p == i + off
  <2>4. p \in Nat /\ 1 <= p /\ p <= Stored + off /\ ~(p <= off) /\ p - off = i
    BY <1>2, <1>3, <2>1
  <2>5. Item(order, off, p) = order[i]
    BY <2>4 DEF Item
  <2> HIDE DEF p
  <2>6. CASE p <= from
    <3>1. p \in 1 .. Len(wire) /\ 0 + p = p
      BY <1>2, <2>3, <2>4, <2>6
    <3>2. wire[p] = order[i]
      BY <2>3, <2>5, <3>1 DEF Stretch
    <3> QED
      BY <1>1, <3>1, <3>2, InRange DEF SocketTypes, HasWay
  <2>7. CASE ~(p <= from)
    <3>1. Laid(writeQueue, buffer, order, off, from, Stored + off) /\ Stored + off \in Nat
      BY <1>2, <2>2 DEF GoesOn
    <3>2. writeQueue \in Seq(Seq(Packets)) /\ from < p
      BY <1>1, <2>4, <2>7 DEF SocketTypes
    <3>3. \/ \E j \in 1 .. Len(writeQueue) : Item(order, off, p) \in Range(writeQueue[j])
          \/ Item(order, off, p) \in Range(buffer)
      BY <1>2, <2>4, <3>1, <3>2, LaidCovers
    <3> QED
      BY <2>5, <3>3 DEF HasWay
  <2> QED
    BY <2>6, <2>7
<1> QED
  BY <1>4, <1>5
(* There is something left to write.                                       *)
Due == Unwritten \/ (net = "drain" /\ deq = "got")

(* The step that leaves a socket that is marked for closing with nothing   *)
(* to write is the one that goes on to close it.                           *)
ClosesOnceWritten == [][closing /\ Due /\ ~Due' => closed' \/ net' = "close"]_vars

LEMMA QuietDue ==
  ASSUME QueueTypeOK, UNCHANGED <<writeQueue, buffer, taken>>, Due,
         order' = order \/ \E n \in Nodes : order' = Append(order, n),
         net = "drain" /\ deq = "got" => net' = "drain" /\ deq' = "got"
  PROVE  Due'
<1>1. CASE taken < Len(order)
  <2>1. order \in Seq(Nodes) /\ taken \in Nat
    BY DEF QueueTypeOK
  <2>2. Len(order') = Len(order) \/ Len(order') = Len(order) + 1
    BY <2>1
  <2> QED
    BY <1>1, <2>1, <2>2 DEF Due, Unwritten
<1>2. CASE ~(taken < Len(order))
  BY <1>2 DEF Due, Unwritten
<1> QED
  BY <1>1, <1>2

LEMMA UpdateDue ==
  ASSUME IInv, WInv, UpdateStep, Due
  PROVE  Due'
<1>0. QueueTypeOK /\ SocketTypes /\ taken \in Nat
  BY Order DEF IInv, WInv
<1>1. CASE Update
  BY <1>0, <1>1, QuietDue DEF Update, Dequeue, WInv, Drained
<1>2. CASE Drain
  <2>1. /\ UNCHANGED <<net, writeQueue, buffer, order>>
        /\ net = "drain" /\ deq # "got"
        /\ taken' = taken \/ deq' = "got"
    BY <1>2, DequeueSteps DEF Drain, svars, DequeueStep, SkipDummy, LoadNext, LoadHead, ExchangeDummy, LoadAgain
  <2> QED
    BY <1>0, <2>1, QuietDue DEF Due
<1>3. CASE WritePacket
  <2>1. CASE Fits(result, buffer)
    BY <1>0, <1>3, <2>1, AppendProperties, EmptySeq DEF WritePacket, Write, Due, Unwritten
  <2>2. CASE ~Fits(result, buffer)
    BY <1>0, <1>3, <2>2, AppendProperties, EmptySeq DEF WritePacket, Write, Due, Unwritten, SocketTypes
  <2> QED
    BY <2>1, <2>2
<1>4. CASE Flush
  <2>1. deq = "none" /\ UNCHANGED <<order, taken>>
    BY <1>4 DEF Flush, mvars
  <2>2. CASE buffer = <<>>
    BY <1>4, <2>1, <2>2 DEF Flush, Due, Unwritten
  <2>3. CASE buffer # <<>>
    <3>1. writeQueue' = Append(writeQueue, buffer)
      BY <1>4, <2>3 DEF Flush
    <3>2. Len(writeQueue') = Len(writeQueue) + 1 /\ Len(writeQueue) \in Nat
      BY <1>0, <3>1 DEF SocketTypes
    <3>3. writeQueue' # <<>>
      BY <3>2
    <3> QED
      BY <3>3 DEF Due, Unwritten
  <2> QED
    BY <2>2, <2>3
<1> QED
  BY <1>1, <1>2, <1>3, <1>4 DEF UpdateStep

LEMMA HandleQueueDue ==
  ASSUME IInv, WInv, HandleQueue, closing, Due
  PROVE  Due' \/ net' = "close"
<1>0. QueueTypeOK /\ SocketTypes
  BY DEF IInv, WInv
<1>1. net = "write" /\ UNCHANGED <<buffer, taken, order, deq>>
  BY DEF HandleQueue, mvars
<1>2. CASE NothingQueued
  BY <1>0, <1>1, <1>2, QuietDue DEF NothingQueued
<1>3. CASE Written \/ NothingWritten
  BY <1>3 DEF Written, NothingWritten, Popped, Due, Unwritten
<1>4. CASE WouldBlock
  <2>1. Len(writeQueue') = Len(writeQueue) /\ writeQueue # <<>>
    BY <1>4 DEF WouldBlock
  <2>2. writeQueue' # <<>>
    BY <1>0, <2>1, EmptySeq DEF SocketTypes
  <2> QED
    BY <2>2 DEF Due, Unwritten
<1> QED
  BY <1>2, <1>3, <1>4 DEF HandleQueue

LEMMA NetDue ==
  ASSUME IInv, WInv, NetStep, ~UpdateStep, ~HandleQueue, Due
  PROVE  Due'
<1>0. QueueTypeOK /\ Net \in Threads
  BY QueueAssumption DEF IInv, Net, QueueAssumption
<1>1. ASSUME UNCHANGED <<writeQueue, buffer, mvars>>, net # "drain"
      PROVE  Due'
  BY <1>0, <1>1, QuietDue DEF mvars
<1>2. ASSUME UNCHANGED <<writeQueue, buffer>>, SendPacket(Net), net # "drain"
      PROVE  Due'
  BY <1>0, <1>2, SendQuietly, QuietDue
<1>3. CASE WriteHandlerWrapper \/ NotReady \/ ReadHandler \/ ReadOn \/ CloseStep
  BY <1>3, <1>1
  DEF WriteHandlerWrapper, NotReady, ReadHandler, ReadOn, CloseStep, CloseSocket, OnClose, DelayedCloseSocket
<1>4. CASE Callbacks
  <2>1. CASE CheckIpCallback
    <3>1. writeQueue' # <<>>
      BY <2>1, AppendProperties, EmptySeq DEF CheckIpCallback, WInv, SocketTypes
    <3> QED
      BY <3>1 DEF Due, Unwritten
  <2>2. CASE Refuse
    BY <2>2, <1>2 DEF Refuse, Callback
  <2>3. CASE HandleAuthSessionCallback \/ LoadSessionPermissionsCallback \/ HandleAuthContinuedSessionCallback
    BY <2>3, <1>1 DEF HandleAuthSessionCallback, LoadSessionPermissionsCallback,
       HandleAuthContinuedSessionCallback, Callback
  <2> QED
    BY <1>4, <2>1, <2>2, <2>3 DEF Callbacks
<1>5. CASE ReadStep
  <2>1. CASE HandleSendAuthSession \/ HandleWrongConnectionType \/ Pong
    BY <2>1, <1>2 DEF HandleSendAuthSession, HandleWrongConnectionType, Pong
  <2>2. CASE HandleConnectToFailed
    BY <2>2, <1>1, <1>2 DEF HandleConnectToFailed, Unlock
  <2>3. ASSUME NEW to \in {"account", "continued"}, HandleAuth(to) PROVE Due'
    BY <2>3, <1>1 DEF HandleAuth
  <2>4. CASE ReadError \/ Malformed \/ LockSession \/ QueueInSession \/ HandlePing \/ NotAuthed \/ ReadDone
    BY <2>4, <1>1 DEF ReadError, Malformed, LockSession, QueueInSession, HandlePing, NotAuthed, ReadDone, Unlock
  <2>5. CASE NothingToDo \/ HandleEnableNagle \/ EnableNagle \/ HandleDuplicate \/ LogDuplicate
    BY <2>5, <1>1 DEF NothingToDo, HandleEnableNagle, EnableNagle, HandleDuplicate, LogDuplicate
  <2> QED
    BY <1>5, <2>1, <2>2, <2>3, <2>4, <2>5 DEF ReadStep
<1> QED
  BY <1>3, <1>4, <1>5 DEF NetStep

LEMMA GameDue ==
  ASSUME IInv, WInv, Due,
         WorldStep \/ (\E t \in Game : Send(t)) \/ (\E t \in Threads : LinkNode(t)) \/ Disconnect
  PROVE  Due'
<1>0. QueueTypeOK /\ World \in Threads
  BY SocketAssumption DEF IInv, SocketAssumption
<1>1. ASSUME UNCHANGED <<net_vars, mvars>> PROVE Due'
  BY <1>0, <1>1, QuietDue DEF net_vars, mvars
<1>2. ASSUME NEW t \in Threads, SendPacket(t), UNCHANGED net_vars PROVE Due'
  BY <1>0, <1>2, SendQuietly, QuietDue DEF net_vars
<1>3. CASE WorldStep
  <2>1. CASE SendAuthResponseError
    BY <2>1, <1>0, <1>2 DEF SendAuthResponseError
  <2>2. CASE ~SendAuthResponseError
    BY <1>3, <2>2, <1>1 DEF WorldStep, WorldReturns, LinkInstanceSocket, SetWorldSession, DelayedCloseByWorld,
       ShutdownByWorld, OnCloseByWorld, KickPlayer, ForgetSocket, DeleteSession
  <2> QED
    BY <2>1, <2>2
<1>4. ASSUME NEW t \in Game, Send(t) PROVE Due'
  BY <1>4, <1>2 DEF Send, Game, svars, net_vars
<1>5. ASSUME NEW t \in Threads, LinkNode(t) PROVE Due'
  <2>1. deq' = deq \/ deq = "link"
    BY <1>5 DEF LinkNode, Link, IInv, DummyOnce
  <2> QED
    BY <1>0, <1>5, <2>1, QuietDue DEF LinkNode, Link, svars
<1>6. CASE Disconnect
  BY <1>6, <1>1 DEF Disconnect
<1> QED
  BY <1>3, <1>4, <1>5, <1>6

LEMMA ClosesStep ==
  ASSUME IInv, WInv, [Next]_vars, closing, Due, ~Due'
  PROVE  closed' \/ net' = "close"
<1>1. CASE NetStep
  BY <1>1, UpdateDue, HandleQueueDue, NetDue
<1>2. CASE WorldStep \/ (\E t \in Game : Send(t)) \/ (\E t \in Threads : LinkNode(t)) \/ Disconnect
  BY <1>2, GameDue
<1>3. CASE UNCHANGED vars
  BY <1>3 DEF vars, mvars, svars, Due, Unwritten
<1> QED
  BY <1>1, <1>2, <1>3 DEF Next

-----------------------------------------------------------------------------
(* What holds of every step of the socket.                                 *)
LEMMA Wires == Spec => [](IInv /\ InDequeue /\ SInv /\ WInv)
<1>1. Init => QueueInit /\ InDequeue /\ SInv /\ WInv
  BY SInvInit, WInvInit DEF Init, QueueInit, InDequeue, Returned
<1>2. QueueInit => IInv
  BY InitInv
<1>3. IInv /\ InDequeue /\ SInv /\ WInv /\ [Next]_vars => IInv' /\ InDequeue' /\ SInv' /\ WInv'
  BY QueueStep, NextInv, SInvNext, WInvNext
<1> QED
  BY <1>1, <1>2, <1>3, PTL DEF Spec

(* While the socket is open and the client there, each packet dequeued     *)
(* from _bufferQueue is with the client, in a buffer or in the hand of the *)
(* network thread, for any sizes of the packets, any pattern of partial    *)
(* writes and any calls of other threads: none is dropped.                 *)
THEOREM NoPacketIsLost == Spec => []NothingIsLost
BY Wires, NoneLost, PTL

(* A socket that is marked for closing while packets are to be written is  *)
(* not forgotten: whatever becomes of the packets, what leaves it without  *)
(* any closes it, or goes on to CloseSocket.                               *)
THEOREM MarkedSocketIsNotForgotten == Spec => ClosesOnceWritten
<1>1. IInv /\ WInv /\ [Next]_vars =>
        [closing /\ Due /\ ~Due' => closed' \/ net' = "close"]_vars
  BY ClosesStep
<1> QED
  BY <1>1, Wires, PTL DEF Spec, ClosesOnceWritten

(* Of the packets that are still in _bufferQueue none is cut off, and      *)
(* Dequeue gives up only because of a thread that is within Enqueue.       *)
THEOREM NoPacketIsCutOff == Spec => []NothingCutOff /\ GivesUpForACall
<1>1. Spec => QueueSpec
  <2>1. Init => QueueInit
    BY DEF Init
  <2>2. IInv /\ InDequeue /\ [Next]_vars => [QueueNext]_mvars
    BY QueueStep
  <2> QED
    BY <2>1, <2>2, Wires, PTL DEF Spec, QueueSpec
<1> QED
  BY <1>1, NoNodeIsCutOff, GivesUpOnlyForACall

=============================================================================
