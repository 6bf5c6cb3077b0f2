--------------------------- MODULE WorldSessions ---------------------------
(***************************************************************************)
(* The sessions of the world server: how an authenticated connection is    *)
(* admitted, queued, logged in, logged out, kicked and deleted.            *)
(*                                                                         *)
(* Four kinds of threads touch this state.  The network threads create     *)
(* sessions, close sockets and handle the ConnectTo retries of the client; *)
(* the database threads complete queries; the command line and the other   *)
(* handlers of the world thread change the player limit and kick; and the  *)
(* world thread runs World::UpdateSessions once a tick, session by session *)
(* (pc says where it is).  Everything else may happen between two of its   *)
(* steps.                                                                  *)
(***************************************************************************)
EXTENDS Naturals, Sequences, FiniteSets, SequencesExt

CONSTANTS
  Accounts,          \* account ids
  Sessions,          \* WorldSession objects (addresses, reused once deleted)
  AccountOf,         \* the account an object is created for
  SkipQueue,         \* accounts with RBAC_PERM_SKIP_QUEUE
  Chars,             \* characters
  OwnerOf,           \* the account a character belongs to
  Limits,            \* values the player limit may be given at run time
  InitialLimit,      \* PlayerLimit of the configuration, 0 for none
  Tolerance,         \* DisconnectToleranceInterval, 0 for none
  ExpireTicks,       \* updates a player survives a lost socket
  MaxAttempts,       \* ConnectTo serials a client may go through
  LateFailure,       \* may a client report a failed ConnectTo it did link?
  MaxTime,           \* bound on the game clock
  MaxLogins,         \* bound on links, and on a session's login queries
  NoSession, NoChar  \* null pointer, empty guid

ASSUME SessionsAssumption ==
  /\ AccountOf \in [Sessions -> Accounts]
  /\ NoSession \notin Sessions

ASSUME AccountsAssumption ==
  /\ IsFiniteSet(Accounts)
  /\ SkipQueue \subseteq Accounts

ASSUME CharsAssumption ==
  /\ OwnerOf \in [Chars -> Accounts]
  /\ NoChar \notin Chars

ASSUME NumbersAssumption ==
  /\ Limits \subseteq Nat
  /\ InitialLimit \in Nat
  /\ Tolerance \in Nat
  /\ MaxTime \in Nat
  /\ MaxLogins \in Nat
  /\ ExpireTicks \in Nat \ {0}
  /\ MaxAttempts \in Nat \ {0}
  /\ LateFailure \in BOOLEAN

VARIABLES
  m_sessions,        \* World::m_sessions, by account
  m_QueuedPlayer,    \* World::m_QueuedPlayer, head first
  addSessQueue,      \* World::addSessQueue
  linkSocketQueue,   \* World::_linkSocketQueue
  m_disconnects,     \* World::m_disconnects, time of the last disconnect
  m_playerLimit,     \* World::m_playerLimit
  session,           \* the fields of every WorldSession object
  inWorld,           \* Player objects on a map, by character
  now,               \* game time
  stopping,          \* KickAll of the shutdown has run
  pc,                \* where the world thread is
  current,           \* the session World::UpdateSessions is at
  toVisit            \* accounts its loop has still to come to

worldVars == <<m_sessions, m_QueuedPlayer, m_disconnects, m_playerLimit>>
threadVars == <<stopping, pc, current, toVisit>>
allButSession == <<worldVars, addSessQueue, linkSocketQueue, inWorld, now,
                   threadVars>>
vars == <<allButSession, session>>

-----------------------------------------------------------------------------
(* Data *)

Times == 0 .. MaxTime
Never == MaxTime + 1
PCs == {"idle", "link", "add", "visit", "packets", "callbacks", "logout",
        "sockets", "stopped"}

(* A LoginQueryHolder on its way: its character, and whether it has come   *)
(* back from the database.                                                 *)
LoginQuery == [char : Chars, ready : BOOLEAN]

SessionState ==
  [realm     : {"open", "closed"},             \* m_Socket[REALM]
   instance  : {"none", "open", "closed"},     \* m_Socket[INSTANCE]
   inQueue   : BOOLEAN,                        \* m_inQueue
   init      : {"none", "sent", "ready"},      \* AccountInfoQueryHolder
   loading   : Chars \cup {NoChar},            \* m_playerLoading
   logins    : Seq(LoginQuery),                \* LoginQueryHolders
   player    : Chars \cup {NoChar},            \* _player
   logout    : BOOLEAN,                        \* _logoutTime is set
   forceExit : BOOLEAN,                        \* forceExit
   expire    : 0 .. ExpireTicks,               \* expireTime, in updates
   attempt   : 0 .. MaxAttempts,               \* serial of the last ConnectTo
   linked    : BOOLEAN]                        \* has the client used its key?

(* The constructor.  A deleted object looks the same but for its socket.   *)
NewSession ==
  [realm |-> "open", instance |-> "none", inQueue |-> FALSE, init |-> "none",
   loading |-> NoChar, logins |-> <<>>, player |-> NoChar, logout |-> FALSE,
   forceExit |-> FALSE, expire |-> ExpireTicks, attempt |-> 0,
   linked |-> FALSE]
Deleted == [NewSession EXCEPT !.realm = "closed"]

(* An entry of the link queue keeps the key its ConnectTo carried; current *)
(* says whether that still is the session's GetConnectToInstanceKey().     *)
Link == [session : Sessions, current : BOOLEAN]

Listed(s) == m_sessions[AccountOf[s]] = s
ListedAccounts == {a \in Accounts : m_sessions[a] # NoSession}
Alive(s) == Listed(s) \/ Contains(addSessQueue, s)

GetActiveAndQueuedSessionCount(sessions) ==
  Cardinality({a \in Accounts : sessions[a] # NoSession})
GetActiveSessionCount ==
  GetActiveAndQueuedSessionCount(m_sessions) - Len(m_QueuedPlayer)

Init ==
  /\ m_sessions = [a \in Accounts |-> NoSession]
  /\ m_QueuedPlayer = <<>>
  /\ addSessQueue = <<>>
  /\ linkSocketQueue = <<>>
  /\ m_disconnects = [a \in Accounts |-> Never]
  /\ m_playerLimit = InitialLimit
  /\ session = [s \in Sessions |-> Deleted]
  /\ inWorld = [c \in Chars |-> 0]
  /\ now = 0
  /\ stopping = FALSE
  /\ pc = "idle"
  /\ current = NoSession
  /\ toVisit = {}

GoTo(where) ==
  /\ pc' = where
  /\ UNCHANGED <<worldVars, addSessQueue, linkSocketQueue, session, inWorld,
                 now, stopping, current, toVisit>>

-----------------------------------------------------------------------------
(* WorldSession methods, on the fields of one session *)

KickWithoutForce(r) ==                                              \* mutant
  [r EXCEPT !.realm = "closed", !.instance = IF @ = "open" THEN "closed" ELSE @]

KickPlayer(r) ==
  [r EXCEPT !.realm = "closed", !.forceExit = TRUE,
            !.instance = IF @ = "open" THEN "closed" ELSE @]

(* LogoutPlayer ends with the instance socket closed and reset; the player *)
(* leaves the world with OutOfWorld.                                       *)
LogoutPlayer(r) ==
  [r EXCEPT !.player = NoChar, !.instance = "none", !.logout = FALSE]
OutOfWorld(r) ==
  IF r.player = NoChar THEN inWorld
  ELSE [inWorld EXCEPT ![r.player] = IF @ = 0 THEN 0 ELSE @ - 1]

(* A new _instanceConnectKey outdates every link made with the one before. *)
SendConnectToInstance(r, serial) ==
  [r EXCEPT !.attempt = serial, !.linked = FALSE]
OutdateLinks(s) ==
  [i \in DOMAIN linkSocketQueue |->
     IF linkSocketQueue[i].session = s
     THEN [linkSocketQueue[i] EXCEPT !.current = FALSE]
     ELSE linkSocketQueue[i]]

NoInitialization(r) == r                                            \* mutant
InitializeSession(r) == [r EXCEPT !.init = "sent"]

InitializedInQueue(r) == [r EXCEPT !.init = "none"]                 \* mutant
Initialized(r) == [r EXCEPT !.init = "none", !.inQueue = FALSE]

(* A login is refused while one is under way or a character is played.     *)
PlayingOnly(r) == r.player # NoChar                                 \* mutant
LoginBusy(r) == r.loading # NoChar \/ r.player # NoChar

SixthAttempt(r) == r.attempt = MaxAttempts + 1                      \* mutant
LastAttempt(r) == r.attempt = MaxAttempts

-----------------------------------------------------------------------------
(* World: the queue of players *)

PositionOf(queue, s) ==
  CHOOSE i \in 1 .. Len(queue) :
    queue[i] = s /\ \A j \in 1 .. (i - 1) : queue[j] # s

EraseNothing(queue, s) == queue                                     \* mutant
Erase(queue, s) ==
  IF Contains(queue, s) THEN RemoveAt(queue, PositionOf(queue, s)) ELSE queue

AcceptLast(st) ==                                                   \* mutant
  [queue |-> Front(st.queue),
   session |-> [st.session EXCEPT ![Last(st.queue)] = InitializeSession(@)]]
AcceptFirst(st) ==
  [queue |-> Tail(st.queue),
   session |-> [st.session EXCEPT ![Head(st.queue)] = InitializeSession(@)]]

HasRoomForOneMore(n) == m_playerLimit = 0 \/ n <= m_playerLimit      \* mutant
HasRoom(n) == m_playerLimit = 0 \/ n < m_playerLimit

CountLeaver(active, found) == active                                \* mutant
ActiveWithout(active, found) ==
  IF ~found /\ active > 0 THEN active - 1 ELSE active

(* What World::RemoveQueuedPlayer(s) makes of a queue and the sessions: s  *)
(* leaves the queue if it is there, and the first in the queue is accepted *)
(* if the active sessions, less s when s was active, are below the limit.  *)
RemoveQueuedPlayer(st, s) ==
  LET found == Contains(st.queue, s)
      active == GetActiveAndQueuedSessionCount(m_sessions) - Len(st.queue)
      left == [queue |-> Erase(st.queue, s),
               session |-> IF found
                           THEN [st.session EXCEPT ![s].inQueue = FALSE]
                           ELSE st.session]
  IN IF HasRoom(ActiveWithout(active, found)) /\ left.queue # <<>>
     THEN AcceptFirst(left)
     ELSE left

QueueState == [queue |-> m_QueuedPlayer, session |-> session]

(* difftime(i->second, now) is the recorded time less the present one.     *)
HasRecentlyDisconnected(a) ==
  /\ Tolerance > 0
  /\ m_disconnects[a] # Never
  /\ m_disconnects[a] < now + Tolerance

-----------------------------------------------------------------------------
(* Network threads *)

(* The permissions of an authenticated account have come: its session is   *)
(* handed to the world thread.                                             *)
NewConnection(s) ==
  /\ ~Alive(s)
  /\ pc # "stopped"
  /\ session' = [session EXCEPT ![s] = NewSession]
  /\ addSessQueue' = Append(addSessQueue, s)
  /\ UNCHANGED <<worldVars, linkSocketQueue, inWorld, now, threadVars>>

(* A socket is lost, or closed by its network thread.                      *)
NetworkClose(s) ==
  /\ Alive(s)
  /\ \/ /\ session[s].realm = "open"
        /\ session' = [session EXCEPT ![s].realm = "closed"]
     \/ /\ session[s].instance = "open"
        /\ session' = [session EXCEPT ![s].instance = "closed"]
  /\ UNCHANGED allButSession

(* The client opens the instance connection it was told to, and the socket *)
(* has authenticated.                                                      *)
HandleAuthContinuedSession(s) ==
  /\ Listed(s)
  /\ session[s].attempt > 0
  /\ ~session[s].linked
  /\ Len(linkSocketQueue) < MaxLogins                        \* bound
  /\ session' = [session EXCEPT ![s].linked = TRUE]
  /\ linkSocketQueue' =
       Append(linkSocketQueue, [session |-> s, current |-> TRUE])
  /\ UNCHANGED <<worldVars, addSessQueue, inWorld, now, threadVars>>

(* The client gives up on the last ConnectTo.  Run by the network thread   *)
(* of the realm socket, whatever the world thread is doing.                *)
HandleConnectToFailed(s) ==
  /\ Alive(s)
  /\ session[s].realm = "open"
  /\ session[s].attempt > 0
  /\ session[s].linked => LateFailure
  /\ session[s].loading # NoChar
  /\ \/ /\ ~LastAttempt(session[s])
        /\ session' = [session EXCEPT
             ![s] = SendConnectToInstance(@, @.attempt + 1)]
        /\ linkSocketQueue' = OutdateLinks(s)
     \/ /\ LastAttempt(session[s])                    \* AbortLogin
        /\ session' = [session EXCEPT
             ![s] = IF @.player # NoChar THEN KickPlayer(@)
                    ELSE [@ EXCEPT !.loading = NoChar, !.attempt = 0]]
        /\ UNCHANGED linkSocketQueue
  /\ UNCHANGED <<worldVars, addSessQueue, inWorld, now, threadVars>>

-----------------------------------------------------------------------------
(* Database threads *)

InitQueryDone(s) ==
  /\ session[s].init = "sent"
  /\ session' = [session EXCEPT ![s].init = "ready"]
  /\ UNCHANGED allButSession

LoginQueryDone(s) ==
  /\ \E i \in DOMAIN session[s].logins :
       /\ ~session[s].logins[i].ready
       /\ session' = [session EXCEPT ![s].logins[i].ready = TRUE]
  /\ UNCHANGED allButSession

-----------------------------------------------------------------------------
(* World thread, outside of UpdateSessions *)

(* .server plimit                                                          *)
SetPlayerAmountLimit(limit) ==
  /\ pc = "idle"
  /\ m_playerLimit' = limit
  /\ UNCHANGED <<m_sessions, m_QueuedPlayer, m_disconnects, addSessQueue,
                 linkSocketQueue, session, inWorld, now, threadVars>>

(* Kicked by a command, a ban, a packet handler or the anti-cheat checks.  *)
Kick(s) ==
  /\ Listed(s)
  /\ \/ pc = "idle"
     \/ pc = "packets" /\ s = current
  /\ session' = [session EXCEPT ![s] = KickPlayer(@)]
  /\ UNCHANGED allButSession

Tick ==
  /\ pc = "idle"
  /\ now < MaxTime
  /\ now' = now + 1
  /\ UNCHANGED <<worldVars, addSessQueue, linkSocketQueue, session, inWorld,
                 threadVars>>

(* The end of the server: everyone is kicked, and the sessions get one     *)
(* more update.                                                            *)
KickAll ==
  /\ pc = "idle"
  /\ ~stopping
  /\ stopping' = TRUE
  /\ m_QueuedPlayer' = <<>>
  /\ session' = [s \in Sessions |->
                   IF Listed(s) THEN KickPlayer(session[s]) ELSE session[s]]
  /\ pc' = "link"
  /\ UNCHANGED <<m_sessions, m_disconnects, m_playerLimit, addSessQueue,
                 linkSocketQueue, inWorld, now, current, toVisit>>

-----------------------------------------------------------------------------
(* World thread, in UpdateSessions *)

StartUpdateSessions ==
  /\ pc = "idle"
  /\ GoTo("link")

(* HandleContinuePlayerLogin, on a session an instance socket was given to *)
HandleContinuePlayerLogin(r) ==
  IF r.loading = NoChar \/ r.player # NoChar
  THEN KickPlayer(r)
  ELSE [r EXCEPT !.logins =
                   Append(@, [char |-> r.loading, ready |-> FALSE])]

(* The socket may be gone by now, and its session too.                     *)
ProcessLinkInstanceSocket ==
  /\ pc = "link"
  /\ linkSocketQueue # <<>>
  /\ linkSocketQueue' = Tail(linkSocketQueue)
  /\ LET link == Head(linkSocketQueue)
         s == link.session
     IN \/ UNCHANGED session                                 \* not IsOpen()
        \/ /\ link.current
           /\ Listed(s)
           /\ Len(session[s].logins) < MaxLogins              \* bound
           /\ session' = [session EXCEPT ![s] =
                HandleContinuePlayerLogin([@ EXCEPT !.instance = "open"])]
  /\ UNCHANGED <<worldVars, addSessQueue, inWorld, now, threadVars>>

LinksDone ==
  /\ pc = "link"
  /\ linkSocketQueue = <<>>
  /\ GoTo("add")

(* AddSession_: the account's present session is loading a character, so   *)
(* the new one is turned away.                                             *)
RejectSession ==
  /\ pc = "add"
  /\ addSessQueue # <<>>
  /\ LET s == Head(addSessQueue)
         old == m_sessions[AccountOf[s]]
     IN /\ old # NoSession
        /\ session[old].loading # NoChar
        /\ session' = [session EXCEPT ![s] = Deleted]
  /\ addSessQueue' = Tail(addSessQueue)
  /\ UNCHANGED <<worldVars, linkSocketQueue, inWorld, now, threadVars>>

(* AddSession_: the account's present session, if any, leaves the queue    *)
(* and is deleted, and the new one is queued or initialised.               *)
AddSession ==
  /\ pc = "add"
  /\ addSessQueue # <<>>
  /\ LET s == Head(addSessQueue)
         a == AccountOf[s]
         old == m_sessions[a]
         st == IF old = NoSession THEN QueueState
               ELSE RemoveQueuedPlayer(QueueState, old)
         decrease == old = NoSession \/ ~Contains(m_QueuedPlayer, old)
         kept == IF old = NoSession THEN st.session
                 ELSE [st.session EXCEPT ![old] = Deleted]
         total == GetActiveAndQueuedSessionCount([m_sessions EXCEPT ![a] = s])
         others == IF decrease THEN total - 1 ELSE total
     IN /\ old # NoSession => session[old].loading = NoChar
        /\ m_sessions' = [m_sessions EXCEPT ![a] = s]
        /\ inWorld' = IF old = NoSession THEN inWorld
                      ELSE OutOfWorld(session[old])
        /\ linkSocketQueue' = IF old = NoSession THEN linkSocketQueue
                              ELSE OutdateLinks(old)
        /\ IF /\ m_playerLimit > 0
              /\ others >= m_playerLimit
              /\ a \notin SkipQueue
              /\ ~HasRecentlyDisconnected(a)
           THEN /\ m_QueuedPlayer' = Append(st.queue, s)
                /\ session' = [kept EXCEPT ![s].inQueue = TRUE]
           ELSE /\ m_QueuedPlayer' = st.queue
                /\ session' = [kept EXCEPT ![s] = InitializeSession(@)]
  /\ addSessQueue' = Tail(addSessQueue)
  /\ UNCHANGED <<m_disconnects, m_playerLimit, now, threadVars>>

AddsDone ==
  /\ pc = "add"
  /\ addSessQueue = <<>>
  /\ pc' = "visit"
  /\ toVisit' = ListedAccounts
  /\ UNCHANGED <<worldVars, addSessQueue, linkSocketQueue, session, inWorld,
                 now, stopping, current>>

(* WorldSession::Update begins; an idle connection outside of the queue is *)
(* closed.                                                                 *)
BeginUpdate(a) ==
  /\ pc = "visit"
  /\ a \in toVisit
  /\ toVisit' = toVisit \ {a}
  /\ current' = m_sessions[a]
  /\ \/ UNCHANGED session
     \/ /\ ~session[m_sessions[a]].inQueue                 \* IsConnectionIdle
        /\ session' = [session EXCEPT ![m_sessions[a]].realm = "closed"]
  /\ pc' = "packets"
  /\ UNCHANGED <<worldVars, addSessQueue, linkSocketQueue, inWorld, now,
                 stopping>>

(* Packets of the session's receive queue, up to any number of them.       *)
HandlePlayerLoginOpcode(c) ==
  /\ pc = "packets"
  /\ ~session[current].inQueue                              \* STATUS_AUTHED
  /\ LET r == session[current]
     IN IF LoginBusy(r)
        THEN /\ session' = [session EXCEPT ![current] = KickPlayer(r)]
             /\ UNCHANGED linkSocketQueue
        ELSE IF OwnerOf[c] # AccountOf[current]
        THEN /\ session' = [session EXCEPT
                  ![current] = KickPlayer([r EXCEPT !.loading = c])]
             /\ UNCHANGED linkSocketQueue
        ELSE /\ session' = [session EXCEPT ![current] =
                  SendConnectToInstance([r EXCEPT !.loading = c], 1)]
             /\ linkSocketQueue' = OutdateLinks(current)
  /\ UNCHANGED <<worldVars, addSessQueue, inWorld, now, threadVars>>

(* A request refused (in combat, falling, duelling), granted at once, or   *)
(* granted in 20 seconds.                                                  *)
HandleLogoutRequestOpcode ==
  /\ pc = "packets"
  /\ session[current].player # NoChar                       \* LOGGEDIN
  /\ \/ /\ session' = [session EXCEPT ![current].logout = FALSE]
        /\ UNCHANGED inWorld
     \/ /\ session' = [session EXCEPT ![current] = LogoutPlayer(@)]
        /\ inWorld' = OutOfWorld(session[current])
     \/ /\ session' = [session EXCEPT ![current].logout = TRUE]
        /\ UNCHANGED inWorld
  /\ UNCHANGED <<worldVars, addSessQueue, linkSocketQueue, now, threadVars>>

HandleLogoutCancelOpcode ==
  /\ pc = "packets"
  /\ session[current].player # NoChar
  /\ session' = [session EXCEPT ![current].logout = FALSE]
  /\ UNCHANGED allButSession

PacketsDone ==
  /\ pc = "packets"
  /\ GoTo("callbacks")

(* ProcessQueryCallbacks: called here, and by the map updates for a        *)
(* session whose player is in the world.                                   *)
MayRunCallbacks(s) ==
  \/ pc = "callbacks" /\ s = current
  \/ pc = "idle" /\ Listed(s) /\ session[s].player # NoChar

InitializeSessionCallback(s) ==
  /\ MayRunCallbacks(s)
  /\ session[s].init = "ready"
  /\ session' = [session EXCEPT ![s] = Initialized(@)]
  /\ UNCHANGED allButSession

FirstReady(logins, i) ==
  logins[i].ready /\ \A j \in 1 .. (i - 1) : ~logins[j].ready

(* The character loads, or does not and the client is disconnected.        *)
HandlePlayerLogin(s) ==
  /\ MayRunCallbacks(s)
  /\ \E i \in DOMAIN session[s].logins :
       /\ FirstReady(session[s].logins, i)
       /\ LET c == session[s].logins[i].char
              r == [session[s] EXCEPT !.logins = RemoveAt(@, i),
                                      !.loading = NoChar]
          IN \/ /\ session' = [session EXCEPT
                     ![s] = KickPlayer([r EXCEPT !.player = NoChar])]
                /\ UNCHANGED inWorld
             \/ /\ session' = [session EXCEPT ![s] = [r EXCEPT !.player = c]]
                /\ inWorld' = [inWorld EXCEPT ![c] = @ + 1]
  /\ UNCHANGED <<worldVars, addSessQueue, linkSocketQueue, now, threadVars>>

CallbacksDone ==
  /\ pc = "callbacks"
  /\ session[current].init # "ready"
  /\ \A i \in DOMAIN session[current].logins :
       ~session[current].logins[i].ready
  /\ GoTo("logout")

(* ShouldLogOut: the 20 seconds may have passed.                           *)
LogoutIfDue ==
  /\ pc = "logout"
  /\ pc' = "sockets"
  /\ \/ UNCHANGED <<session, inWorld>>
     \/ /\ session[current].logout
        /\ session[current].loading = NoChar
        /\ session' = [session EXCEPT ![current] = LogoutPlayer(@)]
        /\ inWorld' = OutOfWorld(session[current])
  /\ UNCHANGED <<worldVars, addSessQueue, linkSocketQueue, now, stopping,
                 current, toVisit>>

(* A session that has lost a socket counts down, and gives up its sockets  *)
(* when the count is over, it was kicked, or it has no player.             *)
SocketLost(r) == r.realm = "closed" \/ r.instance = "closed"
NoCountDown(r) == r.expire                                          \* mutant
CountDown(r) == IF r.expire > 1 THEN r.expire - 1 ELSE 0
GivesUp(r) ==
  SocketLost(r) /\ (CountDown(r) = 0 \/ r.forceExit \/ r.player = NoChar)

KeepSession ==
  /\ pc = "sockets"
  /\ ~GivesUp(session[current])
  /\ session' = IF SocketLost(session[current])
                THEN [session EXCEPT ![current].expire =
                        CountDown(session[current])]
                ELSE session
  /\ pc' = "visit"
  /\ current' = NoSession
  /\ UNCHANGED <<worldVars, addSessQueue, linkSocketQueue, inWorld, now,
                 stopping, toVisit>>

(* Update returned false: the session leaves the queue (which is asked     *)
(* twice), the map, and is deleted.                                        *)
DropSession ==
  /\ pc = "sockets"
  /\ GivesUp(session[current])
  /\ LET a == AccountOf[current]
         once == RemoveQueuedPlayer(QueueState, current)
         twice == RemoveQueuedPlayer(once, current)
     IN /\ m_QueuedPlayer' = twice.queue
        /\ session' = [twice.session EXCEPT ![current] = Deleted]
        /\ m_disconnects' =
             IF Tolerance > 0 /\ ~Contains(m_QueuedPlayer, current)
             THEN [m_disconnects EXCEPT ![a] = now]
             ELSE m_disconnects
        /\ m_sessions' = [m_sessions EXCEPT ![a] = NoSession]
  /\ inWorld' = OutOfWorld(session[current])
  /\ linkSocketQueue' = OutdateLinks(current)
  /\ pc' = "visit"
  /\ current' = NoSession
  /\ UNCHANGED <<m_playerLimit, addSessQueue, now, stopping, toVisit>>

UpdateSessionsDone ==
  /\ pc = "visit"
  /\ toVisit = {}
  /\ GoTo(IF stopping THEN "stopped" ELSE "idle")

Stopped ==
  /\ pc = "stopped"
  /\ UNCHANGED vars

-----------------------------------------------------------------------------

Network ==
  \E s \in Sessions :
    NewConnection(s) \/ NetworkClose(s) \/ HandleAuthContinuedSession(s)
      \/ HandleConnectToFailed(s)

Database(s) == InitQueryDone(s) \/ LoginQueryDone(s)

Commands ==
  \/ \E limit \in Limits : SetPlayerAmountLimit(limit)
  \/ \E s \in Sessions : Kick(s)
  \/ Tick
  \/ KickAll

Packets ==
  \/ \E c \in Chars : HandlePlayerLoginOpcode(c)
  \/ HandleLogoutRequestOpcode
  \/ HandleLogoutCancelOpcode

Callback(s) == InitializeSessionCallback(s) \/ HandlePlayerLogin(s)

(* The steps the world thread takes whatever the others do.                *)
WorldThread ==
  \/ StartUpdateSessions
  \/ ProcessLinkInstanceSocket \/ LinksDone
  \/ RejectSession \/ AddSession \/ AddsDone
  \/ \E a \in Accounts : BeginUpdate(a)
  \/ PacketsDone \/ CallbacksDone \/ LogoutIfDue
  \/ KeepSession \/ DropSession \/ UpdateSessionsDone

Next ==
  \/ Network
  \/ \E s \in Sessions : Database(s) \/ Callback(s)
  \/ Commands
  \/ Packets
  \/ WorldThread
  \/ Stopped

Spec == Init /\ [][Next]_vars

(* Fairness.  The world thread goes on, and the database threads answer.   *)
(* AddsDone and LinksDone need strong fairness: connections arrive at the  *)
(* pace of the clients, so the world thread does find its queues empty.    *)
FairSpec ==
  /\ Spec
  /\ WF_vars(WorldThread)
  /\ SF_vars(AddsDone)
  /\ SF_vars(LinksDone)
  /\ \A s \in Sessions :
       /\ WF_vars(InitQueryDone(s))
       /\ WF_vars(LoginQueryDone(s))
       /\ WF_vars(pc = "callbacks" /\ Callback(s))

-----------------------------------------------------------------------------
(* Properties *)

TypeOK ==
  /\ m_sessions \in [Accounts -> Sessions \cup {NoSession}]
  /\ m_QueuedPlayer \in Seq(Sessions)
  /\ addSessQueue \in Seq(Sessions)
  /\ linkSocketQueue \in Seq(Link)
  /\ m_disconnects \in [Accounts -> Times \cup {Never}]
  /\ m_playerLimit \in Limits \cup {InitialLimit}
  /\ session \in [Sessions -> SessionState]
  /\ inWorld \in [Chars -> Nat]
  /\ now \in Times
  /\ stopping \in BOOLEAN
  /\ pc \in PCs
  /\ current \in Sessions \cup {NoSession}
  /\ toVisit \subseteq Accounts

(* The queue of players holds no pointer to a deleted session and no       *)
(* session twice, whatever was deleted, replaced or kicked in between:     *)
(* RemoveQueuedPlayer is the only way out, and it erases one entry.        *)
QueueOfLiveSessions ==
  /\ \A i \in DOMAIN m_QueuedPlayer : Listed(m_QueuedPlayer[i])
  /\ \A i, j \in DOMAIN m_QueuedPlayer :
       m_QueuedPlayer[i] = m_QueuedPlayer[j] => i = j

(* m_inQueue and the queue may differ only while the initialisation that   *)
(* clears the flag is on its way: no session waits for a turn that cannot  *)
(* come, and none in the queue has been let through.                       *)
NobodyStranded ==
  \A s \in Sessions :
    /\ Contains(m_QueuedPlayer, s) =>
         session[s].inQueue /\ session[s].init = "none"
    /\ Listed(s) /\ session[s].inQueue /\ ~stopping =>
         Contains(m_QueuedPlayer, s) \/ session[s].init # "none"

(* With a limit that does not change, players wait only while the server   *)
(* is full: whoever leaves, however, makes room for the next.              *)
NobodyWaitsForNothing ==
  m_QueuedPlayer # <<>> =>
    m_playerLimit > 0 /\ GetActiveSessionCount >= m_playerLimit

(* With a limit that does not change and no tolerance for disconnects, the *)
(* sessions let in that may not skip the queue are never above the limit.  *)
LetIn(s) == session[s].inQueue => session[s].init # "none"
LimitKept ==
  m_playerLimit > 0 =>
    Cardinality({a \in ListedAccounts \ SkipQueue : LetIn(m_sessions[a])})
      <= m_playerLimit

(* Even with the limit changed at run time, a queue always has an active   *)
(* session ahead of it, whose end will let the next one in.                *)
QueueCanMove == m_QueuedPlayer # <<>> => GetActiveSessionCount > 0

(* With a limit that does not change, no session that must queue is        *)
(* initialised while others wait that came before it.                      *)
NoOvertaking ==
  [][\A s \in Sessions :
       /\ session[s].init = "none" /\ session'[s].init = "sent"
       /\ AccountOf[s] \notin SkipQueue
       => \A i \in DOMAIN m_QueuedPlayer :
            /\ Contains(m_QueuedPlayer', m_QueuedPlayer[i])
            => \E j \in 1 .. i : m_QueuedPlayer[j] = s]_vars

(* "each account can only have one online character at any given time":    *)
(* across logins, retries, kicks and replacement, the Player objects on    *)
(* the maps are those of the listed sessions, one for each.                *)
OneOnlineCharacter ==
  \A c \in Chars :
    /\ inWorld[c] <= 1
    /\ inWorld[c] = 1 =>
         \E s \in Sessions : Listed(s) /\ session[s].player = c

(* "real players unload required UpdateSessions call": after the kick and  *)
(* the one update of the shutdown no player is left in the world, not even *)
(* one whose login completed in that update.                               *)
ShutdownUnloadsPlayers ==
  pc = "stopped" => \A c \in Chars : inWorld[c] = 0

(* Admission within the tolerance: a session whose account disconnected    *)
(* Tolerance seconds ago or more reenters the queue of a full server.      *)
ToleranceExpires ==
  [][\A s \in Sessions :
       /\ pc = "add" /\ session[s].init = "none" /\ session'[s].init = "sent"
       /\ ~Listed(s) /\ AccountOf[s] \notin SkipQueue
       /\ m_playerLimit > 0 /\ Cardinality(ListedAccounts) >= m_playerLimit
       /\ m_sessions[AccountOf[s]] = NoSession
       => /\ m_disconnects[AccountOf[s]] # Never
          /\ now - m_disconnects[AccountOf[s]] < Tolerance]_vars

(* A session that was kicked, or lost its client, is removed; at the end   *)
(* of the server, by ~World.                                               *)
LostSessionIsRemoved ==
  \A s \in Sessions :
    (Listed(s) /\ session[s].realm = "closed") ~> (~Listed(s) \/ stopping)

(* A session let in is told so, unless it goes first.                      *)
AdmittedIsTold ==
  \A s \in Sessions :
    (Listed(s) /\ session[s].init = "sent")
      ~> \/ ~Listed(s) \/ stopping
         \/ session[s].init = "none" /\ ~session[s].inQueue

=============================================================================
