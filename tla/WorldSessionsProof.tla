------------------------ MODULE WorldSessionsProof ------------------------
(***************************************************************************)
(* Proofs about WorldSessions, for any sets of accounts, sessions and      *)
(* characters and any limits: its type invariant, and that the queue of    *)
(* players only ever points to live sessions, each once, that m_inQueue    *)
(* agrees with it, that a queue can always move, and that with a limit     *)
(* that does not change nobody waits for nothing, nobody is overtaken, and *)
(* the limit is kept.                                                      *)
(***************************************************************************)
EXTENDS WorldSessions, SequenceTheorems, FiniteSetTheorems, TLAPS

(* The methods of a session keep its type.                                 *)
LEMMA MethodsType ==
  ASSUME NEW r \in SessionState
  PROVE  /\ KickPlayer(r) \in SessionState
         /\ LogoutPlayer(r) \in SessionState
         /\ InitializeSession(r) \in SessionState
         /\ Initialized(r) \in SessionState
         /\ \A n \in 0 .. MaxAttempts :
              SendConnectToInstance(r, n) \in SessionState
<1>1. KickPlayer(r) \in SessionState
  BY DEF SessionState, KickPlayer
<1>2. LogoutPlayer(r) \in SessionState
  BY DEF SessionState, LogoutPlayer
<1>3. InitializeSession(r) \in SessionState
  BY DEF SessionState, InitializeSession
<1>4. Initialized(r) \in SessionState
  BY DEF SessionState, Initialized
<1>5. ASSUME NEW n \in 0 .. MaxAttempts
      PROVE  SendConnectToInstance(r, n) \in SessionState
  BY <1>5 DEF SessionState, SendConnectToInstance
<1> QED
  BY <1>1, <1>2, <1>3, <1>4, <1>5

LEMMA ConstructorType == NewSession \in SessionState /\ Deleted \in SessionState
<1>1. ExpireTicks \in 0 .. ExpireTicks /\ 0 \in 0 .. MaxAttempts
  BY NumbersAssumption DEF NumbersAssumption
<1>2. <<>> \in Seq(LoginQuery)
  OBVIOUS
<1>3. NewSession \in SessionState
  BY <1>1, <1>2 DEF SessionState, NewSession
<1> QED
  BY <1>3 DEF SessionState, Deleted

(* What RemoveAt of the community modules returns.                         *)
LEMMA RemoveAtFacts ==
  ASSUME NEW S, NEW q \in Seq(S), NEW p \in 1 .. Len(q)
  PROVE  /\ RemoveAt(q, p) \in Seq(S)
         /\ Len(RemoveAt(q, p)) = Len(q) - 1
         /\ \A k \in 1 .. (Len(q) - 1) :
              RemoveAt(q, p)[k] = IF k < p THEN q[k] ELSE q[k + 1]
<1> DEFINE f == SubSeq(q, 1, p - 1)
           b == SubSeq(q, p + 1, Len(q))
<1>1. f \in Seq(S) /\ Len(f) = p - 1 /\ \A k \in 1 .. (p - 1) : f[k] = q[k]
  OBVIOUS
<1>2. /\ b \in Seq(S)
      /\ Len(b) = Len(q) - p
      /\ \A k \in 1 .. (Len(q) - p) : b[k] = q[k + p]
  OBVIOUS
<1> HIDE DEF f, b
<1>3. RemoveAt(q, p) = f \o b
  BY DEF RemoveAt, f, b
<1>4. /\ f \o b \in Seq(S)
      /\ Len(f \o b) = Len(f) + Len(b)
      /\ \A k \in 1 .. Len(f) + Len(b) :
           (f \o b)[k] = IF k <= Len(f) THEN f[k] ELSE b[k - Len(f)]
  BY <1>1, <1>2, ConcatProperties
<1>5. ASSUME NEW k \in 1 .. (Len(q) - 1)
      PROVE  RemoveAt(q, p)[k] = IF k < p THEN q[k] ELSE q[k + 1]
  <2>1. CASE k < p
    BY <1>1, <1>2, <1>3, <1>4, <2>1
  <2>2. CASE k >= p
    <3>1. b[k - (p - 1)] = q[k - (p - 1) + p]
      BY <1>2, <2>2
    <3> QED
      BY <1>1, <1>2, <1>3, <1>4, <2>2, <3>1
  <2> QED
    BY <2>1, <2>2
<1> QED
  BY <1>1, <1>2, <1>3, <1>4, <1>5

(* Erasing from a queue without repetitions.                               *)
Distinct(q) == \A i, j \in 1 .. Len(q) : q[i] = q[j] => i = j

LEMMA EraseFacts ==
  ASSUME NEW q \in Seq(Sessions), Distinct(q), NEW s
  PROVE  /\ Erase(q, s) \in Seq(Sessions)
         /\ Distinct(Erase(q, s))
         /\ \A i \in 1 .. Len(Erase(q, s)) :
              /\ Erase(q, s)[i] # s
              /\ \E j \in 1 .. Len(q) : Erase(q, s)[i] = q[j]
<1>1. CASE ~Contains(q, s)
  BY <1>1 DEF Erase, Contains, Distinct
<1>2. CASE Contains(q, s)
  <2> DEFINE p == PositionOf(q, s)
             e == RemoveAt(q, p)
  <2>1. PICK i \in 1 .. Len(q) : q[i] = s
    BY <1>2 DEF Contains
  <2>2. \A j \in 1 .. (i - 1) : q[j] # s
    BY <2>1 DEF Distinct
  <2>3. p \in 1 .. Len(q) /\ q[p] = s
    BY <2>1, <2>2 DEF PositionOf
  <2> HIDE DEF p
  <2>4. /\ e \in Seq(Sessions)
        /\ Len(e) = Len(q) - 1
        /\ \A k \in 1 .. Len(e) : e[k] = IF k < p THEN q[k] ELSE q[k + 1]
    BY <2>3, RemoveAtFacts
  <2> HIDE DEF e
  <2>5. \A k \in 1 .. Len(e) : e[k] # s
    BY <2>3, <2>4 DEF Distinct
  <2>6. Distinct(e)
    BY <2>3, <2>4, SMTT(20) DEF Distinct
  <2>7. \A k \in 1 .. Len(e) : \E j \in 1 .. Len(q) : e[k] = q[j]
    BY <2>3, <2>4
  <2>8. Erase(q, s) = e
    BY <1>2 DEF Erase, e, p
  <2> QED
    BY <2>4, <2>5, <2>6, <2>7, <2>8
<1> QED
  BY <1>1, <1>2

(* What RemoveQueuedPlayer makes of a well-formed queue.                   *)
QueueOK(st) ==
  /\ st.queue \in Seq(Sessions)
  /\ st.session \in [Sessions -> SessionState]
  /\ Distinct(st.queue)

LEMMA RemoveQueuedPlayerFacts ==
  ASSUME NEW st, QueueOK(st), NEW s \in Sessions
  PROVE  /\ QueueOK(RemoveQueuedPlayer(st, s))
         /\ \A i \in 1 .. Len(RemoveQueuedPlayer(st, s).queue) :
              /\ RemoveQueuedPlayer(st, s).queue[i] # s
              /\ \E j \in 1 .. Len(st.queue) :
                   RemoveQueuedPlayer(st, s).queue[i] = st.queue[j]
<1> DEFINE q == Erase(st.queue, s)
           f == IF Contains(st.queue, s)
                THEN [st.session EXCEPT ![s].inQueue = FALSE]
                ELSE st.session
           left == [queue |-> q, session |-> f]
           out == RemoveQueuedPlayer(st, s)
<1>1. /\ q \in Seq(Sessions)
      /\ Distinct(q)
      /\ \A i \in 1 .. Len(q) :
           q[i] # s /\ \E j \in 1 .. Len(st.queue) : q[i] = st.queue[j]
  <2>1. st.queue \in Seq(Sessions) /\ Distinct(st.queue)
    BY DEF QueueOK
  <2> QED
    BY <2>1, EraseFacts
<1>2. f \in [Sessions -> SessionState]
  <2>1. st.session \in [Sessions -> SessionState]
    BY DEF QueueOK
  <2>2. \A r \in SessionState : [r EXCEPT !.inQueue = FALSE] \in SessionState
    BY DEF SessionState
  <2>3. [st.session[s] EXCEPT !.inQueue = FALSE] \in SessionState
    BY <2>1, <2>2
  <2> QED
    BY <2>1, <2>3
<1> HIDE DEF q, f
<1>3. CASE out = left
  <2>1. out.queue = q /\ out.session = f
    BY <1>3
  <2> QED
    BY <1>1, <1>2, <2>1 DEF QueueOK
<1>4. CASE out = AcceptFirst(left) /\ q # <<>>
  <2>1. /\ Head(q) \in Sessions
        /\ Tail(q) \in Seq(Sessions)
        /\ Len(Tail(q)) = Len(q) - 1
        /\ \A i \in 1 .. Len(Tail(q)) : Tail(q)[i] = q[i + 1]
    BY <1>1, <1>4, HeadTailProperties
  <2>2. InitializeSession(f[Head(q)]) \in SessionState
    BY <1>2, <2>1, MethodsType
  <2>3. out.queue = Tail(q)
    BY <1>4 DEF AcceptFirst
  <2>4. out.session = [f EXCEPT ![Head(q)] = InitializeSession(f[Head(q)])]
    BY <1>4 DEF AcceptFirst
  <2>5. out.session \in [Sessions -> SessionState]
    BY <1>2, <2>1, <2>2, <2>4
  <2>6. Distinct(Tail(q))
    BY <1>1, <2>1 DEF Distinct
  <2>7. \A i \in 1 .. Len(Tail(q)) :
          Tail(q)[i] # s /\ \E j \in 1 .. Len(st.queue) : Tail(q)[i] = st.queue[j]
    BY <1>1, <2>1
  <2> QED
    BY <2>1, <2>3, <2>5, <2>6, <2>7 DEF QueueOK
<1>5. out = left \/ (out = AcceptFirst(left) /\ q # <<>>)
  BY DEF RemoveQueuedPlayer, q, f
<1> QED
  BY <1>3, <1>4, <1>5

-----------------------------------------------------------------------------
(* The inductive invariant *)

Updating == pc \in {"packets", "callbacks", "logout", "sockets"}

(* An account's session is a session of that account.                      *)
Registered ==
  \A a \in Accounts : m_sessions[a] # NoSession => AccountOf[m_sessions[a]] = a

(* The session being updated is listed, and the loop does not come to its  *)
(* account again; nor does it come to one without a session.               *)
AtLiveSession ==
  /\ Updating => /\ current \in Sessions
                 /\ Listed(current)
                 /\ AccountOf[current] \notin toVisit
  /\ Updating \/ pc = "visit" => \A a \in toVisit : m_sessions[a] # NoSession

(* Sessions on their way to the world thread are not listed, and are on    *)
(* their way once.                                                         *)
NewSessions ==
  /\ \A i \in 1 .. Len(addSessQueue) : ~Listed(addSessQueue[i])
  /\ Distinct(addSessQueue)

IInv ==
  /\ TypeOK
  /\ Registered
  /\ AtLiveSession
  /\ NewSessions
  /\ QueueOfLiveSessions

LEMMA InitIInv == Init => IInv
<1> SUFFICES ASSUME Init PROVE IInv
  OBVIOUS
<1> USE DEF Init
<1>1. session \in [Sessions -> SessionState]
  BY ConstructorType
<1>2. now \in Times
  BY NumbersAssumption DEF NumbersAssumption, Times
<1>3. TypeOK
  BY <1>1, <1>2, EmptySeq DEF TypeOK, PCs
<1>4. Registered /\ AtLiveSession
  BY DEF Registered, AtLiveSession, Updating
<1>5. NewSessions /\ QueueOfLiveSessions
  BY DEF NewSessions, QueueOfLiveSessions, Distinct
<1> QED
  BY <1>3, <1>4, <1>5 DEF IInv

(* Most steps only change the fields of sessions.                          *)
LEMMA FieldsOnly ==
  ASSUME IInv, UNCHANGED allButSession, session' \in [Sessions -> SessionState]
  PROVE  IInv'
<1> USE DEF allButSession, worldVars, threadVars
<1>1. TypeOK'
  BY DEF IInv, TypeOK
<1>2. Registered' /\ AtLiveSession'
  BY DEF IInv, Registered, AtLiveSession, Updating, Listed
<1>3. NewSessions' /\ QueueOfLiveSessions'
  BY DEF IInv, NewSessions, QueueOfLiveSessions, Listed
<1> QED
  BY <1>1, <1>2, <1>3 DEF IInv

(* ... and perhaps the links and the players in the world.                 *)
LEMMA FieldsAndWorld ==
  ASSUME IInv,
         UNCHANGED <<worldVars, addSessQueue, now, threadVars>>,
         session' \in [Sessions -> SessionState],
         linkSocketQueue' \in Seq(Link),
         inWorld' \in [Chars -> Nat]
  PROVE  IInv'
<1> USE DEF worldVars, threadVars
<1>1. TypeOK'
  BY DEF IInv, TypeOK
<1>2. Registered' /\ AtLiveSession'
  BY DEF IInv, Registered, AtLiveSession, Updating, Listed
<1>3. NewSessions' /\ QueueOfLiveSessions'
  BY DEF IInv, NewSessions, QueueOfLiveSessions, Listed
<1> QED
  BY <1>1, <1>2, <1>3 DEF IInv

(* Outdating the links of a session keeps the type of the link queue, and  *)
(* taking a player out of the world that of the world.                     *)
LEMMA OutdateLinksType ==
  ASSUME TypeOK, NEW s
  PROVE  OutdateLinks(s) \in Seq(Link)
<1>1. /\ linkSocketQueue \in [1 .. Len(linkSocketQueue) -> Link]
      /\ Len(linkSocketQueue) \in Nat
      /\ DOMAIN linkSocketQueue = 1 .. Len(linkSocketQueue)
  BY LenProperties DEF TypeOK
<1>2. \A l \in Link : [l EXCEPT !.current = FALSE] \in Link
  BY DEF Link
<1>3. OutdateLinks(s) \in [1 .. Len(linkSocketQueue) -> Link]
  BY <1>1, <1>2 DEF OutdateLinks
<1> QED
  BY <1>1, <1>3, SeqDef

LEMMA OutOfWorldType ==
  ASSUME TypeOK, NEW r \in SessionState
  PROVE  OutOfWorld(r) \in [Chars -> Nat]
<1>1. r.player \in Chars \cup {NoChar} /\ inWorld \in [Chars -> Nat]
  BY DEF SessionState, TypeOK
<1>2. \A n \in Nat : (IF n = 0 THEN 0 ELSE n - 1) \in Nat
  OBVIOUS
<1> QED
  BY <1>1, <1>2 DEF OutOfWorld

-----------------------------------------------------------------------------
(* The steps of the other threads *)

LEMMA NetworkStep ==
  ASSUME IInv, NEW s \in Sessions,
         NewConnection(s) \/ NetworkClose(s) \/ HandleAuthContinuedSession(s)
           \/ HandleConnectToFailed(s)
  PROVE  IInv'
<1>1. session \in [Sessions -> SessionState] /\ linkSocketQueue \in Seq(Link)
  BY DEF IInv, TypeOK
<1>2. CASE NewConnection(s)
  <2>1. session' \in [Sessions -> SessionState]
    BY <1>1, <1>2, ConstructorType DEF NewConnection
  <2>2. addSessQueue \in Seq(Sessions)
    BY DEF IInv, TypeOK
  <2>3. /\ addSessQueue' \in Seq(Sessions)
        /\ Len(addSessQueue') = Len(addSessQueue) + 1
        /\ \A i \in 1 .. Len(addSessQueue) : addSessQueue'[i] = addSessQueue[i]
        /\ addSessQueue'[Len(addSessQueue) + 1] = s
    BY <1>2, <2>2, AppendProperties DEF NewConnection
  <2>4. TypeOK'
    BY <1>2, <2>1, <2>3 DEF NewConnection, worldVars, threadVars, IInv, TypeOK
  <2>5. Registered' /\ AtLiveSession' /\ QueueOfLiveSessions'
    BY <1>2 DEF NewConnection, worldVars, threadVars, IInv, Registered,
                AtLiveSession, Updating, QueueOfLiveSessions, Listed
  <2>6. NewSessions'
    BY <1>2, <2>2, <2>3 DEF NewConnection, worldVars, IInv, NewSessions,
                            Distinct, Listed, Alive, Contains
  <2> QED
    BY <2>4, <2>5, <2>6 DEF IInv
<1>3. CASE NetworkClose(s)
  <2>1. \A r \in SessionState : [r EXCEPT !.realm = "closed"] \in SessionState
    BY DEF SessionState
  <2>2. \A r \in SessionState : [r EXCEPT !.instance = "closed"] \in SessionState
    BY DEF SessionState
  <2> QED
    BY <1>1, <1>3, <2>1, <2>2, FieldsOnly DEF NetworkClose
<1>4. CASE HandleAuthContinuedSession(s)
  <2>1. [session[s] EXCEPT !.linked = TRUE] \in SessionState
    BY <1>1, ZenonT(60) DEF SessionState
  <2>2. linkSocketQueue' \in Seq(Link)
    BY <1>1, <1>4, AppendProperties DEF HandleAuthContinuedSession, Link
  <2>3. inWorld' \in [Chars -> Nat]
    BY <1>4 DEF HandleAuthContinuedSession, IInv, TypeOK
  <2> QED
    BY <1>1, <1>4, <2>1, <2>2, <2>3, FieldsAndWorld
    DEF HandleAuthContinuedSession
<1>5. CASE HandleConnectToFailed(s)
  <2> DEFINE r == session[s]
  <2>1. ~LastAttempt(r) =>
          SendConnectToInstance(r, r.attempt + 1) \in SessionState
    <3>1. r \in SessionState /\ r.attempt \in 0 .. MaxAttempts
      BY <1>1 DEF SessionState
    <3>2. ~LastAttempt(r) => r.attempt + 1 \in 0 .. MaxAttempts
      BY <3>1, NumbersAssumption DEF NumbersAssumption, LastAttempt
    <3> QED
      BY <3>1, <3>2, MethodsType
  <2>2. KickPlayer(r) \in SessionState
    BY <1>1, MethodsType
  <2>3. [r EXCEPT !.loading = NoChar, !.attempt = 0] \in SessionState
    <3>1. 0 \in 0 .. MaxAttempts
      BY NumbersAssumption DEF NumbersAssumption
    <3>2. \A x \in SessionState :
            [x EXCEPT !.loading = NoChar, !.attempt = 0] \in SessionState
      BY <3>1 DEF SessionState
    <3> QED
      BY <1>1, <3>2
  <2>4. session' \in [Sessions -> SessionState]
    BY <1>1, <1>5, <2>1, <2>2, <2>3 DEF HandleConnectToFailed
  <2>5. linkSocketQueue' \in Seq(Link)
    BY <1>1, <1>5, OutdateLinksType DEF HandleConnectToFailed, IInv
  <2>6. inWorld' \in [Chars -> Nat]
    BY <1>5 DEF HandleConnectToFailed, IInv, TypeOK
  <2> QED
    BY <1>5, <2>4, <2>5, <2>6, FieldsAndWorld DEF HandleConnectToFailed
<1> QED
  BY <1>2, <1>3, <1>4, <1>5

LEMMA DatabaseStep ==
  ASSUME IInv, NEW s \in Sessions, Database(s)
  PROVE  IInv'
<1>1. session \in [Sessions -> SessionState]
  BY DEF IInv, TypeOK
<1>2. CASE InitQueryDone(s)
  <2>1. \A x \in SessionState : [x EXCEPT !.init = "ready"] \in SessionState
    BY DEF SessionState
  <2>2. [session[s] EXCEPT !.init = "ready"] \in SessionState
    BY <1>1, <2>1
  <2>3. session' \in [Sessions -> SessionState]
    BY <1>1, <1>2, <2>2 DEF InitQueryDone
  <2> QED
    BY <1>2, <2>3, FieldsOnly DEF InitQueryDone
<1>3. CASE LoginQueryDone(s)
  <2>1. PICK i \in DOMAIN session[s].logins :
          session' = [session EXCEPT ![s].logins[i].ready = TRUE]
    BY <1>3 DEF LoginQueryDone
  <2> DEFINE q == session[s].logins
             p == [q EXCEPT ![i].ready = TRUE]
  <2>2. q \in Seq(LoginQuery) /\ i \in 1 .. Len(q) /\ q[i] \in LoginQuery
    BY <1>1, <2>1 DEF SessionState
  <2>3. [q[i] EXCEPT !.ready = TRUE] \in LoginQuery
    BY <2>2 DEF LoginQuery
  <2>4. p \in Seq(LoginQuery)
    BY <2>2, <2>3, ExceptSeq
  <2>5. \A r \in SessionState, l \in Seq(LoginQuery) :
          [r EXCEPT !.logins = l] \in SessionState
    BY DEF SessionState
  <2>6. session' = [session EXCEPT ![s] = [session[s] EXCEPT !.logins = p]]
    BY <2>1
  <2>7. session' \in [Sessions -> SessionState]
    BY <1>1, <2>4, <2>5, <2>6
  <2> QED
    BY <1>3, <2>7, FieldsOnly DEF LoginQueryDone
<1> QED
  BY <1>2, <1>3 DEF Database

LEMMA CommandsStep ==
  ASSUME IInv, Commands
  PROVE  IInv'
<1>1. session \in [Sessions -> SessionState]
  BY DEF IInv, TypeOK
<1>2. ASSUME NEW limit \in Limits, SetPlayerAmountLimit(limit)
      PROVE  IInv'
  BY <1>2 DEF SetPlayerAmountLimit, threadVars, IInv, TypeOK, Registered,
              AtLiveSession, Updating, NewSessions, QueueOfLiveSessions, Listed
<1>3. ASSUME NEW s \in Sessions, Kick(s)
      PROVE  IInv'
  BY <1>1, <1>3, MethodsType, FieldsOnly DEF Kick
<1>4. ASSUME Tick
      PROVE  IInv'
  <2>1. now' \in Times
    BY <1>4, NumbersAssumption DEF Tick, IInv, TypeOK, Times, NumbersAssumption
  <2> QED
    BY <1>4, <2>1 DEF Tick, worldVars, threadVars, IInv, TypeOK, Registered,
              AtLiveSession, Updating, NewSessions, QueueOfLiveSessions, Listed
<1>5. ASSUME KickAll
      PROVE  IInv'
  <2>1. session' \in [Sessions -> SessionState]
    BY <1>1, <1>5, MethodsType DEF KickAll
  <2>2. TypeOK'
    BY <1>5, <2>1, EmptySeq DEF KickAll, IInv, TypeOK, PCs
  <2>3. Registered' /\ AtLiveSession'
    BY <1>5 DEF KickAll, IInv, Registered, AtLiveSession, Updating, Listed
  <2>4. NewSessions' /\ QueueOfLiveSessions'
    BY <1>5 DEF KickAll, IInv, NewSessions, QueueOfLiveSessions, Listed, Distinct
  <2> QED
    BY <2>2, <2>3, <2>4 DEF IInv
<1> QED
  BY <1>2, <1>3, <1>4, <1>5 DEF Commands

-----------------------------------------------------------------------------
(* The steps of the world thread *)

LEMMA GoToStep ==
  ASSUME IInv,
         StartUpdateSessions \/ LinksDone \/ PacketsDone \/ CallbacksDone
           \/ UpdateSessionsDone
  PROVE  IInv'
<1>1. TypeOK'
  BY DEF StartUpdateSessions, LinksDone, PacketsDone, CallbacksDone,
         UpdateSessionsDone, GoTo, worldVars, IInv, TypeOK, PCs
<1>2. Registered' /\ AtLiveSession'
  BY DEF StartUpdateSessions, LinksDone, PacketsDone, CallbacksDone,
         UpdateSessionsDone, GoTo, worldVars, IInv, Registered, AtLiveSession,
         Updating, Listed
<1>3. NewSessions' /\ QueueOfLiveSessions'
  BY DEF StartUpdateSessions, LinksDone, PacketsDone, CallbacksDone,
         UpdateSessionsDone, GoTo, worldVars, IInv, NewSessions,
         QueueOfLiveSessions, Listed
<1> QED
  BY <1>1, <1>2, <1>3 DEF IInv

LEMMA ContinueType ==
  ASSUME NEW r \in SessionState
  PROVE  HandleContinuePlayerLogin(r) \in SessionState
<1>1. KickPlayer(r) \in SessionState
  BY MethodsType
<1>2. ASSUME r.loading # NoChar
      PROVE  [r EXCEPT !.logins =
                Append(@, [char |-> r.loading, ready |-> FALSE])] \in SessionState
  <2>1. r.logins \in Seq(LoginQuery) /\ r.loading \in Chars
    BY <1>2 DEF SessionState
  <2>2. Append(r.logins, [char |-> r.loading, ready |-> FALSE]) \in Seq(LoginQuery)
    BY <2>1, AppendProperties DEF LoginQuery
  <2>3. \A l \in Seq(LoginQuery) : [r EXCEPT !.logins = l] \in SessionState
    BY DEF SessionState
  <2> QED
    BY <2>2, <2>3
<1> QED
  BY <1>1, <1>2 DEF HandleContinuePlayerLogin

LEMMA LinkStep ==
  ASSUME IInv, ProcessLinkInstanceSocket
  PROVE  IInv'
<1> DEFINE s == Head(linkSocketQueue).session
<1>1. /\ session \in [Sessions -> SessionState]
      /\ linkSocketQueue \in Seq(Link)
      /\ linkSocketQueue # <<>>
      /\ inWorld \in [Chars -> Nat]
  BY DEF IInv, TypeOK, ProcessLinkInstanceSocket
<1>2. linkSocketQueue' \in Seq(Link) /\ s \in Sessions
  <2>1. Head(linkSocketQueue) \in Link /\ Tail(linkSocketQueue) \in Seq(Link)
    BY <1>1, HeadTailProperties
  <2> QED
    BY <2>1 DEF ProcessLinkInstanceSocket, Link
<1>3. session' \in [Sessions -> SessionState]
  <2>1. \A r \in SessionState : [r EXCEPT !.instance = "open"] \in SessionState
    BY DEF SessionState
  <2>2. HandleContinuePlayerLogin([session[s] EXCEPT !.instance = "open"])
          \in SessionState
    BY <1>1, <1>2, <2>1, ContinueType
  <2> QED
    BY <1>1, <1>2, <2>2 DEF ProcessLinkInstanceSocket
<1> QED
  BY <1>1, <1>2, <1>3, FieldsAndWorld DEF ProcessLinkInstanceSocket

(* Taking the head of addSessQueue keeps the others new.                   *)
LEMMA NextNewSession ==
  ASSUME IInv, addSessQueue # <<>>, addSessQueue' = Tail(addSessQueue)
  PROVE  /\ Head(addSessQueue) \in Sessions
         /\ ~Listed(Head(addSessQueue))
         /\ addSessQueue' \in Seq(Sessions)
         /\ Distinct(addSessQueue')
         /\ \A i \in 1 .. Len(addSessQueue') :
              /\ ~Listed(addSessQueue'[i])
              /\ addSessQueue'[i] # Head(addSessQueue)
<1>1. addSessQueue \in Seq(Sessions) /\ NewSessions
  BY DEF IInv, TypeOK
<1>2. /\ Head(addSessQueue) \in Sessions
      /\ Head(addSessQueue) = addSessQueue[1]
      /\ Len(addSessQueue) \in Nat \ {0}
      /\ addSessQueue' \in Seq(Sessions)
      /\ Len(addSessQueue') = Len(addSessQueue) - 1
      /\ \A i \in 1 .. Len(addSessQueue') :
           addSessQueue'[i] = addSessQueue[i + 1]
  BY <1>1, HeadTailProperties
<1> QED
  BY <1>1, <1>2 DEF NewSessions, Distinct

LEMMA RejectStep ==
  ASSUME IInv, RejectSession
  PROVE  IInv'
<1>1. /\ addSessQueue # <<>>
      /\ addSessQueue' = Tail(addSessQueue)
      /\ UNCHANGED <<worldVars, linkSocketQueue, inWorld, now, threadVars>>
  BY DEF RejectSession
<1>2. session' \in [Sessions -> SessionState]
  <2>1. session \in [Sessions -> SessionState]
    BY DEF IInv, TypeOK
  <2>2. session' = [session EXCEPT ![Head(addSessQueue)] = Deleted]
    BY DEF RejectSession
  <2> QED
    BY <2>1, <2>2, ConstructorType
<1>3. TypeOK'
  BY <1>1, <1>2, NextNewSession DEF IInv, TypeOK, worldVars, threadVars
<1>4. Registered' /\ AtLiveSession' /\ QueueOfLiveSessions'
  BY <1>1 DEF IInv, worldVars, threadVars, Registered, AtLiveSession, Updating,
              QueueOfLiveSessions, Listed
<1>5. NewSessions'
  BY <1>1, NextNewSession DEF worldVars, NewSessions, Listed
<1> QED
  BY <1>3, <1>4, <1>5 DEF IInv

(* Whichever session a new one replaces leaves the queue first.            *)
LEMMA AddStep ==
  ASSUME IInv, AddSession
  PROVE  IInv'
<1> DEFINE s == Head(addSessQueue)
           a == AccountOf[s]
           old == m_sessions[a]
           st == IF old = NoSession THEN QueueState
                 ELSE RemoveQueuedPlayer(QueueState, old)
           kept == IF old = NoSession THEN st.session
                   ELSE [st.session EXCEPT ![old] = Deleted]
<1>1. /\ addSessQueue # <<>>
      /\ addSessQueue' = Tail(addSessQueue)
      /\ m_sessions' = [m_sessions EXCEPT ![a] = s]
      /\ inWorld' = IF old = NoSession THEN inWorld
                    ELSE OutOfWorld(session[old])
      /\ linkSocketQueue' = IF old = NoSession THEN linkSocketQueue
                            ELSE OutdateLinks(old)
      /\ \/ /\ m_QueuedPlayer' = Append(st.queue, s)
            /\ session' = [kept EXCEPT ![s].inQueue = TRUE]
         \/ /\ m_QueuedPlayer' = st.queue
            /\ session' = [kept EXCEPT ![s] = InitializeSession(kept[s])]
      /\ pc = "add"
      /\ UNCHANGED <<m_disconnects, m_playerLimit, now, threadVars>>
  BY DEF AddSession, RejectSession
<1>2. /\ m_sessions \in [Accounts -> Sessions \cup {NoSession}]
      /\ session \in [Sessions -> SessionState]
      /\ m_QueuedPlayer \in Seq(Sessions)
      /\ Registered
      /\ TypeOK
      /\ QueueOfLiveSessions
  BY DEF IInv, TypeOK
<1>3. /\ s \in Sessions
      /\ ~Listed(s)
      /\ addSessQueue' \in Seq(Sessions)
      /\ Distinct(addSessQueue')
      /\ \A i \in 1 .. Len(addSessQueue') :
           ~Listed(addSessQueue'[i]) /\ addSessQueue'[i] # s
  BY <1>1, NextNewSession
<1>4. a \in Accounts /\ old \in Sessions \cup {NoSession} /\ s # NoSession
  BY <1>2, <1>3, SessionsAssumption DEF SessionsAssumption
<1>5. QueueOK(QueueState) /\ QueueState.queue = m_QueuedPlayer
  BY <1>2 DEF QueueOK, QueueState, QueueOfLiveSessions, Distinct
<1>6. /\ QueueOK(st)
      /\ \A i \in 1 .. Len(st.queue) :
           /\ \E j \in 1 .. Len(m_QueuedPlayer) : st.queue[i] = m_QueuedPlayer[j]
           /\ st.queue[i] # old
  <2>1. CASE old = NoSession
    <3>1. \A i \in 1 .. Len(m_QueuedPlayer) : m_QueuedPlayer[i] # NoSession
      BY <1>2, SessionsAssumption DEF SessionsAssumption
    <3> QED
      BY <1>5, <2>1, <3>1
  <2>2. CASE old \in Sessions /\ old # NoSession
    BY <1>5, <2>2, RemoveQueuedPlayerFacts
  <2> QED
    BY <1>4, <2>1, <2>2
<1> HIDE DEF st
<1>7. kept \in [Sessions -> SessionState]
  BY <1>4, <1>6, ConstructorType DEF QueueOK
<1> HIDE DEF kept
<1>8. session' \in [Sessions -> SessionState]
  <2>1. InitializeSession(kept[s]) \in SessionState
    BY <1>3, <1>7, MethodsType
  <2>2. \A r \in SessionState : [r EXCEPT !.inQueue = TRUE] \in SessionState
    BY DEF SessionState
  <2>3. [kept[s] EXCEPT !.inQueue = TRUE] \in SessionState
    BY <1>3, <1>7, <2>2
  <2> QED
    BY <1>1, <1>3, <1>7, <2>1, <2>3
<1>9. inWorld' \in [Chars -> Nat] /\ linkSocketQueue' \in Seq(Link)
  <2>1. inWorld \in [Chars -> Nat] /\ linkSocketQueue \in Seq(Link)
    BY <1>2 DEF TypeOK
  <2>2. CASE old = NoSession
    BY <1>1, <2>1, <2>2
  <2>3. CASE old # NoSession
    <3>1. session[old] \in SessionState
      BY <1>2, <1>4, <2>3
    <3> QED
      BY <1>1, <1>2, <2>3, <3>1, OutdateLinksType, OutOfWorldType
  <2> QED
    BY <2>2, <2>3
<1>10. \A i \in 1 .. Len(st.queue) :
         /\ m_sessions'[AccountOf[st.queue[i]]] = st.queue[i]
         /\ st.queue[i] # s
  <2> TAKE i \in 1 .. Len(st.queue)
  <2> DEFINE x == st.queue[i]
  <2>1. x \in Sessions /\ x # old /\ Listed(x)
    BY <1>2, <1>6 DEF QueueOK, QueueOfLiveSessions
  <2>2. AccountOf[x] \in Accounts /\ AccountOf[x] # a
    BY <2>1, SessionsAssumption DEF SessionsAssumption, Listed
  <2> QED
    BY <1>1, <1>2, <1>3, <2>1, <2>2 DEF Listed
<1>11. m_QueuedPlayer' \in Seq(Sessions) /\ QueueOfLiveSessions'
  <2>1. st.queue \in Seq(Sessions) /\ Distinct(st.queue)
    BY <1>6 DEF QueueOK
  <2>2. m_sessions'[AccountOf[s]] = s
    BY <1>1, <1>2, <1>4
  <2>3. CASE m_QueuedPlayer' = st.queue
    BY <1>10, <2>1, <2>3 DEF QueueOfLiveSessions, Listed, Distinct
  <2>4. CASE m_QueuedPlayer' = Append(st.queue, s)
    <3>1. /\ m_QueuedPlayer' \in Seq(Sessions)
          /\ Len(m_QueuedPlayer') = Len(st.queue) + 1
          /\ \A i \in 1 .. Len(st.queue) : m_QueuedPlayer'[i] = st.queue[i]
          /\ m_QueuedPlayer'[Len(st.queue) + 1] = s
      BY <1>3, <2>1, <2>4, AppendProperties
    <3>2. \A i \in DOMAIN m_QueuedPlayer' : Listed(m_QueuedPlayer[i])'
      BY <1>10, <2>1, <2>2, <3>1 DEF Listed
    <3>3. \A i, j \in DOMAIN m_QueuedPlayer' :
            m_QueuedPlayer'[i] = m_QueuedPlayer'[j] => i = j
      BY <1>10, <2>1, <3>1 DEF Distinct
    <3> QED
      BY <3>1, <3>2, <3>3 DEF QueueOfLiveSessions
  <2> QED
    BY <1>1, <2>3, <2>4
<1>12. TypeOK'
  BY <1>1, <1>2, <1>3, <1>4, <1>8, <1>9, <1>11 DEF TypeOK, threadVars
<1>13. Registered' /\ AtLiveSession'
  BY <1>1, <1>2, <1>4 DEF Registered, AtLiveSession, Updating, threadVars
<1>14. NewSessions'
  <2>1. \A i \in 1 .. Len(addSessQueue') :
          m_sessions'[AccountOf[addSessQueue'[i]]] # addSessQueue'[i]
    <3> TAKE i \in 1 .. Len(addSessQueue')
    <3>1. addSessQueue'[i] \in Sessions
      BY <1>3
    <3> QED
      BY <1>1, <1>2, <1>3, <1>4, <3>1, SessionsAssumption
      DEF Listed, SessionsAssumption
  <2> QED
    BY <1>3, <2>1 DEF NewSessions, Listed
<1> QED
  BY <1>11, <1>12, <1>13, <1>14 DEF IInv

LEMMA VisitStep ==
  ASSUME IInv,
         AddsDone \/ \E a \in Accounts : BeginUpdate(a)
  PROVE  IInv'
<1>1. /\ session \in [Sessions -> SessionState]
      /\ m_sessions \in [Accounts -> Sessions \cup {NoSession}]
  BY DEF IInv, TypeOK
<1>2. CASE AddsDone
  <2>1. TypeOK'
    BY <1>2 DEF AddsDone, worldVars, IInv, TypeOK, PCs, ListedAccounts
  <2>2. Registered' /\ AtLiveSession'
    BY <1>2 DEF AddsDone, worldVars, IInv, Registered, AtLiveSession, Updating,
                ListedAccounts
  <2>3. NewSessions' /\ QueueOfLiveSessions'
    BY <1>2 DEF AddsDone, worldVars, IInv, NewSessions, QueueOfLiveSessions,
                Listed
  <2> QED
    BY <2>1, <2>2, <2>3 DEF IInv
<1>3. ASSUME NEW a \in Accounts, BeginUpdate(a)
      PROVE  IInv'
  <2>1. /\ m_sessions[a] \in Sessions
        /\ m_sessions[a] # NoSession
        /\ AccountOf[m_sessions[a]] = a
    BY <1>1, <1>3 DEF BeginUpdate, IInv, AtLiveSession, Registered
  <2>2. session' \in [Sessions -> SessionState]
    <3>1. \A r \in SessionState : [r EXCEPT !.realm = "closed"] \in SessionState
      BY DEF SessionState
    <3> QED
      BY <1>1, <1>3, <2>1, <3>1 DEF BeginUpdate
  <2>3. TypeOK'
    BY <1>3, <2>1, <2>2 DEF BeginUpdate, worldVars, IInv, TypeOK, PCs
  <2>4. Registered' /\ AtLiveSession'
    BY <1>3, <2>1 DEF BeginUpdate, worldVars, IInv, Registered, AtLiveSession,
                      Updating, Listed
  <2>5. NewSessions' /\ QueueOfLiveSessions'
    BY <1>3 DEF BeginUpdate, worldVars, IInv, NewSessions, QueueOfLiveSessions,
                Listed
  <2> QED
    BY <2>3, <2>4, <2>5 DEF IInv
<1> QED
  BY <1>2, <1>3

LEMMA PacketsStep ==
  ASSUME IInv, Packets
  PROVE  IInv'
<1> DEFINE r == session[current]
<1>1. /\ session \in [Sessions -> SessionState]
      /\ linkSocketQueue \in Seq(Link)
      /\ inWorld \in [Chars -> Nat]
      /\ TypeOK
  BY DEF IInv, TypeOK
<1>2. pc = "packets" /\ r \in SessionState
  BY <1>1 DEF Packets, HandlePlayerLoginOpcode, HandleLogoutRequestOpcode,
              HandleLogoutCancelOpcode, IInv, AtLiveSession, Updating
<1>3. \A b \in BOOLEAN : [r EXCEPT !.logout = b] \in SessionState
  BY <1>2 DEF SessionState
<1>4. ASSUME NEW c \in Chars, HandlePlayerLoginOpcode(c)
      PROVE  IInv'
  <2>1. \A x \in SessionState : [x EXCEPT !.loading = c] \in SessionState
    BY DEF SessionState
  <2>2. 1 \in 0 .. MaxAttempts
    BY NumbersAssumption DEF NumbersAssumption
  <2>3. /\ KickPlayer(r) \in SessionState
        /\ KickPlayer([r EXCEPT !.loading = c]) \in SessionState
        /\ SendConnectToInstance([r EXCEPT !.loading = c], 1) \in SessionState
    BY <1>2, <2>1, <2>2, MethodsType
  <2>4. session' \in [Sessions -> SessionState]
    BY <1>1, <1>4, <2>3 DEF HandlePlayerLoginOpcode
  <2>5. linkSocketQueue' \in Seq(Link) /\ inWorld' \in [Chars -> Nat]
    BY <1>1, <1>4, OutdateLinksType DEF HandlePlayerLoginOpcode
  <2> QED
    BY <1>4, <2>4, <2>5, FieldsAndWorld DEF HandlePlayerLoginOpcode
<1>5. CASE HandleLogoutRequestOpcode
  <2>1. session' \in [Sessions -> SessionState]
    BY <1>1, <1>2, <1>3, <1>5, MethodsType DEF HandleLogoutRequestOpcode
  <2>2. linkSocketQueue' \in Seq(Link) /\ inWorld' \in [Chars -> Nat]
    BY <1>1, <1>2, <1>5, OutOfWorldType DEF HandleLogoutRequestOpcode
  <2> QED
    BY <1>5, <2>1, <2>2, FieldsAndWorld DEF HandleLogoutRequestOpcode
<1>6. CASE HandleLogoutCancelOpcode
  BY <1>1, <1>3, <1>6, FieldsOnly DEF HandleLogoutCancelOpcode
<1> QED
  BY <1>4, <1>5, <1>6 DEF Packets

LEMMA CallbackStep ==
  ASSUME IInv, NEW s \in Sessions, Callback(s)
  PROVE  IInv'
<1> DEFINE q == session[s].logins
<1>1. /\ session \in [Sessions -> SessionState]
      /\ linkSocketQueue \in Seq(Link)
      /\ inWorld \in [Chars -> Nat]
      /\ TypeOK
      /\ q \in Seq(LoginQuery)
  BY DEF IInv, TypeOK, SessionState
<1>2. CASE InitializeSessionCallback(s)
  BY <1>1, <1>2, MethodsType, FieldsOnly DEF InitializeSessionCallback
<1>3. CASE HandlePlayerLogin(s)
  <2>1. PICK i \in DOMAIN session[s].logins :
          LET c == session[s].logins[i].char
              r == [session[s] EXCEPT !.logins = RemoveAt(@, i),
                                      !.loading = NoChar]
          IN \/ /\ session' = [session EXCEPT
                     ![s] = KickPlayer([r EXCEPT !.player = NoChar])]
                /\ UNCHANGED inWorld
             \/ /\ session' = [session EXCEPT ![s] = [r EXCEPT !.player = c]]
                /\ inWorld' = [inWorld EXCEPT ![c] = @ + 1]
    BY <1>3 DEF HandlePlayerLogin
  <2> DEFINE c == q[i].char
             r == [session[s] EXCEPT !.logins = RemoveAt(@, i),
                                     !.loading = NoChar]
  <2>2. RemoveAt(q, i) \in Seq(LoginQuery) /\ c \in Chars
    <3>1. i \in 1 .. Len(q) /\ q[i] \in LoginQuery
      BY <1>1
    <3> QED
      BY <1>1, <3>1, RemoveAtFacts DEF LoginQuery
  <2>3. \A x \in SessionState, l \in Seq(LoginQuery) :
          [x EXCEPT !.logins = l, !.loading = NoChar] \in SessionState
    BY DEF SessionState
  <2>4. r \in SessionState
    BY <1>1, <2>2, <2>3
  <2> HIDE DEF r
  <2>5. /\ [r EXCEPT !.player = c] \in SessionState
        /\ [r EXCEPT !.player = NoChar] \in SessionState
    BY <2>2, <2>4 DEF SessionState
  <2>6. KickPlayer([r EXCEPT !.player = NoChar]) \in SessionState
    BY <2>5, MethodsType
  <2>7. \/ /\ session' = [session EXCEPT
                 ![s] = KickPlayer([r EXCEPT !.player = NoChar])]
           /\ inWorld' = inWorld
        \/ /\ session' = [session EXCEPT ![s] = [r EXCEPT !.player = c]]
           /\ inWorld' = [inWorld EXCEPT ![c] = @ + 1]
    BY <2>1 DEF r
  <2> HIDE DEF c
  <2>8. session' \in [Sessions -> SessionState] /\ inWorld' \in [Chars -> Nat]
    <3>1. inWorld[c] + 1 \in Nat
      BY <1>1, <2>2
    <3>2. [inWorld EXCEPT ![c] = @ + 1] \in [Chars -> Nat]
      BY <1>1, <2>2, <3>1
    <3> QED
      BY <1>1, <2>5, <2>6, <2>7, <3>2
  <2>9. linkSocketQueue' \in Seq(Link)
    BY <1>1, <1>3 DEF HandlePlayerLogin
  <2> QED
    BY <1>3, <2>8, <2>9, FieldsAndWorld DEF HandlePlayerLogin
<1> QED
  BY <1>2, <1>3 DEF Callback

LEMMA LogoutStep ==
  ASSUME IInv, LogoutIfDue
  PROVE  IInv'
<1>1. /\ session \in [Sessions -> SessionState]
      /\ inWorld \in [Chars -> Nat]
      /\ TypeOK
      /\ current \in Sessions
      /\ session[current] \in SessionState
  BY DEF IInv, TypeOK, LogoutIfDue, AtLiveSession, Updating
<1>2. session' \in [Sessions -> SessionState]
  BY <1>1, MethodsType DEF LogoutIfDue
<1>3. inWorld' \in [Chars -> Nat]
  BY <1>1, OutOfWorldType DEF LogoutIfDue
<1>4. TypeOK'
  BY <1>1, <1>2, <1>3 DEF LogoutIfDue, worldVars, TypeOK, PCs
<1>5. Registered' /\ AtLiveSession'
  BY DEF LogoutIfDue, worldVars, IInv, Registered, AtLiveSession, Updating,
         Listed
<1>6. NewSessions' /\ QueueOfLiveSessions'
  BY DEF LogoutIfDue, worldVars, IInv, NewSessions, QueueOfLiveSessions, Listed
<1> QED
  BY <1>4, <1>5, <1>6 DEF IInv

LEMMA KeepStep ==
  ASSUME IInv, KeepSession
  PROVE  IInv'
<1>1. /\ session \in [Sessions -> SessionState]
      /\ TypeOK
      /\ current \in Sessions
      /\ session[current] \in SessionState
  BY DEF IInv, TypeOK, KeepSession, AtLiveSession, Updating
<1>2. [session[current] EXCEPT !.expire = CountDown(session[current])]
        \in SessionState
  <2>1. CountDown(session[current]) \in 0 .. ExpireTicks
    BY <1>1, NumbersAssumption DEF SessionState, CountDown, NumbersAssumption
  <2> QED
    BY <1>1, <2>1 DEF SessionState
<1>3. session' \in [Sessions -> SessionState]
  BY <1>1, <1>2 DEF KeepSession
<1>4. TypeOK'
  BY <1>1, <1>3 DEF KeepSession, worldVars, TypeOK, PCs
<1>5. Registered' /\ AtLiveSession'
  BY DEF KeepSession, worldVars, IInv, Registered, AtLiveSession, Updating
<1>6. NewSessions' /\ QueueOfLiveSessions'
  BY DEF KeepSession, worldVars, IInv, NewSessions, QueueOfLiveSessions, Listed
<1> QED
  BY <1>4, <1>5, <1>6 DEF IInv

(* The session deleted is out of the queue, and the others keep their      *)
(* accounts.                                                               *)
LEMMA DropStep ==
  ASSUME IInv, DropSession
  PROVE  IInv'
<1> DEFINE s == current
           a == AccountOf[s]
           once == RemoveQueuedPlayer(QueueState, s)
           twice == RemoveQueuedPlayer(once, s)
<1>1. /\ m_QueuedPlayer' = twice.queue
      /\ session' = [twice.session EXCEPT ![s] = Deleted]
      /\ m_disconnects' \in {m_disconnects, [m_disconnects EXCEPT ![a] = now]}
      /\ m_sessions' = [m_sessions EXCEPT ![a] = NoSession]
      /\ inWorld' = OutOfWorld(session[s])
      /\ linkSocketQueue' = OutdateLinks(s)
      /\ pc = "sockets"
      /\ pc' = "visit"
      /\ current' = NoSession
      /\ UNCHANGED <<m_playerLimit, addSessQueue, now, stopping, toVisit>>
  BY DEF DropSession
<1>2. /\ m_sessions \in [Accounts -> Sessions \cup {NoSession}]
      /\ session \in [Sessions -> SessionState]
      /\ m_QueuedPlayer \in Seq(Sessions)
      /\ addSessQueue \in Seq(Sessions)
      /\ m_disconnects \in [Accounts -> Times \cup {Never}]
      /\ now \in Times
      /\ TypeOK
      /\ Registered
      /\ AtLiveSession
      /\ NewSessions
      /\ QueueOfLiveSessions
  BY DEF IInv, TypeOK
<1>3. /\ s \in Sessions
      /\ a \in Accounts
      /\ m_sessions[a] = s
      /\ s # NoSession
      /\ a \notin toVisit
      /\ \A b \in toVisit : m_sessions[b] # NoSession
  BY <1>1, <1>2, SessionsAssumption
  DEF SessionsAssumption, AtLiveSession, Updating, Listed
<1>4. QueueOK(QueueState) /\ QueueState.queue = m_QueuedPlayer
  BY <1>2 DEF QueueOK, QueueState, QueueOfLiveSessions, Distinct
<1>5. /\ QueueOK(once)
      /\ \A i \in 1 .. Len(once.queue) :
           \E j \in 1 .. Len(m_QueuedPlayer) : once.queue[i] = m_QueuedPlayer[j]
  <2>1. /\ QueueOK(once)
        /\ \A i \in 1 .. Len(once.queue) :
             \E j \in 1 .. Len(QueueState.queue) :
               once.queue[i] = QueueState.queue[j]
    <3>1. QueueOK(QueueState) /\ s \in Sessions
      BY <1>3, <1>4
    <3> QED
      BY <3>1, RemoveQueuedPlayerFacts
  <2> HIDE DEF once
  <2> QED
    BY <1>4, <2>1
<1> HIDE DEF once
<1>6. /\ QueueOK(twice)
      /\ \A i \in 1 .. Len(twice.queue) :
           /\ twice.queue[i] # s
           /\ \E j \in 1 .. Len(once.queue) : twice.queue[i] = once.queue[j]
  BY <1>3, <1>5, RemoveQueuedPlayerFacts
<1> HIDE DEF twice
<1>7. /\ m_QueuedPlayer' \in Seq(Sessions)
      /\ session' \in [Sessions -> SessionState]
  BY <1>1, <1>3, <1>6, ConstructorType DEF QueueOK
<1>8. inWorld' \in [Chars -> Nat] /\ linkSocketQueue' \in Seq(Link)
  BY <1>1, <1>2, <1>3, OutdateLinksType, OutOfWorldType
<1>9. m_disconnects' \in [Accounts -> Times \cup {Never}]
  BY <1>1, <1>2, <1>3
<1>10. TypeOK'
  <2>1. /\ m_sessions' \in [Accounts -> Sessions \cup {NoSession}]
        /\ current' \in Sessions \cup {NoSession}
        /\ pc' \in PCs
    BY <1>1, <1>2, <1>3 DEF PCs
  <2> QED
    BY <1>1, <1>2, <1>7, <1>8, <1>9, <2>1 DEF TypeOK
<1>11. Registered' /\ AtLiveSession'
  BY <1>1, <1>2, <1>3 DEF Registered, AtLiveSession, Updating
<1>12. NewSessions'
  <2>1. \A i \in 1 .. Len(addSessQueue) : addSessQueue[i] \in Sessions
    BY <1>2
  <2>2. \A x \in Sessions : ~Listed(x) => ~Listed(x)'
    BY <1>1, <1>2, <1>3, SessionsAssumption DEF Listed, SessionsAssumption
  <2> QED
    BY <1>1, <1>2, <2>1, <2>2 DEF NewSessions, Listed
<1>13. QueueOfLiveSessions'
  <2>1. \A i \in 1 .. Len(twice.queue) :
          m_sessions'[AccountOf[twice.queue[i]]] = twice.queue[i]
    <3> TAKE i \in 1 .. Len(twice.queue)
    <3> DEFINE x == twice.queue[i]
    <3>1. x \in Sessions /\ x # s /\ Listed(x)
      <4>1. PICK j \in 1 .. Len(once.queue) : x = once.queue[j]
        BY <1>6
      <4>2. PICK k \in 1 .. Len(m_QueuedPlayer) : x = m_QueuedPlayer[k]
        BY <1>5, <4>1
      <4>3. k \in DOMAIN m_QueuedPlayer /\ m_QueuedPlayer[k] \in Sessions
        BY <1>2
      <4> HIDE DEF x
      <4>4. x \in Sessions /\ Listed(x)
        BY <1>2, <4>2, <4>3 DEF QueueOfLiveSessions
      <4> QED
        BY <1>6, <4>4 DEF x
    <3>2. AccountOf[x] \in Accounts /\ AccountOf[x] # a
      BY <1>3, <3>1, SessionsAssumption DEF SessionsAssumption, Listed
    <3> QED
      BY <1>1, <1>2, <3>1, <3>2 DEF Listed
  <2>2. DOMAIN m_QueuedPlayer' = 1 .. Len(twice.queue)
    BY <1>1, <1>6 DEF QueueOK
  <2> QED
    BY <1>1, <1>6, <2>1, <2>2 DEF QueueOK, QueueOfLiveSessions, Distinct, Listed
<1> QED
  BY <1>10, <1>11, <1>12, <1>13 DEF IInv

-----------------------------------------------------------------------------
(* The theorems *)

(* Every step of every thread keeps the invariant.                         *)
LEMMA NextIInv == IInv /\ [Next]_vars => IInv'
<1> SUFFICES ASSUME IInv, [Next]_vars PROVE IInv'
  OBVIOUS
<1>1. CASE Network
  BY <1>1, NetworkStep DEF Network
<1>2. ASSUME NEW s \in Sessions, Database(s) \/ Callback(s)
      PROVE  IInv'
  BY <1>2, DatabaseStep, CallbackStep
<1>3. CASE Commands
  BY <1>3, CommandsStep
<1>4. CASE Packets
  BY <1>4, PacketsStep
<1>5. CASE WorldThread
  BY <1>5, GoToStep, LinkStep, RejectStep, AddStep, VisitStep, LogoutStep,
     KeepStep, DropStep DEF WorldThread
<1>6. CASE UNCHANGED vars
  <2>1. UNCHANGED allButSession /\ session' = session
    BY <1>6 DEF vars
  <2> QED
    BY <2>1, FieldsOnly DEF IInv, TypeOK
<1>7. CASE Stopped
  BY <1>6, <1>7 DEF Stopped
<1> QED
  BY <1>1, <1>2, <1>3, <1>4, <1>5, <1>6, <1>7 DEF Next

(* The variables keep their types: in particular the link queue, the login *)
(* queries and the countdowns of sessions, which are reused when an object *)
(* is deleted and its address is given to a new one.                       *)
THEOREM TypeCorrect == Spec => []TypeOK
<1>1. IInv => TypeOK
  BY DEF IInv
<1> QED
  BY InitIInv, NextIInv, <1>1, PTL DEF Spec

(* Whatever connects, is replaced, kicked, drops or changes the limit, and *)
(* in whatever order, the queue of players has no deleted session in it,   *)
(* and no session twice.                                                   *)
THEOREM QueueIsLive == Spec => []QueueOfLiveSessions
<1>1. IInv => QueueOfLiveSessions
  BY DEF IInv
<1> QED
  BY InitIInv, NextIInv, <1>1, PTL DEF Spec

-----------------------------------------------------------------------------
(* The queue *)

In(q, x) == \E i \in 1 .. Len(q) : q[i] = x

(* Erasing takes out one entry, of the session given, and no other.        *)
LEMMA EraseKeeps ==
  ASSUME NEW q \in Seq(Sessions), Distinct(q), NEW s
  PROVE  /\ In(q, s) <=> Contains(q, s)
         /\ Len(Erase(q, s)) = IF Contains(q, s) THEN Len(q) - 1 ELSE Len(q)
         /\ \A x \in Sessions \ {s} : In(Erase(q, s), x) <=> In(q, x)
         /\ ~In(Erase(q, s), s)
<1>1. In(q, s) <=> Contains(q, s)
  BY DEF In, Contains
<1>2. ~In(Erase(q, s), s)
  BY EraseFacts DEF In
<1>3. CASE ~Contains(q, s)
  BY <1>1, <1>2, <1>3 DEF Erase
<1>4. CASE Contains(q, s)
  <2> DEFINE p == PositionOf(q, s)
             e == RemoveAt(q, p)
  <2>1. PICK i \in 1 .. Len(q) : q[i] = s
    BY <1>4 DEF Contains
  <2>2. \A j \in 1 .. (i - 1) : q[j] # s
    BY <2>1 DEF Distinct
  <2>3. p \in 1 .. Len(q) /\ q[p] = s
    BY <2>1, <2>2 DEF PositionOf
  <2> HIDE DEF p
  <2>4. /\ e \in Seq(Sessions)
        /\ Len(e) = Len(q) - 1
        /\ \A k \in 1 .. Len(e) : e[k] = IF k < p THEN q[k] ELSE q[k + 1]
    BY <2>3, RemoveAtFacts
  <2>5. Erase(q, s) = e
    BY <1>4 DEF Erase, e, p
  <2> HIDE DEF e
  <2>6. ASSUME NEW x \in Sessions \ {s}, In(q, x)
        PROVE  In(e, x)
    <3>1. PICK k \in 1 .. Len(q) : q[k] = x
      BY <2>6 DEF In
    <3>2. k # p
      BY <2>3, <3>1
    <3>3. CASE k < p
      <4>1. k \in 1 .. Len(e) /\ e[k] = x
        BY <2>3, <2>4, <3>1, <3>3
      <4> QED
        BY <4>1 DEF In
    <3>4. CASE k > p
      <4>1. k - 1 \in 1 .. Len(e) /\ e[k - 1] = q[(k - 1) + 1]
        BY <2>3, <2>4, <3>1, <3>4
      <4>2. e[k - 1] = x
        BY <3>1, <4>1
      <4> QED
        BY <4>1, <4>2 DEF In
    <3> QED
      BY <2>3, <3>1, <3>2, <3>3, <3>4
  <2>7. ASSUME NEW x \in Sessions \ {s}, In(e, x)
        PROVE  In(q, x)
    BY <2>5, <2>7, EraseFacts DEF In
  <2> QED
    BY <1>1, <1>2, <1>4, <2>4, <2>5, <2>6, <2>7
<1> QED
  BY <1>3, <1>4

(* What RemoveQueuedPlayer does to the sessions other than the one         *)
(* removed: at most one is taken from the queue, and it is initialised.    *)
Kept(st, out, x) ==
  /\ In(out.queue, x) <=> In(st.queue, x)
  /\ out.session[x] = st.session[x]
Accepted(st, out, x) ==
  /\ In(st.queue, x)
  /\ ~In(out.queue, x)
  /\ out.session[x] = InitializeSession(st.session[x])

LEMMA RemoveQueuedPlayerKeeps ==
  ASSUME NEW st, QueueOK(st), NEW s \in Sessions
  PROVE  LET out == RemoveQueuedPlayer(st, s)
             found == Contains(st.queue, s)
             active == GetActiveAndQueuedSessionCount(m_sessions) - Len(st.queue)
             left == IF found THEN Len(st.queue) - 1 ELSE Len(st.queue)
         IN /\ ~In(out.queue, s)
            /\ \A x \in Sessions \ {s} :
                 Kept(st, out, x) \/ Accepted(st, out, x)
            /\ \/ out.session[s] = st.session[s]
               \/ out.session[s] = [st.session[s] EXCEPT !.inQueue = FALSE]
            /\ \/ /\ HasRoom(ActiveWithout(active, found))
                  /\ left > 0
                  /\ Len(out.queue) = left - 1
               \/ /\ ~HasRoom(ActiveWithout(active, found)) \/ left = 0
                  /\ Len(out.queue) = left
<1> DEFINE q == Erase(st.queue, s)
           f == IF Contains(st.queue, s)
                THEN [st.session EXCEPT ![s].inQueue = FALSE]
                ELSE st.session
           rest == [queue |-> q, session |-> f]
           out == RemoveQueuedPlayer(st, s)
           found == Contains(st.queue, s)
           active == GetActiveAndQueuedSessionCount(m_sessions) - Len(st.queue)
           left == IF found THEN Len(st.queue) - 1 ELSE Len(st.queue)
           room == HasRoom(ActiveWithout(active, found))
<1>1. /\ st.queue \in Seq(Sessions)
      /\ Distinct(st.queue)
      /\ st.session \in [Sessions -> SessionState]
  BY DEF QueueOK
<1>2. /\ q \in Seq(Sessions)
      /\ Distinct(q)
      /\ Len(q) = left
      /\ ~In(q, s)
      /\ \A x \in Sessions \ {s} : In(q, x) <=> In(st.queue, x)
  BY <1>1, EraseFacts, EraseKeeps
<1>3. /\ \A x \in Sessions \ {s} : f[x] = st.session[x]
      /\ f[s] \in {st.session[s], [st.session[s] EXCEPT !.inQueue = FALSE]}
      /\ DOMAIN f = Sessions
  BY <1>1
<1>4. /\ room /\ q # <<>> => out = AcceptFirst(rest)
      /\ ~(room /\ q # <<>>) => out = rest
  BY DEF RemoveQueuedPlayer
<1>5. q = <<>> <=> left = 0
  BY <1>2, EmptySeq
<1> HIDE DEF q, f, out, room, left, found, active
<1>6. CASE ~(room /\ q # <<>>)
  <2>1. out.queue = q /\ out.session = f
    BY <1>4, <1>6
  <2>2. \A x \in Sessions \ {s} : Kept(st, out, x)
    BY <1>2, <1>3, <2>1 DEF Kept
  <2>3. /\ ~In(out.queue, s)
        /\ out.session[s] \in
             {st.session[s], [st.session[s] EXCEPT !.inQueue = FALSE]}
        /\ Len(out.queue) = left
        /\ ~room \/ left = 0
    BY <1>2, <1>3, <1>5, <1>6, <2>1
  <2> QED
    BY <2>2, <2>3 DEF out, room, left, found, active
<1>7. CASE room /\ q # <<>>
  <2> DEFINE h == Head(q)
  <2>1. out.queue = Tail(q) /\ out.session = [f EXCEPT ![h] = InitializeSession(@)]
    BY <1>4, <1>7 DEF AcceptFirst
  <2>2. /\ h \in Sessions
        /\ h = q[1]
        /\ Len(q) \in Nat \ {0}
        /\ Tail(q) \in Seq(Sessions)
        /\ Len(Tail(q)) = Len(q) - 1
        /\ \A i \in 1 .. Len(Tail(q)) : Tail(q)[i] = q[i + 1]
    BY <1>2, <1>7, HeadTailProperties
  <2>3. h # s /\ In(q, h) /\ ~In(Tail(q), h)
    BY <1>2, <2>2 DEF In, Distinct
  <2>4. ASSUME NEW x \in Sessions \ {h}
        PROVE  In(Tail(q), x) <=> In(q, x)
    <3>1. In(Tail(q), x) => In(q, x)
      BY <2>2 DEF In
    <3>2. ASSUME In(q, x) PROVE In(Tail(q), x)
      <4>1. PICK k \in 1 .. Len(q) : q[k] = x
        BY <3>2 DEF In
      <4>2. k # 1
        BY <2>2, <4>1
      <4>3. k - 1 \in 1 .. Len(Tail(q)) /\ Tail(q)[k - 1] = q[(k - 1) + 1]
        BY <2>2, <4>1, <4>2
      <4> QED
        BY <4>1, <4>3 DEF In
    <3> QED
      BY <3>1, <3>2
  <2> HIDE DEF h
  <2>5. \A x \in Sessions \ {s} : Kept(st, out, x) \/ Accepted(st, out, x)
    <3> TAKE x \in Sessions \ {s}
    <3>1. CASE x = h
      <4>1. out.session[x] = InitializeSession(st.session[x])
        BY <1>3, <2>1, <3>1
      <4> QED
        BY <1>2, <2>1, <2>3, <3>1, <4>1 DEF Accepted
    <3>2. CASE x # h
      <4>1. out.session[x] = st.session[x]
        BY <1>3, <2>1, <3>2
      <4> QED
        BY <1>2, <2>1, <2>4, <3>2, <4>1 DEF Kept
    <3> QED
      BY <3>1, <3>2
  <2>6. ~In(out.queue, s)
    BY <1>2, <2>1, <2>3, <2>4
  <2>7. out.session[s] \in
          {st.session[s], [st.session[s] EXCEPT !.inQueue = FALSE]}
    BY <1>3, <2>1, <2>3
  <2>8. left > 0 /\ Len(out.queue) = left - 1
    BY <1>2, <2>1, <2>2
  <2> QED
    BY <1>7, <2>5, <2>6, <2>7, <2>8 DEF out, room, left, found, active
<1> QED
  BY <1>6, <1>7

-----------------------------------------------------------------------------
(* m_inQueue, the initialisation and the queue *)

(* A session in the queue is marked as waiting and not initialised; one    *)
(* marked and listed is in the queue or being initialised; one not listed  *)
(* has neither begun.                                                      *)
WaitsInQueue(x) ==
  /\ In(m_QueuedPlayer, x) => session[x].inQueue /\ session[x].init = "none"
  /\ Listed(x) /\ session[x].inQueue /\ ~stopping =>
       In(m_QueuedPlayer, x) \/ session[x].init # "none"
  /\ ~Listed(x) => ~session[x].inQueue /\ session[x].init = "none"

Waits == \A x \in Sessions : WaitsInQueue(x)

SameFields(x) ==
  session'[x].init = session[x].init /\ session'[x].inQueue = session[x].inQueue

LEMMA SameWaits ==
  ASSUME Waits, UNCHANGED <<m_sessions, m_QueuedPlayer, stopping>>,
         \A x \in Sessions : SameFields(x)
  PROVE  Waits'
BY DEF Waits, WaitsInQueue, SameFields, Listed

(* The methods of a session that leave both fields alone.                  *)
LEMMA MethodsFields ==
  ASSUME NEW r \in SessionState
  PROVE  /\ KickPlayer(r).init = r.init
         /\ KickPlayer(r).inQueue = r.inQueue
         /\ LogoutPlayer(r).init = r.init
         /\ LogoutPlayer(r).inQueue = r.inQueue
         /\ \A n : /\ SendConnectToInstance(r, n).init = r.init
                   /\ SendConnectToInstance(r, n).inQueue = r.inQueue
         /\ HandleContinuePlayerLogin(r).init = r.init
         /\ HandleContinuePlayerLogin(r).inQueue = r.inQueue
         /\ InitializeSession(r).init = "sent"
         /\ InitializeSession(r).inQueue = r.inQueue
         /\ Initialized(r).init = "none"
         /\ ~Initialized(r).inQueue
BY DEF SessionState, KickPlayer, LogoutPlayer, SendConnectToInstance,
       HandleContinuePlayerLogin, InitializeSession, Initialized

(* ... and so do the assignments of other fields.                          *)
LEMMA OtherFields ==
  ASSUME NEW r \in SessionState,
         NEW t \in {[r EXCEPT !.realm = "closed"], [r EXCEPT !.instance = "closed"],
                    [r EXCEPT !.instance = "open"], [r EXCEPT !.logout = TRUE],
                    [r EXCEPT !.logout = FALSE], [r EXCEPT !.linked = TRUE],
                    [r EXCEPT !.expire = CountDown(r)]}
  PROVE  t.init = r.init /\ t.inQueue = r.inQueue
BY DEF SessionState

LEMMA OneSession ==
  ASSUME session \in [Sessions -> SessionState],
         NEW s \in Sessions, NEW t, session' = [session EXCEPT ![s] = t],
         t.init = session[s].init, t.inQueue = session[s].inQueue
  PROVE  \A x \in Sessions : SameFields(x)
BY DEF SameFields

LEMMA NetworkFields ==
  ASSUME IInv, NEW s \in Sessions,
         NetworkClose(s) \/ HandleAuthContinuedSession(s)
           \/ HandleConnectToFailed(s)
  PROVE  /\ UNCHANGED <<m_sessions, m_QueuedPlayer, stopping>>
         /\ \A x \in Sessions : SameFields(x)
<1> DEFINE r == session[s]
<1>1. session \in [Sessions -> SessionState] /\ r \in SessionState
  BY DEF IInv, TypeOK
<1>2. CASE NetworkClose(s)
  <2>1. \/ session' = [session EXCEPT ![s] = [r EXCEPT !.realm = "closed"]]
        \/ session' = [session EXCEPT ![s] = [r EXCEPT !.instance = "closed"]]
    BY <1>2 DEF NetworkClose
  <2>2. \A x \in Sessions : SameFields(x)
    BY <1>1, <2>1, OtherFields, OneSession
  <2> QED
    BY <1>2, <2>2 DEF NetworkClose, allButSession, worldVars, threadVars
<1>3. CASE HandleAuthContinuedSession(s)
  BY <1>1, <1>3 DEF HandleAuthContinuedSession, SameFields, SessionState,
                    worldVars, threadVars
<1>4. CASE HandleConnectToFailed(s)
  <2> DEFINE a == SendConnectToInstance(r, r.attempt + 1)
             b == IF r.player # NoChar THEN KickPlayer(r)
                  ELSE [r EXCEPT !.loading = NoChar, !.attempt = 0]
  <2>1. \/ session' = [session EXCEPT ![s] = a]
        \/ session' = [session EXCEPT ![s] = b]
    BY <1>4 DEF HandleConnectToFailed
  <2>2. a.init = r.init /\ a.inQueue = r.inQueue
    BY <1>1, MethodsFields
  <2>3. b.init = r.init /\ b.inQueue = r.inQueue
    <3>1. [r EXCEPT !.loading = NoChar, !.attempt = 0].init = r.init
      BY <1>1 DEF SessionState
    <3>2. [r EXCEPT !.loading = NoChar, !.attempt = 0].inQueue = r.inQueue
      BY <1>1 DEF SessionState
    <3> QED
      BY <1>1, <3>1, <3>2, MethodsFields
  <2> HIDE DEF a, b
  <2>4. \A x \in Sessions : SameFields(x)
    BY <1>1, <2>1, <2>2, <2>3 DEF SameFields
  <2> QED
    BY <1>4, <2>4 DEF HandleConnectToFailed, worldVars, threadVars
<1> QED
  BY <1>2, <1>3, <1>4

(* A login query that completes, or its callback, neither queues nor       *)
(* initialises.                                                            *)
LEMMA LoginFields ==
  ASSUME IInv, NEW s \in Sessions, LoginQueryDone(s) \/ HandlePlayerLogin(s)
  PROVE  /\ UNCHANGED <<m_sessions, m_QueuedPlayer, stopping>>
         /\ \A x \in Sessions : SameFields(x)
<1>1. session \in [Sessions -> SessionState] /\ session[s] \in SessionState
  BY DEF IInv, TypeOK
<1>2. UNCHANGED <<m_sessions, m_QueuedPlayer, stopping>>
  BY DEF LoginQueryDone, HandlePlayerLogin, worldVars, threadVars, allButSession
<1>3. CASE LoginQueryDone(s)
  <2>1. PICK i \in DOMAIN session[s].logins :
          session' = [session EXCEPT ![s].logins[i].ready = TRUE]
    BY <1>3 DEF LoginQueryDone
  <2> DEFINE p == [session[s].logins EXCEPT ![i].ready = TRUE]
             t == [session[s] EXCEPT !.logins = p]
  <2>2. t.init = session[s].init /\ t.inQueue = session[s].inQueue
    <3> HIDE DEF p
    <3> QED
      BY <1>1 DEF SessionState
  <2>3. session' = [session EXCEPT ![s] = t]
    BY <2>1
  <2> HIDE DEF t
  <2> QED
    BY <1>1, <1>2, <2>2, <2>3, OneSession
<1>4. CASE HandlePlayerLogin(s)
  <2>1. PICK i \in DOMAIN session[s].logins :
          LET c == session[s].logins[i].char
              r == [session[s] EXCEPT !.logins = RemoveAt(@, i),
                                      !.loading = NoChar]
          IN \/ session' = [session EXCEPT
                     ![s] = KickPlayer([r EXCEPT !.player = NoChar])]
             \/ session' = [session EXCEPT ![s] = [r EXCEPT !.player = c]]
    BY <1>4 DEF HandlePlayerLogin
  <2> DEFINE q == RemoveAt(session[s].logins, i)
             c == session[s].logins[i].char
             r == [session[s] EXCEPT !.logins = q, !.loading = NoChar]
             t == KickPlayer([r EXCEPT !.player = NoChar])
             u == [r EXCEPT !.player = c]
  <2>2. session' = [session EXCEPT ![s] = t] \/ session' = [session EXCEPT ![s] = u]
    BY <2>1
  <2> HIDE DEF q, c
  <2>3. /\ t.init = session[s].init /\ t.inQueue = session[s].inQueue
        /\ u.init = session[s].init /\ u.inQueue = session[s].inQueue
    BY <1>1 DEF SessionState, KickPlayer
  <2> HIDE DEF t, u
  <2> QED
    BY <1>1, <1>2, <2>2, <2>3, OneSession
<1> QED
  BY <1>3, <1>4

LEMMA PacketsFields ==
  ASSUME IInv, Packets
  PROVE  /\ UNCHANGED <<m_sessions, m_QueuedPlayer, stopping>>
         /\ \A x \in Sessions : SameFields(x)
<1> DEFINE r == session[current]
<1>1. session \in [Sessions -> SessionState] /\ current \in Sessions
      /\ r \in SessionState
  BY DEF IInv, TypeOK, Packets, HandlePlayerLoginOpcode, Updating,
         HandleLogoutRequestOpcode, HandleLogoutCancelOpcode, AtLiveSession
<1>2. ASSUME NEW c \in Chars, HandlePlayerLoginOpcode(c)
      PROVE  \A x \in Sessions : SameFields(x)
  <2> DEFINE l == [r EXCEPT !.loading = c]
  <2>1. l \in SessionState /\ l.init = r.init /\ l.inQueue = r.inQueue
    BY <1>1 DEF SessionState
  <2> HIDE DEF l
  <2>2. \/ session' = [session EXCEPT ![current] = KickPlayer(r)]
        \/ session' = [session EXCEPT ![current] = KickPlayer(l)]
        \/ session' = [session EXCEPT ![current] = SendConnectToInstance(l, 1)]
    BY <1>2 DEF HandlePlayerLoginOpcode, l
  <2> QED
    BY <1>1, <2>1, <2>2, MethodsFields DEF SameFields
<1>3. ASSUME HandleLogoutRequestOpcode
      PROVE  \A x \in Sessions : SameFields(x)
  <2> DEFINE t == LogoutPlayer(r)
             u == [r EXCEPT !.logout = TRUE]
             v == [r EXCEPT !.logout = FALSE]
  <2>1. t.init = r.init /\ t.inQueue = r.inQueue
    BY <1>1, MethodsFields
  <2>2. /\ u.init = r.init /\ u.inQueue = r.inQueue
        /\ v.init = r.init /\ v.inQueue = r.inQueue
    BY <1>1 DEF SessionState
  <2>3. \E w \in {t, u, v} : session' = [session EXCEPT ![current] = w]
    BY <1>3 DEF HandleLogoutRequestOpcode
  <2> HIDE DEF t, u, v
  <2> QED
    BY <1>1, <2>1, <2>2, <2>3, OneSession
<1>4. ASSUME HandleLogoutCancelOpcode
      PROVE  \A x \in Sessions : SameFields(x)
  <2> DEFINE v == [r EXCEPT !.logout = FALSE]
  <2>1. session' = [session EXCEPT ![current] = v]
    BY <1>4 DEF HandleLogoutCancelOpcode
  <2>2. v.init = r.init /\ v.inQueue = r.inQueue
    BY <1>1 DEF SessionState
  <2> HIDE DEF v
  <2> QED
    BY <1>1, <2>1, <2>2, OneSession
<1>5. UNCHANGED <<m_sessions, m_QueuedPlayer, stopping>>
  BY DEF Packets, HandlePlayerLoginOpcode, HandleLogoutRequestOpcode,
         HandleLogoutCancelOpcode, worldVars, threadVars, allButSession
<1> QED
  BY <1>2, <1>3, <1>4, <1>5 DEF Packets

(* The steps of the world thread that neither queue nor initialise.        *)
LEMMA WorldFields ==
  ASSUME IInv,
         \/ \E limit \in Limits : SetPlayerAmountLimit(limit)
         \/ \E s \in Sessions : Kick(s)
         \/ Tick
         \/ StartUpdateSessions \/ ProcessLinkInstanceSocket \/ LinksDone
         \/ AddsDone \/ \E a \in Accounts : BeginUpdate(a)
         \/ PacketsDone \/ CallbacksDone \/ LogoutIfDue \/ KeepSession
         \/ UpdateSessionsDone \/ UNCHANGED vars
  PROVE  /\ UNCHANGED <<m_sessions, m_QueuedPlayer, stopping>>
         /\ \A x \in Sessions : SameFields(x)
<1> USE DEF worldVars, threadVars, allButSession, vars
<1>1. session \in [Sessions -> SessionState]
  BY DEF IInv, TypeOK
<1>2. CASE \/ \E limit \in Limits : SetPlayerAmountLimit(limit)
           \/ Tick \/ StartUpdateSessions \/ LinksDone \/ AddsDone
           \/ PacketsDone \/ CallbacksDone \/ UpdateSessionsDone
           \/ UNCHANGED vars
  BY <1>2 DEF SetPlayerAmountLimit, Tick, StartUpdateSessions, LinksDone,
              AddsDone, PacketsDone, CallbacksDone, UpdateSessionsDone, GoTo,
              SameFields
<1>3. ASSUME NEW s \in Sessions, Kick(s)
      PROVE  /\ UNCHANGED <<m_sessions, m_QueuedPlayer, stopping>>
             /\ \A x \in Sessions : SameFields(x)
  BY <1>1, <1>3, MethodsFields DEF Kick, SameFields
<1>4. CASE ProcessLinkInstanceSocket
  <2> DEFINE h == Head(linkSocketQueue).session
             o == [session[h] EXCEPT !.instance = "open"]
             t == HandleContinuePlayerLogin(o)
  <2>1. h \in Sessions /\ session[h] \in SessionState
    <3>1. Head(linkSocketQueue) \in Link
      BY <1>4, HeadTailProperties DEF IInv, TypeOK, ProcessLinkInstanceSocket
    <3> QED
      BY <1>1, <3>1 DEF Link
  <2>2. o \in SessionState /\ o.init = session[h].init
        /\ o.inQueue = session[h].inQueue
    BY <2>1 DEF SessionState
  <2> HIDE DEF o
  <2>3. t.init = session[h].init /\ t.inQueue = session[h].inQueue
    BY <2>2, MethodsFields
  <2>4. session' = session \/ session' = [session EXCEPT ![h] = t]
    BY <1>4 DEF ProcessLinkInstanceSocket, o
  <2> HIDE DEF h, t
  <2>5. CASE session' = session
    BY <1>4, <2>5 DEF ProcessLinkInstanceSocket, SameFields
  <2>6. CASE session' = [session EXCEPT ![h] = t]
    <3>1. \A x \in Sessions : SameFields(x)
      BY <1>1, <2>1, <2>3, <2>6, OneSession
    <3> QED
      BY <1>4, <3>1 DEF ProcessLinkInstanceSocket
  <2> QED
    BY <2>4, <2>5, <2>6
<1>5. ASSUME NEW a \in Accounts, BeginUpdate(a)
      PROVE  /\ UNCHANGED <<m_sessions, m_QueuedPlayer, stopping>>
             /\ \A x \in Sessions : SameFields(x)
  <2> DEFINE s == m_sessions[a]
             t == [session[s] EXCEPT !.realm = "closed"]
  <2>1. s \in Sessions
    BY <1>5 DEF BeginUpdate, IInv, TypeOK, AtLiveSession
  <2>2. t.init = session[s].init /\ t.inQueue = session[s].inQueue
    BY <1>1, <2>1, OtherFields
  <2>3. session' = session \/ session' = [session EXCEPT ![s] = t]
    BY <1>5 DEF BeginUpdate
  <2> HIDE DEF s, t
  <2>4. \A x \in Sessions : SameFields(x)
    BY <1>1, <2>1, <2>2, <2>3, OneSession DEF SameFields
  <2> QED
    BY <1>5, <2>4 DEF BeginUpdate
<1>6. CASE LogoutIfDue
  BY <1>1, <1>6, MethodsFields DEF LogoutIfDue, SameFields
<1>7. CASE KeepSession
  BY <1>1, <1>7 DEF KeepSession, SameFields, SessionState
<1> QED
  BY <1>2, <1>3, <1>4, <1>5, <1>6, <1>7

LEMMA InitWaits == Init => Waits
BY EmptySeq DEF Init, Waits, WaitsInQueue, Deleted, NewSession, In, Listed

(* A new session has not begun to wait.                                    *)
LEMMA ConstructedFields ==
  /\ ~NewSession.inQueue /\ NewSession.init = "none"
  /\ ~Deleted.inQueue /\ Deleted.init = "none"
BY DEF NewSession, Deleted

LEMMA QueueMembersListed ==
  ASSUME IInv, NEW x \in Sessions, In(m_QueuedPlayer, x)
  PROVE  Listed(x)
BY DEF IInv, TypeOK, QueueOfLiveSessions, In

LEMMA AloneWaits ==
  ASSUME IInv, Waits, NEW s \in Sessions,
         NewConnection(s) \/ InitQueryDone(s) \/ Callback(s) \/ LoginQueryDone(s)
  PROVE  Waits'
<1> USE DEF worldVars, threadVars, allButSession
<1>1. session \in [Sessions -> SessionState] /\ session[s] \in SessionState
  BY DEF IInv, TypeOK
<1>2. UNCHANGED <<m_sessions, m_QueuedPlayer, stopping>>
  BY DEF NewConnection, InitQueryDone, LoginQueryDone, Callback,
         InitializeSessionCallback, HandlePlayerLogin
<1>3. WaitsInQueue(s)
  BY DEF Waits
<1>4. CASE NewConnection(s)
  <2>1. session' = [session EXCEPT ![s] = NewSession] /\ ~Listed(s)
    BY <1>4 DEF NewConnection, Alive
  <2>2. ~In(m_QueuedPlayer, s)
    BY <2>1, QueueMembersListed
  <2>3. \A x \in Sessions \ {s} : SameFields(x)
    BY <1>1, <2>1 DEF SameFields
  <2>4. WaitsInQueue(s)'
    BY <1>1, <1>2, <2>1, <2>2, ConstructedFields DEF WaitsInQueue, Listed
  <2> QED
    BY <1>2, <2>3, <2>4 DEF Waits, WaitsInQueue, SameFields, Listed
<1>5. CASE InitQueryDone(s)
  <2> DEFINE t == [session[s] EXCEPT !.init = "ready"]
  <2>1. session' = [session EXCEPT ![s] = t] /\ session[s].init = "sent"
    BY <1>5 DEF InitQueryDone
  <2>2. t.init = "ready" /\ t.inQueue = session[s].inQueue
    BY <1>1 DEF SessionState
  <2> HIDE DEF t
  <2>3. \A x \in Sessions \ {s} : SameFields(x)
    BY <1>1, <2>1 DEF SameFields
  <2>4. WaitsInQueue(s)'
    BY <1>1, <1>2, <1>3, <2>1, <2>2 DEF WaitsInQueue, Listed
  <2> QED
    BY <1>2, <2>3, <2>4 DEF Waits, WaitsInQueue, SameFields, Listed
<1>6. CASE LoginQueryDone(s) \/ HandlePlayerLogin(s)
  BY <1>6, LoginFields, SameWaits
<1>7. CASE InitializeSessionCallback(s)
  <2> DEFINE t == Initialized(session[s])
  <2>1. session' = [session EXCEPT ![s] = t] /\ session[s].init = "ready"
    BY <1>7 DEF InitializeSessionCallback
  <2>2. t.init = "none" /\ ~t.inQueue
    BY <1>1, MethodsFields
  <2> HIDE DEF t
  <2>3. \A x \in Sessions \ {s} : SameFields(x)
    BY <1>1, <2>1 DEF SameFields
  <2>4. WaitsInQueue(s)'
    BY <1>1, <1>2, <1>3, <2>1, <2>2 DEF WaitsInQueue, Listed
  <2> QED
    BY <1>2, <2>3, <2>4 DEF Waits, WaitsInQueue, SameFields, Listed
<1> QED
  BY <1>4, <1>5, <1>6, <1>7 DEF Callback

LEMMA KickAllWaits ==
  ASSUME IInv, Waits, KickAll
  PROVE  Waits'
<1>1. session \in [Sessions -> SessionState]
  BY DEF IInv, TypeOK
<1>2. \A x \in Sessions : ~In(m_QueuedPlayer', x)
  BY EmptySeq DEF KickAll, In
<1>3. \A x \in Sessions : SameFields(x)
  BY <1>1, MethodsFields DEF KickAll, SameFields
<1> QED
  BY <1>2, <1>3 DEF KickAll, Waits, WaitsInQueue, SameFields, Listed

LEMMA RejectWaits ==
  ASSUME IInv, Waits, RejectSession
  PROVE  Waits'
<1>1. session \in [Sessions -> SessionState]
  BY DEF IInv, TypeOK
<1>2. PICK s \in Sessions :
         /\ session' = [session EXCEPT ![s] = Deleted]
         /\ UNCHANGED <<m_sessions, m_QueuedPlayer, stopping>>
         /\ ~Listed(s)
  BY NextNewSession DEF RejectSession, worldVars, threadVars
<1>3. ~In(m_QueuedPlayer, s)
  BY <1>2, QueueMembersListed
<1>4. WaitsInQueue(s)'
  BY <1>1, <1>2, <1>3, ConstructedFields DEF WaitsInQueue, Listed
<1>5. \A x \in Sessions \ {s} : SameFields(x)
  BY <1>1, <1>2 DEF SameFields
<1> QED
  BY <1>2, <1>4, <1>5 DEF Waits, WaitsInQueue, SameFields, Listed

-----------------------------------------------------------------------------
(* The steps that admit and remove sessions *)

LEMMA AppendIn ==
  ASSUME NEW q \in Seq(Sessions), NEW s \in Sessions
  PROVE  /\ \A x : In(Append(q, s), x) <=> In(q, x) \/ x = s
         /\ Len(Append(q, s)) = Len(q) + 1
<1>1. /\ Len(Append(q, s)) = Len(q) + 1
      /\ \A i \in 1 .. Len(q) : Append(q, s)[i] = q[i]
      /\ Append(q, s)[Len(q) + 1] = s
      /\ Len(q) \in Nat
  BY AppendProperties
<1>2. ASSUME NEW x, In(q, x) PROVE In(Append(q, s), x)
  BY <1>1, <1>2 DEF In
<1>3. In(Append(q, s), s)
  <2>1. Len(q) + 1 \in 1 .. Len(Append(q, s))
    BY <1>1
  <2> QED
    BY <1>1, <2>1 DEF In
<1>4. ASSUME NEW x, In(Append(q, s), x) PROVE In(q, x) \/ x = s
  <2>1. PICK i \in 1 .. Len(Append(q, s)) : Append(q, s)[i] = x
    BY <1>4 DEF In
  <2>2. i \in 1 .. Len(q) \/ i = Len(q) + 1
    BY <1>1
  <2> QED
    BY <1>1, <2>1, <2>2 DEF In
<1> QED
  BY <1>1, <1>2, <1>3, <1>4

LEMMA PresentQueueOK ==
  ASSUME IInv
  PROVE  QueueOK(QueueState)
BY DEF IInv, TypeOK, QueueOK, QueueState, QueueOfLiveSessions, Distinct

(* What AddSession does with the queue and the sessions.                   *)
Replaced(st, s, old) ==
  IF old = NoSession THEN st.session ELSE [st.session EXCEPT ![old] = Deleted]

Registering(s) == [m_sessions EXCEPT ![AccountOf[s]] = s]

MustWait(s, old) ==
  LET total == GetActiveAndQueuedSessionCount(Registering(s))
      decrease == old = NoSession \/ ~Contains(m_QueuedPlayer, old)
      others == IF decrease THEN total - 1 ELSE total
  IN /\ m_playerLimit > 0
     /\ others >= m_playerLimit
     /\ AccountOf[s] \notin SkipQueue
     /\ ~HasRecentlyDisconnected(AccountOf[s])

AddEffect(s, old, st) ==
  /\ old = m_sessions[AccountOf[s]]
  /\ ~Listed(s)
  /\ old # s
  /\ QueueOK(st)
  /\ old = NoSession => st = QueueState
  /\ old # NoSession => st = RemoveQueuedPlayer(QueueState, old)
  /\ m_sessions' = [m_sessions EXCEPT ![AccountOf[s]] = s]
  /\ UNCHANGED <<threadVars, m_playerLimit>>
  /\ pc = "add"
  /\ old = NoSession => UNCHANGED <<inWorld, linkSocketQueue>>
  /\ old # NoSession => /\ inWorld' = OutOfWorld(session[old])
                        /\ linkSocketQueue' = OutdateLinks(old)
  /\ MustWait(s, old) =>
       /\ m_QueuedPlayer' = Append(st.queue, s)
       /\ session' = [Replaced(st, s, old) EXCEPT ![s].inQueue = TRUE]
  /\ ~MustWait(s, old) =>
       /\ m_QueuedPlayer' = st.queue
       /\ session' = [Replaced(st, s, old) EXCEPT
                        ![s] = InitializeSession(Replaced(st, s, old)[s])]

LEMMA AddEffects ==
  ASSUME IInv, AddSession
  PROVE  \E st : \E s \in Sessions, old \in Sessions \cup {NoSession} :
                     AddEffect(s, old, st)
<1> DEFINE s == Head(addSessQueue)
           old == m_sessions[AccountOf[s]]
           st == IF old = NoSession THEN QueueState
                 ELSE RemoveQueuedPlayer(QueueState, old)
<1>1. s \in Sessions /\ ~Listed(s)
  <2>1. addSessQueue # <<>> /\ addSessQueue' = Tail(addSessQueue)
    BY DEF AddSession
  <2> QED
    BY <2>1, NextNewSession
<1>2. old \in Sessions \cup {NoSession} /\ old # s
  BY <1>1, SessionsAssumption DEF IInv, TypeOK, Listed, SessionsAssumption
<1>3. QueueOK(st)
  BY <1>2, PresentQueueOK, RemoveQueuedPlayerFacts
<1>4. /\ m_sessions' = [m_sessions EXCEPT ![AccountOf[s]] = s]
      /\ UNCHANGED <<threadVars, m_playerLimit>>
      /\ pc = "add"
      /\ old = NoSession => UNCHANGED <<inWorld, linkSocketQueue>>
      /\ old # NoSession => /\ inWorld' = OutOfWorld(session[old])
                            /\ linkSocketQueue' = OutdateLinks(old)
      /\ IF MustWait(s, old)
         THEN /\ m_QueuedPlayer' = Append(st.queue, s)
              /\ session' = [Replaced(st, s, old) EXCEPT ![s].inQueue = TRUE]
         ELSE /\ m_QueuedPlayer' = st.queue
              /\ session' = [Replaced(st, s, old) EXCEPT
                               ![s] = InitializeSession(Replaced(st, s, old)[s])]
  BY DEF AddSession, MustWait, Registering, Replaced, threadVars
<1>5. AddEffect(s, old, st)
  <2>1. /\ old = NoSession => st = QueueState
        /\ old # NoSession => st = RemoveQueuedPlayer(QueueState, old)
    OBVIOUS
  <2> HIDE DEF s, st
  <2> QED
    BY <1>1, <1>2, <1>3, <1>4, <2>1 DEF AddEffect
<1> HIDE DEF s, old, st
<1> QED
  BY <1>1, <1>2, <1>5

(* The sessions other than the new one and the one it replaces are as      *)
(* RemoveQueuedPlayer left them.                                           *)
LEMMA AddOthers ==
  ASSUME IInv, Waits,
         NEW s \in Sessions, NEW old \in Sessions \cup {NoSession}, NEW st,
         AddEffect(s, old, st)
  PROVE  /\ \A x \in Sessions \ {s, old} :
              /\ Kept(QueueState, st, x) \/ Accepted(QueueState, st, x)
              /\ session'[x] = st.session[x]
              /\ In(m_QueuedPlayer', x) <=> In(st.queue, x)
              /\ Listed(x)' <=> Listed(x)
         /\ Listed(s)'
         /\ ~In(st.queue, s)
         /\ st.session[s] = session[s]
         /\ \/ In(m_QueuedPlayer', s) /\ session'[s] = [session[s] EXCEPT !.inQueue = TRUE]
            \/ ~In(m_QueuedPlayer', s) /\ session'[s] = InitializeSession(session[s])
         /\ old \in Sessions => /\ ~Listed(old)'
                                /\ ~In(m_QueuedPlayer', old)
                                /\ session'[old] = Deleted
<1> USE SessionsAssumption DEF SessionsAssumption
<1>1. /\ m_sessions \in [Accounts -> Sessions \cup {NoSession}]
      /\ session \in [Sessions -> SessionState]
      /\ m_QueuedPlayer \in Seq(Sessions)
      /\ QueueState = [queue |-> m_QueuedPlayer, session |-> session]
      /\ Registered
  BY DEF IInv, TypeOK, QueueState
<1>2. /\ old = m_sessions[AccountOf[s]]
      /\ ~Listed(s)
      /\ old # s
      /\ st.queue \in Seq(Sessions)
      /\ st.session \in [Sessions -> SessionState]
      /\ m_sessions' = [m_sessions EXCEPT ![AccountOf[s]] = s]
  BY DEF AddEffect, QueueOK
<1>3. \A x \in Sessions \ {old} :
        Kept(QueueState, st, x) \/ Accepted(QueueState, st, x)
  <2>1. CASE old = NoSession
    BY <2>1 DEF AddEffect, Kept
  <2>2. CASE old # NoSession
    <3>1. st = RemoveQueuedPlayer(QueueState, old) /\ old \in Sessions
      BY <2>2 DEF AddEffect
    <3> QED
      BY <3>1, PresentQueueOK, RemoveQueuedPlayerKeeps
  <2> QED
    BY <2>1, <2>2
<1>4. old \in Sessions => ~In(st.queue, old)
  <2>1. ASSUME old \in Sessions
        PROVE  ~In(st.queue, old)
    <3>1. st = RemoveQueuedPlayer(QueueState, old)
      BY <2>1 DEF AddEffect
    <3> QED
      BY <2>1, <3>1, PresentQueueOK, RemoveQueuedPlayerKeeps
  <2> QED
    BY <2>1
<1>5. ~In(m_QueuedPlayer, s)
  BY <1>2, QueueMembersListed
<1>6. ~In(st.queue, s) /\ st.session[s] = session[s]
  BY <1>1, <1>2, <1>3, <1>5 DEF Kept, Accepted
<1> DEFINE k == Replaced(st, s, old)
<1>7. /\ k \in [Sessions -> SessionState]
      /\ \A x \in Sessions \ {old} : k[x] = st.session[x]
      /\ old \in Sessions => k[old] = Deleted
  BY <1>2, ConstructorType DEF Replaced
<1> HIDE DEF k
<1>8. \/ /\ m_QueuedPlayer' = Append(st.queue, s)
         /\ session' = [k EXCEPT ![s].inQueue = TRUE]
      \/ /\ m_QueuedPlayer' = st.queue
         /\ session' = [k EXCEPT ![s] = InitializeSession(k[s])]
  BY DEF AddEffect, k
<1>9. /\ \A x \in Sessions \ {s} : session'[x] = k[x]
      /\ \A x \in Sessions \ {s} : In(m_QueuedPlayer', x) <=> In(st.queue, x)
  <2>1. \A x : In(Append(st.queue, s), x) <=> In(st.queue, x) \/ x = s
    BY <1>2, AppendIn
  <2> QED
    BY <1>7, <1>8, <2>1
<1>10. \/ In(m_QueuedPlayer', s) /\ session'[s] = [session[s] EXCEPT !.inQueue = TRUE]
       \/ ~In(m_QueuedPlayer', s) /\ session'[s] = InitializeSession(session[s])
  <2>1. k[s] = session[s]
    BY <1>2, <1>6, <1>7
  <2>2. In(Append(st.queue, s), s)
    BY <1>2, AppendIn
  <2> QED
    BY <1>6, <1>7, <1>8, <2>1, <2>2
<1>11. /\ Listed(s)'
       /\ old \in Sessions => ~Listed(old)'
       /\ \A x \in Sessions \ {s, old} : Listed(x)' <=> Listed(x)
  BY <1>1, <1>2 DEF Listed, Registered
<1>12. \A x \in Sessions \ {s, old} : session'[x] = st.session[x]
  BY <1>7, <1>9
<1>13. old \in Sessions => ~In(m_QueuedPlayer', old) /\ session'[old] = Deleted
  BY <1>2, <1>4, <1>7, <1>9
<1> QED
  BY <1>3, <1>6, <1>9, <1>10, <1>11, <1>12, <1>13

(* What AddSession does to a session that is neither of its two.           *)
LEMMA AddThird ==
  ASSUME IInv, Waits,
         NEW s \in Sessions, NEW old \in Sessions \cup {NoSession}, NEW st,
         AddEffect(s, old, st),
         NEW x \in Sessions, x \notin {s, old}
  PROVE  /\ Kept(QueueState, st, x) \/ Accepted(QueueState, st, x)
         /\ session'[x] = st.session[x]
<1>1. \A y \in Sessions \ {s, old} :
        /\ Kept(QueueState, st, y) \/ Accepted(QueueState, st, y)
        /\ session'[y] = st.session[y]
        /\ In(m_QueuedPlayer', y) <=> In(st.queue, y)
        /\ Listed(y)' <=> Listed(y)
  BY AddOthers
<1>2. x \in Sessions \ {s, old}
  OBVIOUS
<1> QED
  BY <1>1, <1>2

LEMMA AddWaits ==
  ASSUME IInv, Waits, AddSession
  PROVE  Waits'
<1>0. PICK st : \E s \in Sessions, old \in Sessions \cup {NoSession} :
                  AddEffect(s, old, st)
  BY AddEffects
<1>1. PICK s \in Sessions, old \in Sessions \cup {NoSession} :
        AddEffect(s, old, st)
  BY <1>0
<1>2. session \in [Sessions -> SessionState] /\ stopping' = stopping
  BY <1>1 DEF IInv, TypeOK, AddEffect, threadVars
<1>3. WaitsInQueue(s)'
  <2>1. session[s].init = "none" /\ ~session[s].inQueue
    BY <1>1 DEF AddEffect, Waits, WaitsInQueue
  <2>2. LET t == [session[s] EXCEPT !.inQueue = TRUE]
        IN t.init = "none" /\ t.inQueue
    BY <1>2, <2>1 DEF SessionState
  <2>3. LET t == InitializeSession(session[s])
        IN t.init = "sent" /\ ~t.inQueue
    BY <1>2, <2>1, MethodsFields
  <2> QED
    BY <1>1, <2>2, <2>3, AddOthers DEF WaitsInQueue
<1>4. ASSUME old \in Sessions
      PROVE  WaitsInQueue(old)'
  BY <1>1, <1>4, AddOthers, ConstructedFields DEF WaitsInQueue
<1>5. ASSUME NEW x \in Sessions \ {s, old}
      PROVE  WaitsInQueue(x)'
  <2>1. /\ Kept(QueueState, st, x) \/ Accepted(QueueState, st, x)
        /\ session'[x] = st.session[x]
        /\ In(m_QueuedPlayer', x) <=> In(st.queue, x)
        /\ Listed(x)' <=> Listed(x)
    BY <1>1, AddOthers
  <2>2. QueueState.queue = m_QueuedPlayer /\ QueueState.session = session
    BY DEF QueueState
  <2>3. CASE Kept(QueueState, st, x)
    BY <1>2, <2>1, <2>2, <2>3 DEF Kept, Waits, WaitsInQueue
  <2>4. CASE Accepted(QueueState, st, x)
    <3>1. session'[x].init = "sent" /\ ~In(m_QueuedPlayer', x)
      BY <1>2, <2>1, <2>2, <2>4, MethodsFields DEF Accepted
    <3>2. Listed(x)'
      BY <2>1, <2>2, <2>4, QueueMembersListed DEF Accepted
    <3> QED
      BY <3>1, <3>2 DEF WaitsInQueue
  <2> QED
    BY <2>1, <2>3, <2>4
<1> QED
  BY <1>3, <1>4, <1>5 DEF Waits

(* What DropSession does: RemoveQueuedPlayer twice, then the session goes. *)
DropEffect(s, once, twice) ==
  /\ Listed(s)
  /\ QueueOK(once)
  /\ QueueOK(twice)
  /\ once = RemoveQueuedPlayer(QueueState, s)
  /\ twice = RemoveQueuedPlayer(once, s)
  /\ m_sessions' = [m_sessions EXCEPT ![AccountOf[s]] = NoSession]
  /\ UNCHANGED <<stopping, toVisit, m_playerLimit>>
  /\ pc = "sockets" /\ pc' = "visit" /\ current = s
  /\ inWorld' = OutOfWorld(session[s])
  /\ linkSocketQueue' = OutdateLinks(s)
  /\ m_QueuedPlayer' = twice.queue
  /\ session' = [twice.session EXCEPT ![s] = Deleted]

LEMMA DropEffects ==
  ASSUME IInv, DropSession
  PROVE  \E once, twice : \E s \in Sessions : DropEffect(s, once, twice)
<1> DEFINE s == current
           once == RemoveQueuedPlayer(QueueState, s)
           twice == RemoveQueuedPlayer(once, s)
<1>1. s \in Sessions /\ Listed(s)
  BY DEF DropSession, IInv, AtLiveSession, Updating
<1>2. QueueOK(once)
  BY <1>1, PresentQueueOK, RemoveQueuedPlayerFacts
<1>3. QueueOK(twice)
  <2> HIDE DEF once
  <2> QED
    BY <1>1, <1>2, RemoveQueuedPlayerFacts
<1>4. /\ m_sessions' = [m_sessions EXCEPT ![AccountOf[s]] = NoSession]
      /\ UNCHANGED <<stopping, toVisit, m_playerLimit>>
      /\ pc = "sockets" /\ pc' = "visit" /\ current = s
      /\ inWorld' = OutOfWorld(session[s])
      /\ linkSocketQueue' = OutdateLinks(s)
      /\ m_QueuedPlayer' = twice.queue
      /\ session' = [twice.session EXCEPT ![s] = Deleted]
  BY DEF DropSession
<1>5. DropEffect(s, once, twice)
  <2>1. once = RemoveQueuedPlayer(QueueState, s)
        /\ twice = RemoveQueuedPlayer(once, s)
    OBVIOUS
  <2> HIDE DEF s, once, twice
  <2> QED
    BY <1>1, <1>2, <1>3, <1>4, <2>1 DEF DropEffect
<1> HIDE DEF s, once, twice
<1> QED
  BY <1>1, <1>5

LEMMA DropOthers ==
  ASSUME IInv, NEW s \in Sessions, NEW once, NEW twice,
         DropEffect(s, once, twice)
  PROVE  /\ \A x \in Sessions \ {s} :
              /\ Kept(QueueState, twice, x) \/ Accepted(QueueState, twice, x)
              /\ session'[x] = twice.session[x]
              /\ Listed(x)' <=> Listed(x)
         /\ ~Listed(s)'
         /\ ~In(m_QueuedPlayer', s)
         /\ session'[s] = Deleted
<1> USE SessionsAssumption DEF SessionsAssumption
<1>1. /\ m_sessions \in [Accounts -> Sessions \cup {NoSession}]
      /\ m_sessions' = [m_sessions EXCEPT ![AccountOf[s]] = NoSession]
      /\ Listed(s)
  BY DEF IInv, TypeOK, DropEffect
<1>2. QueueOK(QueueState) /\ QueueOK(once) /\ QueueOK(twice)
  BY PresentQueueOK DEF DropEffect
<1>3. \A x \in Sessions \ {s} :
        Kept(QueueState, once, x) \/ Accepted(QueueState, once, x)
  <2>1. once = RemoveQueuedPlayer(QueueState, s)
    BY DEF DropEffect
  <2> QED
    BY <1>2, <2>1, RemoveQueuedPlayerKeeps
<1>4. ~In(twice.queue, s) /\ \A x \in Sessions \ {s} :
        Kept(once, twice, x) \/ Accepted(once, twice, x)
  <2>1. twice = RemoveQueuedPlayer(once, s)
    BY DEF DropEffect
  <2> QED
    BY <1>2, <2>1, RemoveQueuedPlayerKeeps
<1>5. ASSUME NEW x \in Sessions \ {s}
      PROVE  Kept(QueueState, twice, x) \/ Accepted(QueueState, twice, x)
  BY <1>3, <1>4, <1>5 DEF Kept, Accepted
<1>6. /\ m_QueuedPlayer' = twice.queue
      /\ session' = [twice.session EXCEPT ![s] = Deleted]
      /\ twice.session \in [Sessions -> SessionState]
  BY DEF DropEffect, QueueOK
<1>7. /\ ~Listed(s)'
      /\ \A x \in Sessions \ {s} : Listed(x)' <=> Listed(x)
  BY <1>1 DEF Listed
<1> QED
  BY <1>4, <1>5, <1>6, <1>7

LEMMA DropWaits ==
  ASSUME IInv, Waits, DropSession
  PROVE  Waits'
<1>0. PICK once, twice : \E s \in Sessions : DropEffect(s, once, twice)
  BY DropEffects
<1>1. PICK s \in Sessions : DropEffect(s, once, twice)
  BY <1>0
<1>2. /\ session \in [Sessions -> SessionState]
      /\ stopping' = stopping
      /\ m_QueuedPlayer' = twice.queue
      /\ QueueState.queue = m_QueuedPlayer
      /\ QueueState.session = session
  BY <1>1 DEF IInv, TypeOK, DropEffect, QueueState
<1>3. WaitsInQueue(s)'
  BY <1>1, DropOthers, ConstructedFields DEF WaitsInQueue
<1>4. ASSUME NEW x \in Sessions \ {s}
      PROVE  WaitsInQueue(x)'
  <2>1. /\ Kept(QueueState, twice, x) \/ Accepted(QueueState, twice, x)
        /\ session'[x] = twice.session[x]
        /\ Listed(x)' <=> Listed(x)
    BY <1>1, DropOthers
  <2>2. CASE Kept(QueueState, twice, x)
    BY <1>2, <2>1, <2>2 DEF Kept, Waits, WaitsInQueue
  <2>3. CASE Accepted(QueueState, twice, x)
    <3>1. session'[x].init = "sent" /\ ~In(m_QueuedPlayer', x)
      BY <1>2, <2>1, <2>3, MethodsFields DEF Accepted
    <3>2. Listed(x)'
      BY <1>2, <2>1, <2>3, QueueMembersListed DEF Accepted
    <3> QED
      BY <3>1, <3>2 DEF WaitsInQueue
  <2> QED
    BY <2>1, <2>2, <2>3
<1> QED
  BY <1>3, <1>4 DEF Waits

LEMMA NextWaits == IInv /\ Waits /\ [Next]_vars => Waits'
<1> SUFFICES ASSUME IInv, Waits, [Next]_vars PROVE Waits'
  OBVIOUS
<1>1. CASE Network
  BY <1>1, NetworkFields, AloneWaits, SameWaits DEF Network
<1>2. ASSUME NEW s \in Sessions, Database(s) \/ Callback(s)
      PROVE  Waits'
  BY <1>2, AloneWaits DEF Database
<1>3. CASE Commands
  BY <1>3, WorldFields, KickAllWaits, SameWaits DEF Commands
<1>4. CASE Packets
  BY <1>4, PacketsFields, SameWaits
<1>5. CASE WorldThread
  BY <1>5, WorldFields, SameWaits, RejectWaits, AddWaits, DropWaits
  DEF WorldThread
<1>6. CASE UNCHANGED vars
  BY <1>6, WorldFields, SameWaits
<1>7. CASE Stopped
  BY <1>6, <1>7 DEF Stopped
<1> QED
  BY <1>1, <1>2, <1>3, <1>4, <1>5, <1>6, <1>7 DEF Next

(* Whatever connects, drops, is kicked or replaced, and however the limit  *)
(* changes, a session marked as waiting is in the queue or about to be     *)
(* initialised, and one in the queue is marked and not initialised.        *)
THEOREM NobodyIsStranded == Spec => []NobodyStranded
<1>1. IInv /\ Waits => NobodyStranded
  <2>1. \A x : In(m_QueuedPlayer, x) <=> Contains(m_QueuedPlayer, x)
    BY DEF In, Contains
  <2> QED
    BY <2>1 DEF Waits, WaitsInQueue, NobodyStranded
<1> QED
  BY InitIInv, NextIInv, InitWaits, NextWaits, <1>1, PTL DEF Spec

-----------------------------------------------------------------------------
(* Counting *)

Number == GetActiveAndQueuedSessionCount(m_sessions)

LEMMA PutCount ==
  ASSUME NEW ms \in [Accounts -> Sessions \cup {NoSession}],
         NEW a \in Accounts, NEW s \in Sessions, NEW put,
         \A b \in Accounts : put[b] = IF b = a THEN s ELSE ms[b]
  PROVE  /\ GetActiveAndQueuedSessionCount(ms) \in Nat
         /\ ms[a] # NoSession => GetActiveAndQueuedSessionCount(ms) > 0
         /\ GetActiveAndQueuedSessionCount(put) =
              IF ms[a] = NoSession THEN GetActiveAndQueuedSessionCount(ms) + 1
              ELSE GetActiveAndQueuedSessionCount(ms)
<1> DEFINE L == {b \in Accounts : ms[b] # NoSession}
           Put == {b \in Accounts : put[b] # NoSession}
<1>1. IsFiniteSet(L) /\ Cardinality(L) \in Nat
  <2>1. L \subseteq Accounts /\ IsFiniteSet(Accounts)
    BY AccountsAssumption DEF AccountsAssumption
  <2> QED
    BY <2>1, FS_Subset, FS_CardinalityType
<1>2. Put = L \cup {a}
  BY SessionsAssumption DEF SessionsAssumption
<1>3. a \in L <=> ms[a] # NoSession
  OBVIOUS
<1>4. /\ GetActiveAndQueuedSessionCount(ms) = Cardinality(L)
      /\ GetActiveAndQueuedSessionCount(put) = Cardinality(Put)
  BY DEF GetActiveAndQueuedSessionCount
<1> HIDE DEF L, Put
<1>5. a \in L => Cardinality(L) # 0
  BY <1>1, FS_EmptySet
<1>6. Cardinality(L \cup {a}) =
        IF a \in L THEN Cardinality(L) ELSE Cardinality(L) + 1
  BY <1>1, FS_AddElement
<1> QED
  BY <1>1, <1>2, <1>3, <1>4, <1>5, <1>6

LEMMA OutCount ==
  ASSUME NEW ms \in [Accounts -> Sessions \cup {NoSession}],
         NEW a \in Accounts, ms[a] # NoSession, NEW out,
         \A b \in Accounts : out[b] = IF b = a THEN NoSession ELSE ms[b]
  PROVE  /\ GetActiveAndQueuedSessionCount(ms) \in Nat
         /\ GetActiveAndQueuedSessionCount(ms) > 0
         /\ GetActiveAndQueuedSessionCount(out) =
              GetActiveAndQueuedSessionCount(ms) - 1
<1> DEFINE L == {b \in Accounts : ms[b] # NoSession}
           Out == {b \in Accounts : out[b] # NoSession}
<1>1. IsFiniteSet(L) /\ Cardinality(L) \in Nat
  <2>1. L \subseteq Accounts /\ IsFiniteSet(Accounts)
    BY AccountsAssumption DEF AccountsAssumption
  <2> QED
    BY <2>1, FS_Subset, FS_CardinalityType
<1>2. Out = L \ {a}
  OBVIOUS
<1>3. a \in L
  OBVIOUS
<1>4. /\ GetActiveAndQueuedSessionCount(ms) = Cardinality(L)
      /\ GetActiveAndQueuedSessionCount(out) = Cardinality(Out)
  BY DEF GetActiveAndQueuedSessionCount
<1> HIDE DEF L, Out
<1>5. Cardinality(L) # 0
  BY <1>1, <1>3, FS_EmptySet
<1>6. Cardinality(L \ {a}) = Cardinality(L) - 1
  BY <1>1, <1>3, FS_RemoveElement
<1> QED
  BY <1>1, <1>2, <1>4, <1>5, <1>6

(* How RemoveQueuedPlayer changes the length of a queue.                   *)
Removed(length, found, left) ==
  LET active == Number - length
      rest == IF found THEN length - 1 ELSE length
  IN \/ /\ HasRoom(ActiveWithout(active, found))
        /\ rest > 0
        /\ left = rest - 1
     \/ /\ ~HasRoom(ActiveWithout(active, found)) \/ rest = 0
        /\ left = rest

LEMMA RemovedCount ==
  ASSUME NEW st, QueueOK(st), NEW s \in Sessions
  PROVE  /\ Removed(Len(st.queue), In(st.queue, s),
                    Len(RemoveQueuedPlayer(st, s).queue))
         /\ ~In(RemoveQueuedPlayer(st, s).queue, s)
         /\ Len(st.queue) \in Nat
         /\ Len(RemoveQueuedPlayer(st, s).queue) \in Nat
         /\ In(st.queue, s) => Len(st.queue) > 0
<1>1. In(st.queue, s) <=> Contains(st.queue, s)
  BY DEF In, Contains
<1>2. st.queue \in Seq(Sessions) /\ Len(st.queue) \in Nat
  BY DEF QueueOK
<1>3. In(st.queue, s) => Len(st.queue) > 0
  BY <1>2 DEF In
<1>4. RemoveQueuedPlayer(st, s).queue \in Seq(Sessions)
  BY RemoveQueuedPlayerFacts DEF QueueOK
<1>5. ~In(RemoveQueuedPlayer(st, s).queue, s)
  BY RemoveQueuedPlayerKeeps
<1>6. Removed(Len(st.queue), Contains(st.queue, s),
              Len(RemoveQueuedPlayer(st, s).queue))
  BY RemoveQueuedPlayerKeeps DEF Removed, Number
<1>7. Removed(Len(st.queue), In(st.queue, s),
              Len(RemoveQueuedPlayer(st, s).queue))
  BY <1>1, <1>6 DEF Removed, ActiveWithout
<1> QED
  BY <1>2, <1>3, <1>4, <1>5, <1>7

LEMMA AddCounts ==
  ASSUME IInv, NEW s \in Sessions, NEW old \in Sessions \cup {NoSession},
         NEW st, AddEffect(s, old, st)
  PROVE  LET q == Len(m_QueuedPlayer)
             left == Len(st.queue)
         IN /\ q \in Nat /\ left \in Nat /\ Number \in Nat
            /\ Len(m_QueuedPlayer)' =
                 IF MustWait(s, old) THEN left + 1 ELSE left
            /\ MustWait(s, old) => m_playerLimit > 0
            /\ \/ /\ old = NoSession
                  /\ Number' = Number + 1
                  /\ left = q
                  /\ MustWait(s, old) => Number >= m_playerLimit
               \/ /\ old # NoSession
                  /\ Number' = Number
                  /\ Number > 0
                  /\ \/ /\ In(m_QueuedPlayer, old)
                        /\ q > 0
                        /\ Removed(q, TRUE, left)
                        /\ MustWait(s, old) => Number >= m_playerLimit
                     \/ /\ ~In(m_QueuedPlayer, old)
                        /\ Removed(q, FALSE, left)
                        /\ MustWait(s, old) => Number - 1 >= m_playerLimit
<1> DEFINE q == Len(m_QueuedPlayer)
           left == Len(st.queue)
           a == AccountOf[s]
           total == GetActiveAndQueuedSessionCount(Registering(s))
<1>1. /\ m_sessions \in [Accounts -> Sessions \cup {NoSession}]
      /\ m_QueuedPlayer \in Seq(Sessions)
      /\ a \in Accounts
      /\ old = m_sessions[a]
  BY SessionsAssumption DEF IInv, TypeOK, AddEffect, SessionsAssumption
<1>2. /\ Number \in Nat
      /\ old # NoSession => Number > 0
      /\ total = IF old = NoSession THEN Number + 1 ELSE Number
  <2>1. \A b \in Accounts :
          Registering(s)[b] = IF b = a THEN s ELSE m_sessions[b]
    BY <1>1 DEF Registering
  <2> HIDE DEF a
  <2>2. /\ GetActiveAndQueuedSessionCount(m_sessions) \in Nat
        /\ m_sessions[a] # NoSession =>
             GetActiveAndQueuedSessionCount(m_sessions) > 0
        /\ GetActiveAndQueuedSessionCount(Registering(s)) =
             IF m_sessions[a] = NoSession
             THEN GetActiveAndQueuedSessionCount(m_sessions) + 1
             ELSE GetActiveAndQueuedSessionCount(m_sessions)
    BY <1>1, <2>1, PutCount
  <2> QED
    BY <1>1, <2>2 DEF Number
<1>3. Number' = total
  <2>1. m_sessions' = Registering(s)
    BY DEF AddEffect, Registering
  <2> QED
    BY <2>1 DEF Number, GetActiveAndQueuedSessionCount
<1>4. st.queue \in Seq(Sessions) /\ q \in Nat /\ left \in Nat
  BY <1>1 DEF AddEffect, QueueOK
<1>5. Len(m_QueuedPlayer)' = IF MustWait(s, old) THEN left + 1 ELSE left
  BY <1>4, AppendIn DEF AddEffect
<1>6. MustWait(s, old) => m_playerLimit > 0
  BY DEF MustWait
<1>7. In(m_QueuedPlayer, old) <=> Contains(m_QueuedPlayer, old)
  BY DEF In, Contains
<1>8. MustWait(s, old) =>
        IF old = NoSession \/ ~In(m_QueuedPlayer, old)
        THEN total - 1 >= m_playerLimit ELSE total >= m_playerLimit
  BY <1>7 DEF MustWait
<1> HIDE DEF total, q, left
<1>9. CASE old = NoSession
  <2>1. left = q
    BY <1>9 DEF AddEffect, QueueState, left, q
  <2> QED
    BY <1>2, <1>3, <1>4, <1>5, <1>6, <1>8, <1>9, <2>1 DEF q, left
<1>10. CASE old # NoSession
  <2>1. old \in Sessions /\ st = RemoveQueuedPlayer(QueueState, old)
    BY <1>10 DEF AddEffect
  <2>2. /\ Removed(Len(QueueState.queue), In(QueueState.queue, old), left)
        /\ In(QueueState.queue, old) => Len(QueueState.queue) > 0
    BY <2>1, PresentQueueOK, RemovedCount DEF left
  <2>3. QueueState.queue = m_QueuedPlayer
    BY DEF QueueState
  <2>4. Removed(q, In(m_QueuedPlayer, old), left)
        /\ (In(m_QueuedPlayer, old) => q > 0)
    BY <2>2, <2>3 DEF q
  <2>5. CASE In(m_QueuedPlayer, old)
    <3>1. Removed(q, TRUE, left)
      BY <2>4, <2>5 DEF Removed, ActiveWithout
    <3> QED
      BY <1>2, <1>3, <1>4, <1>5, <1>6, <1>8, <1>10, <2>4, <2>5, <3>1 DEF q, left
  <2>6. CASE ~In(m_QueuedPlayer, old)
    <3>1. Removed(q, FALSE, left)
      BY <2>4, <2>6 DEF Removed, ActiveWithout
    <3> QED
      BY <1>2, <1>3, <1>4, <1>5, <1>6, <1>8, <1>10, <2>6, <3>1 DEF q, left
  <2> QED
    BY <2>5, <2>6
<1> QED
  BY <1>9, <1>10

LEMMA DropCounts ==
  ASSUME IInv, NEW s \in Sessions, NEW once, NEW twice,
         DropEffect(s, once, twice)
  PROVE  LET q == Len(m_QueuedPlayer)
             l == Len(once.queue)
         IN /\ q \in Nat /\ l \in Nat /\ Number \in Nat /\ Number > 0
            /\ Len(m_QueuedPlayer)' \in Nat
            /\ Number' = Number - 1
            /\ In(m_QueuedPlayer, s) => q > 0
            /\ Removed(q, In(m_QueuedPlayer, s), l)
            /\ Removed(l, FALSE, Len(m_QueuedPlayer)')
<1> DEFINE q == Len(m_QueuedPlayer)
           l == Len(once.queue)
           a == AccountOf[s]
<1>1. /\ m_sessions \in [Accounts -> Sessions \cup {NoSession}]
      /\ a \in Accounts
      /\ m_sessions[a] = s
      /\ s # NoSession
  BY SessionsAssumption DEF IInv, TypeOK, DropEffect, Listed, SessionsAssumption
<1>2. Number \in Nat /\ Number > 0 /\ Number' = Number - 1
  <2>1. \A b \in Accounts :
          m_sessions'[b] = IF b = a THEN NoSession ELSE m_sessions[b]
    BY <1>1 DEF DropEffect
  <2>2. Number' = GetActiveAndQueuedSessionCount(m_sessions')
    BY DEF Number, GetActiveAndQueuedSessionCount
  <2> HIDE DEF a
  <2> QED
    BY <1>1, <2>1, <2>2, OutCount DEF Number
<1>3. /\ once = RemoveQueuedPlayer(QueueState, s)
      /\ twice = RemoveQueuedPlayer(once, s)
      /\ QueueOK(once)
      /\ m_QueuedPlayer' = twice.queue
  BY DEF DropEffect
<1>4. /\ Removed(Len(QueueState.queue), In(QueueState.queue, s), l)
      /\ In(QueueState.queue, s) => Len(QueueState.queue) > 0
      /\ ~In(once.queue, s)
      /\ Len(QueueState.queue) \in Nat
      /\ l \in Nat
  BY <1>3, PresentQueueOK, RemovedCount
<1>5. QueueState.queue = m_QueuedPlayer
  BY DEF QueueState
<1>6. /\ Removed(l, In(once.queue, s), Len(twice.queue))
      /\ Len(twice.queue) \in Nat
  BY <1>3, RemovedCount
<1>7. Removed(l, FALSE, Len(twice.queue))
  BY <1>4, <1>6 DEF Removed, ActiveWithout
<1> QED
  BY <1>2, <1>3, <1>4, <1>5, <1>6, <1>7

(* A queue has an active session ahead of it, whatever the limit.          *)
Moves == Len(m_QueuedPlayer) > 0 => Number > Len(m_QueuedPlayer)

(* With a limit that does not change, as many as the limit.                *)
FixedLimit == Limits \subseteq {InitialLimit}
Full ==
  Len(m_QueuedPlayer) > 0 =>
    m_playerLimit > 0 /\ Number - Len(m_QueuedPlayer) >= m_playerLimit

LEMMA LimitType == IInv => m_playerLimit \in Nat
BY NumbersAssumption DEF NumbersAssumption, IInv, TypeOK

LEMMA InitCounts == Init => Moves /\ Full
BY EmptySeq DEF Init, Moves, Full

LEMMA AddCounted ==
  ASSUME IInv, AddSession
  PROVE  Moves => Moves'
<1>0. PICK st : \E s \in Sessions, old \in Sessions \cup {NoSession} :
                  AddEffect(s, old, st)
  BY AddEffects
<1>1. PICK s \in Sessions, old \in Sessions \cup {NoSession} :
        AddEffect(s, old, st)
  BY <1>0
<1>2. m_playerLimit \in Nat /\ m_playerLimit' = m_playerLimit
  BY <1>1, LimitType DEF AddEffect
<1> DEFINE q == Len(m_QueuedPlayer)
           p == Len(m_QueuedPlayer)'
           left == Len(st.queue)
<1>3. /\ q \in Nat /\ left \in Nat /\ Number \in Nat
      /\ p = IF MustWait(s, old) THEN left + 1 ELSE left
      /\ MustWait(s, old) => m_playerLimit > 0
      /\ \/ /\ Number' = Number + 1
            /\ left = q
            /\ MustWait(s, old) => Number >= m_playerLimit
         \/ /\ Number' = Number
            /\ Number > 0
            /\ \/ /\ q > 0
                  /\ Removed(q, TRUE, left)
                  /\ MustWait(s, old) => Number >= m_playerLimit
               \/ /\ Removed(q, FALSE, left)
                  /\ MustWait(s, old) => Number - 1 >= m_playerLimit
  BY <1>1, AddCounts
<1> HIDE DEF q, p, left
<1>4. (q > 0 => Number > q) => (p > 0 => Number' > p)
  BY <1>2, <1>3 DEF Removed, HasRoom, ActiveWithout
<1> QED
  BY <1>4 DEF Moves, q, p

LEMMA DropCounted ==
  ASSUME IInv, DropSession
  PROVE  Moves => Moves'
<1>0. PICK once, twice : \E s \in Sessions : DropEffect(s, once, twice)
  BY DropEffects
<1>1. PICK s \in Sessions : DropEffect(s, once, twice)
  BY <1>0
<1>2. m_playerLimit \in Nat
  BY LimitType
<1> DEFINE q == Len(m_QueuedPlayer)
           p == Len(m_QueuedPlayer)'
           l == Len(once.queue)
           waiting == In(m_QueuedPlayer, s)
<1>3. /\ q \in Nat /\ l \in Nat /\ p \in Nat /\ Number \in Nat
      /\ Number > 0
      /\ Number' = Number - 1
      /\ waiting => q > 0
      /\ Removed(q, waiting, l)
      /\ Removed(l, FALSE, p)
  BY <1>1, DropCounts
<1> HIDE DEF q, p, l, waiting
<1>4. (q > 0 => Number > q) => (p > 0 => Number' > p)
  BY <1>2, <1>3 DEF Removed, HasRoom, ActiveWithout
<1> QED
  BY <1>4 DEF Moves, q, p

LEMMA AddFull ==
  ASSUME IInv, AddSession
  PROVE  Full => Full'
<1>0. PICK st : \E s \in Sessions, old \in Sessions \cup {NoSession} :
                  AddEffect(s, old, st)
  BY AddEffects
<1>1. PICK s \in Sessions, old \in Sessions \cup {NoSession} :
        AddEffect(s, old, st)
  BY <1>0
<1>2. m_playerLimit \in Nat /\ m_playerLimit' = m_playerLimit
  BY <1>1, LimitType DEF AddEffect
<1> DEFINE q == Len(m_QueuedPlayer)
           p == Len(m_QueuedPlayer)'
           left == Len(st.queue)
<1>3. /\ q \in Nat /\ left \in Nat /\ Number \in Nat
      /\ p = IF MustWait(s, old) THEN left + 1 ELSE left
      /\ MustWait(s, old) => m_playerLimit > 0
      /\ \/ /\ Number' = Number + 1
            /\ left = q
            /\ MustWait(s, old) => Number >= m_playerLimit
         \/ /\ Number' = Number
            /\ Number > 0
            /\ \/ /\ q > 0
                  /\ Removed(q, TRUE, left)
                  /\ MustWait(s, old) => Number >= m_playerLimit
               \/ /\ Removed(q, FALSE, left)
                  /\ MustWait(s, old) => Number - 1 >= m_playerLimit
  BY <1>1, AddCounts
<1> HIDE DEF q, p, left
<1>4. (q > 0 => m_playerLimit > 0 /\ Number - q >= m_playerLimit) =>
        (p > 0 => m_playerLimit > 0 /\ Number' - p >= m_playerLimit)
  BY <1>2, <1>3 DEF Removed, HasRoom, ActiveWithout
<1> QED
  BY <1>2, <1>4 DEF Full, q, p

LEMMA DropFull ==
  ASSUME IInv, DropSession
  PROVE  Full => Full'
<1>0. PICK once, twice : \E s \in Sessions : DropEffect(s, once, twice)
  BY DropEffects
<1>1. PICK s \in Sessions : DropEffect(s, once, twice)
  BY <1>0
<1>2. m_playerLimit \in Nat /\ m_playerLimit' = m_playerLimit
  BY <1>1, LimitType DEF DropEffect
<1> DEFINE q == Len(m_QueuedPlayer)
           p == Len(m_QueuedPlayer)'
           l == Len(once.queue)
           waiting == In(m_QueuedPlayer, s)
<1>3. /\ q \in Nat /\ l \in Nat /\ p \in Nat /\ Number \in Nat
      /\ Number > 0
      /\ Number' = Number - 1
      /\ waiting => q > 0
      /\ Removed(q, waiting, l)
      /\ Removed(l, FALSE, p)
  BY <1>1, DropCounts
<1> HIDE DEF q, p, l, waiting
<1>4. (q > 0 => m_playerLimit > 0 /\ Number - q >= m_playerLimit) =>
        (p > 0 => m_playerLimit > 0 /\ Number' - p >= m_playerLimit)
  BY <1>2, <1>3 DEF Removed, HasRoom, ActiveWithout
<1> QED
  BY <1>2, <1>4 DEF Full, q, p

(* All other steps leave the registry and the queue alone, or empty it.    *)
LEMMA NextCounted ==
  ASSUME IInv, [Next]_vars
  PROVE  (Moves => Moves') /\ (FixedLimit /\ Full => Full')
<1> USE DEF worldVars, threadVars, allButSession
<1>1. CASE AddSession
  BY <1>1, AddCounted, AddFull
<1>2. CASE DropSession
  BY <1>2, DropCounted, DropFull
<1>3. CASE KickAll
  <2>1. Len(m_QueuedPlayer)' = 0
    BY <1>3, EmptySeq DEF KickAll
  <2> QED
    BY <2>1 DEF Moves, Full
<1>4. ASSUME NEW limit \in Limits, SetPlayerAmountLimit(limit)
      PROVE  (Moves => Moves') /\ (FixedLimit /\ Full => Full')
  <2>1. UNCHANGED <<m_sessions, m_QueuedPlayer>>
    BY <1>4 DEF SetPlayerAmountLimit
  <2>2. FixedLimit => m_playerLimit' = m_playerLimit
    BY <1>4 DEF SetPlayerAmountLimit, FixedLimit, IInv, TypeOK
  <2>3. Number' = Number
    BY <2>1 DEF Number, GetActiveAndQueuedSessionCount
  <2> QED
    BY <2>1, <2>2, <2>3 DEF Moves, Full
<1>5. ASSUME UNCHANGED <<m_sessions, m_QueuedPlayer, m_playerLimit>>
      PROVE  (Moves => Moves') /\ (FixedLimit /\ Full => Full')
  <2>1. Number' = Number
    BY <1>5 DEF Number, GetActiveAndQueuedSessionCount
  <2> QED
    BY <1>5, <2>1 DEF Moves, Full
<1>6. CASE Network
  BY <1>5, <1>6 DEF Network, NewConnection, NetworkClose,
     HandleAuthContinuedSession, HandleConnectToFailed
<1>7. ASSUME NEW s \in Sessions, Database(s) \/ Callback(s)
      PROVE  (Moves => Moves') /\ (FixedLimit /\ Full => Full')
  BY <1>5, <1>7 DEF Database, Callback, InitQueryDone, LoginQueryDone,
     InitializeSessionCallback, HandlePlayerLogin
<1>8. CASE Commands
  BY <1>3, <1>4, <1>5, <1>8 DEF Commands, Kick, Tick
<1>9. CASE Packets
  BY <1>5, <1>9 DEF Packets, HandlePlayerLoginOpcode,
     HandleLogoutRequestOpcode, HandleLogoutCancelOpcode
<1>10. CASE WorldThread
  BY <1>1, <1>2, <1>5, <1>10 DEF WorldThread, StartUpdateSessions, GoTo,
     ProcessLinkInstanceSocket, LinksDone, RejectSession, AddsDone, BeginUpdate,
     PacketsDone, CallbacksDone, LogoutIfDue, KeepSession, UpdateSessionsDone
<1>11. CASE UNCHANGED vars
  BY <1>5, <1>11 DEF vars
<1>12. CASE Stopped
  BY <1>11, <1>12 DEF Stopped
<1> QED
  BY <1>6, <1>7, <1>8, <1>9, <1>10, <1>11, <1>12 DEF Next

LEMMA QueueLength ==
  ASSUME IInv
  PROVE  /\ Len(m_QueuedPlayer) \in Nat
         /\ m_QueuedPlayer # <<>> => Len(m_QueuedPlayer) > 0
         /\ Number \in Nat
         /\ GetActiveSessionCount = Number - Len(m_QueuedPlayer)
<1>1. m_QueuedPlayer \in Seq(Sessions)
  BY DEF IInv, TypeOK
<1>2. Number \in Nat
  <2>1. {a \in Accounts : m_sessions[a] # NoSession} \subseteq Accounts
    OBVIOUS
  <2> QED
    BY <2>1, AccountsAssumption, FS_Subset, FS_CardinalityType
    DEF AccountsAssumption, Number, GetActiveAndQueuedSessionCount
<1> QED
  BY <1>1, <1>2, EmptySeq DEF GetActiveSessionCount, Number

(* However the limit is changed at run time, and whoever connects, is      *)
(* replaced or dropped, players wait only behind an active session.        *)
THEOREM QueueMoves == Spec => []QueueCanMove
<1>1. IInv /\ Moves => QueueCanMove
  BY QueueLength DEF Moves, QueueCanMove
<1> QED
  BY InitIInv, NextIInv, InitCounts, NextCounted, <1>1, PTL DEF Spec

(* With a limit that does not change, players wait only while as many      *)
(* sessions as the limit are active.                                       *)
THEOREM NobodyWaits ==
  ASSUME FixedLimit
  PROVE  Spec => []NobodyWaitsForNothing
<1>1. IInv /\ Full => NobodyWaitsForNothing
  BY QueueLength DEF Full, NobodyWaitsForNothing
<1>2. IInv /\ Full /\ [Next]_vars => Full'
  BY NextCounted
<1> QED
  BY InitIInv, NextIInv, InitCounts, <1>1, <1>2, PTL DEF Spec

-----------------------------------------------------------------------------
(* Who is initialised *)

(* RemoveQueuedPlayer accepts the first in the queue, and only while there *)
(* is room.                                                                *)
LEMMA AcceptsFirst ==
  ASSUME NEW st, QueueOK(st), NEW s \in Sessions, NEW x \in Sessions \ {s},
         Accepted(st, RemoveQueuedPlayer(st, s), x)
  PROVE  /\ HasRoom(ActiveWithout(Number - Len(st.queue), Contains(st.queue, s)))
         /\ ~In(st.queue, s) => x = st.queue[1]
         /\ \A y \in Sessions \ {s, x} : Kept(st, RemoveQueuedPlayer(st, s), y)
<1> DEFINE q == Erase(st.queue, s)
           f == IF Contains(st.queue, s)
                THEN [st.session EXCEPT ![s].inQueue = FALSE]
                ELSE st.session
           rest == [queue |-> q, session |-> f]
           out == RemoveQueuedPlayer(st, s)
           room == HasRoom(ActiveWithout(
                     GetActiveAndQueuedSessionCount(m_sessions) - Len(st.queue),
                     Contains(st.queue, s)))
<1>1. /\ st.queue \in Seq(Sessions)
      /\ Distinct(st.queue)
      /\ st.session \in [Sessions -> SessionState]
  BY DEF QueueOK
<1>2. /\ q \in Seq(Sessions)
      /\ Distinct(q)
      /\ \A y \in Sessions \ {s} : In(q, y) <=> In(st.queue, y)
      /\ ~In(st.queue, s) => q = st.queue
  <2>1. In(st.queue, s) <=> Contains(st.queue, s)
    BY DEF In, Contains
  <2> QED
    BY <1>1, <2>1, EraseFacts, EraseKeeps DEF Erase
<1>3. /\ \A y \in Sessions \ {s} : f[y] = st.session[y]
      /\ DOMAIN f = Sessions
  BY <1>1
<1>4. /\ room /\ q # <<>> => out = AcceptFirst(rest)
      /\ ~(room /\ q # <<>>) => out = rest
  BY DEF RemoveQueuedPlayer
<1>5. In(st.queue, x) /\ ~In(out.queue, x)
  BY DEF Accepted
<1> HIDE DEF q, f, out, room
<1>6. room /\ q # <<>>
  <2>1. ASSUME ~(room /\ q # <<>>) PROVE FALSE
    <3>1. out.queue = q
      BY <1>4, <2>1
    <3> QED
      BY <1>2, <1>5, <3>1
  <2> QED
    BY <2>1
<1> DEFINE h == Head(q)
<1>7. out.queue = Tail(q) /\ out.session = [f EXCEPT ![h] = InitializeSession(@)]
  BY <1>4, <1>6 DEF AcceptFirst
<1>8. /\ h \in Sessions
      /\ h = q[1]
      /\ Len(q) \in Nat \ {0}
      /\ Len(Tail(q)) = Len(q) - 1
      /\ \A i \in 1 .. Len(Tail(q)) : Tail(q)[i] = q[i + 1]
  BY <1>2, <1>6, HeadTailProperties
<1> HIDE DEF h
<1>9. ASSUME NEW y \in Sessions \ {h}
      PROVE  In(Tail(q), y) <=> In(q, y)
  <2>1. In(Tail(q), y) => In(q, y)
    BY <1>8 DEF In
  <2>2. ASSUME In(q, y) PROVE In(Tail(q), y)
    <3>1. PICK k \in 1 .. Len(q) : q[k] = y
      BY <2>2 DEF In
    <3>2. k # 1
      BY <1>8, <3>1
    <3>3. k - 1 \in 1 .. Len(Tail(q)) /\ Tail(q)[k - 1] = q[(k - 1) + 1]
      BY <1>8, <3>1, <3>2
    <3> QED
      BY <3>1, <3>3 DEF In
  <2> QED
    BY <2>1, <2>2
<1>10. x = h
  BY <1>2, <1>5, <1>7, <1>9
<1>11. \A y \in Sessions \ {s, x} : Kept(st, out, y)
  BY <1>2, <1>3, <1>7, <1>9, <1>10 DEF Kept
<1> QED
  BY <1>2, <1>6, <1>8, <1>10, <1>11 DEF room, out, Number

(* With a limit that does not change RemoveQueuedPlayer accepts nobody     *)
(* when it removes one who waits.                                          *)
LEMMA NoneForWaiting ==
  ASSUME NEW st, QueueOK(st), NEW s \in Sessions, In(st.queue, s),
         m_playerLimit \in Nat, Number \in Nat,
         m_playerLimit > 0, Number - Len(st.queue) >= m_playerLimit
  PROVE  \A x \in Sessions \ {s} : ~Accepted(st, RemoveQueuedPlayer(st, s), x)
<1>1. Contains(st.queue, s)
  BY DEF In, Contains
<1>2. Len(st.queue) \in Nat
  BY DEF QueueOK
<1>3. ~HasRoom(ActiveWithout(Number - Len(st.queue), Contains(st.queue, s)))
  BY <1>1, <1>2 DEF HasRoom, ActiveWithout
<1> QED
  BY <1>3, AcceptsFirst

(* Whoever DropSession lets in was the first in the queue.                 *)
LEMMA DropAccepts ==
  ASSUME IInv, FixedLimit, Full, NEW s \in Sessions, NEW once, NEW twice,
         DropEffect(s, once, twice), NEW x \in Sessions \ {s},
         Accepted(QueueState, twice, x)
  PROVE  /\ ~In(m_QueuedPlayer, s)
         /\ x = m_QueuedPlayer[1]
         /\ Number - Len(m_QueuedPlayer) - 1 < m_playerLimit
         /\ \A y \in Sessions \ {s, x} : Kept(QueueState, twice, y)
<1>1. /\ QueueOK(QueueState) /\ QueueOK(once)
      /\ once = RemoveQueuedPlayer(QueueState, s)
      /\ twice = RemoveQueuedPlayer(once, s)
      /\ QueueState.queue = m_QueuedPlayer
      /\ m_playerLimit \in Nat
      /\ Number \in Nat
      /\ Len(m_QueuedPlayer) \in Nat
  BY PresentQueueOK, LimitType, QueueLength DEF DropEffect, QueueState
<1>2. In(m_QueuedPlayer, x)
  BY <1>1 DEF Accepted
<1>3. /\ Len(m_QueuedPlayer) > 0
      /\ m_playerLimit > 0
      /\ Number - Len(m_QueuedPlayer) >= m_playerLimit
  BY <1>1, <1>2 DEF Full, In
<1>4. /\ \A y \in Sessions \ {s} :
           /\ Kept(QueueState, once, y) \/ Accepted(QueueState, once, y)
           /\ Kept(once, twice, y) \/ Accepted(once, twice, y)
      /\ ~In(once.queue, s)
  BY <1>1, RemoveQueuedPlayerKeeps
<1>5. /\ Removed(Len(m_QueuedPlayer), In(m_QueuedPlayer, s), Len(once.queue))
      /\ Len(once.queue) \in Nat
  BY <1>1, RemovedCount
<1>6. ~Contains(once.queue, s)
  BY <1>4 DEF In, Contains
<1>7. ASSUME NEW y \in Sessions \ {s}, Accepted(once, twice, y)
      PROVE  Number - Len(once.queue) - 1 < m_playerLimit
  <2>1. HasRoom(ActiveWithout(Number - Len(once.queue), Contains(once.queue, s)))
    BY <1>1, <1>7, AcceptsFirst
  <2> QED
    BY <1>1, <1>3, <1>5, <1>6, <2>1 DEF HasRoom, ActiveWithout
<1>8. CASE In(m_QueuedPlayer, s)
  <2>1. \A y \in Sessions \ {s} : ~Accepted(QueueState, once, y)
    BY <1>1, <1>3, <1>8, NoneForWaiting
  <2>2. Len(once.queue) = Len(m_QueuedPlayer) - 1
    BY <1>1, <1>3, <1>5, <1>8 DEF Removed, HasRoom, ActiveWithout
  <2>3. ~Accepted(once, twice, x)
    BY <1>1, <1>3, <1>7, <2>2
  <2> QED
    BY <1>4, <2>1, <2>3 DEF Kept, Accepted
<1>9. CASE ~In(m_QueuedPlayer, s)
  <2>1. ~Contains(m_QueuedPlayer, s)
    BY <1>9 DEF In, Contains
  <2>2. CASE Accepted(QueueState, once, x)
    <3>1. /\ HasRoom(ActiveWithout(Number - Len(m_QueuedPlayer), FALSE))
          /\ x = m_QueuedPlayer[1]
          /\ \A y \in Sessions \ {s, x} : Kept(QueueState, once, y)
      <4>1. /\ HasRoom(ActiveWithout(Number - Len(m_QueuedPlayer),
                                     Contains(m_QueuedPlayer, s)))
            /\ x = m_QueuedPlayer[1]
            /\ \A y \in Sessions \ {s, x} : Kept(QueueState, once, y)
        BY <1>1, <1>9, <2>2, AcceptsFirst
      <4> QED
        BY <2>1, <4>1 DEF ActiveWithout
    <3>2. Number - Len(m_QueuedPlayer) - 1 < m_playerLimit
      BY <1>1, <1>3, <3>1 DEF HasRoom, ActiveWithout
    <3>3. Len(once.queue) = Len(m_QueuedPlayer) - 1
      <4>1. Removed(Len(m_QueuedPlayer), FALSE, Len(once.queue))
        BY <1>5, <1>9 DEF Removed, ActiveWithout
      <4> DEFINE q == Len(m_QueuedPlayer)
                 l == Len(once.queue)
      <4>2. /\ q \in Nat /\ q > 0 /\ l \in Nat
            /\ HasRoom(ActiveWithout(Number - q, FALSE))
            /\ Removed(q, FALSE, l)
        BY <1>1, <1>3, <1>5, <3>1, <4>1
      <4> HIDE DEF q, l
      <4>3. l = q - 1
        BY <1>1, <4>2 DEF Removed, HasRoom, ActiveWithout
      <4> QED
        BY <4>3 DEF q, l
    <3>4. \A y \in Sessions \ {s} : ~Accepted(once, twice, y)
      BY <1>1, <1>3, <1>7, <3>3
    <3>5. \A y \in Sessions \ {s, x} : Kept(QueueState, twice, y)
      BY <1>4, <3>1, <3>4 DEF Kept
    <3> QED
      BY <1>9, <3>1, <3>2, <3>5
  <2>3. CASE ~Accepted(QueueState, once, x)
    <3>1. Kept(QueueState, once, x) /\ Accepted(once, twice, x)
      BY <1>4, <2>3 DEF Kept, Accepted
    <3>2. Number - Len(once.queue) - 1 < m_playerLimit
      BY <1>7, <3>1
    <3>3. Len(once.queue) = Len(m_QueuedPlayer)
      <4>1. Removed(Len(m_QueuedPlayer), FALSE, Len(once.queue))
        BY <1>5, <1>9 DEF Removed, ActiveWithout
      <4>2. CASE Len(once.queue) = Len(m_QueuedPlayer) - 1
        BY <1>1, <1>3, <3>2, <4>2
      <4> QED
        BY <1>1, <1>3, <4>1, <4>2 DEF Removed
    <3>4. Removed(Len(m_QueuedPlayer), FALSE, Len(once.queue))
      BY <1>5, <1>9 DEF Removed, ActiveWithout
    <3>5. FALSE
      <4> DEFINE q == Len(m_QueuedPlayer)
                 l == Len(once.queue)
      <4>1. /\ q \in Nat /\ q > 0 /\ l = q
            /\ m_playerLimit \in Nat /\ m_playerLimit > 0
            /\ Number \in Nat /\ Number - q >= m_playerLimit
            /\ Number - l - 1 < m_playerLimit
            /\ Removed(q, FALSE, l)
        BY <1>1, <1>3, <3>2, <3>3, <3>4
      <4> HIDE DEF q, l
      <4> QED
        BY <4>1 DEF Removed, HasRoom, ActiveWithout
    <3> QED
      BY <3>5
  <2> QED
    BY <2>2, <2>3
<1> QED
  BY <1>8, <1>9

(* ... and so was whoever AddSession lets in for the session replaced.     *)
LEMMA AddAccepts ==
  ASSUME IInv, Full, NEW s \in Sessions,
         NEW old \in Sessions \cup {NoSession}, NEW st, AddEffect(s, old, st),
         NEW x \in Sessions \ {old}, Accepted(QueueState, st, x)
  PROVE  /\ old # NoSession
         /\ ~In(m_QueuedPlayer, old)
         /\ x = m_QueuedPlayer[1]
         /\ Number - Len(m_QueuedPlayer) - 1 < m_playerLimit
         /\ \A y \in Sessions \ {old, x} : Kept(QueueState, st, y)
<1>1. /\ QueueOK(QueueState)
      /\ QueueState.queue = m_QueuedPlayer
      /\ m_playerLimit \in Nat
      /\ Number \in Nat
      /\ Len(m_QueuedPlayer) \in Nat
  BY PresentQueueOK, LimitType, QueueLength DEF QueueState
<1>2. In(m_QueuedPlayer, x)
  BY <1>1 DEF Accepted
<1>3. /\ Len(m_QueuedPlayer) > 0
      /\ m_playerLimit > 0
      /\ Number - Len(m_QueuedPlayer) >= m_playerLimit
  BY <1>1, <1>2 DEF Full, In
<1>4. old \in Sessions /\ old # NoSession
      /\ st = RemoveQueuedPlayer(QueueState, old)
  BY DEF AddEffect, Accepted
<1>5. ~In(m_QueuedPlayer, old)
  BY <1>1, <1>3, <1>4, NoneForWaiting
<1>6. ~Contains(m_QueuedPlayer, old)
  BY <1>5 DEF In, Contains
<1>7. /\ HasRoom(ActiveWithout(Number - Len(m_QueuedPlayer),
                               Contains(m_QueuedPlayer, old)))
      /\ x = m_QueuedPlayer[1]
      /\ \A y \in Sessions \ {old, x} : Kept(QueueState, st, y)
  BY <1>1, <1>4, <1>5, AcceptsFirst
<1>8. Number - Len(m_QueuedPlayer) - 1 < m_playerLimit
  BY <1>1, <1>3, <1>6, <1>7 DEF HasRoom, ActiveWithout
<1> QED
  BY <1>4, <1>5, <1>7, <1>8

(* A session that may not skip the queue is only let in while nobody waits *)
(* and there is room for it.                                               *)
LEMMA AddHasRoom ==
  ASSUME IInv, Full, Tolerance = 0, m_playerLimit > 0, NEW s \in Sessions,
         NEW old \in Sessions \cup {NoSession}, NEW st, AddEffect(s, old, st),
         ~MustWait(s, old), AccountOf[s] \notin SkipQueue
  PROVE  /\ Len(m_QueuedPlayer) = 0
         /\ Number' <= m_playerLimit
<1> DEFINE total == GetActiveAndQueuedSessionCount(Registering(s))
           q == Len(m_QueuedPlayer)
<1>1. /\ m_playerLimit \in Nat
      /\ Number \in Nat
      /\ q \in Nat
      /\ In(m_QueuedPlayer, old) <=> Contains(m_QueuedPlayer, old)
  BY LimitType, QueueLength DEF In, Contains
<1>2. ~HasRecentlyDisconnected(AccountOf[s])
  BY DEF HasRecentlyDisconnected
<1>3. Number' = total
  <2>1. m_sessions' = Registering(s)
    BY DEF AddEffect, Registering
  <2> QED
    BY <2>1 DEF Number, GetActiveAndQueuedSessionCount
<1>4. /\ \/ old = NoSession /\ Number' = Number + 1
         \/ old # NoSession /\ Number' = Number
      /\ In(m_QueuedPlayer, old) => old # NoSession
  <2>1. ~In(m_QueuedPlayer, NoSession)
    BY SessionsAssumption DEF SessionsAssumption, In, IInv, TypeOK
  <2> QED
    BY <2>1, AddCounts
<1>5. ~((IF old = NoSession \/ ~In(m_QueuedPlayer, old)
         THEN total - 1 ELSE total) >= m_playerLimit)
  BY <1>1, <1>2 DEF MustWait
<1>6. q > 0 => Number - q >= m_playerLimit
  BY DEF Full
<1> HIDE DEF total, q
<1>7. CASE In(m_QueuedPlayer, old)
  <2>1. Number < m_playerLimit
    BY <1>1, <1>3, <1>4, <1>5, <1>7
  <2> QED
    BY <1>1, <1>4, <1>6, <1>7, <2>1 DEF q
<1>8. CASE ~In(m_QueuedPlayer, old)
  <2>1. Number' - 1 < m_playerLimit
    BY <1>1, <1>3, <1>4, <1>5, <1>8
  <2> QED
    BY <1>1, <1>4, <1>6, <2>1 DEF q
<1> QED
  BY <1>7, <1>8

(* All steps but AddSession and DropSession leave the registry alone, and  *)
(* a session as it was but for the query on its way, unless it is not      *)
(* listed.                                                                 *)
Progress(x) ==
  \/ SameFields(x)
  \/ session[x].init = "sent" /\ session'[x].init = "ready"
  \/ session[x].init = "ready" /\ session'[x].init = "none"
  \/ ~Listed(x) /\ session'[x].init = "none"

LEMMA OtherSteps ==
  ASSUME IInv, [Next]_vars, ~AddSession, ~DropSession
  PROVE  /\ m_sessions' = m_sessions
         /\ \A x \in Sessions : Progress(x)
<1>1. session \in [Sessions -> SessionState]
  BY DEF IInv, TypeOK
<1>2. ASSUME NEW s \in Sessions, NEW t, session' = [session EXCEPT ![s] = t],
             \/ session[s].init = "sent" /\ t.init = "ready"
             \/ session[s].init = "ready" /\ t.init = "none"
             \/ ~Listed(s) /\ t.init = "none"
      PROVE  \A x \in Sessions : Progress(x)
  BY <1>1, <1>2 DEF Progress, SameFields
<1>3. CASE Network
  <2>1. ASSUME NEW s \in Sessions, NewConnection(s)
        PROVE  /\ m_sessions' = m_sessions
               /\ \A x \in Sessions : Progress(x)
    BY <1>2, <2>1, ConstructedFields DEF NewConnection, Alive, worldVars
  <2> QED
    BY <1>3, <2>1, NetworkFields DEF Network, Progress
<1>4. ASSUME NEW s \in Sessions, Database(s) \/ Callback(s)
      PROVE  /\ m_sessions' = m_sessions
             /\ \A x \in Sessions : Progress(x)
  <2>1. CASE InitQueryDone(s)
    <3>1. [session[s] EXCEPT !.init = "ready"].init = "ready"
      BY <1>1 DEF SessionState
    <3> QED
      BY <1>2, <2>1, <3>1 DEF InitQueryDone, allButSession, worldVars
  <2>2. CASE InitializeSessionCallback(s)
    <3>1. Initialized(session[s]).init = "none"
      BY <1>1, MethodsFields
    <3> QED
      BY <1>2, <2>2, <3>1 DEF InitializeSessionCallback, allButSession, worldVars
  <2>3. CASE LoginQueryDone(s) \/ HandlePlayerLogin(s)
    BY <2>3, LoginFields DEF Progress
  <2> QED
    BY <1>4, <2>1, <2>2, <2>3 DEF Database, Callback
<1>5. CASE KickAll
  BY <1>1, <1>5, MethodsFields DEF KickAll, Progress, SameFields
<1>6. CASE Commands
  BY <1>5, <1>6, WorldFields DEF Commands, Progress
<1>7. CASE Packets
  BY <1>7, PacketsFields DEF Progress
<1>8. CASE RejectSession
  <2>1. Head(addSessQueue) \in Sessions /\ ~Listed(Head(addSessQueue))
    BY <1>8, NextNewSession DEF RejectSession
  <2> QED
    BY <1>2, <1>8, <2>1, ConstructedFields DEF RejectSession, worldVars
<1>9. CASE WorldThread
  BY <1>8, <1>9, WorldFields DEF WorldThread, Progress
<1>10. CASE UNCHANGED vars \/ Stopped
  BY <1>10, WorldFields DEF Stopped, Progress
<1> QED
  BY <1>3, <1>4, <1>6, <1>7, <1>9, <1>10 DEF Next

(* Only AddSession and DropSession set an initialisation off.              *)
LEMMA WhoInitializes ==
  ASSUME IInv, [Next]_vars, NEW s \in Sessions,
         session[s].init = "none", session'[s].init = "sent"
  PROVE  AddSession \/ DropSession
BY OtherSteps DEF Progress, SameFields

(* Whoever is initialised was the first in the queue, or is new and finds  *)
(* it empty.                                                               *)
LEMMA InOrder ==
  ASSUME IInv, Waits, FixedLimit, Full, Tolerance = 0, [Next]_vars,
         NEW x \in Sessions, AccountOf[x] \notin SkipQueue,
         session[x].init = "none", session'[x].init = "sent"
  PROVE  Len(m_QueuedPlayer) = 0 \/ x = m_QueuedPlayer[1]
<1>1. /\ session \in [Sessions -> SessionState]
      /\ QueueState.session = session
      /\ m_playerLimit \in Nat
      /\ Len(m_QueuedPlayer) \in Nat
  BY LimitType, QueueLength DEF IInv, TypeOK, QueueState
<1>2. CASE AddSession
  <2>0. PICK st : \E s \in Sessions, old \in Sessions \cup {NoSession} :
                    AddEffect(s, old, st)
    BY <1>2, AddEffects
  <2>1. PICK s \in Sessions, old \in Sessions \cup {NoSession} :
          AddEffect(s, old, st)
    BY <2>0
  <2>2. CASE x = s
    <3>1. ~MustWait(s, old)
      <4>1. ASSUME MustWait(s, old) PROVE FALSE
        <5>1. In(m_QueuedPlayer', s)
          <6>1. m_QueuedPlayer' = Append(st.queue, s) /\ st.queue \in Seq(Sessions)
            BY <2>1, <4>1 DEF AddEffect, QueueOK
          <6> QED
            BY <6>1, AppendIn
        <5>2. session'[s] = [session[s] EXCEPT !.inQueue = TRUE]
          BY <2>1, <5>1, AddOthers
        <5>3. [session[s] EXCEPT !.inQueue = TRUE].init = session[s].init
          BY <1>1 DEF SessionState
        <5> QED
          BY <2>2, <5>2, <5>3
      <4> QED
        BY <4>1
    <3>2. CASE m_playerLimit > 0
      BY <2>1, <2>2, <3>1, <3>2, AddHasRoom
    <3>3. CASE m_playerLimit = 0
      BY <1>1, <3>3 DEF Full
    <3> QED
      BY <1>1, <3>2, <3>3
  <2>3. CASE x = old
    BY <2>1, <2>3, AddOthers, ConstructedFields
  <2>4. CASE x \notin {s, old}
    <3>1. /\ Kept(QueueState, st, x) \/ Accepted(QueueState, st, x)
          /\ session'[x] = st.session[x]
      BY <2>1, <2>4, AddThird
    <3>2. Accepted(QueueState, st, x)
      BY <1>1, <3>1 DEF Kept
    <3> QED
      BY <2>1, <2>4, <3>2, AddAccepts
  <2> QED
    BY <2>2, <2>3, <2>4
<1>3. CASE DropSession
  <2>0. PICK once, twice : \E s \in Sessions : DropEffect(s, once, twice)
    BY <1>3, DropEffects
  <2>1. PICK s \in Sessions : DropEffect(s, once, twice)
    BY <2>0
  <2>2. x # s
    BY <2>1, DropOthers, ConstructedFields
  <2>3. /\ Kept(QueueState, twice, x) \/ Accepted(QueueState, twice, x)
        /\ session'[x] = twice.session[x]
    BY <2>1, <2>2, DropOthers
  <2>4. Accepted(QueueState, twice, x)
    BY <1>1, <2>3 DEF Kept
  <2> QED
    BY <2>1, <2>2, <2>4, DropAccepts
<1> QED
  BY <1>2, <1>3, WhoInitializes

(* With a limit that does not change and no tolerance for disconnects, no  *)
(* session that must queue is initialised before one that came earlier and *)
(* still waits.                                                            *)
THEOREM NobodyOvertakes ==
  ASSUME FixedLimit, Tolerance = 0
  PROVE  Spec => NoOvertaking
<1>1. IInv /\ Full /\ [Next]_vars => Full'
  BY NextCounted
<1>2. IInv /\ Waits /\ Full /\ [Next]_vars =>
        [\A s \in Sessions :
           /\ session[s].init = "none" /\ session'[s].init = "sent"
           /\ AccountOf[s] \notin SkipQueue
           => \A i \in DOMAIN m_QueuedPlayer :
                /\ Contains(m_QueuedPlayer', m_QueuedPlayer[i])
                => \E j \in 1 .. i : m_QueuedPlayer[j] = s]_vars
  <2> SUFFICES ASSUME IInv, Waits, Full, [Next]_vars, NEW s \in Sessions,
                      session[s].init = "none", session'[s].init = "sent",
                      AccountOf[s] \notin SkipQueue,
                      NEW i \in DOMAIN m_QueuedPlayer
               PROVE  \E j \in 1 .. i : m_QueuedPlayer[j] = s
    OBVIOUS
  <2>1. i \in 1 .. Len(m_QueuedPlayer) /\ Len(m_QueuedPlayer) \in Nat
    BY DEF IInv, TypeOK
  <2>2. s = m_QueuedPlayer[1]
    BY <2>1, InOrder
  <2> QED
    BY <2>1, <2>2
<1> QED
  BY InitIInv, NextIInv, InitWaits, NextWaits, InitCounts, <1>1, <1>2, PTL
  DEF Spec, NoOvertaking

-----------------------------------------------------------------------------
(* The limit is kept *)

(* Accounts with a listed session that is not in the queue, and those in   *)
(* the queue, are no more than all that are listed.                        *)
LEMMA QueueCount ==
  ASSUME NEW ms \in [Accounts -> Sessions \cup {NoSession}],
         NEW q \in Seq(Sessions), Distinct(q),
         \A i \in 1 .. Len(q) : ms[AccountOf[q[i]]] = q[i],
         NEW D, D \subseteq {a \in Accounts : ms[a] # NoSession},
         \A a \in D : ~In(q, ms[a])
  PROVE  /\ Cardinality(D) \in Nat
         /\ IsFiniteSet(D)
         /\ Cardinality(D) + Len(q) <= GetActiveAndQueuedSessionCount(ms)
<1> DEFINE L == {a \in Accounts : ms[a] # NoSession}
           f == [i \in 1 .. Len(q) |-> AccountOf[q[i]]]
           Q == {f[i] : i \in 1 .. Len(q)}
<1>1. /\ L \subseteq Accounts /\ IsFiniteSet(L)
      /\ Cardinality(L) \in Nat
      /\ GetActiveAndQueuedSessionCount(ms) = Cardinality(L)
  <2>1. L \subseteq Accounts /\ IsFiniteSet(Accounts)
    BY AccountsAssumption DEF AccountsAssumption
  <2> QED
    BY <2>1, FS_Subset, FS_CardinalityType DEF GetActiveAndQueuedSessionCount
<1>2. Len(q) \in Nat /\ \A i \in 1 .. Len(q) : q[i] \in Sessions
  OBVIOUS
<1>3. Q \subseteq L
  BY <1>2, SessionsAssumption DEF SessionsAssumption
<1>4. D \cap Q = {}
  BY <1>2 DEF In
<1>5. ExistsBijection(1 .. Len(q), Q)
  <2>1. f \in [1 .. Len(q) -> Q]
    OBVIOUS
  <2>2. \A i, j \in 1 .. Len(q) : f[i] = f[j] => i = j
    BY DEF Distinct
  <2>3. \A a \in Q : \E i \in 1 .. Len(q) : f[i] = a
    OBVIOUS
  <2> HIDE DEF f, Q
  <2>4. f \in Bijection(1 .. Len(q), Q)
    BY <2>1, <2>2, <2>3 DEF Bijection, Injection, Surjection, IsInjective
  <2> QED
    BY <2>4 DEF ExistsBijection
<1> HIDE DEF L, Q
<1>6. Cardinality(Q) = Len(q)
  BY <1>2, <1>5, FS_CountingElements
<1>7. IsFiniteSet(Q) /\ IsFiniteSet(D) /\ IsFiniteSet(D \cup Q) /\ D \cup Q \subseteq L
  <2>1. D \subseteq L
    BY DEF L
  <2> QED
    BY <1>1, <1>3, <2>1, FS_Subset
<1>8. Cardinality(D \cup Q) <= Cardinality(L)
  BY <1>1, <1>7, FS_Subset
<1>9. Cardinality(D) \in Nat
  BY <1>7, FS_CardinalityType
<1>10. Cardinality(D \cup Q) = Cardinality(D) + Len(q)
  <2>1. Cardinality(D \cup Q) =
          Cardinality(D) + Cardinality(Q) - Cardinality(D \cap Q)
    BY <1>7, FS_Union
  <2>2. Cardinality(D \cap Q) = 0
    BY <1>4, FS_EmptySet
  <2> QED
    BY <1>2, <1>6, <1>9, <2>1, <2>2
<1> QED
  BY <1>1, <1>7, <1>8, <1>9, <1>10

(* Those let in that had to queue, and one more account without a place in *)
(* the queue.                                                              *)
LetInAccounts == {a \in ListedAccounts \ SkipQueue : LetIn(m_sessions[a])}

Counted ==
  /\ Cardinality(LetInAccounts) \in Nat
  /\ IsFiniteSet(LetInAccounts)
  /\ Len(m_QueuedPlayer) \in Nat
  /\ Number \in Nat
  /\ Cardinality(LetInAccounts) + Len(m_QueuedPlayer) <= Number
  /\ \A a \in ListedAccounts \ LetInAccounts :
       ~In(m_QueuedPlayer, m_sessions[a]) =>
         Cardinality(LetInAccounts) + Len(m_QueuedPlayer) + 1 <= Number

LEMMA LetInCounted == IInv /\ Waits => Counted
<1> SUFFICES ASSUME IInv, Waits PROVE Counted
  OBVIOUS
<1> DEFINE D == LetInAccounts
<1>1. /\ m_sessions \in [Accounts -> Sessions \cup {NoSession}]
      /\ m_QueuedPlayer \in Seq(Sessions)
      /\ Distinct(m_QueuedPlayer)
      /\ \A i \in 1 .. Len(m_QueuedPlayer) :
           m_sessions[AccountOf[m_QueuedPlayer[i]]] = m_QueuedPlayer[i]
  BY DEF IInv, TypeOK, QueueOfLiveSessions, Distinct, Listed
<1>2. /\ D \subseteq {a \in Accounts : m_sessions[a] # NoSession}
      /\ \A a \in D : ~In(m_QueuedPlayer, m_sessions[a])
  BY <1>1 DEF LetInAccounts, ListedAccounts, LetIn, Waits, WaitsInQueue
<1>3. ASSUME NEW a \in ListedAccounts \ D, ~In(m_QueuedPlayer, m_sessions[a])
      PROVE  /\ D \cup {a} \subseteq {b \in Accounts : m_sessions[b] # NoSession}
             /\ \A b \in D \cup {a} : ~In(m_QueuedPlayer, m_sessions[b])
  BY <1>2, <1>3 DEF ListedAccounts
<1> HIDE DEF D
<1>4. /\ Cardinality(D) \in Nat /\ IsFiniteSet(D)
      /\ Cardinality(D) + Len(m_QueuedPlayer) <= Number
  BY <1>1, <1>2, QueueCount DEF Number
<1>5. ASSUME NEW a \in ListedAccounts \ D, ~In(m_QueuedPlayer, m_sessions[a])
      PROVE  Cardinality(D) + Len(m_QueuedPlayer) + 1 <= Number
  <2>1. Cardinality(D \cup {a}) + Len(m_QueuedPlayer) <= Number
    BY <1>1, <1>3, <1>5, QueueCount DEF Number
  <2>2. Cardinality(D \cup {a}) = Cardinality(D) + 1
    BY <1>4, <1>5, FS_AddElement
  <2> QED
    BY <1>4, <2>1, <2>2, QueueLength
<1> QED
  BY <1>4, <1>5, QueueLength DEF Counted, D

LEMMA NextLetInCounted == IInv' /\ Waits' => Counted'
BY LetInCounted, PTL

LEMMA LetInFewer ==
  ASSUME Counted, Counted', LimitKept, m_playerLimit' = m_playerLimit,
         m_playerLimit \in Nat, LetInAccounts' \subseteq LetInAccounts
  PROVE  LimitKept'
<1>1. Cardinality(LetInAccounts') <= Cardinality(LetInAccounts)
  BY FS_Subset DEF Counted
<1>2. /\ LimitKept <=> (m_playerLimit > 0 =>
                          Cardinality(LetInAccounts) <= m_playerLimit)
      /\ LimitKept' <=> (m_playerLimit' > 0 =>
                           Cardinality(LetInAccounts') <= m_playerLimit')
  BY DEF LimitKept, LetInAccounts
<1>3. Cardinality(LetInAccounts) \in Nat /\ Cardinality(LetInAccounts') \in Nat
  BY DEF Counted
<1> QED
  BY <1>1, <1>2, <1>3

(* An account whose session nobody touched is let in if it was.            *)
LEMMA LetInAsBefore ==
  ASSUME IInv, NEW a \in LetInAccounts', m_sessions'[a] = m_sessions[a],
         session'[m_sessions[a]] = session[m_sessions[a]]
  PROVE  a \in LetInAccounts
BY DEF LetInAccounts, ListedAccounts, LetIn

LEMMA AddLimitKept ==
  ASSUME IInv, Waits, Full, Counted, Counted', Waits', LimitKept, Tolerance = 0,
         AddSession
  PROVE  LimitKept'
<1>0. PICK st : \E s \in Sessions, old \in Sessions \cup {NoSession} :
                  AddEffect(s, old, st)
  BY AddEffects
<1>1. PICK s \in Sessions, old \in Sessions \cup {NoSession} :
        AddEffect(s, old, st)
  BY <1>0
<1> DEFINE a == AccountOf[s]
           q == Len(m_QueuedPlayer)
           p == Len(m_QueuedPlayer)'
           left == Len(st.queue)
           d == Cardinality(LetInAccounts)'
<1>2. /\ m_playerLimit' = m_playerLimit
      /\ m_playerLimit \in Nat
      /\ m_sessions \in [Accounts -> Sessions \cup {NoSession}]
      /\ m_sessions' = [m_sessions EXCEPT ![a] = s]
      /\ a \in Accounts
      /\ old = m_sessions[a]
      /\ Registered
      /\ s # NoSession
  BY <1>1, LimitType, SessionsAssumption
  DEF AddEffect, IInv, TypeOK, SessionsAssumption
<1>3. /\ d \in Nat /\ q \in Nat /\ p \in Nat
      /\ Number \in Nat /\ Number' \in Nat
      /\ d + p <= Number'
  BY DEF Counted
<1>4. /\ a \in ListedAccounts'
      /\ m_sessions'[a] = s
  BY <1>2 DEF ListedAccounts
<1>5. MustWait(s, old) => a \notin LetInAccounts' /\ In(m_QueuedPlayer', s)
  <2>1. ASSUME MustWait(s, old) PROVE In(m_QueuedPlayer', s)
    <3>1. m_QueuedPlayer' = Append(st.queue, s) /\ st.queue \in Seq(Sessions)
      BY <1>1, <2>1 DEF AddEffect, QueueOK
    <3> QED
      BY <3>1, AppendIn
  <2>2. In(m_QueuedPlayer', s) => ~LetIn(s)'
    BY DEF Waits, WaitsInQueue, LetIn
  <2> QED
    BY <1>4, <2>1, <2>2 DEF LetInAccounts, LetIn
<1>6. ~MustWait(s, old) => ~In(m_QueuedPlayer', s)
  <2>1. ~MustWait(s, old) => m_QueuedPlayer' = st.queue
    BY <1>1 DEF AddEffect
  <2>2. ~In(st.queue, s)
    BY <1>1, AddOthers
  <2> QED
    BY <2>1, <2>2
<1>7. ~MustWait(s, old) /\ a \notin SkipQueue /\ m_playerLimit > 0 =>
        q = 0 /\ Number' <= m_playerLimit
  BY <1>1, AddHasRoom
<1>8. LimitKept' <=> (m_playerLimit > 0 => d <= m_playerLimit)
  BY <1>2 DEF LimitKept, LetInAccounts
<1>9. CASE \E x \in Sessions \ {s, old} : Accepted(QueueState, st, x)
  <2>1. PICK x \in Sessions \ {s, old} : Accepted(QueueState, st, x)
    BY <1>9
  <2>2. /\ old # NoSession
        /\ ~In(m_QueuedPlayer, old)
        /\ Number - q - 1 < m_playerLimit
    BY <1>1, <2>1, AddAccepts
  <2>3. q > 0 /\ m_playerLimit > 0 /\ Number - q >= m_playerLimit
    <3>1. In(m_QueuedPlayer, x)
      BY <2>1 DEF Accepted, QueueState
    <3> QED
      BY <1>3, <3>1 DEF In, Full
  <2>4. /\ Number' = Number
        /\ p = IF MustWait(s, old) THEN left + 1 ELSE left
        /\ Removed(q, FALSE, left)
        /\ left \in Nat
    BY <1>1, <2>2, AddCounts
  <2>5. left = q - 1
    <3> HIDE DEF q, left
    <3> QED
      BY <1>2, <1>3, <2>2, <2>3, <2>4 DEF Removed, HasRoom, ActiveWithout
  <2>6. CASE MustWait(s, old)
    BY <1>2, <1>3, <1>8, <2>2, <2>4, <2>5, <2>6
  <2>7. CASE ~MustWait(s, old)
    <3>1. a \in SkipQueue
      BY <1>7, <2>3, <2>7
    <3>2. a \in ListedAccounts' \ LetInAccounts'
      BY <1>4, <3>1 DEF LetInAccounts
    <3>3. d + p + 1 <= Number'
      BY <1>4, <1>6, <2>7, <3>2 DEF Counted
    <3> QED
      BY <1>2, <1>3, <1>8, <2>2, <2>4, <2>5, <2>7, <3>3
  <2> QED
    BY <2>6, <2>7
<1>10. CASE \A x \in Sessions \ {s, old} : ~Accepted(QueueState, st, x)
  <2>1. ASSUME NEW b \in LetInAccounts', b # a
        PROVE  b \in LetInAccounts
    <3>1. /\ b \in Accounts
          /\ m_sessions'[b] = m_sessions[b]
          /\ m_sessions[b] # NoSession
      BY <1>2, <2>1 DEF LetInAccounts, ListedAccounts
    <3> DEFINE x == m_sessions[b]
    <3>2. /\ x \in Sessions
          /\ AccountOf[x] = b
          /\ x \notin {s, old}
      BY <1>2, <2>1, <3>1 DEF Registered
    <3> HIDE DEF x
    <3>3. /\ Kept(QueueState, st, x)
          /\ session'[x] = st.session[x]
      BY <1>1, <1>10, <3>2, AddThird
    <3>4. session'[x] = session[x]
      BY <3>3 DEF Kept, QueueState
    <3> QED
      BY <2>1, <3>1, <3>4, LetInAsBefore DEF x
  <2>2. CASE MustWait(s, old) \/ a \in SkipQueue
    <3>1. a \notin LetInAccounts'
      BY <1>5, <2>2 DEF LetInAccounts
    <3>2. LetInAccounts' \subseteq LetInAccounts
      BY <2>1, <3>1
    <3> QED
      BY <1>2, <3>2, LetInFewer
  <2>3. CASE ~MustWait(s, old) /\ a \notin SkipQueue
    BY <1>2, <1>3, <1>7, <1>8, <2>3
  <2> QED
    BY <2>2, <2>3
<1> QED
  BY <1>9, <1>10

LEMMA DropLimitKept ==
  ASSUME IInv, Waits, FixedLimit, Full, Counted, Counted', LimitKept, DropSession
  PROVE  LimitKept'
<1>0. PICK once, twice : \E s \in Sessions : DropEffect(s, once, twice)
  BY DropEffects
<1>1. PICK s \in Sessions : DropEffect(s, once, twice)
  BY <1>0
<1> DEFINE a == AccountOf[s]
           q == Len(m_QueuedPlayer)
           p == Len(m_QueuedPlayer)'
           l == Len(once.queue)
           d == Cardinality(LetInAccounts)'
<1>2. /\ m_playerLimit' = m_playerLimit
      /\ m_playerLimit \in Nat
      /\ m_sessions \in [Accounts -> Sessions \cup {NoSession}]
      /\ m_sessions' = [m_sessions EXCEPT ![a] = NoSession]
      /\ a \in Accounts
      /\ m_sessions[a] = s
      /\ Registered
  BY <1>1, LimitType, SessionsAssumption
  DEF DropEffect, Listed, IInv, TypeOK, SessionsAssumption
<1>3. /\ d \in Nat /\ q \in Nat /\ p \in Nat
      /\ Number \in Nat /\ Number' \in Nat
      /\ d + p <= Number'
  BY DEF Counted
<1>4. LimitKept' <=> (m_playerLimit > 0 => d <= m_playerLimit)
  BY <1>2 DEF LimitKept, LetInAccounts
<1>5. CASE \E x \in Sessions \ {s} : Accepted(QueueState, twice, x)
  <2>1. PICK x \in Sessions \ {s} : Accepted(QueueState, twice, x)
    BY <1>5
  <2>2. /\ ~In(m_QueuedPlayer, s)
        /\ Number - q - 1 < m_playerLimit
    BY <1>1, <2>1, DropAccepts
  <2>3. q > 0 /\ m_playerLimit > 0 /\ Number - q >= m_playerLimit
    <3>1. In(m_QueuedPlayer, x)
      BY <2>1 DEF Accepted, QueueState
    <3> QED
      BY <1>3, <3>1 DEF In, Full
  <2>4. /\ Number' = Number - 1
        /\ l \in Nat
        /\ Removed(q, In(m_QueuedPlayer, s), l)
        /\ Removed(l, FALSE, p)
    BY <1>1, DropCounts
  <2>5. Removed(q, FALSE, l)
    BY <2>2, <2>4 DEF Removed, ActiveWithout
  <2>6. p = q - 1
    <3> HIDE DEF q, l, p
    <3> QED
      BY <1>2, <1>3, <2>2, <2>3, <2>4, <2>5 DEF Removed, HasRoom, ActiveWithout
  <2> QED
    BY <1>2, <1>3, <1>4, <2>2, <2>4, <2>6
<1>6. CASE \A x \in Sessions \ {s} : ~Accepted(QueueState, twice, x)
  <2>1. ASSUME NEW b \in LetInAccounts'
        PROVE  b \in LetInAccounts
    <3>1. /\ b \in Accounts
          /\ b # a
          /\ m_sessions'[b] = m_sessions[b]
          /\ m_sessions[b] # NoSession
      BY <1>2, <2>1 DEF LetInAccounts, ListedAccounts
    <3> DEFINE x == m_sessions[b]
    <3>2. /\ x \in Sessions \ {s}
          /\ AccountOf[x] = b
      BY <1>2, <3>1 DEF Registered
    <3> HIDE DEF x
    <3>3. /\ Kept(QueueState, twice, x)
          /\ session'[x] = twice.session[x]
      BY <1>1, <1>6, <3>2, DropOthers
    <3>4. session'[x] = session[x]
      BY <3>3 DEF Kept, QueueState
    <3> QED
      BY <2>1, <3>1, <3>4, LetInAsBefore DEF x
  <2> QED
    BY <1>2, <2>1, LetInFewer
<1> QED
  BY <1>5, <1>6

LEMMA NextLimitKept ==
  ASSUME FixedLimit, Tolerance = 0
  PROVE  IInv /\ Waits /\ Full /\ LimitKept /\ [Next]_vars => LimitKept'
<1> SUFFICES ASSUME IInv, Waits, Full, LimitKept, [Next]_vars
             PROVE  LimitKept'
  OBVIOUS
<1>1. IInv' /\ Waits' /\ Counted /\ Counted'
  BY NextIInv, NextWaits, LetInCounted, NextLetInCounted
<1>2. m_playerLimit' = m_playerLimit /\ m_playerLimit \in Nat
  BY <1>1, LimitType DEF FixedLimit, IInv, TypeOK
<1>3. CASE AddSession
  BY <1>1, <1>3, AddLimitKept
<1>4. CASE DropSession
  BY <1>1, <1>4, DropLimitKept
<1>5. CASE ~AddSession /\ ~DropSession
  <2>1. m_sessions' = m_sessions /\ \A x \in Sessions : Progress(x)
    BY <1>5, OtherSteps
  <2>2. ASSUME NEW a \in LetInAccounts'
        PROVE  a \in LetInAccounts
    <3> DEFINE x == m_sessions[a]
    <3>1. /\ a \in ListedAccounts \ SkipQueue
          /\ x \in Sessions
          /\ Listed(x)
          /\ Progress(x)
          /\ session'[x].inQueue => session'[x].init # "none"
      BY <2>1, <2>2 DEF LetInAccounts, ListedAccounts, LetIn, Listed, IInv, TypeOK,
                        Registered
    <3>2. session[x].inQueue => session[x].init # "none"
      BY <3>1 DEF Progress, SameFields
    <3> QED
      BY <3>1, <3>2 DEF LetInAccounts, LetIn
  <2> QED
    BY <1>1, <1>2, <2>2, LetInFewer
<1> QED
  BY <1>3, <1>4, <1>5

LEMMA InitLimitKept == Init => LimitKept
<1> SUFFICES ASSUME Init PROVE LimitKept
  OBVIOUS
<1>1. {a \in ListedAccounts \ SkipQueue : LetIn(m_sessions[a])} = {}
  BY DEF Init, ListedAccounts
<1>2. m_playerLimit \in Nat
  BY NumbersAssumption DEF NumbersAssumption, Init
<1> QED
  BY <1>1, <1>2, FS_EmptySet DEF LimitKept

(* With a limit that does not change and no tolerance for disconnects the  *)
(* accounts let in that may not skip the queue are never more than the     *)
(* limit, whoever is replaced, dropped or kicked.                          *)
THEOREM LimitIsKept ==
  ASSUME FixedLimit, Tolerance = 0
  PROVE  Spec => []LimitKept
<1>1. IInv /\ Full /\ [Next]_vars => Full'
  BY NextCounted
<1>2. IInv /\ Waits /\ Full /\ LimitKept /\ [Next]_vars => LimitKept'
  BY NextLimitKept
<1> QED
  BY InitIInv, NextIInv, InitWaits, NextWaits, InitCounts, InitLimitKept,
     <1>1, <1>2, PTL DEF Spec
=============================================================================
