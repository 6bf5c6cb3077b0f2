----------------------- MODULE WorldSessionsLoginProof -----------------------
(***************************************************************************)
(* Proofs about the logins of WorldSessions, for any accounts, sessions    *)
(* and characters, as long as no client reports a failure of a connection  *)
(* it made: an account has one character online, a login under way is in   *)
(* one place, and a shutdown leaves no character in the world.  And, for   *)
(* any clients: a kicked session is gone with the update that follows.     *)
(***************************************************************************)
EXTENDS WorldSessionsProof

NoLateFailure == LateFailure = FALSE

-----------------------------------------------------------------------------
(* The links of a session *)

IsLink(q, s, i) == q[i].session = s /\ q[i].current
HasLink(q, s) == \E i \in 1 .. Len(q) : IsLink(q, s, i)
OneLink(q, s) ==
  \A i, j \in 1 .. Len(q) : IsLink(q, s, i) /\ IsLink(q, s, j) => i = j

(* q has no link of s that p does not have.                                *)
Fewer(q, p, s) ==
  /\ HasLink(q, s) => HasLink(p, s)
  /\ OneLink(p, s) => OneLink(q, s)

LEMMA TailLinks ==
  ASSUME NEW q \in Seq(Link), q # <<>>
  PROVE  /\ \A s : Fewer(Tail(q), q, s)
         /\ Head(q) \in Link
         /\ Head(q).current =>
              /\ HasLink(q, Head(q).session)
              /\ OneLink(q, Head(q).session) => ~HasLink(Tail(q), Head(q).session)
<1>1. /\ Head(q) = q[1]
      /\ Head(q) \in Link
      /\ Len(q) \in Nat \ {0}
      /\ Len(Tail(q)) = Len(q) - 1
      /\ \A i \in 1 .. Len(Tail(q)) : Tail(q)[i] = q[i + 1]
  BY HeadTailProperties
<1>2. ASSUME NEW s, NEW i \in 1 .. Len(Tail(q)), IsLink(Tail(q), s, i)
      PROVE  i + 1 \in 1 .. Len(q) /\ IsLink(q, s, i + 1)
  BY <1>1, <1>2 DEF IsLink
<1>3. ASSUME NEW s PROVE Fewer(Tail(q), q, s)
  <2>1. HasLink(Tail(q), s) => HasLink(q, s)
    BY <1>2 DEF HasLink
  <2>2. ASSUME OneLink(q, s),
               NEW i \in 1 .. Len(Tail(q)), NEW j \in 1 .. Len(Tail(q)),
               IsLink(Tail(q), s, i), IsLink(Tail(q), s, j)
        PROVE  i = j
    <3>1. i + 1 = j + 1
      BY <1>2, <2>2 DEF OneLink
    <3> QED
      BY <1>1, <3>1
  <2> QED
    BY <2>1, <2>2 DEF Fewer, OneLink
<1>4. ASSUME Head(q).current
      PROVE  /\ HasLink(q, Head(q).session)
             /\ OneLink(q, Head(q).session) => ~HasLink(Tail(q), Head(q).session)
  <2> DEFINE s == Head(q).session
  <2>1. 1 \in 1 .. Len(q) /\ IsLink(q, s, 1)
    BY <1>1, <1>4 DEF IsLink
  <2> HIDE DEF s
  <2>2. ASSUME OneLink(q, s), NEW i \in 1 .. Len(Tail(q)), IsLink(Tail(q), s, i)
        PROVE  FALSE
    <3>1. i + 1 = 1
      BY <1>2, <2>1, <2>2 DEF OneLink
    <3> QED
      BY <1>1, <3>1
  <2> QED
    BY <2>1, <2>2 DEF HasLink, s
<1> QED
  BY <1>1, <1>3, <1>4

LEMMA AppendLinks ==
  ASSUME NEW q \in Seq(Link), NEW l \in Link
  PROVE  /\ \A s : s # l.session => Fewer(Append(q, l), q, s)
         /\ ~HasLink(q, l.session) => OneLink(Append(q, l), l.session)
<1>1. /\ Len(Append(q, l)) = Len(q) + 1
      /\ \A i \in 1 .. Len(q) : Append(q, l)[i] = q[i]
      /\ Append(q, l)[Len(q) + 1] = l
      /\ Len(q) \in Nat
  BY AppendProperties
<1>2. ASSUME NEW s, NEW i \in 1 .. Len(Append(q, l)), IsLink(Append(q, l), s, i)
      PROVE  \/ i \in 1 .. Len(q) /\ IsLink(q, s, i)
             \/ i = Len(q) + 1 /\ s = l.session
  BY <1>1, <1>2 DEF IsLink
<1>3. ASSUME NEW s, s # l.session PROVE Fewer(Append(q, l), q, s)
  BY <1>2, <1>3 DEF Fewer, HasLink, OneLink
<1>4. ~HasLink(q, l.session) => OneLink(Append(q, l), l.session)
  BY <1>2 DEF HasLink, OneLink
<1> QED
  BY <1>3, <1>4

LEMMA OutdatedLinks ==
  ASSUME TypeOK, NEW s
  PROVE  /\ \A x : Fewer(OutdateLinks(s), linkSocketQueue, x)
         /\ ~HasLink(OutdateLinks(s), s)
<1> DEFINE q == linkSocketQueue
           p == OutdateLinks(s)
<1>1. /\ q \in [1 .. Len(q) -> Link]
      /\ Len(q) \in Nat
      /\ DOMAIN q = 1 .. Len(q)
  BY LenProperties DEF TypeOK
<1>2. p \in Seq(Link) /\ Len(p) = Len(q)
  <2>1. p \in Seq(Link) /\ DOMAIN p = 1 .. Len(q)
    BY <1>1, OutdateLinksType DEF OutdateLinks
  <2> QED
    BY <1>1, <2>1, LenProperties
<1>3. \A l \in Link : ~[l EXCEPT !.current = FALSE].current
                      /\ [l EXCEPT !.current = FALSE].session = l.session
  BY DEF Link
<1>4. ASSUME NEW x, NEW i \in 1 .. Len(q), IsLink(p, x, i)
      PROVE  x # s /\ IsLink(q, x, i)
  <2>1. p[i] = IF q[i].session = s THEN [q[i] EXCEPT !.current = FALSE] ELSE q[i]
    BY <1>1 DEF OutdateLinks
  <2>2. q[i] \in Link
    BY <1>1
  <2> HIDE DEF p, q
  <2> QED
    BY <1>3, <1>4, <2>1, <2>2 DEF IsLink
<1> HIDE DEF p, q
<1>5. \A x : Fewer(p, q, x)
  BY <1>2, <1>4 DEF Fewer, HasLink, OneLink
<1>6. ~HasLink(p, s)
  BY <1>2, <1>4 DEF HasLink
<1> QED
  BY <1>5, <1>6 DEF p, q

-----------------------------------------------------------------------------
(* The inductive invariant *)

(* The client was told to open an instance connection, and has not yet.    *)
Asked(r) == r.attempt > 0 /\ ~r.linked

LoginUnderWay(s) ==
  Asked(session[s]) \/ HasLink(linkSocketQueue, s) \/ Len(session[s].logins) # 0

(* A login under way is in one place: the client, the link queue or the    *)
(* database.  Its session is listed, plays nobody, and loads a character   *)
(* of its account.                                                         *)
OneLogin(s) ==
  /\ LoginUnderWay(s) => /\ Listed(s)
                         /\ session[s].player = NoChar
                         /\ session[s].loading # NoChar
                         /\ OwnerOf[session[s].loading] = AccountOf[s]
  /\ Asked(session[s]) =>
       ~HasLink(linkSocketQueue, s) /\ Len(session[s].logins) = 0
  /\ HasLink(linkSocketQueue, s) => Len(session[s].logins) = 0
  /\ OneLink(linkSocketQueue, s)
  /\ Len(session[s].logins) # 0 =>
       /\ Len(session[s].logins) = 1
       /\ session[s].logins[1].char = session[s].loading
  /\ session[s].player # NoChar =>
       /\ Listed(s)
       /\ OwnerOf[session[s].player] = AccountOf[s]
       /\ inWorld[session[s].player] = 1

(* Nobody is in the world whom no session plays.                           *)
Played ==
  \A c \in Chars : (\A s \in Sessions : session[s].player # c) => inWorld[c] = 0

Logins ==
  /\ \A s \in Sessions : OneLogin(s)
  /\ Played

LEMMA PlayedOnce ==
  ASSUME IInv, Logins, NEW s \in Sessions, NEW x \in Sessions,
         session[s].player = session[x].player, session[s].player # NoChar
  PROVE  s = x
BY DEF Logins, OneLogin, Listed, IInv, TypeOK

-----------------------------------------------------------------------------
(* Sessions a step does not touch, or resets *)

SameLogin(t, r) ==
  /\ Asked(t) => Asked(r)
  /\ t.loading = r.loading
  /\ Len(t.logins) = Len(r.logins)
  /\ Len(r.logins) # 0 => t.logins[1].char = r.logins[1].char

LEMMA Untouched ==
  ASSUME NEW x, OneLogin(x),
         SameLogin(session'[x], session[x]),
         session'[x].player \in {session[x].player, NoChar},
         Fewer(linkSocketQueue', linkSocketQueue, x),
         Listed(x) => Listed(x)',
         session[x].player # NoChar =>
           inWorld'[session[x].player] = inWorld[session[x].player]
           \/ session'[x].player = NoChar
  PROVE  OneLogin(x)'
<1>1. LoginUnderWay(x)' => LoginUnderWay(x)
  BY DEF LoginUnderWay, SameLogin, Fewer
<1>2. HasLink(linkSocketQueue, x)' => HasLink(linkSocketQueue, x)
  BY DEF Fewer
<1>3. OneLink(linkSocketQueue, x)'
  BY DEF Fewer, OneLogin
<1> QED
  BY <1>1, <1>2, <1>3 DEF OneLogin, SameLogin

LEMMA Blank ==
  ASSUME NEW x, session'[x].attempt = 0, Len(session'[x].logins) = 0,
         session'[x].player = NoChar, ~HasLink(linkSocketQueue', x)
  PROVE  OneLogin(x)'
<1>1. OneLink(linkSocketQueue', x)
  BY DEF HasLink, OneLink
<1> QED
  BY <1>1 DEF OneLogin, LoginUnderWay, Asked

LEMMA SamePlayed ==
  ASSUME Played, inWorld' = inWorld,
         \A x \in Sessions :
           session[x].player # NoChar => session'[x].player = session[x].player
  PROVE  Played'
BY CharsAssumption DEF Played, CharsAssumption

LEMMA FewerSame ==
  ASSUME linkSocketQueue' = linkSocketQueue
  PROVE  \A x : Fewer(linkSocketQueue', linkSocketQueue, x)
BY DEF Fewer

Calm(t, r) == SameLogin(t, r) /\ t.player = r.player

LEMMA CalmLogins ==
  ASSUME Logins, UNCHANGED <<m_sessions, linkSocketQueue, inWorld>>,
         \A x \in Sessions : Calm(session'[x], session[x])
  PROVE  Logins'
<1>1. ASSUME NEW x \in Sessions PROVE OneLogin(x)'
  BY FewerSame, Untouched DEF Logins, Calm, Listed
<1>2. Played'
  BY SamePlayed DEF Logins, Calm
<1> QED
  BY <1>1, <1>2 DEF Logins

LEMMA CalmSession ==
  ASSUME Logins, session \in [Sessions -> SessionState],
         UNCHANGED <<m_sessions, linkSocketQueue, inWorld>>,
         NEW s \in Sessions, NEW t, session' = [session EXCEPT ![s] = t],
         Calm(t, session[s])
  PROVE  Logins'
<1>1. \A x \in Sessions : Calm(session'[x], session[x])
  BY DEF Calm, SameLogin
<1> QED
  BY <1>1, CalmLogins

(* The methods of a session that have nothing to do with its login.        *)
LEMMA CalmMethods ==
  ASSUME NEW r \in SessionState
  PROVE  /\ Calm(r, r)
         /\ Calm(KickPlayer(r), r)
         /\ Calm(InitializeSession(r), r)
         /\ Calm(Initialized(r), r)
         /\ SameLogin(LogoutPlayer(r), r)
         /\ LogoutPlayer(r).player = NoChar
<1> USE DEF SessionState, Calm, SameLogin, Asked
<1>1. Calm(r, r)
  OBVIOUS
<1>2. Calm(KickPlayer(r), r)
  BY DEF KickPlayer
<1>3. Calm(InitializeSession(r), r)
  BY DEF InitializeSession
<1>4. Calm(Initialized(r), r)
  BY DEF Initialized
<1>5. SameLogin(LogoutPlayer(r), r) /\ LogoutPlayer(r).player = NoChar
  BY DEF LogoutPlayer
<1> QED
  BY <1>1, <1>2, <1>3, <1>4, <1>5

LEMMA CalmFields ==
  ASSUME NEW r \in SessionState,
         NEW t \in {[r EXCEPT !.realm = "closed"], [r EXCEPT !.instance = "closed"],
                    [r EXCEPT !.logout = TRUE], [r EXCEPT !.logout = FALSE],
                    [r EXCEPT !.init = "ready"], [r EXCEPT !.inQueue = TRUE],
                    [r EXCEPT !.expire = CountDown(r)]}
  PROVE  Calm(t, r)
BY DEF SessionState, Calm, SameLogin, Asked

-----------------------------------------------------------------------------
(* The steps that change no login *)

LEMMA DatabaseLogins ==
  ASSUME IInv, Logins, NEW s \in Sessions, Database(s)
  PROVE  Logins'
<1> DEFINE r == session[s]
           q == r.logins
<1>1. /\ session \in [Sessions -> SessionState]
      /\ r \in SessionState
      /\ q \in Seq(LoginQuery)
      /\ UNCHANGED <<m_sessions, linkSocketQueue, inWorld>>
  BY DEF IInv, TypeOK, SessionState, Database, InitQueryDone, LoginQueryDone,
         allButSession, worldVars
<1>2. CASE InitQueryDone(s)
  <2>1. Calm([r EXCEPT !.init = "ready"], r)
    BY <1>1, CalmFields
  <2> QED
    BY <1>1, <1>2, <2>1, CalmSession DEF InitQueryDone
<1>3. CASE LoginQueryDone(s)
  <2>1. PICK i \in DOMAIN q :
          session' = [session EXCEPT ![s].logins[i].ready = TRUE]
    BY <1>3 DEF LoginQueryDone
  <2> DEFINE p == [q EXCEPT ![i].ready = TRUE]
             t == [r EXCEPT !.logins = p]
  <2>2. /\ i \in 1 .. Len(q)
        /\ p \in Seq(LoginQuery)
        /\ Len(p) = Len(q)
        /\ \A j \in 1 .. Len(q) : p[j].char = q[j].char
    <3>1. i \in 1 .. Len(q) /\ q[i] \in LoginQuery
      BY <1>1
    <3>2. [q[i] EXCEPT !.ready = TRUE] \in LoginQuery
          /\ [q[i] EXCEPT !.ready = TRUE].char = q[i].char
      BY <3>1 DEF LoginQuery
    <3>3. p = [q EXCEPT ![i] = [q[i] EXCEPT !.ready = TRUE]]
      OBVIOUS
    <3> HIDE DEF p, q
    <3> QED
      BY <1>1, <3>1, <3>2, <3>3, ExceptSeq
  <2>3. Len(q) # 0 => 1 \in 1 .. Len(q)
    BY <1>1, LenProperties
  <2>4. Calm(t, r)
    <3>1. /\ t.attempt = r.attempt /\ t.linked = r.linked
          /\ t.loading = r.loading /\ t.player = r.player
          /\ t.logins = p
      <4> HIDE DEF p
      <4> QED
        BY <1>1 DEF SessionState
    <3> HIDE DEF p, t
    <3> QED
      BY <2>2, <2>3, <3>1 DEF Calm, SameLogin, Asked
  <2>5. session' = [session EXCEPT ![s] = t]
    BY <2>1
  <2> HIDE DEF t
  <2> QED
    BY <1>1, <2>4, <2>5, CalmSession
<1> QED
  BY <1>2, <1>3 DEF Database

LEMMA CommandsLogins ==
  ASSUME IInv, Logins, Commands
  PROVE  Logins'
<1>1. /\ session \in [Sessions -> SessionState]
      /\ UNCHANGED <<m_sessions, linkSocketQueue, inWorld>>
  BY DEF IInv, TypeOK, Commands, SetPlayerAmountLimit, Kick, Tick, KickAll,
         allButSession, worldVars
<1>2. \A x \in Sessions :
        \/ session'[x] = session[x]
        \/ session'[x] = KickPlayer(session[x])
  BY <1>1 DEF Commands, SetPlayerAmountLimit, Kick, Tick, KickAll
<1>3. \A x \in Sessions : session[x] \in SessionState
  BY <1>1
<1>4. \A x \in Sessions : Calm(session'[x], session[x])
  BY <1>2, <1>3, CalmMethods
<1> QED
  BY <1>1, <1>4, CalmLogins

LEMMA NetworkCloseLogins ==
  ASSUME IInv, Logins, NEW s \in Sessions, NetworkClose(s)
  PROVE  Logins'
<1> DEFINE r == session[s]
<1>1. /\ session \in [Sessions -> SessionState]
      /\ r \in SessionState
      /\ UNCHANGED <<m_sessions, linkSocketQueue, inWorld>>
  BY DEF IInv, TypeOK, NetworkClose, allButSession, worldVars
<1>2. \/ session' = [session EXCEPT ![s] = [r EXCEPT !.realm = "closed"]]
      \/ session' = [session EXCEPT ![s] = [r EXCEPT !.instance = "closed"]]
  BY DEF NetworkClose
<1>3. Calm([r EXCEPT !.realm = "closed"], r)
      /\ Calm([r EXCEPT !.instance = "closed"], r)
  BY <1>1, CalmFields
<1> QED
  BY <1>1, <1>2, <1>3, CalmSession

(* The steps of the world thread that only lead it elsewhere, or change    *)
(* the sockets of a session.                                               *)
CalmStep ==
  \/ StartUpdateSessions \/ LinksDone \/ AddsDone
  \/ \E a \in Accounts : BeginUpdate(a)
  \/ HandleLogoutCancelOpcode \/ PacketsDone \/ CallbacksDone
  \/ \E s \in Sessions : InitializeSessionCallback(s)
  \/ KeepSession \/ UpdateSessionsDone \/ Stopped
  \/ UNCHANGED vars

LEMMA CalmStepLogins ==
  ASSUME IInv, Logins, CalmStep
  PROVE  Logins'
<1>1. /\ session \in [Sessions -> SessionState]
      /\ \A x \in Sessions : session[x] \in SessionState
  BY DEF IInv, TypeOK
<1>2. UNCHANGED <<m_sessions, linkSocketQueue, inWorld>>
  BY DEF CalmStep, StartUpdateSessions, LinksDone, AddsDone, BeginUpdate,
         HandleLogoutCancelOpcode, PacketsDone, CallbacksDone,
         InitializeSessionCallback, KeepSession, UpdateSessionsDone, Stopped,
         vars, allButSession, worldVars, GoTo
<1>3. CASE \E a \in Accounts : BeginUpdate(a)
  <2>1. PICK a \in Accounts : BeginUpdate(a)
    BY <1>3
  <2> DEFINE s == m_sessions[a]
  <2>2. s \in Sessions
    BY <2>1 DEF BeginUpdate, IInv, AtLiveSession, TypeOK
  <2> HIDE DEF s
  <2>3. \/ session' = session
        \/ session' = [session EXCEPT ![s] = [session[s] EXCEPT !.realm = "closed"]]
    BY <2>1 DEF BeginUpdate, s
  <2>4. Calm([session[s] EXCEPT !.realm = "closed"], session[s])
    BY <1>1, <2>2, CalmFields
  <2>5. \A x \in Sessions : Calm(session'[x], session[x])
    BY <1>1, <2>2, <2>3, <2>4, CalmMethods
  <2> QED
    BY <1>2, <2>5, CalmLogins
<1>4. CASE HandleLogoutCancelOpcode \/ KeepSession
  <2> DEFINE r == session[current]
  <2>1. current \in Sessions /\ r \in SessionState
    BY <1>1, <1>4 DEF IInv, AtLiveSession, Updating, HandleLogoutCancelOpcode,
                      KeepSession
  <2>2. \/ session' = session
        \/ session' = [session EXCEPT ![current] = [r EXCEPT !.logout = FALSE]]
        \/ session' = [session EXCEPT ![current] = [r EXCEPT !.expire = CountDown(r)]]
    BY <1>4 DEF HandleLogoutCancelOpcode, KeepSession
  <2>3. Calm([r EXCEPT !.logout = FALSE], r)
        /\ Calm([r EXCEPT !.expire = CountDown(r)], r)
    BY <2>1, CalmFields
  <2>4. \A x \in Sessions : Calm(session'[x], session[x])
    BY <1>1, <2>1, <2>2, <2>3, CalmMethods
  <2> QED
    BY <1>2, <2>4, CalmLogins
<1>5. CASE \E s \in Sessions : InitializeSessionCallback(s)
  <2>1. PICK s \in Sessions : InitializeSessionCallback(s)
    BY <1>5
  <2>2. session' = [session EXCEPT ![s] = Initialized(session[s])]
    BY <2>1 DEF InitializeSessionCallback
  <2>3. Calm(Initialized(session[s]), session[s])
    BY <1>1, CalmMethods
  <2> QED
    BY <1>1, <1>2, <2>2, <2>3, CalmSession
<1>6. CASE session' = session
  BY <1>1, <1>2, <1>6, CalmMethods, CalmLogins
<1> QED
  BY <1>3, <1>4, <1>5, <1>6
  DEF CalmStep, StartUpdateSessions, LinksDone, AddsDone, PacketsDone,
      CallbacksDone, UpdateSessionsDone, Stopped, vars, GoTo

-----------------------------------------------------------------------------
(* The steps of a login *)

LEMMA NewConnectionLogins ==
  ASSUME IInv, Logins, NEW s \in Sessions, NewConnection(s)
  PROVE  Logins'
<1>1. /\ session \in [Sessions -> SessionState]
      /\ UNCHANGED <<m_sessions, linkSocketQueue, inWorld>>
      /\ session' = [session EXCEPT ![s] = NewSession]
      /\ ~Listed(s)
  BY DEF IInv, TypeOK, NewConnection, worldVars, Alive
<1>2. /\ ~HasLink(linkSocketQueue, s)
      /\ session[s].player = NoChar
  BY <1>1 DEF Logins, OneLogin, LoginUnderWay
<1>3. OneLogin(s)'
  BY <1>1, <1>2, Blank DEF NewSession
<1>4. ASSUME NEW x \in Sessions, x # s PROVE OneLogin(x)'
  <2>1. session'[x] = session[x] /\ session[x] \in SessionState
    BY <1>1, <1>4
  <2> QED
    BY <1>1, <2>1, FewerSame, Untouched, CalmMethods DEF Logins, Calm, Listed
<1>5. Played'
  BY <1>1, <1>2, SamePlayed DEF Logins
<1> QED
  BY <1>3, <1>4, <1>5 DEF Logins

LEMMA RejectLogins ==
  ASSUME IInv, Logins, RejectSession
  PROVE  Logins'
<1>1. PICK s \in Sessions :
        ~Listed(s) /\ session' = [session EXCEPT ![s] = Deleted]
  BY NextNewSession DEF RejectSession
<1>2. /\ session \in [Sessions -> SessionState]
      /\ UNCHANGED <<m_sessions, linkSocketQueue, inWorld>>
  BY DEF IInv, TypeOK, RejectSession, worldVars
<1>3. /\ ~HasLink(linkSocketQueue, s)
      /\ session[s].player = NoChar
  BY <1>1 DEF Logins, OneLogin, LoginUnderWay
<1>4. OneLogin(s)'
  BY <1>1, <1>2, <1>3, Blank DEF Deleted, NewSession
<1>5. ASSUME NEW x \in Sessions, x # s PROVE OneLogin(x)'
  <2>1. session'[x] = session[x] /\ session[x] \in SessionState
    BY <1>1, <1>2, <1>5
  <2> QED
    BY <1>2, <2>1, FewerSame, Untouched, CalmMethods DEF Logins, Calm, Listed
<1>6. Played'
  BY <1>1, <1>2, <1>3, SamePlayed DEF Logins
<1> QED
  BY <1>4, <1>5, <1>6 DEF Logins

(* A step that changes the login of one session.                           *)
LEMMA OneSessionLogins ==
  ASSUME Logins, session \in [Sessions -> SessionState],
         UNCHANGED <<m_sessions, inWorld>>,
         NEW s \in Sessions, NEW t, session' = [session EXCEPT ![s] = t],
         session[s].player \in {t.player, NoChar},
         \A x : x # s => Fewer(linkSocketQueue', linkSocketQueue, x),
         OneLogin(s)'
  PROVE  Logins'
<1>1. ASSUME NEW x \in Sessions, x # s PROVE OneLogin(x)'
  <2>1. session'[x] = session[x] /\ session[x] \in SessionState
    BY <1>1
  <2> QED
    BY <1>1, <2>1, Untouched, CalmMethods DEF Logins, Calm, Listed
<1>2. Played'
  BY SamePlayed DEF Logins
<1> QED
  BY <1>1, <1>2 DEF Logins

LEMMA Idle ==
  ASSUME NEW x, ~LoginUnderWay(x)', session'[x].player = NoChar
  PROVE  OneLogin(x)'
<1>1. OneLink(linkSocketQueue', x)
  BY DEF LoginUnderWay, HasLink, OneLink
<1> QED
  BY <1>1 DEF OneLogin, LoginUnderWay

LEMMA ContinuedLogins ==
  ASSUME IInv, Logins, NEW s \in Sessions, HandleAuthContinuedSession(s)
  PROVE  Logins'
<1> DEFINE r == session[s]
           t == [r EXCEPT !.linked = TRUE]
           l == [session |-> s, current |-> TRUE]
<1>1. /\ session \in [Sessions -> SessionState]
      /\ r \in SessionState
      /\ linkSocketQueue \in Seq(Link)
      /\ UNCHANGED <<m_sessions, inWorld>>
      /\ session' = [session EXCEPT ![s] = t]
      /\ linkSocketQueue' = Append(linkSocketQueue, l)
      /\ Asked(r)
  BY DEF IInv, TypeOK, HandleAuthContinuedSession, worldVars, Asked
<1>2. l \in Link /\ l.session = s
  BY DEF Link
<1>3. /\ t.attempt = r.attempt /\ t.linked /\ t.loading = r.loading
      /\ t.player = r.player /\ t.logins = r.logins
  BY <1>1 DEF SessionState
<1>4. OneLogin(s)
  BY DEF Logins
<1> HIDE DEF l, t
<1>5. /\ OneLink(linkSocketQueue', s)
      /\ \A x : x # s => Fewer(linkSocketQueue', linkSocketQueue, x)
  <2>1. ~HasLink(linkSocketQueue, s)
    BY <1>1, <1>4 DEF OneLogin
  <2> QED
    BY <1>1, <1>2, <2>1, AppendLinks
<1>6. session'[s] = t
  BY <1>1
<1>7. OneLogin(s)'
  BY <1>1, <1>3, <1>4, <1>5, <1>6 DEF OneLogin, LoginUnderWay, Asked, Listed
<1> QED
  BY <1>1, <1>3, <1>5, <1>7, OneSessionLogins

(* A session with no login under way is told to connect for a character of *)
(* its account, or once more for the same.                                 *)
LEMMA AskedLogins ==
  ASSUME IInv, Logins, NEW s \in Sessions, NEW r \in SessionState,
         NEW n \in 0 .. MaxAttempts,
         UNCHANGED <<m_sessions, inWorld>>,
         session' = [session EXCEPT ![s] = SendConnectToInstance(r, n)],
         linkSocketQueue' = OutdateLinks(s),
         Listed(s), session[s].player = NoChar, r.player = NoChar,
         r.loading # NoChar, OwnerOf[r.loading] = AccountOf[s],
         Len(r.logins) = 0
  PROVE  Logins'
<1> DEFINE t == SendConnectToInstance(r, n)
<1>1. /\ session \in [Sessions -> SessionState]
      /\ TypeOK
  BY DEF IInv, TypeOK
<1>2. /\ t.loading = r.loading /\ t.player = NoChar /\ t.logins = r.logins
  BY DEF SessionState, SendConnectToInstance
<1> HIDE DEF t
<1>3. /\ \A x : Fewer(linkSocketQueue', linkSocketQueue, x)
      /\ ~HasLink(linkSocketQueue', s)
  BY <1>1, OutdatedLinks
<1>4. OneLink(linkSocketQueue', s)
  BY <1>3 DEF HasLink, OneLink
<1>5. session'[s] = t
  BY <1>1 DEF t
<1>6. OneLogin(s)'
  BY <1>2, <1>3, <1>4, <1>5 DEF OneLogin, LoginUnderWay, Listed
<1>7. session' = [session EXCEPT ![s] = t]
  BY DEF t
<1> QED
  BY <1>1, <1>2, <1>3, <1>6, <1>7, OneSessionLogins

LEMMA FailedLogins ==
  ASSUME IInv, Logins, NoLateFailure, NEW s \in Sessions, HandleConnectToFailed(s)
  PROVE  Logins'
<1> DEFINE r == session[s]
<1>1. /\ session \in [Sessions -> SessionState]
      /\ r \in SessionState
      /\ UNCHANGED <<m_sessions, inWorld>>
      /\ Asked(r)
      /\ OneLogin(s)
  BY DEF IInv, TypeOK, HandleConnectToFailed, worldVars, Asked, SessionState,
         NoLateFailure, Logins
<1>2. /\ Listed(s) /\ r.player = NoChar /\ r.loading # NoChar
      /\ OwnerOf[r.loading] = AccountOf[s]
      /\ ~HasLink(linkSocketQueue, s) /\ Len(r.logins) = 0
  BY <1>1 DEF OneLogin, LoginUnderWay
<1>3. CASE /\ ~LastAttempt(r)
           /\ session' = [session EXCEPT
                ![s] = SendConnectToInstance(r, r.attempt + 1)]
           /\ linkSocketQueue' = OutdateLinks(s)
  <2>1. r.attempt + 1 \in 0 .. MaxAttempts
    BY <1>1, <1>3, NumbersAssumption DEF SessionState, LastAttempt, NumbersAssumption
  <2> QED
    BY <1>1, <1>2, <1>3, <2>1, AskedLogins
<1>4. CASE /\ session' = [session EXCEPT
                ![s] = [r EXCEPT !.loading = NoChar, !.attempt = 0]]
           /\ linkSocketQueue' = linkSocketQueue
  <2> DEFINE t == [r EXCEPT !.loading = NoChar, !.attempt = 0]
  <2>1. t.attempt = 0 /\ t.player = NoChar /\ t.logins = r.logins
    BY <1>1, <1>2 DEF SessionState
  <2>2. session' = [session EXCEPT ![s] = t]
    BY <1>4
  <2> HIDE DEF t
  <2>3. session'[s] = t
    BY <1>1, <2>2
  <2>4. OneLogin(s)'
    BY <1>2, <1>4, <2>1, <2>3, Blank
  <2> QED
    BY <1>1, <1>2, <1>4, <2>1, <2>2, <2>4, FewerSame, OneSessionLogins
<1> QED
  BY <1>2, <1>3, <1>4 DEF HandleConnectToFailed

LEMMA OpcodeLogins ==
  ASSUME IInv, Logins, NEW c \in Chars, HandlePlayerLoginOpcode(c)
  PROVE  Logins'
<1>1. PICK s \in Sessions : s = current /\ Listed(s)
  BY DEF HandlePlayerLoginOpcode, IInv, AtLiveSession, Updating
<1> DEFINE r == session[s]
           l == [r EXCEPT !.loading = c]
<1>2. /\ session \in [Sessions -> SessionState]
      /\ r \in SessionState
      /\ UNCHANGED <<m_sessions, inWorld>>
      /\ OneLogin(s)
      /\ c # NoChar
  BY <1>1, CharsAssumption
  DEF IInv, TypeOK, HandlePlayerLoginOpcode, worldVars, Logins, CharsAssumption
<1>3. /\ l \in SessionState
      /\ l.attempt = r.attempt /\ l.linked = r.linked /\ l.loading = c
      /\ l.player = r.player /\ l.logins = r.logins
  BY <1>2 DEF SessionState
<1>4. \/ /\ LoginBusy(r)
         /\ session' = [session EXCEPT ![s] = KickPlayer(r)]
         /\ UNCHANGED linkSocketQueue
      \/ /\ ~LoginBusy(r)
         /\ session' = [session EXCEPT ![s] = KickPlayer(l)]
         /\ UNCHANGED linkSocketQueue
      \/ /\ ~LoginBusy(r)
         /\ OwnerOf[c] = AccountOf[s]
         /\ session' = [session EXCEPT ![s] = SendConnectToInstance(l, 1)]
         /\ linkSocketQueue' = OutdateLinks(s)
  BY <1>1 DEF HandlePlayerLoginOpcode
<1> HIDE DEF l
<1>5. CASE LoginBusy(r) /\ session' = [session EXCEPT ![s] = KickPlayer(r)]
           /\ UNCHANGED linkSocketQueue
  BY <1>2, <1>5, CalmMethods, CalmSession
<1>6. ASSUME ~LoginBusy(r)
      PROVE  /\ r.player = NoChar /\ Len(r.logins) = 0 /\ ~Asked(r)
             /\ ~HasLink(linkSocketQueue, s)
  BY <1>2, <1>6 DEF LoginBusy, OneLogin, LoginUnderWay
<1>7. CASE ~LoginBusy(r) /\ session' = [session EXCEPT ![s] = KickPlayer(l)]
           /\ UNCHANGED linkSocketQueue
  <2> DEFINE t == KickPlayer(l)
  <2>1. SameLogin(t, l) /\ t.player = l.player
    BY <1>3, CalmMethods DEF Calm
  <2>2. session' = [session EXCEPT ![s] = t]
    BY <1>7
  <2> HIDE DEF t
  <2>3. session'[s] = t
    BY <1>2, <2>2
  <2>4. OneLogin(s)'
    BY <1>3, <1>6, <1>7, <2>1, <2>3, Idle DEF LoginUnderWay, SameLogin, Asked
  <2> QED
    BY <1>2, <1>3, <1>7, <2>1, <2>2, <2>4, FewerSame, OneSessionLogins
<1>8. CASE /\ ~LoginBusy(r)
           /\ OwnerOf[c] = AccountOf[s]
           /\ session' = [session EXCEPT ![s] = SendConnectToInstance(l, 1)]
           /\ linkSocketQueue' = OutdateLinks(s)
  <2>1. 1 \in 0 .. MaxAttempts
    BY NumbersAssumption DEF NumbersAssumption
  <2> QED
    BY <1>1, <1>2, <1>3, <1>6, <1>8, <2>1, AskedLogins
<1> QED
  BY <1>4, <1>5, <1>7, <1>8

LEMMA LinkLogins ==
  ASSUME IInv, Logins, ProcessLinkInstanceSocket
  PROVE  Logins'
<1> DEFINE q == linkSocketQueue
<1>1. /\ session \in [Sessions -> SessionState]
      /\ q \in Seq(Link)
      /\ q # <<>>
      /\ q' = Tail(q)
      /\ UNCHANGED <<m_sessions, inWorld>>
  BY DEF IInv, TypeOK, ProcessLinkInstanceSocket, worldVars
<1>2. PICK s \in Sessions : s = Head(q).session
  BY <1>1, TailLinks DEF Link
<1>3. \A x : Fewer(q', q, x)
  BY <1>1, TailLinks
<1> DEFINE r == session[s]
           o == [r EXCEPT !.instance = "open"]
<1>4. CASE session' = session
  <2>1. ASSUME NEW x \in Sessions PROVE OneLogin(x)'
    <3>1. session'[x] = session[x] /\ session[x] \in SessionState
      BY <1>1, <1>4
    <3> QED
      BY <1>1, <1>3, <3>1, Untouched, CalmMethods DEF Logins, Calm, Listed
  <2>2. Played'
    BY <1>1, <1>4, SamePlayed DEF Logins
  <2> QED
    BY <2>1, <2>2 DEF Logins
<1>5. CASE /\ Head(q).current
           /\ session' = [session EXCEPT ![s] = HandleContinuePlayerLogin(o)]
  <2>1. /\ r \in SessionState
        /\ OneLogin(s)
    BY <1>1 DEF Logins
  <2>2. HasLink(q, s) /\ ~HasLink(q', s)
    BY <1>1, <1>2, <1>5, <2>1, TailLinks DEF OneLogin
  <2>3. /\ Listed(s) /\ r.player = NoChar /\ r.loading # NoChar
        /\ OwnerOf[r.loading] = AccountOf[s]
        /\ ~Asked(r) /\ Len(r.logins) = 0
    BY <2>1, <2>2 DEF OneLogin, LoginUnderWay
  <2> DEFINE l == [char |-> r.loading, ready |-> FALSE]
             t == [o EXCEPT !.logins = Append(@, l)]
  <2>4. /\ o.loading = r.loading /\ o.player = r.player /\ o.logins = r.logins
        /\ o.attempt = r.attempt /\ o.linked = r.linked
        /\ o \in SessionState
    BY <2>1 DEF SessionState
  <2> HIDE DEF o
  <2>5. HandleContinuePlayerLogin(o) = t
    BY <2>3, <2>4 DEF HandleContinuePlayerLogin
  <2>6. r.loading \in Chars /\ r.logins \in Seq(LoginQuery) /\ l \in LoginQuery
        /\ l.char = r.loading
    BY <2>1, <2>3 DEF SessionState, LoginQuery
  <2> DEFINE p == Append(r.logins, l)
  <2>7. Len(p) = 1 /\ p[1] = l
    <3> HIDE DEF l
    <3> QED
      BY <2>3, <2>6, AppendProperties
  <2>8. /\ t.loading = r.loading /\ t.player = NoChar /\ t.logins = p
        /\ t.attempt = r.attempt /\ t.linked = r.linked
    <3> HIDE DEF l
    <3> QED
      BY <2>3, <2>4 DEF SessionState
  <2> HIDE DEF l, t, p
  <2>9. session' = [session EXCEPT ![s] = t]
    BY <1>5, <2>5
  <2>10. session'[s] = t
    BY <1>1, <2>9
  <2>11. OneLink(q', s)
    BY <2>2 DEF HasLink, OneLink
  <2>12. OneLogin(s)'
    BY <1>1, <2>2, <2>3, <2>6, <2>7, <2>8, <2>10, <2>11
    DEF OneLogin, LoginUnderWay, Asked, Listed
  <2> QED
    BY <1>1, <1>3, <2>3, <2>8, <2>9, <2>12, OneSessionLogins
<1> QED
  BY <1>2, <1>4, <1>5 DEF ProcessLinkInstanceSocket

(* A session's player, if it has one, leaves the world, and no other does. *)
LEMMA Departure ==
  ASSUME IInv, Logins, NEW s \in Sessions,
         inWorld' = OutOfWorld(session[s]),
         session'[s].player = NoChar,
         \A x \in Sessions : x # s => session'[x].player = session[x].player
  PROVE  /\ Played'
         /\ \A x \in Sessions : x # s /\ session[x].player # NoChar =>
              inWorld'[session[x].player] = inWorld[session[x].player]
<1> DEFINE d == session[s].player
<1>1. /\ inWorld \in [Chars -> Nat]
      /\ d \in Chars \cup {NoChar}
      /\ \A x \in Sessions : session[x].player \in Chars \cup {NoChar}
      /\ Played
  BY DEF IInv, TypeOK, SessionState, Logins
<1>2. CASE d = NoChar
  <2>1. inWorld' = inWorld
    BY <1>2 DEF OutOfWorld
  <2>2. Played'
    BY <1>1, <1>2, <2>1, SamePlayed
  <2> QED
    BY <2>1, <2>2
<1>3. CASE d # NoChar
  <2>1. inWorld[d] = 1
    BY <1>3 DEF Logins, OneLogin
  <2>2. /\ inWorld'[d] = 0
        /\ \A c \in Chars : c # d => inWorld'[c] = inWorld[c]
    BY <1>1, <1>3, <2>1 DEF OutOfWorld
  <2>3. ASSUME NEW x \in Sessions, x # s, session[x].player # NoChar
        PROVE  inWorld'[session[x].player] = inWorld[session[x].player]
    <3>1. session[x].player # d
      BY <1>3, <2>3, PlayedOnce
    <3> QED
      BY <1>1, <2>2, <2>3, <3>1
  <2>4. ASSUME NEW c \in Chars, \A x \in Sessions : session'[x].player # c
        PROVE  inWorld'[c] = 0
    <3>1. CASE c = d
      BY <2>2, <3>1
    <3>2. CASE c # d
      <4>1. \A x \in Sessions : session[x].player # c
        BY <2>4, <3>2
      <4>2. inWorld[c] = 0
        BY <1>1, <4>1 DEF Played
      <4> QED
        BY <2>2, <3>2, <4>2
    <3> QED
      BY <3>1, <3>2
  <2>5. Played'
    BY <2>4 DEF Played
  <2> QED
    BY <2>3, <2>5
<1> QED
  BY <1>2, <1>3

LEMMA LeaveLogins ==
  ASSUME IInv, Logins, NEW s \in Sessions,
         UNCHANGED <<m_sessions, linkSocketQueue>>,
         session' = [session EXCEPT ![s] = LogoutPlayer(session[s])],
         inWorld' = OutOfWorld(session[s])
  PROVE  Logins'
<1>1. session \in [Sessions -> SessionState] /\ session[s] \in SessionState
  BY DEF IInv, TypeOK
<1>2. /\ session'[s] = LogoutPlayer(session[s])
      /\ SameLogin(session'[s], session[s])
      /\ session'[s].player = NoChar
      /\ \A x \in Sessions : x # s => session'[x] = session[x]
  BY <1>1, CalmMethods
<1>3. /\ Played'
      /\ \A x \in Sessions : x # s /\ session[x].player # NoChar =>
           inWorld'[session[x].player] = inWorld[session[x].player]
  BY <1>2, Departure
<1>4. ASSUME NEW x \in Sessions PROVE OneLogin(x)'
  <2>1. SameLogin(session'[x], session[x])
        /\ session'[x].player \in {session[x].player, NoChar}
    BY <1>1, <1>2, CalmMethods DEF Calm
  <2>2. session[x].player # NoChar =>
          inWorld'[session[x].player] = inWorld[session[x].player]
            \/ session'[x].player = NoChar
    BY <1>2, <1>3
  <2> QED
    BY <2>1, <2>2, FewerSame, Untouched DEF Logins, Listed
<1> QED
  BY <1>3, <1>4 DEF Logins

LEMMA LogoutLogins ==
  ASSUME IInv, Logins, HandleLogoutRequestOpcode \/ LogoutIfDue
  PROVE  Logins'
<1>1. PICK s \in Sessions : s = current
  BY DEF HandleLogoutRequestOpcode, LogoutIfDue, IInv, AtLiveSession, Updating
<1> DEFINE r == session[s]
<1>2. /\ session \in [Sessions -> SessionState]
      /\ r \in SessionState
      /\ UNCHANGED <<m_sessions, linkSocketQueue>>
  BY DEF IInv, TypeOK, HandleLogoutRequestOpcode, LogoutIfDue, worldVars
<1>3. \/ /\ session' = [session EXCEPT ![s] = LogoutPlayer(r)]
         /\ inWorld' = OutOfWorld(r)
      \/ /\ inWorld' = inWorld
         /\ \/ session' = session
            \/ session' = [session EXCEPT ![s] = [r EXCEPT !.logout = FALSE]]
            \/ session' = [session EXCEPT ![s] = [r EXCEPT !.logout = TRUE]]
  BY <1>1 DEF HandleLogoutRequestOpcode, LogoutIfDue
<1>4. Calm([r EXCEPT !.logout = FALSE], r) /\ Calm([r EXCEPT !.logout = TRUE], r)
  BY <1>2, CalmFields
<1>5. CASE inWorld' = inWorld /\ session' = session
  <2>1. \A x \in Sessions : Calm(session'[x], session[x])
    BY <1>2, <1>5, CalmMethods
  <2> QED
    BY <1>2, <1>5, <2>1, CalmLogins
<1> QED
  BY <1>2, <1>3, <1>4, <1>5, LeaveLogins, CalmSession

LEMMA PlayerLogins ==
  ASSUME IInv, Logins, NEW s \in Sessions, HandlePlayerLogin(s)
  PROVE  Logins'
<1> DEFINE q == session[s].logins
<1>1. /\ session \in [Sessions -> SessionState]
      /\ session[s] \in SessionState
      /\ q \in Seq(LoginQuery)
      /\ inWorld \in [Chars -> Nat]
      /\ UNCHANGED <<m_sessions, linkSocketQueue>>
      /\ OneLogin(s)
      /\ Played
  BY DEF IInv, TypeOK, SessionState, HandlePlayerLogin, worldVars, Logins
<1>2. PICK i \in DOMAIN q :
        LET c == session[s].logins[i].char
            r == [session[s] EXCEPT !.logins = RemoveAt(@, i),
                                    !.loading = NoChar]
        IN \/ /\ session' = [session EXCEPT
                   ![s] = KickPlayer([r EXCEPT !.player = NoChar])]
              /\ UNCHANGED inWorld
           \/ /\ session' = [session EXCEPT ![s] = [r EXCEPT !.player = c]]
              /\ inWorld' = [inWorld EXCEPT ![c] = @ + 1]
  BY DEF HandlePlayerLogin
<1>3. i \in 1 .. Len(q) /\ Len(q) # 0
  BY <1>1, <1>2, LenProperties
<1>4. /\ Len(q) = 1 /\ q[1].char = session[s].loading /\ i = 1
      /\ ~Asked(session[s]) /\ ~HasLink(linkSocketQueue, s)
      /\ Listed(s) /\ session[s].player = NoChar
      /\ session[s].loading # NoChar
      /\ OwnerOf[session[s].loading] = AccountOf[s]
  BY <1>1, <1>3 DEF OneLogin, LoginUnderWay
<1> DEFINE c == q[i].char
           e == RemoveAt(q, i)
           r == [session[s] EXCEPT !.logins = e, !.loading = NoChar]
           t == KickPlayer([r EXCEPT !.player = NoChar])
           u == [r EXCEPT !.player = c]
<1>5. /\ c = session[s].loading /\ c \in Chars /\ c # NoChar
      /\ Len(e) = 0
  <2>1. c = session[s].loading /\ c # NoChar
    BY <1>4
  <2>2. Len(e) = Len(q) - 1
    BY <1>1, <1>3, RemoveAtFacts
  <2> QED
    BY <1>1, <1>4, <2>1, <2>2 DEF SessionState
<1>6. \/ session' = [session EXCEPT ![s] = t] /\ UNCHANGED inWorld
      \/ /\ session' = [session EXCEPT ![s] = u]
         /\ inWorld' = [inWorld EXCEPT ![c] = @ + 1]
  BY <1>2
<1> HIDE DEF c, e
<1>7. /\ t.attempt = session[s].attempt /\ t.linked = session[s].linked
      /\ t.player = NoChar /\ t.logins = e
      /\ u.attempt = session[s].attempt /\ u.linked = session[s].linked
      /\ u.player = c /\ u.logins = e
  BY <1>1 DEF SessionState, KickPlayer
<1> HIDE DEF q, r, t, u
<1>8. CASE session' = [session EXCEPT ![s] = t] /\ UNCHANGED inWorld
  <2>1. session'[s] = t
    BY <1>1, <1>8
  <2>2. OneLogin(s)'
    BY <1>1, <1>4, <1>5, <1>7, <2>1, Idle DEF LoginUnderWay, Asked
  <2> QED
    BY <1>1, <1>4, <1>8, <2>2, FewerSame, OneSessionLogins
<1>9. CASE /\ session' = [session EXCEPT ![s] = u]
           /\ inWorld' = [inWorld EXCEPT ![c] = @ + 1]
  <2>1. /\ session'[s] = u
        /\ \A x \in Sessions : x # s => session'[x] = session[x]
    BY <1>1, <1>9
  <2>2. \A x \in Sessions : session[x].player # c
    <3>1. ASSUME NEW x \in Sessions, session[x].player = c PROVE FALSE
      <4>1. Listed(x) /\ AccountOf[x] = AccountOf[s]
        BY <1>4, <1>5, <3>1 DEF Logins, OneLogin
      <4>2. x = s
        BY <1>4, <4>1 DEF Listed
      <4> QED
        BY <1>4, <1>5, <3>1, <4>2
    <3> QED
      BY <3>1
  <2>3. /\ inWorld[c] = 0
        /\ inWorld'[c] = 1
        /\ \A d \in Chars : d # c => inWorld'[d] = inWorld[d]
    BY <1>1, <1>5, <1>9, <2>2 DEF Played
  <2>4. OneLogin(s)'
    <3>1. ~LoginUnderWay(s)' /\ OneLink(linkSocketQueue', s)
      BY <1>1, <1>4, <1>5, <1>7, <2>1 DEF LoginUnderWay, Asked, HasLink, OneLink
    <3> QED
      BY <1>1, <1>4, <1>5, <1>7, <2>1, <2>3, <3>1
      DEF OneLogin, LoginUnderWay, Listed
  <2>5. ASSUME NEW x \in Sessions, x # s PROVE OneLogin(x)'
    <3>1. session'[x] = session[x] /\ session[x] \in SessionState
      BY <1>1, <2>1, <2>5
    <3>2. session[x].player # NoChar =>
            inWorld'[session[x].player] = inWorld[session[x].player]
      BY <2>2, <2>3, <3>1 DEF SessionState
    <3> QED
      BY <1>1, <3>1, <3>2, FewerSame, Untouched, CalmMethods
      DEF Logins, Calm, Listed
  <2>6. Played'
    <3>1. ASSUME NEW d \in Chars, \A x \in Sessions : session'[x].player # d
          PROVE  inWorld'[d] = 0
      <4>1. d # c
        BY <1>7, <2>1, <3>1
      <4>2. \A x \in Sessions : session[x].player # d
        BY <1>4, <2>1, <3>1, CharsAssumption DEF CharsAssumption
      <4> QED
        BY <1>1, <2>3, <4>1, <4>2 DEF Played
    <3> QED
      BY <3>1 DEF Played
  <2> QED
    BY <2>4, <2>5, <2>6 DEF Logins
<1> QED
  BY <1>6, <1>8, <1>9

(* A session is deleted; the others keep their logins.                     *)
LEMMA DeletedLogins ==
  ASSUME IInv, Logins, NEW o \in Sessions,
         session'[o] = Deleted,
         inWorld' = OutOfWorld(session[o]),
         linkSocketQueue' = OutdateLinks(o),
         \A x \in Sessions : x # o => /\ Calm(session'[x], session[x])
                                      /\ Listed(x) => Listed(x)'
  PROVE  Logins'
<1>1. /\ Deleted.attempt = 0 /\ Len(Deleted.logins) = 0
      /\ Deleted.player = NoChar
  BY DEF Deleted, NewSession
<1>2. /\ \A x : Fewer(linkSocketQueue', linkSocketQueue, x)
      /\ ~HasLink(linkSocketQueue', o)
  BY OutdatedLinks DEF IInv
<1>3. /\ Played'
      /\ \A x \in Sessions : x # o /\ session[x].player # NoChar =>
           inWorld'[session[x].player] = inWorld[session[x].player]
  <2>1. \A x \in Sessions : x # o => session'[x].player = session[x].player
    BY DEF Calm
  <2> QED
    BY <1>1, <2>1, Departure
<1>4. ASSUME NEW x \in Sessions PROVE OneLogin(x)'
  <2>1. CASE x = o
    <3>1. OneLogin(o)'
      BY <1>1, <1>2, Blank
    <3> QED
      BY <2>1, <3>1
  <2>2. CASE x # o
    <3>1. /\ SameLogin(session'[x], session[x])
          /\ session'[x].player = session[x].player
          /\ Listed(x) => Listed(x)'
      BY <2>2 DEF Calm
    <3> QED
      BY <1>2, <1>3, <2>2, <3>1, Untouched DEF Logins
  <2> QED
    BY <2>1, <2>2
<1> QED
  BY <1>3, <1>4 DEF Logins

LEMMA AcceptedCalm ==
  ASSUME IInv, NEW st, NEW x \in Sessions,
         Kept(QueueState, st, x) \/ Accepted(QueueState, st, x)
  PROVE  Calm(st.session[x], session[x])
<1>1. session[x] \in SessionState
  BY DEF IInv, TypeOK
<1>2. \/ st.session[x] = session[x]
      \/ st.session[x] = InitializeSession(session[x])
  BY DEF Kept, Accepted, QueueState
<1> QED
  BY <1>1, <1>2, CalmMethods

LEMMA AddLogins ==
  ASSUME IInv, Waits, Logins, AddSession
  PROVE  Logins'
<1>0. PICK st : \E s \in Sessions, old \in Sessions \cup {NoSession} :
                  AddEffect(s, old, st)
  BY AddEffects
<1>1. PICK s \in Sessions, old \in Sessions \cup {NoSession} :
        AddEffect(s, old, st)
  BY <1>0
<1>2. ASSUME NEW x \in Sessions, x # old
      PROVE  /\ Calm(session'[x], session[x])
             /\ Listed(x) => Listed(x)'
  <2>1. CASE x = s
    <3>1. session[s] \in SessionState
      BY DEF IInv, TypeOK
    <3>2. /\ \/ session'[s] = [session[s] EXCEPT !.inQueue = TRUE]
             \/ session'[s] = InitializeSession(session[s])
          /\ Listed(s)'
      BY <1>1, AddOthers
    <3>3. Calm([session[s] EXCEPT !.inQueue = TRUE], session[s])
      BY <3>1, CalmFields
    <3>4. Calm(session'[s], session[s]) /\ Listed(s)'
      BY <3>1, <3>2, <3>3, CalmMethods
    <3> QED
      BY <2>1, <3>4
  <2>2. CASE x # s
    <3>1. /\ Kept(QueueState, st, x) \/ Accepted(QueueState, st, x)
          /\ session'[x] = st.session[x]
      BY <1>1, <1>2, <2>2, AddThird
    <3>2. \A y \in Sessions \ {s, old} : Listed(y)' <=> Listed(y)
      BY <1>1, AddOthers
    <3> QED
      BY <1>2, <2>2, <3>1, <3>2, AcceptedCalm
  <2> QED
    BY <2>1, <2>2
<1>3. CASE old = NoSession
  <2>1. UNCHANGED <<inWorld, linkSocketQueue>>
    BY <1>1, <1>3 DEF AddEffect
  <2>2. \A x \in Sessions : x # old
    BY <1>3, SessionsAssumption DEF SessionsAssumption
  <2>3. ASSUME NEW x \in Sessions PROVE OneLogin(x)'
    BY <1>2, <2>1, <2>2, FewerSame, Untouched DEF Logins, Calm
  <2>4. Played'
    BY <1>2, <2>1, <2>2, SamePlayed DEF Logins, Calm
  <2> QED
    BY <2>3, <2>4 DEF Logins
<1>4. CASE old # NoSession
  <2>1. /\ old \in Sessions
        /\ inWorld' = OutOfWorld(session[old])
        /\ linkSocketQueue' = OutdateLinks(old)
    BY <1>1, <1>4 DEF AddEffect
  <2>2. session'[old] = Deleted
    BY <1>1, <2>1, AddOthers
  <2> QED
    BY <1>2, <2>1, <2>2, DeletedLogins
<1> QED
  BY <1>3, <1>4

LEMMA DropLogins ==
  ASSUME IInv, Logins, DropSession
  PROVE  Logins'
<1>0. PICK once, twice : \E s \in Sessions : DropEffect(s, once, twice)
  BY DropEffects
<1>1. PICK s \in Sessions : DropEffect(s, once, twice)
  BY <1>0
<1>2. /\ inWorld' = OutOfWorld(session[s])
      /\ linkSocketQueue' = OutdateLinks(s)
  BY <1>1 DEF DropEffect
<1>3. /\ session'[s] = Deleted
      /\ \A x \in Sessions \ {s} :
           /\ Kept(QueueState, twice, x) \/ Accepted(QueueState, twice, x)
           /\ session'[x] = twice.session[x]
           /\ Listed(x)' <=> Listed(x)
  BY <1>1, DropOthers
<1>4. \A x \in Sessions : x # s => /\ Calm(session'[x], session[x])
                                   /\ Listed(x) => Listed(x)'
  BY <1>3, AcceptedCalm
<1> QED
  BY <1>2, <1>3, <1>4, DeletedLogins

LEMMA InitLogins == Init => Logins
<1> SUFFICES ASSUME Init PROVE Logins
  OBVIOUS
<1>1. Len(linkSocketQueue) = 0
  BY DEF Init
<1>2. /\ Deleted.attempt = 0 /\ Len(Deleted.logins) = 0
      /\ Deleted.player = NoChar
  BY DEF Deleted, NewSession
<1>3. \A s \in Sessions : ~HasLink(linkSocketQueue, s) /\ OneLink(linkSocketQueue, s)
  BY <1>1 DEF HasLink, OneLink
<1>4. \A s \in Sessions : session[s] = Deleted
  BY DEF Init
<1>5. \A s \in Sessions : OneLogin(s)
  BY <1>2, <1>3, <1>4 DEF OneLogin, LoginUnderWay, Asked
<1>6. Played
  BY DEF Init, Played
<1> QED
  BY <1>5, <1>6 DEF Logins

LEMMA NextLogins ==
  ASSUME NoLateFailure
  PROVE  IInv /\ Waits /\ Logins /\ [Next]_vars => Logins'
<1> SUFFICES ASSUME IInv, Waits, Logins, [Next]_vars
             PROVE  Logins'
  OBVIOUS
<1>1. CASE Network
  BY <1>1, NewConnectionLogins, NetworkCloseLogins, ContinuedLogins, FailedLogins
  DEF Network
<1>2. ASSUME NEW s \in Sessions, Database(s) \/ Callback(s)
      PROVE  Logins'
  BY <1>2, DatabaseLogins, PlayerLogins, CalmStepLogins DEF Callback, CalmStep
<1>3. CASE Commands
  BY <1>3, CommandsLogins
<1>4. CASE Packets
  BY <1>4, OpcodeLogins, LogoutLogins, CalmStepLogins DEF Packets, CalmStep
<1>5. CASE WorldThread
  BY <1>5, LinkLogins, RejectLogins, AddLogins, LogoutLogins, DropLogins,
     CalmStepLogins
  DEF WorldThread, CalmStep
<1>6. CASE Stopped \/ UNCHANGED vars
  BY <1>6, CalmStepLogins DEF CalmStep
<1> QED
  BY <1>1, <1>2, <1>3, <1>4, <1>5, <1>6 DEF Next

LEMMA OneOnline == IInv /\ Logins => OneOnlineCharacter
<1> SUFFICES ASSUME IInv, Logins, NEW c \in Chars
             PROVE  /\ inWorld[c] <= 1
                    /\ inWorld[c] = 1 =>
                         \E s \in Sessions : Listed(s) /\ session[s].player = c
  BY DEF OneOnlineCharacter
<1>1. CASE \A s \in Sessions : session[s].player # c
  BY <1>1 DEF Logins, Played
<1>2. CASE \E s \in Sessions : session[s].player = c
  <2>1. PICK s \in Sessions : session[s].player = c
    BY <1>2
  <2>2. Listed(s) /\ inWorld[c] = 1
    BY <2>1, CharsAssumption DEF Logins, OneLogin, CharsAssumption
  <2> QED
    BY <2>1, <2>2
<1> QED
  BY <1>1, <1>2

(* Each account has one character online at most, through logins, retries, *)
(* kicks and replacement by a second connection, provided that no client   *)
(* reports the failure of a connection that had already reached the server.*)
THEOREM OnlineOnce ==
  ASSUME NoLateFailure
  PROVE  Spec => []OneOnlineCharacter
<1>1. IInv /\ Waits /\ Logins /\ [Next]_vars => Logins'
  BY NextLogins
<1> QED
  BY InitIInv, NextIInv, InitWaits, NextWaits, InitLogins, OneOnline, <1>1, PTL
  DEF Spec

(* Whatever clients, network threads and database do in between, a login   *)
(* under way is in one place, in a session that is listed, plays nobody    *)
(* and loads a character of its own account: no second ConnectTo, link or  *)
(* LoginQueryHolder of it is on its way.                                   *)
THEOREM OneLoginAtATime ==
  ASSUME NoLateFailure
  PROVE  Spec => []\A s \in Sessions : OneLogin(s)
<1>1. IInv /\ Waits /\ Logins /\ [Next]_vars => Logins'
  BY NextLogins
<1>2. Logins => \A s \in Sessions : OneLogin(s)
  BY DEF Logins
<1> QED
  BY InitIInv, NextIInv, InitWaits, NextWaits, InitLogins, <1>1, <1>2, PTL
  DEF Spec

-----------------------------------------------------------------------------
(* The last update *)

Kicked(r) == r.realm = "closed" /\ r.forceExit
Out(r) == r.player = NoChar /\ Len(r.logins) = 0

(* The update under way has yet to come to the session, or is at it.       *)
Coming(s) ==
  \/ pc \in {"link", "add"}
  \/ (Updating \/ pc = "visit") /\ AccountOf[s] \in toVisit
  \/ Updating /\ s = current

(* Once KickAll has run every session listed was kicked and is about to be *)
(* dropped, or has no player and can have none any more.                   *)
Unloading ==
  /\ stopping =>
       /\ pc # "idle"
       /\ \A s \in Sessions : Listed(s) =>
            \/ Kicked(session[s]) /\ Coming(s)
            \/ Out(session[s]) /\ pc # "link"
  /\ pc = "stopped" => stopping

(* t is what a step makes of r.                                            *)
StillKicked(t, r) == Kicked(r) => Kicked(t)
StillOut(t, r) == Out(r) => Out(t)
Still(t, r) == StillKicked(t, r) /\ StillOut(t, r)

LEMMA StillMethods ==
  ASSUME NEW r \in SessionState
  PROVE  /\ Still(r, r)
         /\ Still(KickPlayer(r), r)
         /\ Still(LogoutPlayer(r), r)
         /\ Still(InitializeSession(r), r)
         /\ Still(Initialized(r), r)
         /\ \A n : Still(SendConnectToInstance(r, n), r)
         /\ \A c : /\ Still(KickPlayer([r EXCEPT !.loading = c]), r)
                   /\ \A n : Still(SendConnectToInstance(
                                     [r EXCEPT !.loading = c], n), r)
         /\ StillKicked(HandleContinuePlayerLogin([r EXCEPT !.instance = "open"]), r)
         /\ Still([r EXCEPT !.loading = NoChar, !.attempt = 0], r)
         /\ Still([r EXCEPT !.linked = TRUE], r)
<1> USE DEF SessionState, Still, StillKicked, StillOut, Kicked, Out
<1>1. Still(r, r)
  OBVIOUS
<1>2. /\ Still(KickPlayer(r), r)
      /\ \A c : Still(KickPlayer([r EXCEPT !.loading = c]), r)
  BY DEF KickPlayer
<1>3. Still(LogoutPlayer(r), r)
  BY DEF LogoutPlayer
<1>4. Still(InitializeSession(r), r) /\ Still(Initialized(r), r)
  BY DEF InitializeSession, Initialized
<1>5. /\ \A n : Still(SendConnectToInstance(r, n), r)
      /\ \A c, n : Still(SendConnectToInstance([r EXCEPT !.loading = c], n), r)
  BY DEF SendConnectToInstance
<1>6. StillKicked(HandleContinuePlayerLogin([r EXCEPT !.instance = "open"]), r)
  BY DEF HandleContinuePlayerLogin, KickPlayer
<1>7. /\ Still([r EXCEPT !.loading = NoChar, !.attempt = 0], r)
      /\ Still([r EXCEPT !.linked = TRUE], r)
  OBVIOUS
<1> HIDE DEF SessionState, Still, StillKicked, StillOut, Kicked, Out
<1> QED
  BY <1>1, <1>2, <1>3, <1>4, <1>5, <1>6, <1>7

LEMMA StillFields ==
  ASSUME NEW r \in SessionState,
         NEW t \in {[r EXCEPT !.realm = "closed"], [r EXCEPT !.instance = "closed"],
                    [r EXCEPT !.logout = TRUE], [r EXCEPT !.logout = FALSE],
                    [r EXCEPT !.init = "ready"],
                    [r EXCEPT !.inQueue = TRUE],
                    [r EXCEPT !.expire = CountDown(r)]}
  PROVE  Still(t, r)
BY DEF SessionState, Still, StillKicked, StillOut, Kicked, Out

(* What a step does to every session that was and stays listed.            *)
StillAll ==
  \A x \in Sessions : Listed(x) /\ Listed(x)' =>
    /\ StillKicked(session'[x], session[x])
    /\ pc # "link" => StillOut(session'[x], session[x])

LEMMA StillSession ==
  ASSUME IInv, NEW s \in Sessions, NEW t,
         \/ session' = [session EXCEPT ![s] = t] /\ Still(t, session[s])
         \/ session' = [session EXCEPT ![s] = t] /\ ~Listed(s)
         \/ session' = session
  PROVE  StillAll
<1>1. session \in [Sessions -> SessionState]
      /\ \A x \in Sessions : session[x] \in SessionState
  BY DEF IInv, TypeOK
<1>2. \A x \in Sessions : Still(session[x], session[x])
  BY <1>1, StillMethods
<1>3. \A x \in Sessions : Listed(x) => Still(session'[x], session[x])
  BY <1>1, <1>2
<1> QED
  BY <1>3 DEF StillAll, Still

LEMMA NetworkStill ==
  ASSUME IInv, NEW s \in Sessions,
         NewConnection(s) \/ NetworkClose(s) \/ HandleAuthContinuedSession(s)
           \/ HandleConnectToFailed(s)
  PROVE  StillAll
<1> DEFINE r == session[s]
<1>1. session \in [Sessions -> SessionState] /\ r \in SessionState
  BY DEF IInv, TypeOK
<1>2. CASE NewConnection(s)
  BY <1>2, StillSession DEF NewConnection, Alive
<1>3. CASE NetworkClose(s)
  <2>1. \/ session' = [session EXCEPT ![s] = [r EXCEPT !.realm = "closed"]]
        \/ session' = [session EXCEPT ![s] = [r EXCEPT !.instance = "closed"]]
    BY <1>3 DEF NetworkClose
  <2>2. /\ Still([r EXCEPT !.realm = "closed"], r)
        /\ Still([r EXCEPT !.instance = "closed"], r)
    BY <1>1, StillFields
  <2> QED
    BY <2>1, <2>2, StillSession
<1>4. CASE HandleAuthContinuedSession(s)
  <2>1. session' = [session EXCEPT ![s] = [r EXCEPT !.linked = TRUE]]
    BY <1>4 DEF HandleAuthContinuedSession
  <2> QED
    BY <1>1, <2>1, StillMethods, StillSession
<1>5. CASE HandleConnectToFailed(s)
  <2>1. \/ session' = [session EXCEPT
               ![s] = SendConnectToInstance(r, r.attempt + 1)]
        \/ session' = [session EXCEPT ![s] = KickPlayer(r)]
        \/ session' = [session EXCEPT
               ![s] = [r EXCEPT !.loading = NoChar, !.attempt = 0]]
    BY <1>5 DEF HandleConnectToFailed
  <2>2. /\ Still(SendConnectToInstance(r, r.attempt + 1), r)
        /\ Still(KickPlayer(r), r)
        /\ Still([r EXCEPT !.loading = NoChar, !.attempt = 0], r)
    BY <1>1, StillMethods
  <2> QED
    BY <2>1, <2>2, StillSession
<1> QED
  BY <1>2, <1>3, <1>4, <1>5

(* Out of the link queue, an answer of the database is only handled where  *)
(* there is one.                                                           *)
LEMMA DatabaseStill ==
  ASSUME IInv, NEW s \in Sessions, Database(s) \/ Callback(s)
  PROVE  StillAll
<1> DEFINE r == session[s]
           q == r.logins
<1>1. /\ session \in [Sessions -> SessionState] /\ r \in SessionState
      /\ q \in Seq(LoginQuery)
  BY DEF IInv, TypeOK, SessionState
<1>2. CASE InitQueryDone(s)
  <2>1. Still([r EXCEPT !.init = "ready"], r)
    BY <1>1, StillFields
  <2> QED
    BY <1>2, <2>1, StillSession DEF InitQueryDone
<1>3. CASE InitializeSessionCallback(s)
  BY <1>1, <1>3, StillMethods, StillSession DEF InitializeSessionCallback
<1>4. CASE LoginQueryDone(s)
  <2>1. PICK i \in DOMAIN q :
          session' = [session EXCEPT ![s].logins[i].ready = TRUE]
    BY <1>4 DEF LoginQueryDone
  <2> DEFINE p == [q EXCEPT ![i].ready = TRUE]
             t == [r EXCEPT !.logins = p]
  <2>2. Len(q) # 0
    BY <1>1, <2>1, LenProperties
  <2>3. t.realm = r.realm /\ t.forceExit = r.forceExit
    <3> HIDE DEF p
    <3> QED
      BY <1>1 DEF SessionState
  <2>4. session' = [session EXCEPT ![s] = t]
    BY <2>1
  <2> HIDE DEF t
  <2>5. Still(t, r)
    BY <2>2, <2>3 DEF Still, StillKicked, StillOut, Kicked, Out
  <2> QED
    BY <2>4, <2>5, StillSession
<1>5. CASE HandlePlayerLogin(s)
  <2>1. PICK i \in DOMAIN q :
          LET c == session[s].logins[i].char
              l == [session[s] EXCEPT !.logins = RemoveAt(@, i),
                                      !.loading = NoChar]
          IN \/ session' = [session EXCEPT
                     ![s] = KickPlayer([l EXCEPT !.player = NoChar])]
             \/ session' = [session EXCEPT ![s] = [l EXCEPT !.player = c]]
    BY <1>5 DEF HandlePlayerLogin
  <2> DEFINE c == q[i].char
             e == RemoveAt(q, i)
             l == [r EXCEPT !.logins = e, !.loading = NoChar]
             t == KickPlayer([l EXCEPT !.player = NoChar])
             u == [l EXCEPT !.player = c]
  <2>2. Len(q) # 0
    BY <1>1, <2>1, LenProperties
  <2>3. session' = [session EXCEPT ![s] = t] \/ session' = [session EXCEPT ![s] = u]
    BY <2>1
  <2> HIDE DEF c, e
  <2>4. /\ t.realm = "closed" /\ t.forceExit
        /\ u.realm = r.realm /\ u.forceExit = r.forceExit
    BY <1>1 DEF SessionState, KickPlayer
  <2> HIDE DEF l, t, u
  <2>5. Still(t, r) /\ Still(u, r)
    BY <2>2, <2>4 DEF Still, StillKicked, StillOut, Kicked, Out
  <2> QED
    BY <2>3, <2>5, StillSession
<1> QED
  BY <1>2, <1>3, <1>4, <1>5 DEF Database, Callback

LEMMA PacketsStill ==
  ASSUME IInv, Packets
  PROVE  StillAll
<1>1. PICK s \in Sessions : s = current
  BY DEF Packets, HandlePlayerLoginOpcode, HandleLogoutRequestOpcode,
         HandleLogoutCancelOpcode, IInv, AtLiveSession, Updating
<1> DEFINE r == session[s]
<1>2. r \in SessionState
  BY DEF IInv, TypeOK
<1>3. ASSUME NEW c \in Chars, HandlePlayerLoginOpcode(c)
      PROVE  StillAll
  <2> DEFINE l == [r EXCEPT !.loading = c]
  <2>1. \/ session' = [session EXCEPT ![s] = KickPlayer(r)]
        \/ session' = [session EXCEPT ![s] = KickPlayer(l)]
        \/ session' = [session EXCEPT ![s] = SendConnectToInstance(l, 1)]
    BY <1>1, <1>3 DEF HandlePlayerLoginOpcode
  <2>2. /\ Still(KickPlayer(r), r) /\ Still(KickPlayer(l), r)
        /\ Still(SendConnectToInstance(l, 1), r)
    BY <1>2, StillMethods
  <2> QED
    BY <2>1, <2>2, StillSession
<1>4. CASE HandleLogoutRequestOpcode \/ HandleLogoutCancelOpcode
  <2>1. \/ session' = [session EXCEPT ![s] = LogoutPlayer(r)]
        \/ session' = [session EXCEPT ![s] = [r EXCEPT !.logout = FALSE]]
        \/ session' = [session EXCEPT ![s] = [r EXCEPT !.logout = TRUE]]
    BY <1>1, <1>4 DEF HandleLogoutRequestOpcode, HandleLogoutCancelOpcode
  <2>2. /\ Still(LogoutPlayer(r), r)
        /\ Still([r EXCEPT !.logout = FALSE], r)
        /\ Still([r EXCEPT !.logout = TRUE], r)
    BY <1>2, StillMethods, StillFields
  <2> QED
    BY <2>1, <2>2, StillSession
<1> QED
  BY <1>3, <1>4 DEF Packets

LEMMA CommandsStill ==
  ASSUME IInv, Commands
  PROVE  StillAll
<1>1. session \in [Sessions -> SessionState]
      /\ \A x \in Sessions : session[x] \in SessionState
  BY DEF IInv, TypeOK
<1>2. \A x \in Sessions :
        session'[x] = session[x] \/ session'[x] = KickPlayer(session[x])
  BY <1>1 DEF Commands, SetPlayerAmountLimit, Kick, Tick, KickAll
<1> QED
  BY <1>1, <1>2, StillMethods DEF StillAll, Still

LEMMA LinkStill ==
  ASSUME IInv, ProcessLinkInstanceSocket
  PROVE  StillAll
<1>1. /\ session \in [Sessions -> SessionState]
      /\ \A x \in Sessions : session[x] \in SessionState
      /\ pc = "link"
  BY DEF IInv, TypeOK, ProcessLinkInstanceSocket
<1>2. PICK s \in Sessions : s = Head(linkSocketQueue).session
  BY TailLinks DEF ProcessLinkInstanceSocket, IInv, TypeOK, Link
<1> DEFINE t == HandleContinuePlayerLogin([session[s] EXCEPT !.instance = "open"])
<1>3. session' = session \/ session' = [session EXCEPT ![s] = t]
  BY <1>2 DEF ProcessLinkInstanceSocket
<1>4. StillKicked(t, session[s])
  BY <1>1, StillMethods
<1> HIDE DEF t
<1>5. \A x \in Sessions : StillKicked(session[x], session[x])
  BY DEF StillKicked
<1>6. \A x \in Sessions : StillKicked(session'[x], session[x])
  BY <1>1, <1>3, <1>4, <1>5
<1> QED
  BY <1>1, <1>6 DEF StillAll

LEMMA AcceptedStill ==
  ASSUME IInv, NEW st, NEW x \in Sessions,
         Kept(QueueState, st, x) \/ Accepted(QueueState, st, x)
  PROVE  Still(st.session[x], session[x])
<1>1. session[x] \in SessionState
  BY DEF IInv, TypeOK
<1>2. \/ st.session[x] = session[x]
      \/ st.session[x] = InitializeSession(session[x])
  BY DEF Kept, Accepted, QueueState
<1> QED
  BY <1>1, <1>2, StillMethods

LEMMA AddStill ==
  ASSUME IInv, Waits, AddSession
  PROVE  StillAll
<1>0. PICK st : \E s \in Sessions, old \in Sessions \cup {NoSession} :
                  AddEffect(s, old, st)
  BY AddEffects
<1>1. PICK s \in Sessions, old \in Sessions \cup {NoSession} :
        AddEffect(s, old, st)
  BY <1>0
<1>2. ASSUME NEW x \in Sessions, Listed(x), Listed(x)'
      PROVE  Still(session'[x], session[x])
  <2>1. x # s
    BY <1>1, <1>2 DEF AddEffect
  <2>2. x # old
    BY <1>1, <1>2, AddOthers, ZenonT(60)
  <2>3. /\ Kept(QueueState, st, x) \/ Accepted(QueueState, st, x)
        /\ session'[x] = st.session[x]
    BY <1>1, <2>1, <2>2, AddThird
  <2> QED
    BY <2>3, AcceptedStill
<1> QED
  BY <1>2 DEF StillAll, Still

LEMMA DropStill ==
  ASSUME IInv, DropSession
  PROVE  StillAll
<1>0. PICK once, twice : \E s \in Sessions : DropEffect(s, once, twice)
  BY DropEffects
<1>1. PICK s \in Sessions : DropEffect(s, once, twice)
  BY <1>0
<1>2. /\ ~Listed(s)'
      /\ \A x \in Sessions \ {s} :
           /\ Kept(QueueState, twice, x) \/ Accepted(QueueState, twice, x)
           /\ session'[x] = twice.session[x]
  BY <1>1, DropOthers
<1>3. ASSUME NEW x \in Sessions, Listed(x), Listed(x)'
      PROVE  Still(session'[x], session[x])
  <2>1. x # s
    BY <1>2, <1>3
  <2> QED
    BY <1>2, <2>1, AcceptedStill
<1> QED
  BY <1>3 DEF StillAll, Still

LEMMA WorldStill ==
  ASSUME IInv, Waits, WorldThread \/ Stopped \/ UNCHANGED vars
  PROVE  StillAll
<1>1. \A x \in Sessions : session[x] \in SessionState
  BY DEF IInv, TypeOK
<1>2. CASE session' = session
  BY <1>1, <1>2, StillMethods DEF StillAll, Still
<1>3. CASE RejectSession
  <2>1. PICK s \in Sessions :
          ~Listed(s) /\ session' = [session EXCEPT ![s] = Deleted]
    BY <1>3, NextNewSession DEF RejectSession
  <2> QED
    BY <2>1, StillSession
<1>4. ASSUME NEW a \in Accounts, BeginUpdate(a)
      PROVE  StillAll
  <2>1. PICK s \in Sessions : s = m_sessions[a]
    BY <1>4 DEF BeginUpdate, IInv, AtLiveSession, TypeOK
  <2>2. \/ session' = session
        \/ session' = [session EXCEPT ![s] = [session[s] EXCEPT !.realm = "closed"]]
    BY <1>4, <2>1 DEF BeginUpdate
  <2>3. Still([session[s] EXCEPT !.realm = "closed"], session[s])
    BY <1>1, StillFields
  <2> QED
    BY <2>2, <2>3, StillSession
<1>5. CASE KeepSession \/ LogoutIfDue
  <2>1. PICK s \in Sessions : s = current
    BY <1>5 DEF KeepSession, LogoutIfDue, IInv, AtLiveSession, Updating
  <2> DEFINE r == session[s]
  <2>2. \/ session' = session
        \/ session' = [session EXCEPT ![s] = [r EXCEPT !.expire = CountDown(r)]]
        \/ session' = [session EXCEPT ![s] = LogoutPlayer(r)]
    BY <1>5, <2>1 DEF KeepSession, LogoutIfDue
  <2>3. Still([r EXCEPT !.expire = CountDown(r)], r) /\ Still(LogoutPlayer(r), r)
    BY <1>1, StillFields, StillMethods
  <2> QED
    BY <2>2, <2>3, StillSession
<1>6. CASE StartUpdateSessions \/ LinksDone \/ AddsDone \/ PacketsDone
             \/ CallbacksDone \/ UpdateSessionsDone \/ Stopped \/ UNCHANGED vars
  BY <1>2, <1>6
  DEF StartUpdateSessions, LinksDone, AddsDone, PacketsDone, CallbacksDone,
      UpdateSessionsDone, Stopped, vars, GoTo
<1> QED
  BY <1>3, <1>4, <1>5, <1>6, LinkStill, AddStill, DropStill DEF WorldThread

LEMMA NextStill == ASSUME IInv, Waits, [Next]_vars PROVE StillAll
<1>1. CASE Network
  BY <1>1, NetworkStill DEF Network
<1> QED
  BY <1>1, DatabaseStill, PacketsStill, CommandsStill, WorldStill DEF Next

-----------------------------------------------------------------------------
(* Where the world thread is *)

(* All steps but those of the walk of UpdateSessions leave it in place.    *)
Walks ==
  \/ StartUpdateSessions \/ LinksDone \/ AddsDone
  \/ \E a \in Accounts : BeginUpdate(a)
  \/ PacketsDone \/ CallbacksDone \/ LogoutIfDue
  \/ KeepSession \/ DropSession \/ UpdateSessionsDone

LEMMA InPlaceSteps ==
  ASSUME [Next]_vars, ~Walks, ~KickAll
  PROVE  UNCHANGED threadVars
<1>1. CASE Network
  BY <1>1 DEF Network, NewConnection, NetworkClose, HandleAuthContinuedSession,
              HandleConnectToFailed, allButSession
<1>2. ASSUME NEW s \in Sessions, Database(s) \/ Callback(s)
      PROVE  UNCHANGED threadVars
  BY <1>2 DEF Database, InitQueryDone, LoginQueryDone, Callback,
              InitializeSessionCallback, HandlePlayerLogin, allButSession
<1>3. CASE Commands
  BY <1>3 DEF Commands, SetPlayerAmountLimit, Kick, Tick, allButSession
<1>4. CASE Packets
  BY <1>4 DEF Packets, HandlePlayerLoginOpcode, HandleLogoutRequestOpcode,
              HandleLogoutCancelOpcode, allButSession
<1>5. CASE WorldThread
  BY <1>5 DEF WorldThread, Walks, ProcessLinkInstanceSocket, RejectSession,
              AddSession, threadVars
<1>6. CASE Stopped \/ UNCHANGED vars
  BY <1>6 DEF Stopped, vars, allButSession
<1> QED
  BY <1>1, <1>2, <1>3, <1>4, <1>5, <1>6 DEF Next

LEMMA WalkKeepsStopping ==
  ASSUME Walks
  PROVE  /\ stopping' = stopping
         /\ pc' # "link" \/ pc = "idle"
         /\ pc' = "stopped" => stopping
         /\ pc' = "idle" => ~stopping
BY DEF Walks, StartUpdateSessions, LinksDone, AddsDone, BeginUpdate, PacketsDone,
       CallbacksDone, LogoutIfDue, KeepSession, DropSession, UpdateSessionsDone, GoTo

(* The walk comes to every session that was kicked, and then drops it.     *)
LEMMA StaysComing ==
  ASSUME IInv, [Next]_vars, NEW s \in Sessions, Listed(s), Listed(s)',
         Kicked(session[s]), Coming(s), pc # "idle"
  PROVE  Coming(s)'
<1>1. CASE UNCHANGED threadVars
  BY <1>1 DEF Coming, Updating, threadVars
<1>2. CASE LinksDone
  BY <1>2 DEF LinksDone, GoTo, Coming
<1>3. CASE AddsDone
  <2>1. AccountOf[s] \in ListedAccounts
    BY SessionsAssumption DEF Listed, ListedAccounts, SessionsAssumption
  <2> QED
    BY <1>3, <2>1 DEF AddsDone, Coming
<1>4. ASSUME NEW a \in Accounts, BeginUpdate(a)
      PROVE  Coming(s)'
  <2>1. /\ pc = "visit" /\ pc' = "packets"
        /\ toVisit' = toVisit \ {a}
        /\ current' = m_sessions[a]
    BY <1>4 DEF BeginUpdate
  <2>2. AccountOf[s] \in toVisit
    BY <2>1 DEF Coming, Updating
  <2> QED
    BY <2>1, <2>2 DEF Coming, Updating, Listed
<1>5. CASE PacketsDone \/ CallbacksDone \/ LogoutIfDue
  BY <1>5 DEF PacketsDone, CallbacksDone, LogoutIfDue, GoTo, Coming, Updating
<1>6. CASE KeepSession
  <2>1. GivesUp(session[s])
    BY DEF GivesUp, SocketLost, Kicked
  <2>2. s # current
    BY <1>6, <2>1 DEF KeepSession
  <2> QED
    BY <1>6, <2>2 DEF KeepSession, Coming, Updating
<1>7. CASE DropSession
  <2>1. s # current
    <3>1. m_sessions' = [m_sessions EXCEPT ![AccountOf[current]] = NoSession]
      BY <1>7 DEF DropSession
    <3> QED
      BY <3>1, SessionsAssumption DEF Listed, IInv, TypeOK, SessionsAssumption
  <2> QED
    BY <1>7, <2>1 DEF DropSession, Coming, Updating
<1>8. CASE UpdateSessionsDone
  BY <1>8 DEF UpdateSessionsDone, Coming, Updating
<1> QED
  BY <1>1, <1>2, <1>3, <1>4, <1>5, <1>6, <1>7, <1>8, InPlaceSteps
  DEF Walks, StartUpdateSessions, KickAll

(* A session that becomes listed has no player, and no login under way.    *)
LEMMA NewSessionOut ==
  ASSUME IInv, Waits, Logins, [Next]_vars, NEW s \in Sessions, ~Listed(s), Listed(s)'
  PROVE  Out(session'[s]) /\ pc' # "link"
<1>1. ~Out(session[s]) => FALSE
  BY DEF Logins, OneLogin, LoginUnderWay, Out
<1>2. CASE AddSession
  <2>0. PICK st : \E x \in Sessions, old \in Sessions \cup {NoSession} :
                    AddEffect(x, old, st)
    BY <1>2, AddEffects
  <2>1. PICK x \in Sessions, old \in Sessions \cup {NoSession} :
          AddEffect(x, old, st)
    BY <2>0
  <2>2. x = s
    <3>1. \A y \in Sessions \ {x, old} : Listed(y)' <=> Listed(y)
      BY <2>1, AddOthers
    <3>2. old \in Sessions => ~Listed(old)'
      BY <2>1, AddOthers
    <3> QED
      BY <3>1, <3>2
  <2>3. session[s] \in SessionState
    BY DEF IInv, TypeOK
  <2>4. \/ session'[s] = [session[s] EXCEPT !.inQueue = TRUE]
        \/ session'[s] = InitializeSession(session[s])
    BY <2>1, <2>2, AddOthers
  <2>5. Still([session[s] EXCEPT !.inQueue = TRUE], session[s])
        /\ Still(InitializeSession(session[s]), session[s])
    BY <2>3, StillFields, StillMethods
  <2>6. pc' = "add"
    BY <1>2 DEF AddSession, threadVars
  <2> QED
    BY <1>1, <2>4, <2>5, <2>6 DEF Still, StillOut
<1>3. CASE DropSession
  <2>1. m_sessions' = [m_sessions EXCEPT ![AccountOf[current]] = NoSession]
    BY <1>3 DEF DropSession
  <2> QED
    BY <2>1, SessionsAssumption DEF Listed, IInv, TypeOK, SessionsAssumption
<1>4. CASE ~AddSession /\ ~DropSession
  BY <1>4, OtherSteps DEF Listed
<1> QED
  BY <1>2, <1>3, <1>4

LEMMA KickAllUnloads ==
  ASSUME IInv, KickAll
  PROVE  Unloading'
<1>1. session \in [Sessions -> SessionState]
  BY DEF IInv, TypeOK
<1>2. /\ pc' = "link" /\ m_sessions' = m_sessions
      /\ \A s \in Sessions : Listed(s) => session'[s] = KickPlayer(session[s])
  BY DEF KickAll
<1>3. \A s \in Sessions : Listed(s) => Kicked(session'[s])
  BY <1>1, <1>2 DEF KickPlayer, Kicked, SessionState
<1> QED
  BY <1>2, <1>3 DEF Unloading, Coming, Listed

LEMMA NextUnloading ==
  ASSUME IInv, Waits, Logins, Unloading, [Next]_vars
  PROVE  Unloading'
<1>1. CASE KickAll
  BY <1>1, KickAllUnloads
<1>2. CASE ~KickAll /\ ~stopping
  BY <1>2, InPlaceSteps, WalkKeepsStopping DEF Unloading, threadVars
<1>3. CASE ~KickAll /\ stopping
  <2>1. /\ pc # "idle" /\ pc' # "idle" /\ stopping'
        /\ pc # "link" => pc' # "link"
    BY <1>3, InPlaceSteps, WalkKeepsStopping DEF Unloading, threadVars
  <2>2. StillAll
    BY NextStill
  <2>3. ASSUME NEW s \in Sessions, Listed(s)'
        PROVE  \/ Kicked(session'[s]) /\ Coming(s)'
               \/ Out(session'[s]) /\ pc' # "link"
    <3>1. CASE ~Listed(s)
      BY <2>3, <3>1, NewSessionOut
    <3>2. CASE Listed(s) /\ Kicked(session[s]) /\ Coming(s)
      <4>1. Kicked(session'[s])
        BY <2>2, <2>3, <3>2 DEF StillAll, StillKicked
      <4> QED
        BY <2>1, <2>3, <3>2, <4>1, StaysComing
    <3>3. CASE Listed(s) /\ Out(session[s]) /\ pc # "link"
      BY <2>1, <2>2, <2>3, <3>3 DEF StillAll, StillOut
    <3> QED
      BY <1>3, <3>1, <3>2, <3>3 DEF Unloading
  <2> QED
    BY <2>1, <2>3 DEF Unloading
<1> QED
  BY <1>1, <1>2, <1>3

LEMMA StoppedUnloaded ==
  IInv /\ Logins /\ Unloading => ShutdownUnloadsPlayers
<1> SUFFICES ASSUME IInv, Logins, Unloading, pc = "stopped", NEW c \in Chars
             PROVE  inWorld[c] = 0
  BY DEF ShutdownUnloadsPlayers
<1>1. ASSUME NEW s \in Sessions, session[s].player = c PROVE FALSE
  <2>1. Listed(s) /\ session[s].player # NoChar
    BY <1>1, CharsAssumption DEF Logins, OneLogin, CharsAssumption
  <2>2. ~Coming(s)
    BY DEF Coming, Updating
  <2> QED
    BY <2>1, <2>2 DEF Unloading, Out
<1> QED
  BY <1>1 DEF Logins, Played

(* When the server has stopped no player is left in the world, not even    *)
(* one whose login completed in the last update: every session listed was  *)
(* kicked before it, and UpdateSessions comes to each and drops it.        *)
THEOREM ShutdownUnloads ==
  ASSUME NoLateFailure
  PROVE  Spec => []ShutdownUnloadsPlayers
<1>1. IInv /\ Waits /\ Logins /\ [Next]_vars => Logins'
  BY NextLogins
<1>2. IInv /\ Waits /\ Logins /\ Unloading /\ [Next]_vars => Unloading'
  BY NextUnloading
<1>3. Init => Unloading
  BY DEF Init, Unloading
<1> QED
  BY InitIInv, NextIInv, InitWaits, NextWaits, InitLogins, StoppedUnloaded,
     <1>1, <1>2, <1>3, PTL DEF Spec

-----------------------------------------------------------------------------
(* Kicked sessions *)

(* A session that loads a character plays none, so that AbortLogin never   *)
(* finds a player to kick, and one that was kicked has lost its client.    *)
Sound(r) ==
  /\ r.loading # NoChar => r.player = NoChar
  /\ r.forceExit => r.realm = "closed"

(* The update under way, or else the next one, comes to the session.       *)
WillBeUpdated(s) == pc = "idle" \/ Coming(s)

(* No session outlives the update that comes after it was kicked.          *)
NoKickedLeft ==
  \A s \in Sessions : Listed(s) /\ session[s].forceExit => WillBeUpdated(s)

OfKicked(s) ==
  /\ Sound(session[s])
  /\ session[s].forceExit => Listed(s) /\ WillBeUpdated(s)
KickedInv == \A s \in Sessions : OfKicked(s)

(* t, which a step makes of r, was not kicked by it.                       *)
Unkicked(t, r) == Sound(t) /\ (t.forceExit => r.forceExit)

MayBe(t, s) == Sound(t) /\ (t.forceExit => Listed(s) /\ WillBeUpdated(s))

LEMMA UnkickedMethods ==
  ASSUME NEW r \in SessionState, Sound(r)
  PROVE  /\ Unkicked(r, r)
         /\ Unkicked(LogoutPlayer(r), r)
         /\ Unkicked(InitializeSession(r), r)
         /\ Unkicked(Initialized(r), r)
         /\ \A n : Unkicked(SendConnectToInstance(r, n), r)
         /\ Unkicked([r EXCEPT !.loading = NoChar, !.attempt = 0], r)
         /\ Unkicked([r EXCEPT !.linked = TRUE], r)
         /\ Sound(KickPlayer(r))
<1> USE DEF SessionState, Unkicked, Sound
<1>1. Unkicked(r, r) /\ Unkicked(LogoutPlayer(r), r)
  BY DEF LogoutPlayer
<1>2. Unkicked(InitializeSession(r), r) /\ Unkicked(Initialized(r), r)
  BY DEF InitializeSession, Initialized
<1>3. \A n : Unkicked(SendConnectToInstance(r, n), r)
  BY DEF SendConnectToInstance
<1>4. /\ Unkicked([r EXCEPT !.loading = NoChar, !.attempt = 0], r)
      /\ Unkicked([r EXCEPT !.linked = TRUE], r)
  OBVIOUS
<1>5. Sound(KickPlayer(r))
  BY DEF KickPlayer
<1> HIDE DEF SessionState, Unkicked, Sound
<1> QED
  BY <1>1, <1>2, <1>3, <1>4, <1>5

LEMMA UnkickedFields ==
  ASSUME NEW r \in SessionState, Sound(r),
         NEW t \in {[r EXCEPT !.realm = "closed"], [r EXCEPT !.instance = "closed"],
                    [r EXCEPT !.logout = TRUE], [r EXCEPT !.logout = FALSE],
                    [r EXCEPT !.init = "ready"],
                    [r EXCEPT !.inQueue = TRUE],
                    [r EXCEPT !.expire = CountDown(r)]}
  PROVE  Unkicked(t, r)
BY DEF SessionState, Unkicked, Sound

LEMMA NewUnkicked == \A r : Unkicked(NewSession, r) /\ Unkicked(Deleted, r)
BY DEF NewSession, Deleted, Unkicked, Sound

(* Where the sessions stay as they are, the update comes as it did.        *)
LEMMA SameUpdate ==
  ASSUME UNCHANGED <<m_sessions, threadVars>>
  PROVE  \A x \in Sessions : /\ Listed(x)' <=> Listed(x)
                             /\ WillBeUpdated(x)' <=> WillBeUpdated(x)
BY DEF Listed, WillBeUpdated, Coming, Updating, threadVars

LEMMA NoSessionChanged ==
  ASSUME KickedInv, UNCHANGED <<m_sessions, threadVars>>, session' = session
  PROVE  KickedInv'
BY SameUpdate DEF KickedInv, OfKicked

(* What kicks a session is its own update, or comes before the next one.   *)
LEMMA SessionKicked ==
  ASSUME IInv, KickedInv, UNCHANGED <<m_sessions, threadVars>>,
         NEW s \in Sessions, NEW t, session' = [session EXCEPT ![s] = t], MayBe(t, s)
  PROVE  KickedInv'
<1>1. session \in [Sessions -> SessionState]
  BY DEF IInv, TypeOK
<1>2. \A x \in Sessions : session'[x] = IF x = s THEN t ELSE session[x]
  BY <1>1
<1> QED
  BY <1>2, SameUpdate DEF KickedInv, OfKicked, MayBe

LEMMA SessionUnkicked ==
  ASSUME IInv, KickedInv, UNCHANGED <<m_sessions, threadVars>>,
         NEW s \in Sessions, NEW t, session' = [session EXCEPT ![s] = t],
         Unkicked(t, session[s])
  PROVE  KickedInv'
<1>1. MayBe(t, s)
  BY DEF Unkicked, KickedInv, OfKicked, MayBe
<1> QED
  BY <1>1, SessionKicked

LEMMA NetworkKicks ==
  ASSUME IInv, KickedInv, NEW s \in Sessions,
         NewConnection(s) \/ NetworkClose(s) \/ HandleAuthContinuedSession(s)
           \/ HandleConnectToFailed(s)
  PROVE  KickedInv'
<1> DEFINE r == session[s]
<1>1. r \in SessionState /\ Sound(r)
  BY DEF IInv, TypeOK, KickedInv, OfKicked
<1>2. UNCHANGED <<m_sessions, threadVars>>
  BY DEF NewConnection, NetworkClose, HandleAuthContinuedSession, HandleConnectToFailed,
         allButSession, worldVars
<1>3. CASE NewConnection(s)
  BY <1>2, <1>3, NewUnkicked, SessionUnkicked DEF NewConnection
<1>4. CASE NetworkClose(s)
  <2>1. \/ session' = [session EXCEPT ![s] = [r EXCEPT !.realm = "closed"]]
        \/ session' = [session EXCEPT ![s] = [r EXCEPT !.instance = "closed"]]
    BY <1>4 DEF NetworkClose
  <2>2. Unkicked([r EXCEPT !.realm = "closed"], r) /\ Unkicked([r EXCEPT !.instance = "closed"], r)
    BY <1>1, UnkickedFields
  <2> QED
    BY <1>2, <2>1, <2>2, SessionUnkicked
<1>5. CASE HandleAuthContinuedSession(s)
  <2>1. session' = [session EXCEPT ![s] = [r EXCEPT !.linked = TRUE]]
    BY <1>5 DEF HandleAuthContinuedSession
  <2> QED
    BY <1>1, <1>2, <2>1, UnkickedMethods, SessionUnkicked
<1>6. CASE HandleConnectToFailed(s)
  <2>1. r.player = NoChar
    BY <1>1, <1>6 DEF HandleConnectToFailed, Sound
  <2>2. \/ session' = [session EXCEPT ![s] = SendConnectToInstance(r, r.attempt + 1)]
        \/ session' = [session EXCEPT ![s] = [r EXCEPT !.loading = NoChar, !.attempt = 0]]
    BY <1>6, <2>1 DEF HandleConnectToFailed
  <2>3. /\ Unkicked(SendConnectToInstance(r, r.attempt + 1), r)
        /\ Unkicked([r EXCEPT !.loading = NoChar, !.attempt = 0], r)
    BY <1>1, UnkickedMethods
  <2> QED
    BY <1>2, <2>2, <2>3, SessionUnkicked
<1> QED
  BY <1>3, <1>4, <1>5, <1>6

LEMMA DatabaseKicks ==
  ASSUME IInv, KickedInv, NEW s \in Sessions, Database(s) \/ Callback(s)
  PROVE  KickedInv'
<1> DEFINE r == session[s]
           q == r.logins
<1>1. r \in SessionState /\ Sound(r) /\ q \in Seq(LoginQuery)
  BY DEF IInv, TypeOK, SessionState, KickedInv, OfKicked
<1>2. UNCHANGED <<m_sessions, threadVars>>
  BY DEF Database, InitQueryDone, LoginQueryDone, Callback, InitializeSessionCallback,
         HandlePlayerLogin, allButSession, worldVars
<1>3. CASE InitQueryDone(s)
  <2>1. Unkicked([r EXCEPT !.init = "ready"], r)
    BY <1>1, UnkickedFields
  <2> QED
    BY <1>2, <1>3, <2>1, SessionUnkicked DEF InitQueryDone
<1>4. CASE InitializeSessionCallback(s)
  BY <1>1, <1>2, <1>4, UnkickedMethods, SessionUnkicked DEF InitializeSessionCallback
<1>5. CASE LoginQueryDone(s)
  <2>1. PICK i \in DOMAIN q :
          session' = [session EXCEPT ![s].logins[i].ready = TRUE]
    BY <1>5 DEF LoginQueryDone
  <2> DEFINE p == [q EXCEPT ![i].ready = TRUE]
             t == [r EXCEPT !.logins = p]
  <2>2. Unkicked(t, r)
    <3> HIDE DEF p
    <3> QED
      BY <1>1 DEF SessionState, Unkicked, Sound
  <2>3. session' = [session EXCEPT ![s] = t]
    BY <2>1
  <2> HIDE DEF t
  <2> QED
    BY <1>2, <2>2, <2>3, SessionUnkicked
<1>6. CASE HandlePlayerLogin(s)
  <2>1. PICK i \in DOMAIN q :
          LET c == session[s].logins[i].char
              l == [session[s] EXCEPT !.logins = RemoveAt(@, i),
                                      !.loading = NoChar]
          IN \/ session' = [session EXCEPT
                     ![s] = KickPlayer([l EXCEPT !.player = NoChar])]
             \/ session' = [session EXCEPT ![s] = [l EXCEPT !.player = c]]
    BY <1>6 DEF HandlePlayerLogin
  <2> DEFINE c == q[i].char
             e == RemoveAt(q, i)
             l == [r EXCEPT !.logins = e, !.loading = NoChar]
             t == KickPlayer([l EXCEPT !.player = NoChar])
             u == [l EXCEPT !.player = c]
  <2>2. session' = [session EXCEPT ![s] = t] \/ session' = [session EXCEPT ![s] = u]
    BY <2>1
  <2> HIDE DEF c, e
  <2>3. Sound(t) /\ Unkicked(u, r)
    BY <1>1 DEF SessionState, KickPlayer, Unkicked, Sound
  <2> HIDE DEF l, t, u
  <2>4. Listed(s) /\ WillBeUpdated(s)
    BY <1>6 DEF HandlePlayerLogin, MayRunCallbacks, WillBeUpdated, Coming, Updating, IInv, AtLiveSession
  <2>5. MayBe(t, s)
    BY <2>3, <2>4 DEF MayBe
  <2> QED
    BY <1>2, <2>2, <2>3, <2>5, SessionKicked, SessionUnkicked
<1> QED
  BY <1>3, <1>4, <1>5, <1>6 DEF Database, Callback

(* Handlers of the session being updated: the update comes to its end.     *)
LEMMA PacketsKicks ==
  ASSUME IInv, KickedInv, Packets
  PROVE  KickedInv'
<1>1. PICK s \in Sessions : s = current
  BY DEF Packets, HandlePlayerLoginOpcode, HandleLogoutRequestOpcode,
         HandleLogoutCancelOpcode, IInv, AtLiveSession, Updating
<1> DEFINE r == session[s]
<1>2. r \in SessionState /\ Sound(r)
  BY DEF IInv, TypeOK, KickedInv, OfKicked
<1>3. Listed(s) /\ WillBeUpdated(s)
  BY <1>1 DEF Packets, HandlePlayerLoginOpcode, HandleLogoutRequestOpcode,
              HandleLogoutCancelOpcode, IInv, AtLiveSession, Updating,
              WillBeUpdated, Coming
<1>4. UNCHANGED <<m_sessions, threadVars>>
  BY DEF Packets, HandlePlayerLoginOpcode, HandleLogoutRequestOpcode,
         HandleLogoutCancelOpcode, allButSession, worldVars
<1>5. ASSUME NEW c \in Chars, HandlePlayerLoginOpcode(c)
      PROVE  KickedInv'
  <2> DEFINE l == [r EXCEPT !.loading = c]
             t == SendConnectToInstance(l, 1)
  <2>1. \/ session' = [session EXCEPT ![s] = KickPlayer(r)]
        \/ session' = [session EXCEPT ![s] = KickPlayer(l)] /\ ~LoginBusy(r)
        \/ session' = [session EXCEPT ![s] = t] /\ ~LoginBusy(r)
    BY <1>1, <1>5 DEF HandlePlayerLoginOpcode
  <2>2. Sound(KickPlayer(r))
    BY <1>2, UnkickedMethods
  <2>3. ~LoginBusy(r) => Sound(KickPlayer(l)) /\ Sound(t)
    BY <1>2 DEF LoginBusy, KickPlayer, SendConnectToInstance, Sound, SessionState
  <2> HIDE DEF r, l, t
  <2>4. PICK u : session' = [session EXCEPT ![s] = u] /\ Sound(u)
    BY <2>1, <2>2, <2>3
  <2>5. MayBe(u, s)
    BY <1>3, <2>4 DEF MayBe
  <2> QED
    BY <1>4, <2>4, <2>5, SessionKicked
<1>6. CASE HandleLogoutRequestOpcode \/ HandleLogoutCancelOpcode
  <2>1. \/ session' = [session EXCEPT ![s] = LogoutPlayer(r)]
        \/ session' = [session EXCEPT ![s] = [r EXCEPT !.logout = FALSE]]
        \/ session' = [session EXCEPT ![s] = [r EXCEPT !.logout = TRUE]]
    BY <1>1, <1>6 DEF HandleLogoutRequestOpcode, HandleLogoutCancelOpcode
  <2>2. /\ Unkicked(LogoutPlayer(r), r)
        /\ Unkicked([r EXCEPT !.logout = FALSE], r)
        /\ Unkicked([r EXCEPT !.logout = TRUE], r)
    BY <1>2, UnkickedMethods, UnkickedFields
  <2> QED
    BY <1>4, <2>1, <2>2, SessionUnkicked
<1> QED
  BY <1>5, <1>6 DEF Packets

LEMMA CommandsKicks ==
  ASSUME IInv, KickedInv, Commands
  PROVE  KickedInv'
<1>1. /\ session \in [Sessions -> SessionState]
      /\ \A x \in Sessions : session[x] \in SessionState /\ Sound(session[x])
  BY DEF IInv, TypeOK, KickedInv, OfKicked
<1>2. ASSUME NEW s \in Sessions, Kick(s)
      PROVE  KickedInv'
  <2>1. /\ UNCHANGED <<m_sessions, threadVars>>
        /\ session' = [session EXCEPT ![s] = KickPlayer(session[s])]
    BY <1>2 DEF Kick, allButSession, worldVars
  <2>2. Listed(s) /\ WillBeUpdated(s)
    BY <1>2 DEF Kick, WillBeUpdated, Coming, Updating
  <2>3. MayBe(KickPlayer(session[s]), s)
    BY <1>1, <2>2, UnkickedMethods DEF MayBe
  <2> QED
    BY <2>1, <2>3, SessionKicked
<1>3. CASE KickAll
  <2>1. /\ pc' = "link" /\ m_sessions' = m_sessions
        /\ \A x \in Sessions :
             session'[x] = IF Listed(x) THEN KickPlayer(session[x]) ELSE session[x]
    BY <1>3 DEF KickAll
  <2>2. \A x \in Sessions : Listed(x)' <=> Listed(x)
    BY <2>1 DEF Listed
  <2>3. \A x \in Sessions : WillBeUpdated(x)'
    BY <2>1 DEF WillBeUpdated, Coming
  <2>4. \A x \in Sessions : Sound(KickPlayer(session[x]))
    BY <1>1, UnkickedMethods
  <2> QED
    BY <2>1, <2>2, <2>3, <2>4 DEF KickedInv, OfKicked
<1>4. CASE Tick \/ \E limit \in Limits : SetPlayerAmountLimit(limit)
  BY <1>4, NoSessionChanged DEF Tick, SetPlayerAmountLimit, worldVars
<1> QED
  BY <1>2, <1>3, <1>4 DEF Commands

LEMMA LinkKicks ==
  ASSUME IInv, KickedInv, ProcessLinkInstanceSocket
  PROVE  KickedInv'
<1>1. UNCHANGED <<m_sessions, threadVars>> /\ pc = "link"
  BY DEF ProcessLinkInstanceSocket, worldVars
<1>2. PICK s \in Sessions : s = Head(linkSocketQueue).session
  BY TailLinks DEF ProcessLinkInstanceSocket, IInv, TypeOK, Link
<1> DEFINE o == [session[s] EXCEPT !.instance = "open"]
           t == HandleContinuePlayerLogin(o)
<1>3. \/ session' = session
      \/ session' = [session EXCEPT ![s] = t] /\ Listed(s)
  BY <1>2 DEF ProcessLinkInstanceSocket
<1>4. Sound(t)
  <2>1. session[s] \in SessionState /\ Sound(session[s])
    BY DEF IInv, TypeOK, KickedInv, OfKicked
  <2>2. o \in SessionState /\ Sound(o)
    BY <2>1 DEF SessionState, Sound
  <2>3. Sound(KickPlayer(o))
    BY <2>2, UnkickedMethods
  <2>4. Sound([o EXCEPT !.logins = Append(@, [char |-> o.loading, ready |-> FALSE])])
    BY <2>2 DEF SessionState, Sound
  <2> QED
    BY <2>3, <2>4 DEF HandleContinuePlayerLogin
<1> HIDE DEF t
<1>5. Listed(s) => MayBe(t, s)
  BY <1>1, <1>4 DEF MayBe, WillBeUpdated, Coming
<1> QED
  BY <1>1, <1>3, <1>5, SessionKicked, NoSessionChanged

(* The walk comes to the sessions that were kicked before it.              *)
LEMMA UpdateComes ==
  ASSUME IInv, KickedInv, [Next]_vars, NEW s \in Sessions,
         session[s].forceExit, Listed(s)'
  PROVE  WillBeUpdated(s)'
<1>1. Listed(s) /\ WillBeUpdated(s) /\ Kicked(session[s])
  BY DEF KickedInv, OfKicked, Sound, Kicked
<1>2. CASE pc # "idle"
  BY <1>1, <1>2, StaysComing DEF WillBeUpdated
<1>3. CASE pc = "idle"
  <2>1. CASE UNCHANGED threadVars
    BY <1>3, <2>1 DEF WillBeUpdated, threadVars
  <2>2. CASE StartUpdateSessions \/ KickAll
    BY <2>2 DEF StartUpdateSessions, KickAll, GoTo, WillBeUpdated, Coming
  <2> QED
    BY <1>3, <2>1, <2>2, InPlaceSteps
    DEF Walks, LinksDone, AddsDone, BeginUpdate, PacketsDone, CallbacksDone,
        LogoutIfDue, KeepSession, DropSession, UpdateSessionsDone
<1> QED
  BY <1>2, <1>3

(* A step that kicks nobody, and takes no kicked session off the list but  *)
(* by deleting it.                                                         *)
LEMMA NobodyKicked ==
  ASSUME IInv, KickedInv, [Next]_vars,
         \A x \in Sessions : /\ Unkicked(session'[x], session[x])
                             /\ session'[x].forceExit => Listed(x)' \/ ~Listed(x)
  PROVE  KickedInv'
<1> SUFFICES ASSUME NEW s \in Sessions PROVE OfKicked(s)'
  BY DEF KickedInv
<1>1. /\ Sound(session'[s])
      /\ session'[s].forceExit =>
           session[s].forceExit /\ Listed(s) /\ Listed(s)'
  BY DEF Unkicked, KickedInv, OfKicked
<1>2. session'[s].forceExit => WillBeUpdated(s)'
  BY <1>1, UpdateComes
<1> QED
  BY <1>1, <1>2 DEF OfKicked

LEMMA AcceptedUnkicked ==
  ASSUME IInv, KickedInv, NEW st, NEW x \in Sessions,
         Kept(QueueState, st, x) \/ Accepted(QueueState, st, x)
  PROVE  Unkicked(st.session[x], session[x])
<1>1. session[x] \in SessionState /\ Sound(session[x])
  BY DEF IInv, TypeOK, KickedInv, OfKicked
<1>2. \/ st.session[x] = session[x]
      \/ st.session[x] = InitializeSession(session[x])
  BY DEF Kept, Accepted, QueueState
<1> QED
  BY <1>1, <1>2, UnkickedMethods

LEMMA AddKicks ==
  ASSUME IInv, Waits, KickedInv, [Next]_vars, AddSession
  PROVE  KickedInv'
<1>0. PICK st : \E s \in Sessions, old \in Sessions \cup {NoSession} :
                  AddEffect(s, old, st)
  BY AddEffects
<1>1. PICK s \in Sessions, old \in Sessions \cup {NoSession} :
        AddEffect(s, old, st)
  BY <1>0
<1>2. ASSUME NEW x \in Sessions
      PROVE  /\ Unkicked(session'[x], session[x])
             /\ session'[x].forceExit => Listed(x)' \/ ~Listed(x)
  <2>1. CASE x = s
    <3>1. session[s] \in SessionState /\ Sound(session[s])
      BY DEF IInv, TypeOK, KickedInv, OfKicked
    <3>2. /\ \/ session'[s] = [session[s] EXCEPT !.inQueue = TRUE]
             \/ session'[s] = InitializeSession(session[s])
          /\ Listed(s)'
      BY <1>1, AddOthers
    <3>3. Unkicked([session[s] EXCEPT !.inQueue = TRUE], session[s])
      BY <3>1, UnkickedFields
    <3> QED
      BY <2>1, <3>1, <3>2, <3>3, UnkickedMethods
  <2>2. CASE x # s /\ x = old
    <3>1. session'[x] = Deleted
      BY <1>1, <2>2, AddOthers
    <3>2. ~session'[x].forceExit
      BY <3>1 DEF Deleted, NewSession
    <3> QED
      BY <3>1, <3>2, NewUnkicked
  <2>3. CASE x # s /\ x # old
    <3>1. /\ Kept(QueueState, st, x) \/ Accepted(QueueState, st, x)
          /\ session'[x] = st.session[x]
      BY <1>1, <2>3, AddThird
    <3>2. Listed(x) => Listed(x)'
      <4>1. \A y \in Sessions \ {s, old} : Listed(y)' <=> Listed(y)
        BY <1>1, AddOthers
      <4> QED
        BY <2>3, <4>1
    <3> QED
      BY <3>1, <3>2, AcceptedUnkicked
  <2> QED
    BY <2>1, <2>2, <2>3
<1> QED
  BY <1>2, NobodyKicked

LEMMA DropKicks ==
  ASSUME IInv, KickedInv, [Next]_vars, DropSession
  PROVE  KickedInv'
<1>0. PICK once, twice : \E s \in Sessions : DropEffect(s, once, twice)
  BY DropEffects
<1>1. PICK s \in Sessions : DropEffect(s, once, twice)
  BY <1>0
<1>2. /\ session'[s] = Deleted
      /\ \A x \in Sessions \ {s} :
           /\ Kept(QueueState, twice, x) \/ Accepted(QueueState, twice, x)
           /\ session'[x] = twice.session[x]
           /\ Listed(x)' <=> Listed(x)
  BY <1>1, DropOthers
<1>3. ~Deleted.forceExit
  BY DEF Deleted, NewSession
<1>4. ASSUME NEW x \in Sessions
      PROVE  /\ Unkicked(session'[x], session[x])
             /\ session'[x].forceExit => Listed(x)' \/ ~Listed(x)
  <2>1. CASE x = s
    BY <1>2, <1>3, <2>1, NewUnkicked
  <2>2. CASE x # s
    BY <1>2, <2>2, AcceptedUnkicked
  <2> QED
    BY <2>1, <2>2
<1> QED
  BY <1>4, NobodyKicked

LEMMA WorldKicks ==
  ASSUME IInv, Waits, KickedInv, [Next]_vars, WorldThread \/ Stopped \/ UNCHANGED vars
  PROVE  KickedInv'
<1>1. /\ session \in [Sessions -> SessionState]
      /\ \A x \in Sessions : session[x] \in SessionState /\ Sound(session[x])
      /\ \A x \in Sessions : Unkicked(session[x], session[x])
  BY UnkickedMethods DEF IInv, TypeOK, KickedInv, OfKicked
<1>2. ASSUME NEW s \in Sessions, NEW t, m_sessions' = m_sessions,
             session' = [session EXCEPT ![s] = t], Unkicked(t, session[s])
      PROVE  KickedInv'
  <2>1. \A x \in Sessions : Unkicked(session'[x], session[x])
    BY <1>1, <1>2
  <2>2. \A x \in Sessions : Listed(x)' <=> Listed(x)
    BY <1>2 DEF Listed
  <2> QED
    BY <2>1, <2>2, NobodyKicked
<1>3. CASE session' = session /\ m_sessions' = m_sessions
  <2>1. \A x \in Sessions : Listed(x)' <=> Listed(x)
    BY <1>3 DEF Listed
  <2> QED
    BY <1>1, <1>3, <2>1, NobodyKicked
<1>4. CASE RejectSession
  <2>1. PICK s \in Sessions : session' = [session EXCEPT ![s] = Deleted]
    BY <1>4, NextNewSession DEF RejectSession
  <2>2. m_sessions' = m_sessions
    BY <1>4 DEF RejectSession, worldVars
  <2> QED
    BY <1>2, <2>1, <2>2, NewUnkicked
<1>5. ASSUME NEW a \in Accounts, BeginUpdate(a)
      PROVE  KickedInv'
  <2>1. PICK s \in Sessions : s = m_sessions[a]
    BY <1>5 DEF BeginUpdate, IInv, AtLiveSession, TypeOK
  <2>2. /\ \/ session' = session
           \/ session' = [session EXCEPT ![s] = [session[s] EXCEPT !.realm = "closed"]]
        /\ m_sessions' = m_sessions
    BY <1>5, <2>1 DEF BeginUpdate, worldVars
  <2>3. Unkicked([session[s] EXCEPT !.realm = "closed"], session[s])
    BY <1>1, UnkickedFields
  <2> QED
    BY <1>2, <1>3, <2>2, <2>3
<1>6. CASE KeepSession \/ LogoutIfDue
  <2>1. PICK s \in Sessions : s = current
    BY <1>6 DEF KeepSession, LogoutIfDue, IInv, AtLiveSession, Updating
  <2> DEFINE r == session[s]
  <2>2. /\ \/ session' = session
           \/ session' = [session EXCEPT ![s] = [r EXCEPT !.expire = CountDown(r)]]
           \/ session' = [session EXCEPT ![s] = LogoutPlayer(r)]
        /\ m_sessions' = m_sessions
    BY <1>6, <2>1 DEF KeepSession, LogoutIfDue, worldVars
  <2>3. Unkicked([r EXCEPT !.expire = CountDown(r)], r) /\ Unkicked(LogoutPlayer(r), r)
    BY <1>1, UnkickedFields, UnkickedMethods
  <2> QED
    BY <1>2, <1>3, <2>2, <2>3
<1>7. CASE StartUpdateSessions \/ LinksDone \/ AddsDone \/ PacketsDone
             \/ CallbacksDone \/ UpdateSessionsDone \/ Stopped \/ UNCHANGED vars
  BY <1>3, <1>7
  DEF StartUpdateSessions, LinksDone, AddsDone, PacketsDone, CallbacksDone,
      UpdateSessionsDone, Stopped, vars, allButSession, worldVars, GoTo
<1> QED
  BY <1>4, <1>5, <1>6, <1>7, LinkKicks, AddKicks, DropKicks DEF WorldThread

LEMMA NextKicked == IInv /\ Waits /\ KickedInv /\ [Next]_vars => KickedInv'
<1> SUFFICES ASSUME IInv, Waits, KickedInv, [Next]_vars PROVE KickedInv'
  OBVIOUS
<1>1. CASE Network
  BY <1>1, NetworkKicks DEF Network
<1> QED
  BY <1>1, DatabaseKicks, PacketsKicks, CommandsKicks, WorldKicks DEF Next

(* A session that was kicked does not outlive the UpdateSessions under     *)
(* way, or else the next one, wherever in its life it was kicked.          *)
THEOREM KickedSessionsGo == Spec => []NoKickedLeft
<1>1. Init => KickedInv
  BY DEF Init, Deleted, NewSession, KickedInv, OfKicked, Sound
<1>2. KickedInv => NoKickedLeft
  BY DEF KickedInv, OfKicked, NoKickedLeft
<1> QED
  BY InitIInv, NextIInv, InitWaits, NextWaits, NextKicked, <1>1, <1>2, PTL DEF Spec
=============================================================================
