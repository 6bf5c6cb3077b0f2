------------------------------ MODULE TradeProof ------------------------------
(***************************************************************************)
(* Proofs about Trade, for any players, items and bounds.  The members of  *)
(* TradeData work on triples of the trades, the newest index and what was  *)
(* sent; a triple is sound when everything sent for a state in use shows   *)
(* the offer as it is, but for items that strayed from it, and every       *)
(* acceptance that stands is one of a state in use.  Each member makes a   *)
(* sound triple of a sound one.                                            *)
(***************************************************************************)
EXTENDS Trade, TLAPS

Sizes == [Items -> 1 .. MaxStack]

Triple == [trades : [Players -> TradeData \cup {NoTrade}], last : Nat \ {0},
           sent : SUBSET [index : Nat \ {0}, view : View]]

Pairs(t) ==
    \A p \in Players : t[p] # NoTrade =>
        /\ t[p].trader # p
        /\ t[t[p].trader] # NoTrade
        /\ t[t[p].trader].trader = p

(* Every index drawn is new, and 1 is the state of an empty offer.         *)
Numbered(T) ==
    /\ \A p \in Players : T.trades[p] # NoTrade => T.trades[p].index <= T.last
    /\ \A u \in T.sent : u.index <= T.last
    /\ \A u \in T.sent : u.index = 1 => u.view = EmptyView
    /\ [index |-> 1, view |-> EmptyView] \in T.sent

Shows(v, p, d, sizes) ==
    /\ v.money = d.money
    /\ v.spell = d.spell
    /\ \A s \in Slots : v.items[s] # NoItem =>
          \E n \in 1 .. MaxStack : v.items[s] = <<d.items[s], n>>
    /\ \A s \in Slots : d.items[s] \notin strayed[p] =>
          v.items[s] = IF Has(p, d.items[s]) THEN <<d.items[s], sizes[d.items[s]]>> ELSE NoItem

ShownTrue(T, p, sizes) ==
    T.trades[p] # NoTrade =>
        \A u \in T.sent :
            u.index = T.trades[p].index => Shows(u.view, p, T.trades[p], sizes)

AcceptedShown(T, p) ==
    T.trades[p] # NoTrade /\ T.trades[p].accepted =>
        [index |-> T.trades[T.trades[p].trader].index, view |-> T.trades[p].saw] \in T.sent

Good(T) == T \in Triple /\ Pairs(T.trades) /\ Numbered(T)

Sound(T, sizes) ==
    /\ Good(T)
    /\ \A p \in Players : ShownTrue(T, p, sizes)
    /\ \A p \in Players : AcceptedShown(T, p)

Inv ==
    /\ TypeOK
    /\ TradeIsMutual
    /\ Sound(Offers, count)

-----------------------------------------------------------------------------
(* TradeData.                                                              *)

\* What Update makes of a triple.
Updated(T, T2, p, view) ==
    LET q == T.trades[p].trader
    IN  /\ T2.last = T.last + 1
        /\ T2.sent = T.sent \cup {[index |-> T.last + 1, view |-> view]}
        /\ \A r \in Players \ {p, q} : T2.trades[r] = T.trades[r]
        /\ T2.trades[p] = [T.trades[p] EXCEPT !.accepted = FALSE, !.saw = EmptyView,
                                              !.index = T.last + 1]
        /\ T2.trades[q] = [T.trades[q] EXCEPT !.accepted = FALSE, !.saw = EmptyView]

LEMMA EmptyViewIsView == EmptyView \in View
BY TradeAssumption DEF EmptyView, View, NothingOffered

LEMMA ViewOfIsView ==
    ASSUME NEW t \in [Players -> TradeData \cup {NoTrade}], NEW p \in Players, t[p] # NoTrade,
           NEW sizes \in Sizes
    PROVE  /\ ViewOf(p, t, sizes) \in View
           /\ Shows(ViewOf(p, t, sizes), p, t[p], sizes)
<1>1. t[p] \in TradeData
  OBVIOUS
<1>2. \A s \in Slots : t[p].items[s] \in Items \cup {NoItem}
  BY <1>1 DEF TradeData
<1>3. \A s \in Slots : Has(p, t[p].items[s]) => sizes[t[p].items[s]] \in 1 .. MaxStack
  BY <1>2 DEF Has, Sizes
<1>4. ViewOf(p, t, sizes).items \in [Slots -> {NoItem} \cup (Items \X (1 .. MaxStack))]
  BY <1>2, <1>3 DEF ViewOf, Has
<1>5. ViewOf(p, t, sizes) \in View
  BY <1>1, <1>4 DEF ViewOf, View, TradeData
<1>6. Shows(ViewOf(p, t, sizes), p, t[p], sizes)
  BY <1>3 DEF ViewOf, Shows
<1> QED
  BY <1>5, <1>6

LEMMA UpdateFacts ==
    ASSUME NEW T \in Triple, NEW p \in Players, T.trades[p] # NoTrade, Pairs(T.trades),
           NEW sizes \in Sizes
    PROVE  /\ Update(T, p, sizes) \in Triple
           /\ Updated(T, Update(T, p, sizes), p, ViewOf(p, T.trades, sizes))
<1> DEFINE q == T.trades[p].trader
           i == T.last + 1
           U == Unaccept(T.trades, p)
           t == [U EXCEPT ![p].index = i]
<1>1. T.trades \in [Players -> TradeData \cup {NoTrade}] /\ T.last \in Nat \ {0}
  BY DEF Triple
<1>2. T.trades[p] \in TradeData /\ q \in Players /\ q # p /\ T.trades[q] \in TradeData
  BY <1>1 DEF Pairs, TradeData
<1>3. /\ \A r \in Players \ {p, q} : U[r] = T.trades[r]
      /\ U[p] = [T.trades[p] EXCEPT !.accepted = FALSE, !.saw = EmptyView]
      /\ U[q] = [T.trades[q] EXCEPT !.accepted = FALSE, !.saw = EmptyView]
      /\ U \in [Players -> TradeData \cup {NoTrade}]
  BY <1>1, <1>2, EmptyViewIsView DEF Unaccept, Withdraw, TradeData
<1>4. /\ \A r \in Players \ {p, q} : t[r] = T.trades[r]
      /\ t[p] = [T.trades[p] EXCEPT !.accepted = FALSE, !.saw = EmptyView, !.index = i]
      /\ t[q] = [T.trades[q] EXCEPT !.accepted = FALSE, !.saw = EmptyView]
      /\ t \in [Players -> TradeData \cup {NoTrade}]
  <2>1. i \in Nat \ {0} /\ U[p] \in TradeData
    <3>1. i \in Nat \ {0}
      BY <1>1
    <3>2. [T.trades[p] EXCEPT !.accepted = FALSE, !.saw = EmptyView] \in TradeData
      BY <1>2, EmptyViewIsView DEF TradeData
    <3> QED
      BY <3>1, <3>2, <1>3
  <2>2. t[p] = [U[p] EXCEPT !.index = i] /\ \A r \in Players \ {p} : t[r] = U[r]
    BY <1>3
  <2>3. [U[p] EXCEPT !.index = i] \in TradeData
    BY <2>1 DEF TradeData
  <2>4. t \in [Players -> TradeData \cup {NoTrade}]
    BY <2>3, <1>3
  <2>5. [U[p] EXCEPT !.index = i] =
        [T.trades[p] EXCEPT !.accepted = FALSE, !.saw = EmptyView, !.index = i]
    BY <1>2, <1>3 DEF TradeData
  <2> QED
    BY <1>2, <1>3, <2>2, <2>4, <2>5
<1>5. t[p].items = T.trades[p].items /\ t[p].money = T.trades[p].money
      /\ t[p].spell = T.trades[p].spell
  BY <1>2, <1>4, ZenonT(60) DEF TradeData
<1>6. ViewOf(p, t, sizes) = ViewOf(p, T.trades, sizes)
  BY <1>5 DEF ViewOf
<1>7. Update(T, p, sizes) = [trades |-> t, last |-> i,
         sent |-> T.sent \cup {[index |-> i, view |-> ViewOf(p, T.trades, sizes)]}]
  BY <1>6 DEF Update, UpdateServerStateIndex
<1>8. ViewOf(p, T.trades, sizes) \in View
  BY <1>1, ViewOfIsView
<1> QED
  BY <1>1, <1>4, <1>7, <1>8 DEF Triple, Updated

LEMMA UpdateSound ==
    ASSUME NEW T, NEW p \in Players, T.trades[p] # NoTrade, Good(T),
           NEW sizes \in Sizes,
           \A r \in Players \ {p} : ShownTrue(T, r, sizes),
           \A r \in Players \ {p, T.trades[p].trader} : AcceptedShown(T, r)
    PROVE  Sound(Update(T, p, sizes), sizes)
<1> DEFINE q == T.trades[p].trader
           T2 == Update(T, p, sizes)
           v == ViewOf(p, T.trades, sizes)
           new == [index |-> T.last + 1, view |-> v]
<1>1. T \in Triple /\ Pairs(T.trades) /\ Numbered(T)
  BY DEF Good
<1>2. T2 \in Triple /\ Updated(T, T2, p, v)
  BY <1>1, UpdateFacts
<1>3. T.trades \in [Players -> TradeData \cup {NoTrade}] /\ T.last \in Nat \ {0}
      /\ T.sent \subseteq [index : Nat \ {0}, view : View]
  BY <1>1 DEF Triple
<1>4. T.trades[p] \in TradeData /\ q \in Players /\ q # p /\ T.trades[q] \in TradeData
      /\ T.trades[q].trader = p
  BY <1>1, <1>3 DEF Pairs, TradeData
<1>5. /\ T2.last = T.last + 1
      /\ T2.sent = T.sent \cup {new}
      /\ \A r \in Players \ {p, q} : T2.trades[r] = T.trades[r]
      /\ T2.trades[p].trader = q /\ ~T2.trades[p].accepted /\ T2.trades[p].index = T.last + 1
      /\ T2.trades[p].items = T.trades[p].items /\ T2.trades[p].money = T.trades[p].money
      /\ T2.trades[p].spell = T.trades[p].spell
      /\ T2.trades[q].trader = p /\ ~T2.trades[q].accepted
      /\ T2.trades[q].index = T.trades[q].index
      /\ T2.trades[q].items = T.trades[q].items /\ T2.trades[q].money = T.trades[q].money
      /\ T2.trades[q].spell = T.trades[q].spell
      /\ T2.trades[p] \in TradeData /\ T2.trades[q] \in TradeData
  <2>1. /\ T2.last = T.last + 1
        /\ T2.sent = T.sent \cup {new}
        /\ \A r \in Players \ {p, q} : T2.trades[r] = T.trades[r]
    BY <1>2 DEF Updated
  <2>2. T2.trades[p] = [T.trades[p] EXCEPT !.accepted = FALSE, !.saw = EmptyView,
                                           !.index = T.last + 1]
    BY <1>2 DEF Updated
  <2>3. T2.trades[q] = [T.trades[q] EXCEPT !.accepted = FALSE, !.saw = EmptyView]
    BY <1>2 DEF Updated
  <2>4. /\ T2.trades[p].trader = q /\ ~T2.trades[p].accepted
        /\ T2.trades[p].index = T.last + 1
        /\ T2.trades[p].items = T.trades[p].items /\ T2.trades[p].money = T.trades[p].money
        /\ T2.trades[p].spell = T.trades[p].spell /\ T2.trades[p] \in TradeData
    <3> DEFINE j == T.last + 1
    <3>1. j \in Nat \ {0}
      BY <1>3
    <3>2. T2.trades[p] = [T.trades[p] EXCEPT !.accepted = FALSE, !.saw = EmptyView, !.index = j]
      BY <2>2
    <3> HIDE DEF j
    <3>3. T2.trades[p] \in TradeData /\ T2.trades[p].index = j
      BY <3>1, <3>2, <1>4, EmptyViewIsView DEF TradeData
    <3>4. /\ T2.trades[p].trader = q /\ ~T2.trades[p].accepted
          /\ T2.trades[p].items = T.trades[p].items
          /\ T2.trades[p].money = T.trades[p].money
          /\ T2.trades[p].spell = T.trades[p].spell
      BY <3>2, <1>4 DEF TradeData
    <3> QED
      BY <3>3, <3>4 DEF j
  <2>5. /\ T2.trades[q].trader = p /\ ~T2.trades[q].accepted
        /\ T2.trades[q].index = T.trades[q].index
        /\ T2.trades[q].items = T.trades[q].items /\ T2.trades[q].money = T.trades[q].money
        /\ T2.trades[q].spell = T.trades[q].spell /\ T2.trades[q] \in TradeData
    BY <2>3, <1>4, EmptyViewIsView DEF TradeData
  <2> QED
    BY <2>1, <2>4, <2>5
<1>6. T2.trades[p] # NoTrade /\ T2.trades[q] # NoTrade
  BY <1>5, NoTradeAssumption
<1>7. Pairs(T2.trades)
  <2> SUFFICES ASSUME NEW r \in Players, T2.trades[r] # NoTrade
               PROVE  /\ T2.trades[r].trader # r
                      /\ T2.trades[T2.trades[r].trader] # NoTrade
                      /\ T2.trades[T2.trades[r].trader].trader = r
    BY DEF Pairs
  <2>1. CASE r \in {p, q}
    BY <2>1, <1>4, <1>5, <1>6
  <2>2. CASE r \notin {p, q}
    <3>1. T2.trades[r] = T.trades[r] /\ T.trades[r] # NoTrade
      BY <2>2, <1>5
    <3>2. T.trades[r].trader \in Players
      BY <3>1, <1>3 DEF TradeData
    <3>3. T.trades[r].trader \notin {p, q}
      BY <3>1, <1>1, <1>4, <2>2 DEF Pairs
    <3> QED
      BY <3>1, <3>2, <3>3, <1>1, <1>5 DEF Pairs
  <2> QED
    BY <2>1, <2>2
<1>8. Numbered(T2)
  <2>1. \A r \in Players : T2.trades[r] # NoTrade => T2.trades[r].index <= T2.last
    <3> SUFFICES ASSUME NEW r \in Players, T2.trades[r] # NoTrade
                 PROVE  T2.trades[r].index <= T2.last
      OBVIOUS
    <3>1. CASE r = p
      BY <3>1, <1>3, <1>5
    <3>2. CASE r # p
      <4>1. T.trades[r] # NoTrade /\ T2.trades[r].index = T.trades[r].index
        BY <3>2, <1>4, <1>5, NoTradeAssumption
      <4>2. T.trades[r].index <= T.last /\ T.trades[r].index \in Nat
        BY <4>1, <1>1, <1>3 DEF Numbered, TradeData
      <4> QED
        BY <4>1, <4>2, <1>3, <1>5
    <3> QED
      BY <3>1, <3>2
  <2>2. \A u \in T2.sent : u.index <= T2.last
    BY <1>1, <1>3, <1>5 DEF Numbered
  <2>3. \A u \in T2.sent : u.index = 1 => u.view = EmptyView
    BY <1>1, <1>3, <1>5 DEF Numbered
  <2> QED
    BY <2>1, <2>2, <2>3, <1>1, <1>5 DEF Numbered
<1>9. \A r \in Players : ShownTrue(T2, r, sizes)
  <2> SUFFICES ASSUME NEW r \in Players, T2.trades[r] # NoTrade, NEW u \in T2.sent,
                      u.index = T2.trades[r].index
               PROVE  Shows(u.view, r, T2.trades[r], sizes)
    BY DEF ShownTrue
  <2>1. CASE r = p
    <3>1. u = new
      BY <2>1, <1>1, <1>3, <1>5 DEF Numbered
    <3>2. Shows(v, p, T.trades[p], sizes)
      BY <1>3, ViewOfIsView
    <3> QED
      BY <2>1, <3>1, <3>2, <1>5 DEF Shows
  <2>2. CASE r # p
    <3>1. /\ T.trades[r] # NoTrade /\ T2.trades[r].index = T.trades[r].index
          /\ T2.trades[r].items = T.trades[r].items /\ T2.trades[r].money = T.trades[r].money
          /\ T2.trades[r].spell = T.trades[r].spell
      BY <2>2, <1>4, <1>5, NoTradeAssumption
    <3>2. u \in T.sent
      BY <3>1, <1>1, <1>3, <1>5 DEF Numbered
    <3>3. Shows(u.view, r, T.trades[r], sizes)
      BY <2>2, <3>1, <3>2 DEF ShownTrue
    <3> QED
      BY <3>1, <3>3 DEF Shows
  <2> QED
    BY <2>1, <2>2
<1>10. \A r \in Players : AcceptedShown(T2, r)
  <2> SUFFICES ASSUME NEW r \in Players, T2.trades[r] # NoTrade, T2.trades[r].accepted
               PROVE  [index |-> T2.trades[T2.trades[r].trader].index,
                       view |-> T2.trades[r].saw] \in T2.sent
    BY DEF AcceptedShown
  <2>1. r \notin {p, q}
    BY <1>5
  <2>2. T2.trades[r] = T.trades[r]
    BY <2>1, <1>5
  <2>3. T.trades[r].trader \in Players \ {p, q}
    BY <2>1, <2>2, <1>1, <1>3, <1>4 DEF Pairs, TradeData
  <2> QED
    BY <2>1, <2>2, <2>3, <1>5, SMTT(60) DEF AcceptedShown
<1> QED
  BY <1>2, <1>7, <1>8, <1>9, <1>10 DEF Sound, Good

(* The trades t2 a member of the TradeData of p makes of t: nobody trades  *)
(* with another than before, and p and its trader have not accepted.       *)
Quiet(t, t2, p) ==
    /\ \A r \in Players : t2[r] = NoTrade <=> t[r] = NoTrade
    /\ \A r \in Players : t[r] # NoTrade => t2[r].trader = t[r].trader
    /\ \A r \in Players \ {p, t[p].trader} : t2[r] = t[r]
    /\ ~t2[p].accepted
    /\ ~t2[t[p].trader].accepted

SameItems(t, t2, R) == \A r \in R : t[r] # NoTrade => t2[r].items = t[r].items

LEMMA ChangedSound ==
    ASSUME NEW T, NEW p \in Players, T.trades[p] # NoTrade, Good(T), NEW sizes \in Sizes,
           \A r \in Players \ {p} : ShownTrue(T, r, sizes),
           \A r \in Players \ {p, T.trades[p].trader} : AcceptedShown(T, r),
           NEW d \in TradeData, d.trader = T.trades[p].trader, d.index = T.trades[p].index
    PROVE  LET T2 == Update([T EXCEPT !.trades = [T.trades EXCEPT ![p] = d]], p, sizes)
           IN  /\ Sound(T2, sizes)
               /\ Quiet(T.trades, T2.trades, p)
               /\ T2.trades[p].items = d.items
               /\ SameItems(T.trades, T2.trades, Players \ {p})
<1> DEFINE q == T.trades[p].trader
           t1 == [T.trades EXCEPT ![p] = d]
           T1 == [T EXCEPT !.trades = t1]
           T2 == Update(T1, p, sizes)
<1>1. T \in Triple /\ Pairs(T.trades) /\ Numbered(T)
  BY DEF Good
<1>2. T.trades \in [Players -> TradeData \cup {NoTrade}]
  BY <1>1 DEF Triple
<1>3. q \in Players /\ q # p /\ T.trades[q] # NoTrade /\ T.trades[q].trader = p
      /\ T.trades[q] \in TradeData /\ T.trades[p] \in TradeData
  BY <1>1, <1>2 DEF Pairs, TradeData
<1>4. /\ T1.trades = t1 /\ T1.last = T.last /\ T1.sent = T.sent /\ T1 \in Triple
      /\ t1 \in [Players -> TradeData \cup {NoTrade}]
      /\ t1[p] = d /\ \A r \in Players \ {p} : t1[r] = T.trades[r]
      /\ d # NoTrade
  BY <1>1, <1>2, NoTradeAssumption DEF Triple
<1>5. Pairs(t1)
  BY <1>1, <1>2, <1>3, <1>4 DEF Pairs, TradeData
<1>6. Numbered(T1)
  BY <1>1, <1>4 DEF Numbered
<1>7. \A r \in Players \ {p} : ShownTrue(T1, r, sizes)
  BY <1>4 DEF ShownTrue
<1>8. \A r \in Players \ {p, q} : AcceptedShown(T1, r)
  <2> SUFFICES ASSUME NEW r \in Players \ {p, q}, T1.trades[r] # NoTrade,
                      T1.trades[r].accepted
               PROVE  [index |-> T1.trades[T1.trades[r].trader].index,
                       view |-> T1.trades[r].saw] \in T1.sent
    BY DEF AcceptedShown
  <2>1. T1.trades[r] = T.trades[r]
    BY <1>4
  <2>2. T.trades[r].trader \in Players \ {p}
    BY <2>1, <1>1, <1>2, <1>3 DEF Pairs, TradeData
  <2> QED
    BY <2>1, <2>2, <1>4 DEF AcceptedShown
<1>9. Sound(T2, sizes)
  <2>1. Good(T1)
    BY <1>4, <1>5, <1>6 DEF Good
  <2>2. T1.trades[p] # NoTrade /\ T1.trades[p].trader = q
    BY <1>4
  <2> HIDE DEF T1
  <2> QED
    BY <2>1, <2>2, <1>7, <1>8, UpdateSound
<1>10. Updated(T1, T2, p, ViewOf(p, t1, sizes)) /\ T2 \in Triple
  <2>1. T1.trades[p] # NoTrade /\ Pairs(T1.trades) /\ T1.trades = t1
    BY <1>4, <1>5
  <2> HIDE DEF T1
  <2> QED
    BY <2>1, <1>4, UpdateFacts
<1>11. /\ \A r \in Players \ {p, q} : T2.trades[r] = T.trades[r]
       /\ T2.trades[p].trader = q /\ ~T2.trades[p].accepted
       /\ T2.trades[p].items = d.items
       /\ T2.trades[q].trader = p /\ ~T2.trades[q].accepted
       /\ T2.trades[q].items = T.trades[q].items
  <2>1. /\ \A r \in Players \ {p, q} : T2.trades[r] = t1[r]
        /\ T2.trades[p] = [d EXCEPT !.accepted = FALSE, !.saw = EmptyView,
                                    !.index = T.last + 1]
        /\ T2.trades[q] = [T.trades[q] EXCEPT !.accepted = FALSE, !.saw = EmptyView]
    <3>1. T1.trades[p] = d /\ T1.trades[q] = T.trades[q] /\ T1.last = T.last /\ T1.trades = t1
          /\ d.trader = q
      BY <1>3, <1>4
    <3> HIDE DEF T1, T2, t1
    <3> QED
      BY <3>1, <1>10 DEF Updated
  <2>2. T2.trades[p].trader = q /\ ~T2.trades[p].accepted /\ T2.trades[p].items = d.items
    BY <2>1 DEF TradeData
  <2>3. /\ T2.trades[q].trader = p /\ ~T2.trades[q].accepted
        /\ T2.trades[q].items = T.trades[q].items
    BY <2>1, <1>3 DEF TradeData
  <2> QED
    BY <2>1, <2>2, <2>3, <1>4
<1>12. T2.trades[p] # NoTrade /\ T2.trades[q] # NoTrade
  BY <1>9, <1>11, <1>3, SMTT(60) DEF Sound, Good, Pairs, Triple, Updated
<1> QED
  BY <1>3, <1>9, <1>11, <1>12 DEF Quiet, SameItems

LEMMA SetSpellSound ==
    ASSUME NEW T, NEW p \in Players, T.trades[p] # NoTrade, NEW sizes \in Sizes,
           Sound(T, sizes), NEW spell \in Spells \cup {NoSpell}
    PROVE  LET T2 == SetSpell(T, p, spell, sizes)
           IN  /\ Sound(T2, sizes)
               /\ T2 = T \/ Quiet(T.trades, T2.trades, p)
               /\ T.trades[p].spell # spell => Quiet(T.trades, T2.trades, p)
               /\ SameItems(T.trades, T2.trades, Players)
<1>1. CASE T.trades[p].spell = spell
  BY <1>1 DEF SetSpell, SameItems
<1>2. CASE T.trades[p].spell # spell
  <2> DEFINE d == [T.trades[p] EXCEPT !.spell = spell]
  <2>1. T.trades \in [Players -> TradeData \cup {NoTrade}]
    BY DEF Sound, Good, Triple
  <2>2. /\ d \in TradeData /\ d.trader = T.trades[p].trader
        /\ d.index = T.trades[p].index /\ d.items = T.trades[p].items
    BY <2>1 DEF TradeData
  <2>3. [T.trades EXCEPT ![p].spell = spell] = [T.trades EXCEPT ![p] = d]
    OBVIOUS
  <2>4. SetSpell(T, p, spell, sizes) =
        Update([T EXCEPT !.trades = [T.trades EXCEPT ![p] = d]], p, sizes)
    BY <1>2, <2>3 DEF SetSpell
  <2> HIDE DEF d
  <2>5. /\ Good(T)
        /\ \A r \in Players \ {p} : ShownTrue(T, r, sizes)
        /\ \A r \in Players \ {p, T.trades[p].trader} : AcceptedShown(T, r)
    BY DEF Sound
  <2> DEFINE T2 == Update([T EXCEPT !.trades = [T.trades EXCEPT ![p] = d]], p, sizes)
  <2>6. /\ Sound(T2, sizes)
        /\ Quiet(T.trades, T2.trades, p)
        /\ T2.trades[p].items = d.items
        /\ SameItems(T.trades, T2.trades, Players \ {p})
    BY <2>2, <2>5, ChangedSound
  <2> HIDE DEF T2
  <2> QED
    BY <2>2, <2>4, <2>6 DEF SameItems, T2
<1> QED
  BY <1>1, <1>2

LEMMA SetMoneySound ==
    ASSUME NEW T, NEW p \in Players, T.trades[p] # NoTrade, NEW sizes \in Sizes,
           Sound(T, sizes), NEW amount \in 0 .. MaxMoney
    PROVE  LET T2 == SetMoney(T, p, amount, sizes)
           IN  /\ Sound(T2, sizes)
               /\ Quiet(T.trades, T2.trades, p)
               /\ SameItems(T.trades, T2.trades, Players)
<1> DEFINE d == [T.trades[p] EXCEPT !.money = amount]
<1>1. T.trades \in [Players -> TradeData \cup {NoTrade}]
  BY DEF Sound, Good, Triple
<1>2. /\ d \in TradeData /\ d.trader = T.trades[p].trader
      /\ d.index = T.trades[p].index /\ d.items = T.trades[p].items
  BY <1>1 DEF TradeData
<1>3. [T.trades EXCEPT ![p].money = amount] = [T.trades EXCEPT ![p] = d]
  OBVIOUS
<1>4. SetMoney(T, p, amount, sizes) =
      Update([T EXCEPT !.trades = [T.trades EXCEPT ![p] = d]], p, sizes)
  BY <1>3 DEF SetMoney
<1> HIDE DEF d
<1>5. /\ Good(T)
      /\ \A r \in Players \ {p} : ShownTrue(T, r, sizes)
      /\ \A r \in Players \ {p, T.trades[p].trader} : AcceptedShown(T, r)
  BY DEF Sound
<1> DEFINE T2 == Update([T EXCEPT !.trades = [T.trades EXCEPT ![p] = d]], p, sizes)
<1>6. /\ Sound(T2, sizes)
      /\ Quiet(T.trades, T2.trades, p)
      /\ T2.trades[p].items = d.items
      /\ SameItems(T.trades, T2.trades, Players \ {p})
  BY <1>2, <1>5, ChangedSound
<1> HIDE DEF T2
<1> QED
  BY <1>2, <1>4, <1>6 DEF SameItems, T2

LEMMA SpellAfterItem ==
    ASSUME NEW T, NEW p \in Players, T.trades[p] # NoTrade, NEW sizes \in Sizes, Good(T),
           NEW put, Sound(put, sizes), Quiet(T.trades, put.trades, p),
           NEW r \in {p, T.trades[p].trader}
    PROVE  LET T2 == SetSpell(put, r, NoSpell, sizes)
           IN  /\ Sound(T2, sizes)
               /\ Quiet(T.trades, T2.trades, p)
               /\ SameItems(put.trades, T2.trades, Players)
<1> DEFINE q == T.trades[p].trader
           T2 == SetSpell(put, r, NoSpell, sizes)
<1>1. q \in Players /\ q # p /\ T.trades[q] # NoTrade /\ T.trades[q].trader = p
  BY DEF Good, Pairs, Triple, TradeData
<1>2. put.trades[r] # NoTrade /\ r \in Players
  BY <1>1 DEF Quiet
<1>3. /\ Sound(T2, sizes)
      /\ T2 = put \/ Quiet(put.trades, T2.trades, r)
      /\ SameItems(put.trades, T2.trades, Players)
  BY <1>2, SetSpellSound
<1>4. put.trades[p].trader = q /\ put.trades[q].trader = p
  BY <1>1 DEF Quiet
<1> HIDE DEF T2
<1>5. Quiet(T.trades, T2.trades, p)
  <2>1. CASE T2 = put
    BY <2>1
  <2>2. CASE Quiet(put.trades, T2.trades, r)
    BY <2>2, <1>1, <1>4 DEF Quiet
  <2> QED
    BY <2>1, <2>2, <1>3
<1> QED
  BY <1>3, <1>5 DEF T2

LEMMA SetItemSound ==
    ASSUME NEW T, NEW p \in Players, T.trades[p] # NoTrade, NEW sizes \in Sizes, Good(T),
           \A r \in Players \ {p} : ShownTrue(T, r, sizes),
           \A r \in Players : AcceptedShown(T, r),
           NEW s \in Slots, NEW i \in Items \cup {NoItem}
    PROVE  LET T2 == SetItem(T, p, s, i, sizes)
           IN  /\ Sound(T2, sizes)
               /\ Quiet(T.trades, T2.trades, p)
               /\ T2.trades[p].items = [T.trades[p].items EXCEPT ![s] = i]
               /\ SameItems(T.trades, T2.trades, Players \ {p})
<1> DEFINE q == T.trades[p].trader
           d == [T.trades[p] EXCEPT !.items = [T.trades[p].items EXCEPT ![s] = i]]
           put == Update([T EXCEPT !.trades = [T.trades EXCEPT ![p] = d]], p, sizes)
           his == IF s = NonTraded THEN SetSpell(put, q, NoSpell, sizes) ELSE put
           T2 == SetSpell(his, p, NoSpell, sizes)
<1>1. T.trades \in [Players -> TradeData \cup {NoTrade}]
  BY DEF Good, Triple
<1>2. T.trades[p] \in TradeData
  BY <1>1
<1>3. /\ d \in TradeData /\ d.trader = q /\ d.index = T.trades[p].index
      /\ d.items = [T.trades[p].items EXCEPT ![s] = i]
  BY <1>2 DEF TradeData
<1>4. [T.trades EXCEPT ![p].items[s] = i] = [T.trades EXCEPT ![p] = d]
  OBVIOUS
<1>5. SetItem(T, p, s, i, sizes) = T2
  BY <1>4 DEF SetItem
<1> HIDE DEF d
<1>6. /\ Sound(put, sizes)
      /\ Quiet(T.trades, put.trades, p)
      /\ put.trades[p].items = d.items
      /\ SameItems(T.trades, put.trades, Players \ {p})
  BY <1>3, ChangedSound
<1> HIDE DEF put
<1>7. /\ Sound(his, sizes)
      /\ Quiet(T.trades, his.trades, p)
      /\ SameItems(put.trades, his.trades, Players)
  <2>1. CASE s = NonTraded
    BY <2>1, <1>6, SpellAfterItem
  <2>2. CASE s # NonTraded
    BY <2>2, <1>6 DEF SameItems
  <2> QED
    BY <2>1, <2>2
<1> HIDE DEF his
<1>8. /\ Sound(T2, sizes)
      /\ Quiet(T.trades, T2.trades, p)
      /\ SameItems(his.trades, T2.trades, Players)
  BY <1>7, SpellAfterItem
<1> HIDE DEF T2
<1>9. T2.trades[p].items = d.items /\ SameItems(T.trades, T2.trades, Players \ {p})
  BY <1>6, <1>7, <1>8 DEF SameItems, Quiet
<1> QED
  BY <1>3, <1>5, <1>8, <1>9


-----------------------------------------------------------------------------
(* The three ways a step changes the trades: a member of the TradeData of  *)
(* one player (ChangedInv), acceptances given or withdrawn (RefusedInv),   *)
(* and trades that end or that the game leaves alone (GameInv).            *)

GameTyped ==
    /\ owner \in [Items -> Players \cup {Nobody}]
    /\ count \in Sizes
    /\ soulbound \subseteq Items
    /\ inUse \subseteq Items
    /\ enchanted \in [Items -> Spells \cup {NoSpell}]
    /\ money \in [Players -> 0 .. MaxMoney]
    /\ strayed \in [Players -> SUBSET Items]
    /\ inWorld \subseteq Players
    /\ events \in 0 .. MaxEvents

LEMMA TypeFacts ==
    ASSUME TypeOK
    PROVE  /\ m_trade \in [Players -> TradeData \cup {NoTrade}]
           /\ \A p \in Players : Trading(p) =>
                 /\ m_trade[p] \in TradeData
                 /\ Trader(p) \in Players
           /\ GameTyped
BY DEF TypeOK, GameTyped, Sizes, Trading, Trader, TradeData

LEMMA InvFacts ==
    ASSUME Inv, NEW p \in Players, Trading(p)
    PROVE  /\ m_trade[p] \in TradeData
           /\ Trader(p) \in Players \ {p}
           /\ Trading(Trader(p))
           /\ m_trade[Trader(p)] \in TradeData
           /\ Trader(Trader(p)) = p
           /\ p \in inWorld /\ Trader(p) \in inWorld
BY TypeFacts DEF Inv, TradeIsMutual

(* What a step has to keep: the conjuncts of Inv, as the lemmas give them. *)
Parts ==
    /\ m_trade \in [Players -> TradeData \cup {NoTrade}]
    /\ \A p \in Players : Trading(p) => InOneSlot(m_trade[p])
    /\ Sound(Offers, count)
    /\ lastIndex <= MaxIndex
    /\ GameTyped
    /\ \A p \in Players : Trading(p) => p \in inWorld

LEMMA InvFromParts == Parts => Inv
<1> SUFFICES ASSUME Parts PROVE Inv
  OBVIOUS
<1>1. Offers \in Triple /\ Pairs(m_trade) /\ Numbered(Offers)
  BY DEF Parts, Sound, Good, Offers
<1>2. /\ lastIndex \in Nat \ {0}
      /\ shown \subseteq [index : Nat \ {0}, view : View]
      /\ \A p \in Players : Trading(p) => m_trade[p].index <= lastIndex
      /\ \A u \in shown : u.index <= lastIndex
  BY <1>1 DEF Triple, Offers, Numbered, Trading
<1>3. \A p \in Players : Trading(p) => m_trade[p].index \in Nat
  BY DEF Parts, Trading, TradeData
<1>4. MaxIndex \in Nat
  BY TradeAssumption
<1>5. \A p \in Players : Trading(p) => m_trade[p].index <= MaxIndex
  BY <1>2, <1>3, <1>4 DEF Parts
<1>6. shown \subseteq [index : 1 .. MaxIndex, view : View]
  BY <1>2, <1>4 DEF Parts
<1>7. TypeOK
  BY <1>2, <1>4, <1>5, <1>6 DEF Parts, TypeOK, GameTyped, Sizes
<1>8. TradeIsMutual
  BY <1>1 DEF Parts, TradeIsMutual, Pairs, Trading, Trader, TradeData
<1> QED
  BY <1>7, <1>8 DEF Inv, Parts

LEMMA InvNext == Parts' => Inv'
BY InvFromParts, PTL

DealStep == \A p \in Players : DealKept(p)

KeepsInv == Inv' /\ DealStep

LEMMA ChangedInv ==
    ASSUME Inv, NEW T, NEW p \in Players, Trading(p), Become(T),
           Sound(T, count'), Quiet(m_trade, T.trades, p),
           \A r \in Players : Trading(r) => InOneSlot(T.trades[r]),
           UNCHANGED <<owner, soulbound, inUse, enchanted, money, strayed, inWorld>>,
           count' \in Sizes, events' \in 0 .. MaxEvents
    PROVE  KeepsInv
<1> DEFINE q == Trader(p)
<1>1. /\ T \in Triple /\ Pairs(T.trades) /\ Numbered(T)
      /\ \A r \in Players : ShownTrue(T, r, count') /\ AcceptedShown(T, r)
  BY DEF Sound, Good
<1>2. /\ m_trade' = T.trades /\ lastIndex' = T.last /\ T.last <= MaxIndex
      /\ shown' = {u \in T.sent : Standing(T, u)}
  BY DEF Become
<1>3. /\ T.trades \in [Players -> TradeData \cup {NoTrade}]
      /\ T.last \in Nat \ {0}
      /\ T.sent \subseteq [index : Nat \ {0}, view : View]
  BY <1>1 DEF Triple
<1>4. q \in Players \ {p} /\ Trading(q) /\ Trader(q) = p
  BY InvFacts
<1>5. \A r \in Players : Trading(r)' <=> Trading(r)
  BY <1>2 DEF Quiet, Trading
<1>6. (Offers \in Triple)'
  BY <1>2, <1>3 DEF Offers, Triple
<1>7. Pairs(m_trade')
  BY <1>1, <1>2
<1>8. Numbered(Offers')
  BY <1>1, <1>2 DEF Numbered, Offers, Standing
<1>9. \A r \in Players : ShownTrue(Offers, r, count)'
  BY <1>1, <1>2 DEF ShownTrue, Offers, Shows, Has
<1>10. \A r \in Players : AcceptedShown(Offers, r)'
  <2> SUFFICES ASSUME NEW r \in Players, T.trades[r] # NoTrade, T.trades[r].accepted
               PROVE  [index |-> T.trades[T.trades[r].trader].index,
                       view |-> T.trades[r].saw] \in shown'
    BY <1>2 DEF AcceptedShown, Offers
  <2> DEFINE k == T.trades[r].trader
  <2>1. k \in Players /\ T.trades[k] # NoTrade
    BY <1>1, <1>3 DEF Pairs, TradeData
  <2>2. [index |-> T.trades[k].index, view |-> T.trades[r].saw] \in T.sent
    BY <1>1 DEF AcceptedShown
  <2> QED
    BY <2>1, <2>2, <1>2 DEF Standing
<1>11. Sound(Offers, count)'
  BY <1>6, <1>7, <1>8, <1>9, <1>10 DEF Sound, Good, Offers
<1>12. DealStep
  <2> SUFFICES ASSUME NEW r \in Players, Trading(r)', T.trades[r].accepted,
                      T.trades[T.trades[r].trader].accepted
               PROVE  BothAccepted(r) /\ SameOffer(r) /\ SameOffer(Trader(r))
    BY <1>2 DEF DealStep, DealKept, BothAccepted, Trader
  <2>1. Trading(r) /\ T.trades[r].trader = Trader(r)
    BY <1>5 DEF Quiet, Trading, Trader
  <2>2. r \notin {p, q} /\ Trader(r) \notin {p, q} /\ Trader(r) \in Players
    BY <2>1, <1>4, InvFacts DEF Quiet, Trader
  <2>3. T.trades[r] = m_trade[r] /\ T.trades[Trader(r)] = m_trade[Trader(r)]
    BY <2>2 DEF Quiet, Trader
  <2> QED
    BY <2>1, <2>3, <1>2 DEF BothAccepted, SameOffer
<1>13. GameTyped'
  BY TypeFacts DEF GameTyped, Inv
<1>14. \A r \in Players : Trading(r)' => r \in inWorld'
  BY <1>5, InvFacts
<1>15. \A r \in Players : Trading(r)' => InOneSlot(m_trade[r])'
  BY <1>2, <1>5 DEF InOneSlot
<1> QED
  BY <1>2, <1>3, <1>11, <1>12, <1>13, <1>14, <1>15, InvNext DEF Parts, Offers, KeepsInv


(* Trades that differ from m_trade in the acceptances alone.               *)
Acceptances(t) ==
    /\ t \in [Players -> TradeData \cup {NoTrade}]
    /\ \A r \in Players : t[r] = NoTrade <=> m_trade[r] = NoTrade
    /\ \A r \in Players : m_trade[r] # NoTrade =>
          /\ t[r].trader = m_trade[r].trader
          /\ t[r].money = m_trade[r].money
          /\ t[r].spell = m_trade[r].spell
          /\ t[r].items = m_trade[r].items
          /\ t[r].index = m_trade[r].index

LEMMA MarkFacts ==
    ASSUME NEW t, Acceptances(t), NEW p \in Players, Trading(p), NEW d \in TradeData,
           d.trader = t[p].trader, d.money = t[p].money, d.spell = t[p].spell,
           d.items = t[p].items, d.index = t[p].index,
           NEW t2 \in [Players -> TradeData \cup {NoTrade}],
           t2[p] = d, \A r \in Players \ {p} : t2[r] = t[r]
    PROVE  Acceptances(t2)
BY NoTradeAssumption DEF Acceptances, Trading

LEMMA AcceptancesUnchanged ==
    ASSUME TypeOK
    PROVE  Acceptances(m_trade)
BY TypeFacts DEF Acceptances

\* What an acceptance of u by p, and withdrawals of p and its trader, leave.
Marks(t, p, u) ==
    LET q == Trader(p)
    IN  /\ Acceptances(t)
        /\ \A r \in Players \ {p, q} : t[r] = m_trade[r]
        /\ t[p].accepted =>
              \/ u \in shown /\ Current(p, u) /\ t[p].saw = u.view
              \/ m_trade[p].accepted /\ t[p].saw = m_trade[p].saw
        /\ t[q].accepted => m_trade[q].accepted /\ t[q].saw = m_trade[q].saw

LEMMA AcceptancesSound ==
    ASSUME Inv, NEW t, NEW p \in Players, Trading(p), NEW u, Marks(t, p, u)
    PROVE  Sound([Offers EXCEPT !.trades = t], count)
<1> DEFINE q == Trader(p)
           T == [Offers EXCEPT !.trades = t]
<1>1. /\ Offers \in Triple /\ Pairs(m_trade) /\ Numbered(Offers)
      /\ \A r \in Players : ShownTrue(Offers, r, count) /\ AcceptedShown(Offers, r)
  BY DEF Inv, Sound, Good, Offers
<1>2. T.trades = t /\ T.last = lastIndex /\ T.sent = shown /\ Acceptances(t)
  BY DEF Offers, Marks
<1>3. T \in Triple
  BY <1>1, <1>2 DEF Triple, Offers, Acceptances
<1>4. m_trade \in [Players -> TradeData \cup {NoTrade}]
  BY TypeFacts DEF Inv
<1>5. Pairs(t)
  BY <1>1, <1>2, <1>4 DEF Pairs, Acceptances, TradeData
<1>6. Numbered(T)
  BY <1>1, <1>2 DEF Numbered, Offers, Acceptances
<1>7. \A r \in Players : ShownTrue(T, r, count)
  BY <1>1, <1>2 DEF ShownTrue, Offers, Shows, Acceptances
<1>8. q \in Players \ {p} /\ Trading(q) /\ Trader(q) = p
  BY InvFacts
<1>9. ASSUME NEW r \in Players, t[r] # NoTrade, t[r].accepted
      PROVE  [index |-> t[t[r].trader].index, view |-> t[r].saw] \in shown
  <2>1. Trading(r) /\ t[r].trader = Trader(r)
    BY <1>2, <1>9 DEF Acceptances, Trading, Trader
  <2>2. t[Trader(r)].index = m_trade[Trader(r)].index
    BY <2>1, <1>2, InvFacts DEF Acceptances, Trading
  <2>3. CASE m_trade[r].accepted /\ t[r].saw = m_trade[r].saw
    BY <2>1, <2>2, <2>3, <1>1 DEF AcceptedShown, Offers, Trading, Trader
  <2>4. CASE r = p /\ u \in shown /\ Current(p, u) /\ t[p].saw = u.view
    <3>1. u = [index |-> u.index, view |-> u.view]
      BY <2>4, <1>1 DEF Triple, Offers
    <3> QED
      BY <3>1, <2>1, <2>2, <2>4 DEF Current, Trader
  <2> QED
    BY <2>3, <2>4, <1>9 DEF Marks
<1>10. \A r \in Players : AcceptedShown(T, r)
  BY <1>2, <1>9 DEF AcceptedShown
<1> QED
  BY <1>2, <1>3, <1>5, <1>6, <1>7, <1>10 DEF Sound, Good

\* What is left undone is so for both.
LEMMA LeftUndoneIsMutual ==
    ASSUME NEW p, Trader(Trader(p)) = p, LeftUndone(p)
    PROVE  LeftUndone(Trader(p))
BY DEF LeftUndone, MoneyIsRight, Affords, Pays, Fits, AllTradeable

LEMMA RefusedInv ==
    ASSUME Inv, NEW t, NEW p \in Players, Trading(p), NEW u, Marks(t, p, u), Refused(t),
           t[p].accepted /\ t[Trader(p)].accepted => LeftUndone(p)
    PROVE  KeepsInv
<1> DEFINE q == Trader(p)
<1>1. m_trade' = t /\ UNCHANGED <<lastIndex, shown, game>> /\ Acceptances(t)
  BY DEF Refused, Marks
<1>2. UNCHANGED <<owner, count, soulbound, inUse, enchanted, money, strayed, inWorld, events>>
  BY <1>1 DEF game, goods
<1>3. Offers' = [Offers EXCEPT !.trades = t]
  BY <1>1 DEF Offers
<1>4. Sound(Offers, count)'
  <2>1. Sound(Offers', count)
    BY <1>3, AcceptancesSound
  <2> QED
    BY <2>1, <1>1, <1>2
       DEF Sound, Good, Triple, Numbered, ShownTrue, AcceptedShown, Shows, Has, Pairs, Offers
<1>5. \A r \in Players : Trading(r)' <=> Trading(r)
  BY <1>1 DEF Acceptances, Trading
<1>6. \A r \in Players : Trading(r)' => InOneSlot(m_trade[r])' /\ r \in inWorld'
  <2> TAKE r \in Players
  <2> HAVE Trading(r)'
  <2>1. Trading(r) /\ t[r].items = m_trade[r].items
    BY <1>1, <1>5 DEF Acceptances, Trading
  <2>2. InOneSlot(m_trade[r])
    BY <2>1 DEF Inv, TypeOK
  <2>3. r \in inWorld
    BY <2>1, InvFacts
  <2> QED
    BY <2>1, <2>2, <2>3, <1>1, <1>2 DEF InOneSlot
<1>7. q \in Players \ {p} /\ Trading(q) /\ Trader(q) = p
  BY InvFacts
<1>8. DealStep
  <2> SUFFICES ASSUME NEW r \in Players, Trading(r)', t[r].accepted, t[t[r].trader].accepted
               PROVE  /\ ~BothAccepted(r) => LeftUndone(r)
                      /\ SameOffer(r) /\ SameOffer(Trader(r))
    BY <1>1 DEF DealStep, DealKept, BothAccepted, Trader
  <2>1. Trading(r) /\ t[r].trader = Trader(r) /\ Trader(r) \in Players /\ Trading(Trader(r))
    BY <1>1, <1>5, InvFacts DEF Acceptances, Trading, Trader
  <2>2. SameOffer(r) /\ SameOffer(Trader(r))
    BY <2>1, <1>1 DEF Acceptances, Trading, SameOffer
  <2>3. CASE r \in {p, q}
    <3>1. LeftUndone(p)
      BY <2>1, <2>3, <1>7
    <3> QED
      BY <2>2, <2>3, <3>1, <1>7, LeftUndoneIsMutual
  <2>4. CASE r \notin {p, q}
    <3>1. Trader(r) \notin {p, q}
      BY <2>4, <2>1, <1>7, InvFacts
    <3>2. t[r] = m_trade[r] /\ t[Trader(r)] = m_trade[Trader(r)]
      BY <2>4, <3>1, <2>1 DEF Marks
    <3> QED
      BY <3>2, <2>1, <2>2 DEF BothAccepted
  <2> QED
    BY <2>3, <2>4
<1>9. GameTyped'
  BY <1>2, TypeFacts DEF GameTyped, Inv
<1>10. (lastIndex <= MaxIndex)'
  BY <1>1, TradeAssumption DEF Inv, TypeOK
<1>11. (m_trade \in [Players -> TradeData \cup {NoTrade}])'
  BY <1>1 DEF Acceptances
<1> QED
  BY <1>4, <1>6, <1>8, <1>9, <1>10, <1>11, InvNext DEF Parts, KeepsInv

LEMMA GameInv ==
    ASSUME Inv, UNCHANGED <<lastIndex, shown>>,
           \/ m_trade' = m_trade
           \/ \E p \in Players : Trading(p) /\ m_trade' = Ended(p),
           GameTyped',
           \A r \in Players, s \in Slots :
               LET i == m_trade[r].items[s]
               IN  Trading(r)' /\ Trading(r) /\ i \notin strayed'[r] =>
                       /\ i \notin strayed[r]
                       /\ i # NoItem => (owner'[i] = r <=> owner[i] = r)
                       /\ i # NoItem /\ owner[i] = r => count'[i] = count[i],
           \A r \in inWorld : Trading(r)' => r \in inWorld'
    PROVE  KeepsInv
<1>1. /\ Offers \in Triple /\ Pairs(m_trade) /\ Numbered(Offers)
      /\ \A r \in Players : ShownTrue(Offers, r, count) /\ AcceptedShown(Offers, r)
  BY DEF Inv, Sound, Good, Offers
<1>2. m_trade \in [Players -> TradeData \cup {NoTrade}]
  BY TypeFacts DEF Inv
<1> DEFINE Kept(r) ==
             /\ m_trade'[r] = m_trade[r]
             /\ Trading(r)
             /\ Trader(r) \in Players
             /\ m_trade'[Trader(r)] # NoTrade
             /\ m_trade'[Trader(r)] = m_trade[Trader(r)]
<1>3. /\ m_trade' \in [Players -> TradeData \cup {NoTrade}]
      /\ \A r \in Players : Trading(r)' => Kept(r)
  <2>1. CASE m_trade' = m_trade
    BY <2>1, <1>2, InvFacts DEF Trading
  <2>2. ASSUME NEW p \in Players, Trading(p), m_trade' = Ended(p)
        PROVE  /\ m_trade' \in [Players -> TradeData \cup {NoTrade}]
               /\ \A r \in Players : Trading(r)' => Kept(r)
    <3>1. Trader(p) \in Players \ {p} /\ Trading(Trader(p)) /\ Trader(Trader(p)) = p
      BY <2>2, InvFacts
    <3>2. /\ m_trade' \in [Players -> TradeData \cup {NoTrade}]
          /\ m_trade'[p] = NoTrade /\ m_trade'[Trader(p)] = NoTrade
          /\ \A r \in Players \ {p, Trader(p)} : m_trade'[r] = m_trade[r]
      BY <2>2, <3>1, <1>2 DEF Ended
    <3>3. \A r \in Players \ {p, Trader(p)} : Trading(r) => Trader(r) \notin {p, Trader(p)}
      BY <3>1, InvFacts
    <3> QED
      BY <3>1, <3>2, <3>3, InvFacts DEF Trading
  <2> QED
    BY <2>1, <2>2
<1>4. Sound(Offers, count)'
  <2>1. (Offers \in Triple)' /\ Numbered(Offers)'
    BY <1>1, <1>3 DEF Offers, Triple, Numbered, Trading
  <2>2. Pairs(m_trade)'
    BY <1>1, <1>3 DEF Pairs, Trading, Trader
  <2>3. \A r \in Players : ShownTrue(Offers, r, count)'
    <3> SUFFICES ASSUME NEW r \in Players, Trading(r)', NEW u \in shown,
                        u.index = m_trade'[r].index
                 PROVE  Shows(u.view, r, m_trade[r], count)'
      BY DEF ShownTrue, Offers, Trading
    <3>1. m_trade'[r] = m_trade[r] /\ Trading(r) /\ Shows(u.view, r, m_trade[r], count)
      BY <1>1, <1>3 DEF ShownTrue, Offers, Trading
    <3>2. ASSUME NEW s \in Slots, NEW i, i = m_trade[r].items[s], i \notin strayed'[r]
          PROVE  u.view.items[s] =
                     IF i # NoItem /\ owner'[i] = r THEN <<i, count'[i]>> ELSE NoItem
      <4>1. /\ i \notin strayed[r]
            /\ i # NoItem => (owner'[i] = r <=> owner[i] = r)
            /\ i # NoItem /\ owner[i] = r => count'[i] = count[i]
        BY <3>1, <3>2
      <4>2. u.view.items[s] = IF i # NoItem /\ owner[i] = r THEN <<i, count[i]>> ELSE NoItem
        BY <3>1, <3>2, <4>1 DEF Shows, Has
      <4> QED
        BY <4>1, <4>2
    <3> QED
      BY <3>1, <3>2 DEF Shows, Has
  <2>4. \A r \in Players : AcceptedShown(Offers, r)'
    BY <1>1, <1>3 DEF AcceptedShown, Offers, Trading, Trader
  <2> QED
    BY <2>1, <2>2, <2>3, <2>4 DEF Sound, Good, Offers
<1>5. DealStep
  <2> SUFFICES ASSUME NEW r \in Players, Trading(r)', m_trade'[r].accepted,
                      m_trade'[m_trade'[r].trader].accepted
               PROVE  BothAccepted(r) /\ SameOffer(r) /\ SameOffer(Trader(r))
    BY DEF DealStep, DealKept, BothAccepted, Trader
  <2> QED
    BY <1>3 DEF BothAccepted, SameOffer, Trader
<1>6. \A r \in Players : Trading(r)' => InOneSlot(m_trade[r])' /\ r \in inWorld'
  <2> TAKE r \in Players
  <2> HAVE Trading(r)'
  <2>1. m_trade'[r] = m_trade[r] /\ Trading(r)
    BY <1>3
  <2>2. InOneSlot(m_trade[r]) /\ r \in inWorld
    BY <2>1, InvFacts DEF Inv, TypeOK
  <2> QED
    BY <2>1, <2>2 DEF InOneSlot
<1>7. (lastIndex <= MaxIndex)'
  BY TradeAssumption DEF Inv, TypeOK
<1> QED
  BY <1>3, <1>4, <1>5, <1>6, <1>7, InvNext DEF Parts, KeepsInv


-----------------------------------------------------------------------------
(* The steps.                                                              *)

LEMMA InitInv == Init => Inv
<1> SUFFICES ASSUME Init PROVE Inv
  OBVIOUS
<1>1. EmptyView \in View
  BY EmptyViewIsView
<1>2. \A p \in Players : ~Trading(p)
  BY DEF Init, Trading
<1>3. Sound(Offers, count)
  BY <1>1 DEF Init, Offers, Sound, Good, Triple, Pairs, Numbered, ShownTrue, AcceptedShown
<1>4. GameTyped
  <2>1. owner \in [Items -> Players \cup {Nobody}] /\ count \in Sizes
        /\ enchanted \in [Items -> Spells \cup {NoSpell}]
    BY TradeAssumption DEF Init, Sizes
  <2>2. money \in [Players -> 0 .. MaxMoney]
    <3>1. (MaxMoney + 1) \div 2 \in 0 .. MaxMoney
      BY TradeAssumption
    <3> QED
      BY <3>1 DEF Init
  <2> QED
    BY <2>1, <2>2, TradeAssumption DEF Init, GameTyped
<1>5. lastIndex <= MaxIndex
  BY TradeAssumption DEF Init
<1>6. m_trade \in [Players -> TradeData \cup {NoTrade}]
  BY DEF Init
<1> QED
  BY <1>2, <1>3, <1>4, <1>5, <1>6, InvFromParts DEF Parts

LEMMA InitiateTradeInv ==
    ASSUME Inv, NEW p \in Players, NEW q \in Players, InitiateTrade(p, q)
    PROVE  KeepsInv
<1>1. /\ p # q /\ p \in inWorld /\ q \in inWorld /\ ~Trading(p) /\ ~Trading(q)
      /\ m_trade' = [m_trade EXCEPT ![p] = NewTrade(q), ![q] = NewTrade(p)]
      /\ strayed' = [strayed EXCEPT ![p] = {}, ![q] = {}]
      /\ UNCHANGED <<lastIndex, shown, owner, count, soulbound, inUse, enchanted, money,
                     inWorld, events>>
  BY DEF InitiateTrade, Available, goods
<1>2. /\ Offers \in Triple /\ Pairs(m_trade) /\ Numbered(Offers)
      /\ \A r \in Players : ShownTrue(Offers, r, count) /\ AcceptedShown(Offers, r)
  BY DEF Inv, Sound, Good, Offers
<1>3. m_trade \in [Players -> TradeData \cup {NoTrade}]
  BY TypeFacts DEF Inv
<1>4. \A r \in Players : NewTrade(r) \in TradeData
  <2>1. NothingOffered \in [Slots -> Items \cup {NoItem}]
    BY DEF NothingOffered
  <2>2. 0 \in 0 .. MaxMoney
    BY TradeAssumption
  <2> QED
    BY <2>1, <2>2, EmptyViewIsView DEF NewTrade, TradeData
<1>5. /\ m_trade' \in [Players -> TradeData \cup {NoTrade}]
      /\ m_trade'[p] = NewTrade(q) /\ m_trade'[q] = NewTrade(p)
      /\ \A r \in Players \ {p, q} : m_trade'[r] = m_trade[r]
      /\ m_trade'[p] # NoTrade /\ m_trade'[q] # NoTrade
  BY <1>1, <1>3, <1>4, NoTradeAssumption
<1>6. \A r \in Players \ {p, q} : Trading(r) =>
          /\ Trader(r) \in Players \ {p, q}
          /\ m_trade'[Trader(r)] = m_trade[Trader(r)]
  BY <1>1, <1>5, InvFacts
<1>7. Sound(Offers, count)'
  <2>1. (Offers \in Triple)'
    BY <1>1, <1>2, <1>5 DEF Offers, Triple
  <2>2. Pairs(m_trade)'
    <3> SUFFICES ASSUME NEW r \in Players, Trading(r)'
                 PROVE  /\ m_trade'[r].trader # r
                        /\ m_trade'[m_trade'[r].trader] # NoTrade
                        /\ m_trade'[m_trade'[r].trader].trader = r
      BY DEF Pairs, Trading
    <3>1. CASE r \in {p, q}
      BY <3>1, <1>1, <1>5 DEF NewTrade
    <3>2. CASE r \notin {p, q}
      BY <3>2, <1>2, <1>5, <1>6 DEF Pairs, Trading, Trader
    <3> QED
      BY <3>1, <3>2
  <2>3. Numbered(Offers)'
    <3>1. \A r \in Players : Trading(r)' => m_trade'[r].index <= lastIndex
      BY <1>2, <1>5 DEF Numbered, Offers, Trading, NewTrade, Triple
    <3> QED
      BY <3>1, <1>1, <1>2 DEF Numbered, Offers, Trading
  <2>4. \A r \in Players : ShownTrue(Offers, r, count)'
    <3> SUFFICES ASSUME NEW r \in Players, Trading(r)', NEW u \in shown,
                        u.index = m_trade'[r].index
                 PROVE  Shows(u.view, r, m_trade[r], count)'
      BY <1>1 DEF ShownTrue, Offers, Trading
    <3>1. CASE r \in {p, q}
      <4>1. m_trade'[r].index = 1 /\ m_trade'[r].items = NothingOffered
            /\ m_trade'[r].money = 0 /\ m_trade'[r].spell = NoSpell
        BY <3>1, <1>5 DEF NewTrade
      <4>2. u.view = EmptyView
        BY <4>1, <1>2 DEF Numbered, Offers
      <4> QED
        BY <4>1, <4>2 DEF EmptyView, NothingOffered, Shows, Has
    <3>2. CASE r \notin {p, q}
      <4>1. m_trade'[r] = m_trade[r] /\ Shows(u.view, r, m_trade[r], count)
        BY <3>2, <1>1, <1>2, <1>5 DEF ShownTrue, Offers, Trading
      <4>2. strayed'[r] = strayed[r]
        BY <3>2, <1>1, TypeFacts DEF Inv, GameTyped
      <4> QED
        BY <4>1, <4>2, <1>1 DEF Shows, Has
    <3> QED
      BY <3>1, <3>2
  <2>5. \A r \in Players : AcceptedShown(Offers, r)'
    BY <1>1, <1>2, <1>5, <1>6 DEF AcceptedShown, Offers, Trading, Trader, NewTrade
  <2> QED
    BY <2>1, <2>2, <2>3, <2>4, <2>5 DEF Sound, Good, Offers
<1>8. DealStep
  <2> SUFFICES ASSUME NEW r \in Players, BothAccepted(r)'
               PROVE  BothAccepted(r) /\ SameOffer(r) /\ SameOffer(Trader(r))
    BY DEF DealStep, DealKept
  <2>1. r \notin {p, q}
    BY <1>5 DEF BothAccepted, NewTrade
  <2>2. m_trade'[r] = m_trade[r] /\ Trading(r) /\ m_trade'[Trader(r)] = m_trade[Trader(r)]
    BY <2>1, <1>5, <1>6 DEF BothAccepted, Trading
  <2> QED
    BY <2>2 DEF BothAccepted, SameOffer, Trader
<1>9. \A r \in Players : Trading(r)' => InOneSlot(m_trade[r])' /\ r \in inWorld'
  <2> TAKE r \in Players
  <2> HAVE Trading(r)'
  <2>1. CASE r \in {p, q}
    BY <2>1, <1>1, <1>5 DEF InOneSlot, NewTrade, NothingOffered
  <2>2. CASE r \notin {p, q}
    <3>1. m_trade'[r] = m_trade[r] /\ Trading(r)
      BY <2>2, <1>5 DEF Trading
    <3>2. InOneSlot(m_trade[r]) /\ r \in inWorld
      BY <3>1, InvFacts DEF Inv, TypeOK
    <3> QED
      BY <3>1, <3>2, <1>1 DEF InOneSlot
  <2> QED
    BY <2>1, <2>2
<1>10. GameTyped' /\ (lastIndex <= MaxIndex)'
  BY <1>1, TypeFacts, TradeAssumption DEF GameTyped, Inv, TypeOK
<1> QED
  BY <1>5, <1>7, <1>8, <1>9, <1>10, InvNext DEF Parts, KeepsInv

LEMMA OffersSound ==
    ASSUME Inv
    PROVE  /\ Good(Offers) /\ Offers.trades = m_trade
           /\ \A r \in Players : ShownTrue(Offers, r, count) /\ AcceptedShown(Offers, r)
           /\ count \in Sizes
BY TypeFacts DEF Inv, Sound, Offers, GameTyped

\* The items of the other players stay, and p's are in one slot each.
LEMMA SetItemInv ==
    ASSUME Inv, NEW p \in Players, Trading(p), NEW s \in Slots, NEW i \in Items \cup {NoItem},
           \A k \in Slots : i # NoItem /\ m_trade[p].items[k] = i => k = s,
           count' \in Sizes, events' \in 0 .. MaxEvents,
           UNCHANGED <<owner, soulbound, inUse, enchanted, money, strayed, inWorld>>,
           \A r \in Players \ {p} : ShownTrue(Offers, r, count'),
           Become(SetItem(Offers, p, s, i, count'))
    PROVE  KeepsInv
<1> DEFINE T == SetItem(Offers, p, s, i, count')
<1>1. /\ Sound(T, count')
      /\ Quiet(m_trade, T.trades, p)
      /\ T.trades[p].items = [m_trade[p].items EXCEPT ![s] = i]
      /\ SameItems(m_trade, T.trades, Players \ {p})
  <2>1. /\ Good(Offers) /\ Offers.trades = m_trade /\ m_trade[p] # NoTrade
        /\ \A r \in Players : AcceptedShown(Offers, r)
    BY OffersSound DEF Trading
  <2>2. \A r \in Players \ {p} : ShownTrue(Offers, r, count')
    OBVIOUS
  <2>3. /\ Sound(T, count')
        /\ Quiet(Offers.trades, T.trades, p)
        /\ T.trades[p].items = [Offers.trades[p].items EXCEPT ![s] = i]
        /\ SameItems(Offers.trades, T.trades, Players \ {p})
    BY <2>1, <2>2, SetItemSound
  <2> QED
    BY <2>1, <2>3
<1> HIDE DEF T
<1>2. \A r \in Players : Trading(r) => InOneSlot(T.trades[r])
  <2> TAKE r \in Players
  <2> HAVE Trading(r)
  <2>1. InOneSlot(m_trade[r]) /\ m_trade[r] \in TradeData
    BY InvFacts DEF Inv, TypeOK
  <2>2. CASE r = p
    BY <2>1, <2>2, <1>1 DEF InOneSlot, TradeData
  <2>3. CASE r # p
    BY <2>1, <2>3, <1>1 DEF InOneSlot, SameItems, Trading
  <2> QED
    BY <2>2, <2>3
<1>3. Become(T)
  BY DEF T
<1> QED
  BY <1>1, <1>2, <1>3, ChangedInv

\* The items of all players stay.
LEMMA SameItemsInv ==
    ASSUME Inv, NEW p \in Players, Trading(p), NEW T, Become(T), UNCHANGED game,
           Sound(T, count), Quiet(m_trade, T.trades, p), SameItems(m_trade, T.trades, Players)
    PROVE  KeepsInv
<1>1. UNCHANGED <<owner, count, soulbound, inUse, enchanted, money, strayed, inWorld, events>>
  BY DEF game, goods
<1>2. \A r \in Players : Trading(r) => InOneSlot(T.trades[r])
  BY DEF Inv, TypeOK, InOneSlot, SameItems, Trading
<1>3. count' \in Sizes /\ events' \in 0 .. MaxEvents /\ Sound(T, count')
  BY <1>1, TypeFacts DEF Inv, GameTyped
<1> QED
  BY <1>1, <1>2, <1>3, ChangedInv

LEMMA SetTradeItemInv ==
    ASSUME Inv, NEW p \in Players, NEW s \in Slots, NEW i \in Items, SetTradeItem(p, s, i)
    PROVE  KeepsInv
<1>1. /\ Trading(p) /\ ~HasItem(p, i) /\ Become(SetItem(Offers, p, s, i, count'))
      /\ UNCHANGED <<owner, count, soulbound, inUse, enchanted, money, strayed, inWorld,
                     events>>
  BY DEF SetTradeItem, game, goods
<1>2. count' \in Sizes /\ events' \in 0 .. MaxEvents
  BY <1>1, TypeFacts DEF Inv, GameTyped
<1>3. \A r \in Players \ {p} : ShownTrue(Offers, r, count')
  BY <1>1, OffersSound
<1> QED
  BY <1>1, <1>2, <1>3, SetItemInv DEF HasItem

LEMMA ClearTradeItemInv ==
    ASSUME Inv, NEW p \in Players, NEW s \in Slots, ClearTradeItem(p, s)
    PROVE  KeepsInv
<1>1. /\ Trading(p) /\ Become(SetItem(Offers, p, s, NoItem, count'))
      /\ UNCHANGED <<owner, count, soulbound, inUse, enchanted, money, strayed, inWorld,
                     events>>
  BY DEF ClearTradeItem, game, goods
<1>2. count' \in Sizes /\ events' \in 0 .. MaxEvents
  BY <1>1, TypeFacts DEF Inv, GameTyped
<1>3. \A r \in Players \ {p} : ShownTrue(Offers, r, count')
  BY <1>1, OffersSound
<1> QED
  BY <1>1, <1>2, <1>3, SetItemInv

LEMMA SetTradeGoldInv ==
    ASSUME Inv, NEW p \in Players, NEW amount \in 0 .. MaxMoney, SetTradeGold(p, amount)
    PROVE  KeepsInv
<1> DEFINE T == SetMoney(Offers, p, amount, count)
<1>1. Trading(p) /\ Become(T) /\ UNCHANGED game
  BY DEF SetTradeGold
<1>2. /\ Sound(T, count)
      /\ Quiet(m_trade, T.trades, p)
      /\ SameItems(m_trade, T.trades, Players)
  BY <1>1, OffersSound, SetMoneySound DEF Trading, Inv
<1> QED
  BY <1>1, <1>2, SameItemsInv

LEMMA CastOnTradeInv ==
    ASSUME Inv, NEW p \in Players, NEW spell \in Spells, CastOnTrade(p, spell)
    PROVE  KeepsInv
<1> DEFINE T == SetSpell(Offers, p, spell, count)
<1>1. Trading(p) /\ m_trade[p].spell # spell /\ Become(T) /\ UNCHANGED game
  BY TradeAssumption DEF CastOnTrade
<1>2. /\ Sound(T, count)
      /\ Quiet(m_trade, T.trades, p)
      /\ SameItems(m_trade, T.trades, Players)
  BY <1>1, OffersSound, SetSpellSound DEF Trading, Inv
<1> QED
  BY <1>1, <1>2, SameItemsInv


LEMMA AcceptingFacts ==
    ASSUME Inv, NEW p \in Players, Trading(p), NEW u \in shown
    PROVE  LET t == Accepting(p, u)
           IN  /\ Acceptances(t)
               /\ t[p].accepted /\ t[p].saw = u.view
               /\ \A r \in Players \ {p} : t[r] = m_trade[r]
               /\ t[p].trader = Trader(p)
<1> DEFINE t == Accepting(p, u)
           d == [m_trade[p] EXCEPT !.accepted = TRUE, !.saw = u.view]
<1>1. u.view \in View /\ m_trade[p] \in TradeData /\ Acceptances(m_trade)
  BY InvFacts, AcceptancesUnchanged DEF Inv, TypeOK
<1>2. d \in TradeData /\ d.accepted /\ d.saw = u.view /\ d.trader = Trader(p)
      /\ d.money = m_trade[p].money /\ d.spell = m_trade[p].spell
      /\ d.items = m_trade[p].items /\ d.index = m_trade[p].index
  BY <1>1 DEF TradeData, Trader
<1>3. t = [m_trade EXCEPT ![p] = d]
  BY DEF Accepting
<1> HIDE DEF d, t
<1>4. /\ t \in [Players -> TradeData \cup {NoTrade}] /\ t[p] = d
      /\ \A r \in Players \ {p} : t[r] = m_trade[r]
  BY <1>1, <1>2, <1>3 DEF Acceptances
<1>5. Acceptances(t)
  BY <1>1, <1>2, <1>4, MarkFacts DEF Trader
<1> QED
  BY <1>2, <1>4, <1>5 DEF t

LEMMA WithdrawFacts ==
    ASSUME NEW t, Acceptances(t), NEW p \in Players, Trading(p)
    PROVE  /\ Acceptances(Withdraw(t, p))
           /\ ~Withdraw(t, p)[p].accepted
           /\ \A r \in Players \ {p} : Withdraw(t, p)[r] = t[r]
<1> DEFINE t2 == Withdraw(t, p)
           d == [t[p] EXCEPT !.accepted = FALSE, !.saw = EmptyView]
<1>1. t[p] \in TradeData
  BY DEF Acceptances, Trading
<1>2. d \in TradeData /\ ~d.accepted /\ d.trader = t[p].trader
      /\ d.money = t[p].money /\ d.spell = t[p].spell
      /\ d.items = t[p].items /\ d.index = t[p].index
  BY <1>1, EmptyViewIsView DEF TradeData
<1>3. t2 = [t EXCEPT ![p] = d]
  BY DEF Withdraw
<1> HIDE DEF d, t2
<1>4. /\ t2 \in [Players -> TradeData \cup {NoTrade}] /\ t2[p] = d
      /\ \A r \in Players \ {p} : t2[r] = t[r]
  BY <1>2, <1>3 DEF Acceptances
<1>5. Acceptances(t2)
  BY <1>2, <1>4, MarkFacts
<1> QED
  BY <1>2, <1>4, <1>5 DEF t2

LEMMA UnacceptTradeInv ==
    ASSUME Inv, NEW p \in Players, UnacceptTrade(p)
    PROVE  KeepsInv
<1> DEFINE t == Withdraw(m_trade, p)
<1>1. Trading(p) /\ Refused(t)
  BY DEF UnacceptTrade, Refused
<1>2. Acceptances(t) /\ ~t[p].accepted /\ \A r \in Players \ {p} : t[r] = m_trade[r]
  BY <1>1, WithdrawFacts, AcceptancesUnchanged DEF Inv
<1> HIDE DEF t
<1>3. Marks(t, p, 0)
  BY <1>1, <1>2, InvFacts DEF Marks
<1> QED
  BY <1>1, <1>2, <1>3, RefusedInv

\* My acceptance is withdrawn again.
LEMMA MineUndoneInv ==
    ASSUME Inv, NEW p \in Players, NEW u \in shown, Trading(p),
           Refused(Withdraw(Accepting(p, u), p))
    PROVE  KeepsInv
<1> DEFINE t == Withdraw(Accepting(p, u), p)
<1>1. Acceptances(t) /\ ~t[p].accepted /\ \A r \in Players \ {p} : t[r] = m_trade[r]
  BY AcceptingFacts, WithdrawFacts
<1>2. Refused(t)
  OBVIOUS
<1> HIDE DEF t
<1>3. Marks(t, p, u)
  BY <1>1, InvFacts DEF Marks
<1> QED
  BY <1>1, <1>2, <1>3, RefusedInv

\* His acceptance is withdrawn.
LEMMA HisUndoneInv ==
    ASSUME Inv, NEW p \in Players, NEW u \in shown, Current(p, u),
           Refused(Withdraw(Accepting(p, u), Trader(p)))
    PROVE  KeepsInv
<1> DEFINE t == Withdraw(Accepting(p, u), Trader(p))
           q == Trader(p)
<1>1. Trading(p) /\ q \in Players \ {p} /\ Trading(q)
  BY InvFacts DEF Current
<1>2. /\ Acceptances(t) /\ ~t[q].accepted /\ t[p].saw = u.view
      /\ \A r \in Players \ {p, q} : t[r] = m_trade[r]
  BY <1>1, AcceptingFacts, WithdrawFacts
<1>3. Refused(t)
  OBVIOUS
<1> HIDE DEF t
<1>4. Marks(t, p, u)
  BY <1>1, <1>2 DEF Marks
<1> QED
  BY <1>1, <1>2, <1>3, <1>4, RefusedInv

\* My acceptance stands, beside his or alone.
LEMMA StandsInv ==
    ASSUME Inv, NEW p \in Players, NEW u \in shown, Current(p, u), Refused(Accepting(p, u)),
           m_trade[Trader(p)].accepted => LeftUndone(p)
    PROVE  KeepsInv
<1> DEFINE t == Accepting(p, u)
           q == Trader(p)
<1>1. Trading(p) /\ q \in Players \ {p}
  BY InvFacts DEF Current
<1>2. /\ Acceptances(t) /\ t[p].saw = u.view
      /\ \A r \in Players \ {p} : t[r] = m_trade[r]
  BY <1>1, AcceptingFacts
<1>3. Refused(t)
  OBVIOUS
<1> HIDE DEF t
<1>4. Marks(t, p, u)
  BY <1>1, <1>2 DEF Marks
<1> QED
  BY <1>1, <1>2, <1>3, <1>4, RefusedInv

LEMMA NoRoomInv ==
    ASSUME Inv, NEW p \in Players, NEW u \in shown, NoRoom(p, u)
    PROVE  KeepsInv
<1> DEFINE a == Accepting(p, u)
           q == Trader(p)
           t == Unaccept(a, p)
<1>1. Trading(p) /\ q \in Players \ {p} /\ Trading(q) /\ Refused(t)
  BY InvFacts DEF NoRoom, Decides, Current
<1>2. /\ Acceptances(a) /\ a[p].trader = q
      /\ \A r \in Players \ {p} : a[r] = m_trade[r]
  BY <1>1, AcceptingFacts
<1>3. t = Withdraw(Withdraw(a, p), q)
  BY <1>2 DEF Unaccept
<1> HIDE DEF a
<1> DEFINE b == Withdraw(a, p)
<1>4. Acceptances(b) /\ ~b[p].accepted /\ \A r \in Players \ {p} : b[r] = a[r]
  BY <1>1, <1>2, WithdrawFacts
<1> HIDE DEF b
<1>5. /\ Acceptances(t) /\ ~t[q].accepted /\ ~t[p].accepted
      /\ \A r \in Players \ {p, q} : t[r] = m_trade[r]
  <2>1. t = Withdraw(b, q)
    BY <1>3 DEF b
  <2> HIDE DEF t
  <2>2. Acceptances(t) /\ ~t[q].accepted /\ \A r \in Players \ {q} : t[r] = b[r]
    BY <1>1, <1>4, <2>1, WithdrawFacts
  <2> QED
    BY <1>1, <1>2, <1>4, <2>2
<1> HIDE DEF t
<1>6. Marks(t, p, u)
  BY <1>1, <1>5 DEF Marks
<1> QED
  BY <1>1, <1>5, <1>6, RefusedInv

\* A spell of r fails, of the two that trade.
LEMMA SpellFailsInv ==
    ASSUME Inv, NEW p \in Players, NEW u \in shown, Current(p, u),
           NEW r \in {p, Trader(p)}, Casts(r), UNCHANGED game,
           Become(SetSpell(AcceptedOffers(p, u), r, NoSpell, count))
    PROVE  KeepsInv
<1> DEFINE a == Accepting(p, u)
           q == Trader(p)
           A == AcceptedOffers(p, u)
           T == SetSpell(A, r, NoSpell, count)
<1>1. Trading(p) /\ q \in Players \ {p} /\ Trading(q) /\ Trader(q) = p /\ Trading(r)
  BY InvFacts DEF Current
<1>2. /\ Acceptances(a) /\ a[p].saw = u.view
      /\ \A k \in Players \ {p} : a[k] = m_trade[k]
  BY <1>1, AcceptingFacts
<1>3. A = [Offers EXCEPT !.trades = a] /\ A.trades = a
  BY DEF AcceptedOffers, Offers
<1> HIDE DEF a, A
<1>4. Marks(a, p, u)
  BY <1>1, <1>2 DEF Marks
<1>5. Sound(A, count)
  BY <1>1, <1>3, <1>4, AcceptancesSound
<1>6. A.trades[r] # NoTrade /\ A.trades[r].spell # NoSpell
  BY <1>1, <1>2, <1>3 DEF Acceptances, Trading, Casts
<1>7. count \in Sizes /\ r \in Players
  BY <1>1, OffersSound
<1>8. Sound(T, count) /\ Quiet(a, T.trades, r) /\ SameItems(a, T.trades, Players)
  BY <1>3, <1>5, <1>6, <1>7, SetSpellSound
<1>9. Become(T)
  BY DEF A
<1> HIDE DEF T
<1>10. Quiet(m_trade, T.trades, p)
  BY <1>1, <1>2, <1>8 DEF Quiet, Acceptances, Trading, Trader
<1>11. SameItems(m_trade, T.trades, Players)
  BY <1>2, <1>8 DEF SameItems, Acceptances
<1> QED
  BY <1>1, <1>8, <1>9, <1>10, <1>11, SameItemsInv

LEMMA TypedGame ==
    ASSUME Inv, UNCHANGED game
    PROVE  GameTyped' /\ UNCHANGED <<owner, count, soulbound, strayed, inWorld>>
BY TypeFacts DEF Inv, GameTyped, game, goods

LEMMA TradeCancelInv ==
    ASSUME Inv, NEW p \in Players, TradeCancel(p)
    PROVE  KeepsInv
<1>1. /\ Trading(p) /\ m_trade' = Ended(p) /\ UNCHANGED <<lastIndex, shown>>
      /\ UNCHANGED game
  BY DEF TradeCancel
<1>2. GameTyped' /\ UNCHANGED <<owner, count, soulbound, strayed, inWorld>>
  BY <1>1, TypedGame
<1> QED
  BY <1>1, <1>2, GameInv

LEMMA HappensFacts ==
    ASSUME Inv, Happens
    PROVE  events' \in 0 .. MaxEvents
BY TypeFacts, TradeAssumption DEF Happens, Inv, GameTyped

LEMMA LogoutInv ==
    ASSUME Inv, NEW p \in Players, Logout(p)
    PROVE  KeepsInv
<1>1. /\ p \in inWorld /\ inWorld' = inWorld \ {p} /\ events' \in 0 .. MaxEvents
      /\ UNCHANGED <<lastIndex, shown, owner, count, soulbound, inUse, enchanted, money,
                     strayed>>
      /\ m_trade' = IF Trading(p) THEN Ended(p) ELSE m_trade
  BY HappensFacts DEF Logout, goods
<1>2. GameTyped'
  BY <1>1, TypeFacts DEF Inv, GameTyped
<1>3. ~Trading(p)'
  <2>1. CASE Trading(p)
    <3>1. m_trade \in [Players -> TradeData \cup {NoTrade}] /\ Trader(p) \in Players \ {p}
      BY <2>1, TypeFacts, InvFacts DEF Inv
    <3> QED
      BY <2>1, <3>1, <1>1 DEF Ended, Trading
  <2>2. CASE ~Trading(p)
    BY <2>2, <1>1 DEF Trading
  <2> QED
    BY <2>1, <2>2
<1>4. \A r \in inWorld : Trading(r)' => r \in inWorld'
  BY <1>1, <1>3
<1> QED
  BY <1>1, <1>2, <1>4, GameInv

LEMMA LoginInv ==
    ASSUME Inv, NEW p \in Players, Login(p)
    PROVE  KeepsInv
<1>1. /\ inWorld' = inWorld \cup {p}
      /\ UNCHANGED <<m_trade, lastIndex, shown, owner, count, soulbound, inUse, enchanted,
                     money, strayed, events>>
  BY DEF Login, goods, offers
<1>2. GameTyped'
  BY <1>1, TypeFacts DEF Inv, GameTyped
<1> QED
  BY <1>1, <1>2, GameInv

LEMMA StraysFacts ==
    ASSUME Inv, NEW p \in Players \cup {Nobody}, NEW i \in Items, Strays(p, i)
    PROVE  /\ strayed' \in [Players -> SUBSET Items]
           /\ \A r \in Players : strayed[r] \subseteq strayed'[r]
           /\ p \in Players /\ Trading(p) /\ HasItem(p, i) => i \in strayed'[p]
BY TypeFacts DEF Inv, GameTyped, Strays

\* An item that leaves an offer, or comes back to it, has strayed from it.
LEMMA StraysInv ==
    ASSUME Inv, NEW p \in Players \cup {Nobody}, NEW i \in Items, Strays(p, i),
           UNCHANGED <<m_trade, lastIndex, shown>>, GameTyped',
           \A r \in Players \ {p} : owner'[i] = r <=> owner[i] = r,
           \A r \in Players \ {p} : owner[i] # r,
           \A k \in Items \ {i} : owner'[k] = owner[k] /\ count'[k] = count[k],
           UNCHANGED inWorld
    PROVE  KeepsInv
<1>1. /\ \A r \in Players : strayed[r] \subseteq strayed'[r]
      /\ p \in Players /\ Trading(p) /\ HasItem(p, i) => i \in strayed'[p]
  BY StraysFacts
<1>2. ASSUME NEW r \in Players, NEW s \in Slots, Trading(r),
             m_trade[r].items[s] \notin strayed'[r]
      PROVE  LET k == m_trade[r].items[s]
             IN  /\ k \notin strayed[r]
                 /\ k # NoItem => (owner'[k] = r <=> owner[k] = r)
                 /\ k # NoItem /\ owner[k] = r => count'[k] = count[k]
  <2> DEFINE k == m_trade[r].items[s]
  <2>1. k \in Items \cup {NoItem} /\ k \notin strayed[r]
    BY <1>1, <1>2, InvFacts DEF TradeData
  <2>2. CASE k = i
    <3>1. r # p
      BY <1>1, <1>2, <2>2 DEF HasItem
    <3> QED
      BY <2>1, <2>2, <3>1
  <2>3. CASE k # i
    BY <2>1, <2>3
  <2> QED
    BY <2>2, <2>3
<1> QED
  BY <1>2, GameInv

LEMMA LeavesInv ==
    ASSUME Inv, NEW i \in Items, Leaves(i)
    PROVE  KeepsInv
<1>1. /\ owner' = [owner EXCEPT ![i] = Nobody] /\ events' \in 0 .. MaxEvents
      /\ inUse' = inUse \ {i} /\ Strays(owner[i], i) /\ owner[i] # Nobody
      /\ UNCHANGED <<m_trade, lastIndex, shown, count, soulbound, enchanted, money, inWorld>>
  BY HappensFacts DEF Leaves, offers
<1>2. owner \in [Items -> Players \cup {Nobody}] /\ owner[i] \in Players
  BY <1>1, TypeFacts DEF Inv, GameTyped
<1>3. GameTyped'
  BY <1>1, <1>2, TypeFacts, StraysFacts DEF Inv, GameTyped
<1>4. /\ \A r \in Players \ {owner[i]} : owner'[i] = r <=> owner[i] = r
      /\ \A r \in Players \ {owner[i]} : owner[i] # r
      /\ \A k \in Items \ {i} : owner'[k] = owner[k] /\ count'[k] = count[k]
  BY <1>1, <1>2, TradeAssumption
<1> QED
  BY <1>1, <1>2, <1>3, <1>4, StraysInv

LEMMA ReturnsInv ==
    ASSUME Inv, NEW i \in Items, NEW p \in Players, NEW n \in 1 .. MaxStack, Returns(i, p, n)
    PROVE  KeepsInv
<1>1. /\ owner' = [owner EXCEPT ![i] = p] /\ count' = [count EXCEPT ![i] = n]
      /\ events' \in 0 .. MaxEvents /\ Strays(p, i) /\ owner[i] = Nobody
      /\ UNCHANGED <<m_trade, lastIndex, shown, soulbound, inUse, enchanted, money, inWorld>>
  BY HappensFacts DEF Returns, offers
<1>2. owner \in [Items -> Players \cup {Nobody}] /\ count \in Sizes
  BY TypeFacts DEF Inv, GameTyped
<1>3. count' \in Sizes
  BY <1>1, <1>2 DEF Sizes
<1>4. GameTyped'
  BY <1>1, <1>2, <1>3, TypeFacts, StraysFacts DEF Inv, GameTyped
<1>5. /\ \A r \in Players \ {p} : owner'[i] = r <=> owner[i] = r
      /\ \A r \in Players \ {p} : owner[i] # r
      /\ \A k \in Items \ {i} : owner'[k] = owner[k] /\ count'[k] = count[k]
  BY <1>1, <1>2, TradeAssumption DEF Sizes
<1> QED
  BY <1>1, <1>4, <1>5, StraysInv

LEMMA SetCountInv ==
    ASSUME Inv, NEW i \in Items, NEW n \in 1 .. MaxStack, SetCount(i, n)
    PROVE  KeepsInv
<1>0. owner \in [Items -> Players \cup {Nobody}] /\ owner[i] # Nobody
  BY TypeFacts DEF Inv, GameTyped, SetCount
<1> PICK p \in Players : owner[i] = p
  BY <1>0
<1>1. owner \in [Items -> Players \cup {Nobody}] /\ count \in Sizes /\ owner[i] = p
  BY <1>0, TypeFacts DEF Inv, GameTyped
<1>2. /\ count' = [count EXCEPT ![i] = n] /\ count' \in Sizes /\ events' \in 0 .. MaxEvents
      /\ UNCHANGED <<owner, soulbound, inUse, enchanted, money, strayed, inWorld>>
  BY <1>1, HappensFacts DEF SetCount, Sizes
<1>3. \A r \in Players, s \in Slots :
          Trading(r) /\ r # p /\ Has(r, m_trade[r].items[s]) =>
              count'[m_trade[r].items[s]] = count[m_trade[r].items[s]]
  BY <1>1, <1>2 DEF Has, Sizes
<1>4. ASSUME NEW s \in Slots, Trading(p), m_trade[p].items[s] = i,
             Become(SetItem(Offers, p, s, i, count'))
      PROVE  KeepsInv
  <2>1. \A k \in Slots : i # NoItem /\ m_trade[p].items[k] = i => k = s
    BY <1>1, <1>4 DEF Inv, TypeOK, InOneSlot
  <2>2. \A r \in Players \ {p} : ShownTrue(Offers, r, count')
    <3>1. \A r \in Players \ {p} : ShownTrue(Offers, r, count)
      BY OffersSound
    <3> SUFFICES ASSUME NEW r \in Players \ {p}, Trading(r), NEW u \in shown,
                        u.index = m_trade[r].index
                 PROVE  Shows(u.view, r, m_trade[r], count')
      BY DEF ShownTrue, Offers, Trading
    <3>2. Shows(u.view, r, m_trade[r], count)
      BY <3>1 DEF ShownTrue, Offers, Trading
    <3>3. \A k \in Slots : Has(r, m_trade[r].items[k]) =>
              count'[m_trade[r].items[k]] = count[m_trade[r].items[k]]
      BY <1>3
    <3> QED
      BY <3>2, <3>3 DEF Shows
  <2>3. /\ count' \in Sizes /\ events' \in 0 .. MaxEvents
        /\ UNCHANGED <<owner, soulbound, inUse, enchanted, money, strayed, inWorld>>
    BY <1>2
  <2> QED
    BY <2>1, <2>2, <2>3, <1>4, SetItemInv
<1>5. ASSUME ~(Trading(p) /\ HasItem(p, i)), UNCHANGED offers
      PROVE  KeepsInv
  <2>1. UNCHANGED <<m_trade, lastIndex, shown>>
    BY <1>5 DEF offers
  <2>2. GameTyped'
    BY <1>2, TypeFacts DEF Inv, GameTyped
  <2>3. \A r \in Players, s \in Slots :
            LET k == m_trade[r].items[s]
            IN  Trading(r) /\ k # NoItem /\ owner[k] = r => count'[k] = count[k]
    BY <1>1, <1>2, <1>3, <1>5 DEF Has, HasItem, Sizes
  <2> QED
    BY <2>1, <2>2, <2>3, <1>2, GameInv
<1>6. \/ /\ Trading(p)
         /\ \E s \in Slots :
               m_trade[p].items[s] = i /\ Become(SetItem(Offers, p, s, i, count'))
      \/ ~(Trading(p) /\ HasItem(p, i)) /\ UNCHANGED offers
  BY <1>1, <1>2 DEF SetCount
<1> QED
  BY <1>4, <1>5, <1>6

LEMMA BindInv ==
    ASSUME Inv, NEW i \in Items, Bind(i)
    PROVE  KeepsInv
<1>1. /\ soulbound' = soulbound \cup {i} /\ events' \in 0 .. MaxEvents
      /\ UNCHANGED <<m_trade, lastIndex, shown, owner, count, inUse, enchanted, money,
                     strayed, inWorld>>
  BY HappensFacts DEF Bind, offers
<1>2. GameTyped'
  BY <1>1, TypeFacts DEF Inv, GameTyped
<1> QED
  BY <1>1, <1>2, GameInv

LEMMA UseInv ==
    ASSUME Inv, NEW i \in Items, Use(i)
    PROVE  KeepsInv
<1>1. /\ inUse' = inUse \cup {i} /\ events' \in 0 .. MaxEvents
      /\ UNCHANGED <<m_trade, lastIndex, shown, owner, count, soulbound, enchanted, money,
                     strayed, inWorld>>
  BY HappensFacts DEF Use, offers
<1>2. GameTyped'
  BY <1>1, TypeFacts DEF Inv, GameTyped
<1> QED
  BY <1>1, <1>2, GameInv

LEMMA ReleaseInv ==
    ASSUME Inv, NEW i \in Items, Release(i)
    PROVE  KeepsInv
<1>1. /\ inUse' = inUse \ {i} /\ events' \in 0 .. MaxEvents
      /\ UNCHANGED <<m_trade, lastIndex, shown, owner, count, soulbound, enchanted, money,
                     strayed, inWorld>>
  BY TypeFacts DEF Release, offers, Inv, GameTyped
<1>2. GameTyped'
  BY <1>1, TypeFacts DEF Inv, GameTyped
<1> QED
  BY <1>1, <1>2, GameInv

LEMMA ChangeMoneyInv ==
    ASSUME Inv, NEW p \in Players, NEW amount \in 0 .. MaxMoney, ChangeMoney(p, amount)
    PROVE  KeepsInv
<1>1. /\ money' = [money EXCEPT ![p] = amount] /\ events' \in 0 .. MaxEvents
      /\ UNCHANGED <<m_trade, lastIndex, shown, owner, count, soulbound, inUse, enchanted,
                     strayed, inWorld>>
  BY HappensFacts DEF ChangeMoney, offers
<1>2. GameTyped'
  BY <1>1, TypeFacts DEF Inv, GameTyped
<1> QED
  BY <1>1, <1>2, GameInv


\* What is known where a trade is executed.
LEMMA ExecuteFacts ==
    ASSUME Inv, NEW p \in Players, NEW u \in shown, Execute(p, u),
           NEW q \in Players, q = Trader(p)
    PROVE  /\ q # p /\ Trading(p) /\ Trading(q) /\ Trader(q) = p
           /\ m_trade[p] \in TradeData /\ m_trade[q] \in TradeData
           /\ Shows(u.view, q, m_trade[q], count)
           /\ Shows(m_trade[q].saw, p, m_trade[p], count)
           /\ money \in [Players -> 0 .. MaxMoney]
           /\ money'[p] = money[p] - m_trade[p].money + m_trade[q].money
           /\ money'[q] = money[q] - m_trade[q].money + m_trade[p].money
           /\ money' \in [Players -> 0 .. MaxMoney]
<1>1. Trading(p) /\ u.index = m_trade[q].index /\ m_trade[q].accepted /\ MoneyIsRight(p)
      /\ money' = [money EXCEPT ![p] = Balance(p), ![q] = Balance(q)]
  BY DEF Execute, Decides, Current, MayTrade
<1>2. q # p /\ Trading(q) /\ Trader(q) = p
      /\ m_trade[p] \in TradeData /\ m_trade[q] \in TradeData
  BY <1>1, InvFacts
<1>3. Shows(u.view, q, m_trade[q], count)
  BY <1>1, <1>2, OffersSound DEF ShownTrue, Offers, Trading
<1>4. Shows(m_trade[q].saw, p, m_trade[p], count)
  <2>1. [index |-> m_trade[p].index, view |-> m_trade[q].saw] \in shown
    BY <1>1, <1>2, OffersSound DEF AcceptedShown, Offers, Trading, Trader
  <2> QED
    BY <2>1, <1>1, OffersSound DEF ShownTrue, Offers, Trading
<1>5. money \in [Players -> 0 .. MaxMoney] /\ MaxMoney \in Nat
  BY TypeFacts, TradeAssumption DEF Inv, GameTyped
<1>6. m_trade[p].money \in 0 .. MaxMoney /\ m_trade[q].money \in 0 .. MaxMoney
  BY <1>2 DEF TradeData
<1>7. /\ money[p] >= m_trade[p].money /\ money[q] >= m_trade[q].money
      /\ money[p] <= MaxMoney - m_trade[q].money
      /\ money[q] <= MaxMoney - m_trade[p].money
  BY <1>1, <1>2 DEF MoneyIsRight, Affords, Pays, Fits
<1>8. Balance(p) = money[p] - m_trade[p].money + m_trade[q].money
  BY <1>5, <1>6, <1>7 DEF Balance, Pay, Receive
<1>9. Balance(q) = money[q] - m_trade[q].money + m_trade[p].money
  BY <1>2, <1>5, <1>6, <1>7 DEF Balance, Pay, Receive
<1>10. Balance(p) \in 0 .. MaxMoney /\ Balance(q) \in 0 .. MaxMoney
  BY <1>5, <1>6, <1>7, <1>8, <1>9
<1>11. /\ money'[p] = Balance(p) /\ money'[q] = Balance(q)
       /\ money' \in [Players -> 0 .. MaxMoney]
  BY <1>1, <1>2, <1>5, <1>10
<1> QED
  BY <1>1, <1>2, <1>3, <1>4, <1>5, <1>8, <1>9, <1>11

LEMMA ExecuteInv ==
    ASSUME Inv, NEW p \in Players, NEW u \in shown, Execute(p, u)
    PROVE  KeepsInv
<1>0. Trading(p)
  BY DEF Execute, Decides, Current
<1> PICK q \in Players : q = Trader(p)
  BY <1>0, InvFacts
<1>1. /\ q # p /\ Trading(q) /\ Trader(q) = p
      /\ m_trade[p] \in TradeData /\ m_trade[q] \in TradeData
      /\ money' \in [Players -> 0 .. MaxMoney]
  BY ExecuteFacts
<1>2. /\ owner' = [i \in Items |-> CASE i \in Given(p) -> q
                                     [] i \in Given(q) -> p
                                     [] OTHER -> owner[i]]
      /\ enchanted' = [i \in Items |-> Enchant(p, i)]
      /\ m_trade' = Ended(p)
      /\ UNCHANGED <<lastIndex, shown, count, soulbound, inUse, strayed, inWorld, events>>
  BY DEF Execute, Ended
<1>3. /\ m_trade \in [Players -> TradeData \cup {NoTrade}]
      /\ owner \in [Items -> Players \cup {Nobody}]
      /\ enchanted \in [Items -> Spells \cup {NoSpell}]
  BY TypeFacts DEF Inv, GameTyped
<1>4. \A i \in Items : owner'[i] \in {p, q, owner[i]}
  BY <1>2
<1>5. owner' \in [Items -> Players \cup {Nobody}]
  BY <1>2, <1>3, <1>4
<1>6. enchanted' \in [Items -> Spells \cup {NoSpell}]
  BY <1>1, <1>2, <1>3 DEF Enchant, TradeData
<1>7. GameTyped'
  BY <1>1, <1>2, <1>5, <1>6, TypeFacts DEF Inv, GameTyped
<1>8. ~Trading(p)' /\ ~Trading(q)'
  BY <1>1, <1>2, <1>3 DEF Ended, Trading
<1>9. \A r \in Players, s \in Slots :
          LET i == m_trade[r].items[s]
          IN  Trading(r)' /\ Trading(r) /\ i # NoItem => (owner'[i] = r <=> owner[i] = r)
  <2>1. \A r \in Players, s \in Slots :
            Trading(r) /\ m_trade[r].items[s] # NoItem => m_trade[r].items[s] \in Items
    BY InvFacts DEF TradeData
  <2>2. \A i \in Items : owner'[i] = owner[i] \/ owner[i] \in {p, q}
    BY <1>1, <1>2 DEF Given
  <2> QED
    BY <2>1, <2>2, <1>4, <1>8
<1>10. \E r \in Players : Trading(r) /\ m_trade' = Ended(r)
  BY <1>0, <1>2
<1> QED
  BY <1>2, <1>7, <1>9, <1>10, GameInv

LEMMA BoundInv ==
    ASSUME Inv, NEW p \in Players, NEW u \in shown, Bound(p, u)
    PROVE  KeepsInv
  BY StandsInv DEF Bound, LeftUndone

LEMMA AcceptTradeInv ==
    ASSUME Inv, NEW p \in Players, NEW u \in shown, AcceptTrade(p, u)
    PROVE  KeepsInv
<1>1. CASE StateChanged(p, u)
  BY <1>1, MineUndoneInv DEF StateChanged
<1>2. CASE TooFar(p, u)
  BY <1>2, MineUndoneInv DEF TooFar, Current
<1>3. CASE MineLacksMoney(p, u)
  BY <1>3, MineUndoneInv DEF MineLacksMoney, Current
<1>4. CASE HisLacksMoney(p, u)
  BY <1>4, HisUndoneInv DEF HisLacksMoney
<1>5. CASE MineTooMuch(p, u)
  BY <1>5, MineUndoneInv DEF MineTooMuch, Current
<1>6. CASE HisTooMuch(p, u)
  BY <1>6, HisUndoneInv DEF HisTooMuch
<1>7. CASE Bound(p, u)
  BY <1>7, BoundInv
<1>8. CASE AcceptFirst(p, u)
  BY <1>8, StandsInv DEF AcceptFirst
<1>9. CASE MySpellFails(p, u)
  <2>1. Current(p, u) /\ Casts(p) /\ UNCHANGED game
        /\ Become(SetSpell(AcceptedOffers(p, u), p, NoSpell, count))
    BY <1>9 DEF MySpellFails, Decides
  <2> QED
    BY <2>1, SpellFailsInv
<1>10. CASE HisSpellFails(p, u)
  <2>1. Current(p, u) /\ Casts(Trader(p)) /\ UNCHANGED game
        /\ Become(SetSpell(AcceptedOffers(p, u), Trader(p), NoSpell, count))
    BY <1>10 DEF HisSpellFails, Decides
  <2> QED
    BY <2>1, SpellFailsInv
<1>11. CASE NoRoom(p, u)
  BY <1>11, NoRoomInv
<1>12. CASE Execute(p, u)
  BY <1>12, ExecuteInv
<1> QED
  BY <1>1, <1>2, <1>3, <1>4, <1>5, <1>6, <1>7, <1>8, <1>9, <1>10, <1>11, <1>12
     DEF AcceptTrade

LEMMA StutterInv ==
    ASSUME Inv, UNCHANGED vars
    PROVE  KeepsInv
<1>1. UNCHANGED <<m_trade, lastIndex, shown, owner, count, soulbound, inUse, enchanted, money,
                  strayed, inWorld, events>>
  BY DEF vars, offers, game, goods
<1>2. GameTyped'
  BY <1>1, TypeFacts DEF Inv, GameTyped
<1> QED
  BY <1>1, <1>2, GameInv

LEMMA NextInv == Inv /\ [Next]_vars => KeepsInv
<1> SUFFICES ASSUME Inv, [Next]_vars PROVE KeepsInv
  OBVIOUS
<1>1. ASSUME NEW p \in Players, PlayerNext(p)
      PROVE  KeepsInv
  <2>1. ASSUME NEW q \in Players, InitiateTrade(p, q) PROVE KeepsInv
    BY <2>1, InitiateTradeInv
  <2>2. ASSUME NEW s \in Slots, NEW i \in Items, SetTradeItem(p, s, i) PROVE KeepsInv
    BY <2>2, SetTradeItemInv
  <2>3. ASSUME NEW s \in Slots, ClearTradeItem(p, s) PROVE KeepsInv
    BY <2>3, ClearTradeItemInv
  <2>4. ASSUME NEW amount \in 0 .. MaxMoney, SetTradeGold(p, amount) PROVE KeepsInv
    BY <2>4, SetTradeGoldInv
  <2>5. ASSUME NEW spell \in Spells, CastOnTrade(p, spell) PROVE KeepsInv
    BY <2>5, CastOnTradeInv
  <2>6. CASE UnacceptTrade(p)
    BY <2>6, UnacceptTradeInv
  <2>7. ASSUME NEW u \in shown, AcceptTrade(p, u) PROVE KeepsInv
    BY <2>7, AcceptTradeInv
  <2>8. CASE TradeCancel(p)
    BY <2>8, TradeCancelInv
  <2>9. CASE Logout(p)
    BY <2>9, LogoutInv
  <2>10. CASE Login(p)
    BY <2>10, LoginInv
  <2>11. ASSUME NEW amount \in 0 .. MaxMoney, ChangeMoney(p, amount) PROVE KeepsInv
    BY <2>11, ChangeMoneyInv
  <2> QED
    BY <1>1, <2>1, <2>2, <2>3, <2>4, <2>5, <2>6, <2>7, <2>8, <2>9, <2>10, <2>11
       DEF PlayerNext
<1>2. ASSUME NEW i \in Items, ItemNext(i)
      PROVE  KeepsInv
  <2>1. CASE Leaves(i)
    BY <2>1, LeavesInv
  <2>2. ASSUME NEW p \in Players, NEW n \in 1 .. MaxStack, Returns(i, p, n) PROVE KeepsInv
    BY <2>2, ReturnsInv
  <2>3. ASSUME NEW n \in 1 .. MaxStack, SetCount(i, n) PROVE KeepsInv
    BY <2>3, SetCountInv
  <2>4. CASE Bind(i)
    BY <2>4, BindInv
  <2>5. CASE Use(i)
    BY <2>5, UseInv
  <2>6. CASE Release(i)
    BY <2>6, ReleaseInv
  <2> QED
    BY <1>2, <2>1, <2>2, <2>3, <2>4, <2>5, <2>6 DEF ItemNext
<1>3. CASE UNCHANGED vars
  BY <1>3, StutterInv
<1> QED
  BY <1>1, <1>2, <1>3 DEF Next

-----------------------------------------------------------------------------
(* The results.                                                            *)

LEMMA Invariance == Spec => []Inv
<1>1. Inv /\ [Next]_vars => Inv'
  BY NextInv DEF KeepsInv
<1> QED
  BY <1>1, InitInv, PTL DEF Spec

(* Offers keep their types, and an item is in one slot of them at most,    *)
(* whatever the clients send.                                              *)
THEOREM TradeTypeCorrect == Spec => []TypeOK
<1>1. Inv => TypeOK
  BY DEF Inv
<1> QED
  BY <1>1, Invariance, PTL

(* The pointer to the trader always leads to a player in the world who     *)
(* trades with the one it is followed from.                                *)
THEOREM TradersArePaired == Spec => []TradeIsMutual
<1>1. Inv => TradeIsMutual
  BY DEF Inv
<1> QED
  BY <1>1, Invariance, PTL

(* Two acceptances come to stand side by side, without the trade, only     *)
(* where an offered item cannot be traded at that moment, and while they   *)
(* do neither offer changes.                                               *)
THEOREM DealsAreDone == Spec => NoForgottenDeal
<1>1. Inv /\ [Next]_vars => DealStep
  BY NextInv DEF KeepsInv
<1> HIDE DEF DealStep
<1>2. Spec => [][DealStep]_vars
  BY <1>1, Invariance, PTL DEF Spec
<1> QED
  BY <1>2 DEF NoForgottenDeal, DealStep

\* What is shown of an item that stayed is in its slot, and is shown as it is.
LEMMA ShownItem ==
    ASSUME Inv, NEW s \in Players, Trading(s), NEW v, Shows(v, s, m_trade[s], count),
           NEW i \in Stayed(s), NEW k \in Slots
    PROVE  /\ \A n \in 1 .. MaxStack : v.items[k] = <<i, n>> =>
                 n = count[i] /\ owner[i] = s /\ m_trade[s].items[k] = i
           /\ owner[i] = s /\ m_trade[s].items[k] = i => v.items[k] = <<i, count[i]>>
<1> DEFINE d == m_trade[s]
<1>1. i \in Items /\ i \notin strayed[s]
  BY DEF Stayed
<1>2. ASSUME NEW n \in 1 .. MaxStack, v.items[k] = <<i, n>>
      PROVE  n = count[i] /\ owner[i] = s /\ d.items[k] = i
  <2>1. v.items[k] # NoItem
    BY <1>1, <1>2, TradeAssumption
  <2>2. PICK m \in 1 .. MaxStack : v.items[k] = <<d.items[k], m>>
    BY <2>1 DEF Shows
  <2>3. d.items[k] = <<d.items[k], m>>[1] /\ i = <<i, n>>[1]
    OBVIOUS
  <2>4. d.items[k] = i
    BY <1>2, <2>2, <2>3
  <2>5. v.items[k] = IF Has(s, i) THEN <<i, count[i]>> ELSE NoItem
    BY <1>1, <2>4 DEF Shows
  <2>6. Has(s, i) /\ <<i, n>> = <<i, count[i]>>
    BY <1>2, <2>1, <2>5
  <2>7. n = <<i, n>>[2] /\ count[i] = <<i, count[i]>>[2]
    OBVIOUS
  <2> QED
    BY <2>4, <2>6, <2>7 DEF Has
<1>3. owner[i] = s /\ d.items[k] = i => v.items[k] = <<i, count[i]>>
  BY <1>1, TradeAssumption DEF Shows, Has
<1> QED
  BY <1>2, <1>3

LEMMA WhatIsReceived ==
    ASSUME Inv, NEW s \in Players, Trading(s), NEW v, Shows(v, s, m_trade[s], count),
           NEW r, \A i \in Items : owner[i] = s /\ owner'[i] = r <=> i \in Given(s),
           count' = count
    PROVE  ReceivedAsShown(r, s, v)
<1>1. \A i \in Stayed(s) : i \in Items /\ count[i] \in 1 .. MaxStack
  BY TypeFacts DEF Inv, GameTyped, Sizes, Stayed
<1>2. ASSUME NEW i \in Stayed(s)
      PROVE  owner[i] = s /\ owner'[i] = r <=> Shown(i, v, TradedSlots)
  <2>1. i \in Given(s) <=> \E k \in TradedSlots : owner[i] = s /\ m_trade[s].items[k] = i
    BY <1>1 DEF Given
  <2>2. \A k \in TradedSlots :
            owner[i] = s /\ m_trade[s].items[k] = i <=> v.items[k] = <<i, count[i]>>
    BY <1>1, ShownItem DEF Slots
  <2> QED
    BY <1>1, <2>1, <2>2 DEF Shown
<1>3. \A k \in TradedSlots, i \in Stayed(s), n \in 1 .. MaxStack :
          v.items[k] = <<i, n>> => n = count'[i]
  BY ShownItem DEF Slots
<1> QED
  BY <1>2, <1>3 DEF ReceivedAsShown

LEMMA WhatIsCast ==
    ASSUME Inv, NEW s \in Players, Trading(s), NEW v, Shows(v, s, m_trade[s], count),
           NEW spell, count' = count,
           \A i \in Items : owner[i] = s =>
               enchanted'[i] = IF spell # NoSpell /\ m_trade[s].items[NonTraded] = i
                                 THEN spell ELSE enchanted[i]
    PROVE  CastAsShown(s, spell, v)
<1> SUFFICES ASSUME NEW i \in Stayed(s), owner[i] = s
             PROVE  m_trade[s].items[NonTraded] = i <=> Shown(i, v, {NonTraded})
  BY DEF CastAsShown, Stayed
<1>1. i \in Items /\ count[i] \in 1 .. MaxStack
  BY TypeFacts DEF Inv, GameTyped, Sizes, Stayed
<1> QED
  BY <1>1, ShownItem DEF Shown, Slots

LEMMA ExecutionAsShown ==
    ASSUME Inv, NEW p \in Players, NEW u \in shown, Execute(p, u)
    PROVE  AsShown(p, u)
<1>0. Trading(p)
  BY DEF Execute, Decides, Current
<1> PICK q \in Players : q = Trader(p)
  BY <1>0, InvFacts
<1> DEFINE mine == u.view
           his == m_trade[q].saw
<1>1. /\ q # p /\ Trader(q) = p /\ Trading(q)
      /\ m_trade[p] \in TradeData /\ m_trade[q] \in TradeData
      /\ Shows(mine, q, m_trade[q], count)
      /\ Shows(his, p, m_trade[p], count)
      /\ money \in [Players -> 0 .. MaxMoney]
      /\ money'[p] = money[p] - m_trade[p].money + m_trade[q].money
      /\ money'[q] = money[q] - m_trade[q].money + m_trade[p].money
  BY ExecuteFacts
<1>2. /\ owner' = [i \in Items |-> CASE i \in Given(p) -> q
                                     [] i \in Given(q) -> p
                                     [] OTHER -> owner[i]]
      /\ enchanted' = [i \in Items |-> Enchant(p, i)]
      /\ count' = count
  BY DEF Execute
<1>3. NoItem \notin Items
  BY TradeAssumption
<1> HIDE DEF mine, his
<1>4. mine.money = m_trade[q].money /\ his.money = m_trade[p].money
      /\ mine.spell = m_trade[q].spell /\ his.spell = m_trade[p].spell
  BY <1>1 DEF Shows
<1>5. /\ money'[p] = money[p] + mine.money - his.money
      /\ money'[q] = money[q] + his.money - mine.money
  <2>1. /\ m_trade[p].money \in Int /\ m_trade[q].money \in Int
        /\ money[p] \in Int /\ money[q] \in Int
    BY <1>1, TradeAssumption DEF TradeData
  <2> QED
    BY <1>1, <1>4, <2>1
<1>6. \A i \in Items : ~(i \in Given(p) /\ i \in Given(q))
  BY <1>1 DEF Given
<1>7. ReceivedAsShown(p, q, mine)
  <2>1. \A i \in Items : owner[i] = q /\ owner'[i] = p <=> i \in Given(q)
    BY <1>1, <1>2, <1>6 DEF Given
  <2> QED
    BY <1>1, <1>2, <2>1, WhatIsReceived
<1>8. ReceivedAsShown(q, p, his)
  <2>1. \A i \in Items : owner[i] = p /\ owner'[i] = q <=> i \in Given(p)
    BY <1>1, <1>2, <1>6 DEF Given
  <2> QED
    BY <1>0, <1>1, <1>2, <2>1, WhatIsReceived
<1>9. CastAsShown(p, mine.spell, his)
  <2>1. \A i \in Items : owner[i] = p =>
            enchanted'[i] = IF mine.spell # NoSpell /\ m_trade[p].items[NonTraded] = i
                              THEN mine.spell ELSE enchanted[i]
    BY <1>1, <1>2, <1>3, <1>4 DEF Enchant, Casts, Target, GetItem, Has
  <2> QED
    BY <1>0, <1>1, <1>2, <2>1, WhatIsCast
<1>10. CastAsShown(q, his.spell, mine)
  <2>1. \A i \in Items : owner[i] = q =>
            enchanted'[i] = IF his.spell # NoSpell /\ m_trade[q].items[NonTraded] = i
                              THEN his.spell ELSE enchanted[i]
    BY <1>1, <1>2, <1>3, <1>4 DEF Enchant, Casts, Target, GetItem, Has
  <2> QED
    BY <1>1, <1>2, <2>1, WhatIsCast
<1>11. \A i \in Items : owner'[i] # owner[i] => {owner[i], owner'[i]} = {p, q}
  BY <1>1, <1>2 DEF Given
<1> QED
  BY <1>5, <1>7, <1>8, <1>9, <1>10, <1>11 DEF AsShown, mine, his

(* However late the clients are and whatever the game does between the two *)
(* acceptances, a trade moves the money, the spells and, of the items that *)
(* stayed in the bags all the time, exactly what both players saw.         *)
THEOREM TradedAsShown == Spec => ExecutedAsShown
<1> DEFINE Step == \A p \in Players, u \in shown : Execute(p, u) => AsShown(p, u)
<1>1. Inv => Step
  BY ExecutionAsShown
<1> HIDE DEF Step
<1>2. Spec => [][Step]_vars
  BY <1>1, Invariance, PTL
<1> QED
  BY <1>2 DEF ExecutedAsShown, Step
=============================================================================
