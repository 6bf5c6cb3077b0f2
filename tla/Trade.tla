-------------------------------- MODULE Trade --------------------------------
(***************************************************************************)
(* Trades of two players (TradeHandler.cpp, TradeData.cpp): each offers    *)
(* items, money and a spell for an item of the other, and accepts what its *)
(* client shows.  A handler runs as a whole on the world thread; between   *)
(* two handlers the game takes items, changes stacks and money, and the    *)
(* players come and go.                                                    *)
(*                                                                         *)
(* The clients are late: an update of an offer is on its way to one while  *)
(* its acceptance of an older state is on the way to the server.  shown is *)
(* what was sent of the states in use, and an acceptance names any of them *)
(* or another.  What a player saw is remembered with its acceptance.       *)
(* A history variable, strayed, tells which offered items have not been in *)
(* the bags all the time.                                                  *)
(***************************************************************************)
EXTENDS Integers, FiniteSets

CONSTANTS
    Players, Items, Spells,
    TradedSlots,    \* the slots below TRADE_SLOT_TRADED_COUNT
    NonTraded,      \* TRADE_SLOT_NONTRADED
    NoTrade, NoItem, NoSpell, Nobody,   \* null pointers and empty GUIDs
    Owner,          \* whose the items are at first
    MaxMoney,       \* MAX_MONEY_AMOUNT
    MaxStack,       \* items in a stack
    Capacity,       \* stacks a player can carry
    MaxIndex,       \* bound: states of offers
    MaxEvents       \* bound: what else happens in the game

Slots == TradedSlots \cup {NonTraded}

ASSUME TradeAssumption ==
    /\ NonTraded \notin TradedSlots
    /\ NoItem \notin Items \cup (Items \X (1 .. MaxStack))
    /\ NoSpell \notin Spells
    /\ Nobody \notin Players
    /\ Owner \in [Items -> Players]
    /\ MaxMoney \in Nat
    /\ MaxStack \in Nat \ {0}
    /\ Capacity \in Nat
    /\ MaxIndex \in Nat \ {0}
    /\ MaxEvents \in Nat

View == [items : [Slots -> {NoItem} \cup (Items \X (1 .. MaxStack))],
         money : 0 .. MaxMoney, spell : Spells \cup {NoSpell}]
TradeData == [trader : Players, accepted : BOOLEAN, saw : View, money : 0 .. MaxMoney,
              spell : Spells \cup {NoSpell}, items : [Slots -> Items \cup {NoItem}],
              index : Nat \ {0}]

ASSUME NoTradeAssumption == NoTrade \notin TradeData

VARIABLES
    m_trade,    \* TradeData of each player, or NoTrade
    lastIndex,  \* the newest of the m_serverStateIndex ever drawn
    shown,      \* the updates sent, [index, view]
    owner,      \* who has an item in its bags
    count,      \* the size of a stack
    soulbound,  \* items that can no more be traded
    inUse,      \* items equipped, bags with contents, items being looted
    enchanted,  \* the spell cast on an item
    money,
    strayed,    \* history: items that left an offer of a player, or came back to it
    inWorld,    \* players in the world
    events      \* what else may happen

offers == <<m_trade, lastIndex, shown>>
goods == <<owner, count, soulbound, inUse, enchanted, money>>
game == <<goods, strayed, inWorld, events>>
vars == <<offers, game>>

Trading(p) == m_trade[p] # NoTrade
Trader(p) == m_trade[p].trader

NothingOffered == [s \in Slots |-> NoItem]
EmptyView == [items |-> NothingOffered, money |-> 0, spell |-> NoSpell]

\* the constructor: every trade begins with state 1 of both offers
NewTrade(q) ==
    [trader |-> q, accepted |-> FALSE, saw |-> EmptyView, money |-> 0,
     spell |-> NoSpell, items |-> NothingOffered, index |-> 1]

Init ==
    /\ m_trade = [p \in Players |-> NoTrade]
    /\ lastIndex = 1
    /\ shown = {[index |-> 1, view |-> EmptyView]}
    /\ owner = Owner
    /\ count = [i \in Items |-> MaxStack]
    /\ soulbound = {}
    /\ inUse = {}
    /\ enchanted = [i \in Items |-> NoSpell]
    /\ money = [p \in Players |-> (MaxMoney + 1) \div 2]
    /\ strayed = [p \in Players |-> {}]
    /\ inWorld = Players
    /\ events = MaxEvents

-----------------------------------------------------------------------------
(* TradeData.  The members change a triple of the trades, the newest index *)
(* and the updates sent; an item is where its owner has it, so one that    *)
(* has left the bags is silently gone from the offer, and silently in it   *)
(* again when it comes back.                                               *)

Has(p, i) == i # NoItem /\ owner[i] = p

GetItem(p, t, s) == IF Has(p, t[p].items[s]) THEN t[p].items[s] ELSE NoItem

\* SendUpdateTrade
ViewOf(p, t, sizes) ==
    [items |-> [s \in Slots |->
                   IF Has(p, t[p].items[s]) THEN <<t[p].items[s], sizes[t[p].items[s]]>>
                                            ELSE NoItem],
     money |-> t[p].money, spell |-> t[p].spell]

\* SetAccepted(false)
Withdraw(t, p) == [t EXCEPT ![p].accepted = FALSE, ![p].saw = EmptyView]

Unaccept(t, p) == Withdraw(Withdraw(t, p), t[p].trader)

\* mutant: a change that keeps the index of the state
KeepStateIndex(T, p) == T.trades[p].index

\* rand32 is taken to draw a state that was not in use before
UpdateServerStateIndex(T, p) == T.last + 1

\* Both acceptances are withdrawn, the state gets a new index and is sent.
Update(T, p, sizes) ==
    LET i == UpdateServerStateIndex(T, p)
        t == [Unaccept(T.trades, p) EXCEPT ![p].index = i]
    IN  [trades |-> t, last |-> i,
         sent |-> T.sent \cup {[index |-> i, view |-> ViewOf(p, t, sizes)]}]

SetSpell(T, p, spell, sizes) ==
    IF T.trades[p].spell = spell THEN T
    ELSE Update([T EXCEPT !.trades = [T.trades EXCEPT ![p].spell = spell]], p, sizes)

\* The change of an offered item takes back the spells it may disturb.
SetItem(T, p, s, i, sizes) ==
    LET put == Update([T EXCEPT !.trades = [T.trades EXCEPT ![p].items[s] = i]], p, sizes)
        his == IF s = NonTraded THEN SetSpell(put, T.trades[p].trader, NoSpell, sizes)
                                ELSE put
    IN  SetSpell(his, p, NoSpell, sizes)

SetMoney(T, p, amount, sizes) ==
    Update([T EXCEPT !.trades = [T.trades EXCEPT ![p].money = amount]], p, sizes)

Offers == [trades |-> m_trade, last |-> lastIndex, sent |-> shown]

\* An acceptance of a state that is gone is refused, whatever it showed.
Standing(T, u) ==
    u.index = 1 \/ \E p \in Players : T.trades[p] # NoTrade /\ T.trades[p].index = u.index

Become(T) ==
    /\ T.last <= MaxIndex
    /\ m_trade' = T.trades
    /\ lastIndex' = T.last
    /\ shown' = {u \in T.sent : Standing(T, u)}

-----------------------------------------------------------------------------
(* Beginning and changing a trade.                                         *)

\* mutant: the other may be trading already
AlwaysAvailable(q) == q \in Players

Available(q) == ~Trading(q)

\* the other checks of the handler choose who may begin a trade at all
InitiateTrade(p, q) ==
    /\ {p, q} \subseteq inWorld
    /\ p # q
    /\ ~Trading(p)
    /\ Available(q)
    /\ m_trade' = [m_trade EXCEPT ![p] = NewTrade(q), ![q] = NewTrade(p)]
    /\ strayed' = [strayed EXCEPT ![p] = {}, ![q] = {}]
    /\ UNCHANGED <<lastIndex, shown, goods, inWorld, events>>

\* mutant: only the traded slots are searched
HasItemToTrade(p, i) == \E s \in TradedSlots : m_trade[p].items[s] = i

HasItem(p, i) == \E s \in Slots : m_trade[p].items[s] = i

\* CanBeTraded and IsBindedNotWith: what is bound stays so, use ends
CanBeTraded(i) == i \notin soulbound \cup inUse

SetTradeItem(p, s, i) ==
    /\ Trading(p)
    /\ owner[i] = p
    /\ s # NonTraded => CanBeTraded(i)
    /\ ~HasItem(p, i)
    /\ Become(SetItem(Offers, p, s, i, count))
    /\ UNCHANGED game

ClearTradeItem(p, s) ==
    /\ Trading(p)
    /\ m_trade[p].items[s] # NoItem
    /\ Become(SetItem(Offers, p, s, NoItem, count))
    /\ UNCHANGED game

SetTradeGold(p, amount) ==
    /\ Trading(p)
    /\ amount # m_trade[p].money
    /\ amount <= money[p]
    /\ Become(SetMoney(Offers, p, amount, count))
    /\ UNCHANGED game

\* Spell::cast: a spell for the trade is remembered until it is done
CastOnTrade(p, spell) ==
    /\ Trading(p)
    /\ m_trade[p].spell = NoSpell
    /\ GetItem(Trader(p), m_trade, NonTraded) # NoItem
    /\ Become(SetSpell(Offers, p, spell, count))
    /\ UNCHANGED game

UnacceptTrade(p) ==
    /\ Trading(p)
    /\ m_trade' = Withdraw(m_trade, p)
    /\ UNCHANGED <<lastIndex, shown, game>>

-----------------------------------------------------------------------------
(* Accepting.  The checks come in this order; the first that fails ends    *)
(* the handler, and takes back what the comment at line 238 calls "set     *)
(* before checks", or does not.                                            *)

\* SetAccepted(true), by the client that shows u
Accepting(p, u) == [m_trade EXCEPT ![p].accepted = TRUE, ![p].saw = u.view]

Current(p, u) == Trading(p) /\ m_trade[Trader(p)].index = u.index

Refused(t) ==
    /\ m_trade' = t
    /\ UNCHANGED <<lastIndex, shown, game>>

\* the state has changed, or the players are too far from each other
StateChanged(p, u) ==
    /\ Trading(p)
    /\ m_trade[Trader(p)].index # u.index
    /\ Refused(Withdraw(Accepting(p, u), p))

TooFar(p, u) ==
    /\ Current(p, u)
    /\ Refused(Withdraw(Accepting(p, u), p))

Pays(p) == money[p] >= m_trade[p].money

Affords(p) == Pays(p) /\ Pays(Trader(p))

MineLacksMoney(p, u) ==
    /\ Current(p, u)
    /\ ~Pays(p)
    /\ Refused(Withdraw(Accepting(p, u), p))

\* mutant: the other keeps its acceptance
HisLacksMoneyOnly(p, u) ==
    /\ Current(p, u)
    /\ Pays(p)
    /\ ~Pays(Trader(p))
    /\ Refused(Accepting(p, u))

HisLacksMoney(p, u) ==
    /\ Current(p, u)
    /\ Pays(p)
    /\ ~Pays(Trader(p))
    /\ Refused(Withdraw(Accepting(p, u), Trader(p)))

\* a player cannot hold what the other pays
Fits(p) == money[p] <= MaxMoney - m_trade[Trader(p)].money

MineTooMuch(p, u) ==
    /\ Current(p, u)
    /\ Affords(p)
    /\ ~Fits(p)
    /\ Refused(Withdraw(Accepting(p, u), p))

HisTooMuch(p, u) ==
    /\ Current(p, u)
    /\ Affords(p)
    /\ Fits(p)
    /\ ~Fits(Trader(p))
    /\ Refused(Withdraw(Accepting(p, u), Trader(p)))

MoneyIsRight(p) == Affords(p) /\ Fits(p) /\ Fits(Trader(p))

\* the items of its offer a player still has
Given(p) ==
    {i \in Items : owner[i] = p /\ \E s \in TradedSlots : m_trade[p].items[s] = i}

AllTradeable(p) == \A i \in Given(p) \cup Given(Trader(p)) : CanBeTraded(i)

\* an item offered cannot be traded now: the handler returns, and undoes nothing
Bound(p, u) ==
    /\ Current(p, u)
    /\ MoneyIsRight(p)
    /\ ~AllTradeable(p)
    /\ Refused(Accepting(p, u))

MayTrade(p) == MoneyIsRight(p) /\ AllTradeable(p)

\* the first acceptance of the two
AcceptFirst(p, u) ==
    /\ Current(p, u)
    /\ MayTrade(p)
    /\ ~m_trade[Trader(p)].accepted
    /\ Refused(Accepting(p, u))

-----------------------------------------------------------------------------
(* The second acceptance executes the trade.                               *)

Decides(p, u) ==
    /\ Current(p, u)
    /\ MayTrade(p)
    /\ m_trade[Trader(p)].accepted

AcceptedOffers(p, u) == [Offers EXCEPT !.trades = Accepting(p, u)]

\* what the spell of a player is cast on
Target(p) == GetItem(Trader(p), m_trade, NonTraded)

Casts(p) == m_trade[p].spell # NoSpell

\* the item is gone, or CheckCast fails: the spell is taken back
MySpellFails(p, u) ==
    /\ Decides(p, u)
    /\ Casts(p)
    /\ Become(SetSpell(AcceptedOffers(p, u), p, NoSpell, count))
    /\ UNCHANGED game

HisSpellFails(p, u) ==
    /\ Decides(p, u)
    /\ Casts(p) => Target(p) # NoItem
    /\ Casts(Trader(p))
    /\ Become(SetSpell(AcceptedOffers(p, u), Trader(p), NoSpell, count))
    /\ UNCHANGED game

SpellsReady(p) ==
    /\ Casts(p) => Target(p) # NoItem
    /\ Casts(Trader(p)) => Target(Trader(p)) # NoItem

Carried(p) == {i \in Items : owner[i] = p}

\* what is received takes the room of what is given, one slot for a stack
CanStoreItems(p) ==
    \/ Given(Trader(p)) = {}
    \/ Cardinality((Carried(p) \ Given(p)) \cup Given(Trader(p))) <= Capacity

NoRoom(p, u) ==
    /\ Decides(p, u)
    /\ SpellsReady(p)
    /\ ~(CanStoreItems(p) /\ CanStoreItems(Trader(p)))
    /\ Refused(Unaccept(Accepting(p, u), p))

\* what every item is enchanted with, after the spells of both
Enchant(p, i) ==
    IF Casts(p) /\ i = Target(p) THEN m_trade[p].spell
    ELSE IF Casts(Trader(p)) /\ i = Target(Trader(p)) THEN m_trade[Trader(p)].spell
    ELSE enchanted[i]

\* ModifyMoney with a negative and with a positive amount
Pay(m, amount) == IF m > amount THEN m - amount ELSE 0
Receive(m, amount) == IF m <= MaxMoney - amount THEN m + amount ELSE m

Balance(p) == Receive(Pay(money[p], m_trade[p].money), m_trade[Trader(p)].money)

Execute(p, u) ==
    LET q == Trader(p)
    IN  /\ Decides(p, u)
        /\ SpellsReady(p)
        /\ CanStoreItems(p)
        /\ CanStoreItems(q)
        /\ owner' = [i \in Items |-> CASE i \in Given(p) -> q
                                       [] i \in Given(q) -> p
                                       [] OTHER -> owner[i]]
        /\ money' = [money EXCEPT ![p] = Balance(p), ![q] = Balance(q)]
        /\ enchanted' = [i \in Items |-> Enchant(p, i)]
        /\ m_trade' = [m_trade EXCEPT ![p] = NoTrade, ![q] = NoTrade]
        /\ UNCHANGED <<lastIndex, shown, count, soulbound, inUse, strayed, inWorld, events>>

AcceptTrade(p, u) ==
    \/ StateChanged(p, u)
    \/ TooFar(p, u)
    \/ MineLacksMoney(p, u)
    \/ HisLacksMoney(p, u)
    \/ MineTooMuch(p, u)
    \/ HisTooMuch(p, u)
    \/ Bound(p, u)
    \/ AcceptFirst(p, u)
    \/ MySpellFails(p, u)
    \/ HisSpellFails(p, u)
    \/ NoRoom(p, u)
    \/ Execute(p, u)

-----------------------------------------------------------------------------
(* The rest of the game, as often as the bound allows.                     *)

Happens == events > 0 /\ events' = events - 1

\* TradeCancel, by the client or a flight
Ended(p) == [m_trade EXCEPT ![p] = NoTrade, ![Trader(p)] = NoTrade]

TradeCancel(p) ==
    /\ Trading(p)
    /\ m_trade' = Ended(p)
    /\ UNCHANGED <<lastIndex, shown, game>>

\* Player::CleanupsBeforeDelete cancels as well
Logout(p) ==
    /\ Happens
    /\ p \in inWorld
    /\ inWorld' = inWorld \ {p}
    /\ m_trade' = IF Trading(p) THEN Ended(p) ELSE m_trade
    /\ UNCHANGED <<lastIndex, shown, goods, strayed>>

Login(p) ==
    /\ p \notin inWorld
    /\ inWorld' = inWorld \cup {p}
    /\ UNCHANGED <<offers, goods, strayed, events>>

Strays(p, i) ==
    strayed' = [strayed EXCEPT
        ![p] = IF Trading(p) /\ HasItem(p, i) THEN @ \cup {i} ELSE @]

\* an item is used up, destroyed, sold, sent away or put into a guild bank
Leaves(i) ==
    /\ Happens
    /\ owner[i] # Nobody
    /\ owner' = [owner EXCEPT ![i] = Nobody]
    /\ inUse' = inUse \ {i}
    /\ Strays(owner[i], i)
    /\ UNCHANGED <<offers, count, soulbound, enchanted, money, inWorld>>

\* the same item is bought back, or taken from the bank, perhaps the rest of it
Returns(i, p, n) ==
    /\ Happens
    /\ owner[i] = Nobody
    /\ n <= count[i]
    /\ Cardinality(Carried(p)) < Capacity
    /\ owner' = [owner EXCEPT ![i] = p]
    /\ count' = [count EXCEPT ![i] = n]
    /\ Strays(p, i)
    /\ UNCHANGED <<offers, soulbound, inUse, enchanted, money, inWorld>>

\* Item::SetCount refreshes the offer the stack is in
SetCount(i, n) ==
    LET p == owner[i]
        sizes == [count EXCEPT ![i] = n]
        InSlot(s) == m_trade[p].items[s] = i
    IN  /\ Happens
        /\ p # Nobody
        /\ n # count[i]
        /\ count' = sizes
        /\ \/ /\ Trading(p)
              /\ \E s \in Slots :
                    InSlot(s) /\ Become(SetItem(Offers, p, s, i, sizes))
           \/ /\ ~(Trading(p) /\ HasItem(p, i))
              /\ UNCHANGED offers
        /\ UNCHANGED <<owner, soulbound, inUse, enchanted, money, strayed, inWorld>>

\* an item is equipped, opened or enchanted so that it is bound
Bind(i) ==
    /\ Happens
    /\ soulbound' = soulbound \cup {i}
    /\ UNCHANGED <<offers, owner, count, inUse, enchanted, money, strayed, inWorld>>

\* a bag is equipped or filled, an item opened to be looted, or a fight begins
\* in which it cannot be taken off
Use(i) ==
    /\ Happens
    /\ owner[i] # Nobody
    /\ inUse' = inUse \cup {i}
    /\ UNCHANGED <<offers, owner, count, soulbound, enchanted, money, strayed, inWorld>>

Release(i) ==
    /\ i \in inUse
    /\ inUse' = inUse \ {i}
    /\ UNCHANGED <<offers, owner, count, soulbound, enchanted, money, strayed, inWorld, events>>

\* loot, repairs, auctions
ChangeMoney(p, amount) ==
    /\ Happens
    /\ money' = [money EXCEPT ![p] = amount]
    /\ UNCHANGED <<offers, owner, count, soulbound, inUse, enchanted, strayed, inWorld>>

PlayerNext(p) ==
    \/ \E q \in Players : InitiateTrade(p, q)
    \/ \E s \in Slots, i \in Items : SetTradeItem(p, s, i)
    \/ \E s \in Slots : ClearTradeItem(p, s)
    \/ \E amount \in 0 .. MaxMoney : SetTradeGold(p, amount)
    \/ \E spell \in Spells : CastOnTrade(p, spell)
    \/ UnacceptTrade(p)
    \/ \E u \in shown : AcceptTrade(p, u)
    \/ TradeCancel(p)
    \/ Logout(p)
    \/ Login(p)
    \/ \E amount \in 0 .. MaxMoney : ChangeMoney(p, amount)

ItemNext(i) ==
    \/ Leaves(i)
    \/ \E p \in Players, n \in 1 .. MaxStack : Returns(i, p, n)
    \/ \E n \in 1 .. MaxStack : SetCount(i, n)
    \/ Bind(i)
    \/ Use(i)
    \/ Release(i)

Next == (\E p \in Players : PlayerNext(p)) \/ (\E i \in Items : ItemNext(i))

Spec == Init /\ [][Next]_vars

-----------------------------------------------------------------------------
(* Properties                                                              *)

(* Types; and an item is in one slot of an offer at most, however the      *)
(* client sends it (TradeHandler.cpp:727).                                 *)
InOneSlot(d) ==
    \A s, k \in Slots : d.items[s] # NoItem /\ d.items[s] = d.items[k] => s = k

TypeOK ==
    /\ m_trade \in [Players -> TradeData \cup {NoTrade}]
    /\ \A p \in Players : Trading(p) =>
          m_trade[p].index <= MaxIndex /\ InOneSlot(m_trade[p])
    /\ lastIndex \in 1 .. MaxIndex
    /\ shown \subseteq [index : 1 .. MaxIndex, view : View]
    /\ owner \in [Items -> Players \cup {Nobody}]
    /\ count \in [Items -> 1 .. MaxStack]
    /\ soulbound \subseteq Items
    /\ inUse \subseteq Items
    /\ enchanted \in [Items -> Spells \cup {NoSpell}]
    /\ money \in [Players -> 0 .. MaxMoney]
    /\ strayed \in [Players -> SUBSET Items]
    /\ inWorld \subseteq Players
    /\ events \in 0 .. MaxEvents

(* Two players trade with each other or not at all: the pointer to the     *)
(* trader that every handler follows never leads to a player who is gone,  *)
(* trades with a third or does not trade (TradeData.cpp:25).               *)
TradeIsMutual ==
    \A p \in Players : Trading(p) =>
        LET q == Trader(p)
        IN  /\ p # q
            /\ Trading(q)
            /\ Trader(q) = p
            /\ q \in inWorld

Stayed(s) == Items \ strayed[s]

Shown(i, view, slots) == \E k \in slots : view.items[k] = <<i, count'[i]>>

\* r receives of s what it saw, of what stayed
ReceivedAsShown(r, s, view) ==
    /\ \A i \in Stayed(s) :
          owner[i] = s /\ owner'[i] = r <=> Shown(i, view, TradedSlots)
    /\ \A k \in TradedSlots, i \in Stayed(s), n \in 1 .. MaxStack :
          view.items[k] = <<i, n>> => n = count'[i]

\* the items of s are enchanted as it showed and saw
CastAsShown(s, spell, view) ==
    \A i \in Stayed(s) : owner[i] = s =>
        enchanted'[i] = IF spell # NoSpell /\ Shown(i, view, {NonTraded})
                          THEN spell ELSE enchanted[i]

AsShown(p, u) ==
    LET q == Trader(p)
        mine == u.view               \* what p saw of the offer of q
        his == m_trade[q].saw        \* what q saw of that of p
    IN  /\ money'[p] = money[p] + mine.money - his.money
        /\ money'[q] = money[q] + his.money - mine.money
        /\ ReceivedAsShown(p, q, mine)
        /\ ReceivedAsShown(q, p, his)
        /\ CastAsShown(p, mine.spell, his)
        /\ CastAsShown(q, his.spell, mine)
        /\ \A i \in Items : owner'[i] # owner[i] => {owner[i], owner'[i]} = {p, q}

(* A trade does what both players saw when they accepted, however late     *)
(* their clients were: the amounts shown change hands and none is lost at  *)
(* the limit of a purse; of the items that stayed in the bags all the time *)
(* exactly those shown are received, each stack with the size it was shown *)
(* with; a spell shown is cast on the item shown, and on nothing else      *)
(* (TradeHandler.cpp:242).  It says nothing of an offered item that left   *)
(* the bags or came back to them: TradeData finds items by GUID when it    *)
(* looks for them (TradeData.cpp:32), so that one is missing, or there     *)
(* unseen, and what was shown is paid in full.                             *)
ExecutedAsShown ==
    [][\A p \in Players, u \in shown : Execute(p, u) => AsShown(p, u)]_vars

BothAccepted(p) == Trading(p) /\ m_trade[p].accepted /\ m_trade[Trader(p)].accepted

SameOffer(p) ==
    /\ m_trade'[p].items = m_trade[p].items
    /\ m_trade'[p].money = m_trade[p].money
    /\ m_trade'[p].spell = m_trade[p].spell

LeftUndone(p) == MoneyIsRight(p) /\ ~AllTradeable(p)

DealKept(p) ==
    /\ BothAccepted(p)' /\ ~BothAccepted(p) => LeftUndone(p)
    /\ BothAccepted(p)' /\ BothAccepted(p) => SameOffer(p) /\ SameOffer(Trader(p))

(* Two acceptances make a trade or one of them is withdrawn, on every path *)
(* of the handler but one: they come to stand side by side only where the  *)
(* money is right and an offered item cannot be traded at that moment, for *)
(* which the handler returns without undoing the acceptance                *)
(* (TradeHandler.cpp:296-332).  While they stand, neither offer changes.   *)
NoForgottenDeal == [][\A p \in Players : DealKept(p)]_vars

=============================================================================
