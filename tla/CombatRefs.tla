------------------------------ MODULE CombatRefs ------------------------------
(***************************************************************************)
(* Who fights whom: the combat references two units share                  *)
(* (CombatManager.cpp) and the threat a creature keeps of its enemies      *)
(* (ThreatManager.cpp), on one map, by one thread.                         *)
(*                                                                         *)
(* The calls are not atomic: a call hands over to the AI of a unit in its  *)
(* middle, and the AI may make further calls.  stack holds what is left to *)
(* do, the top first; a step takes the top and puts in its place what the  *)
(* code does next.  Between two steps of one call lies a call of an AI or  *)
(* of another manager.                                                     *)
(***************************************************************************)
EXTENDS Integers, FiniteSets, Sequences

CONSTANTS
    Units,
    Threatable,     \* units whose CanHaveThreatList() holds
    Controlled,     \* units controlled by a player: combat of two is PvP
    WithAI,         \* units that have an AI
    Evading,        \* ... that may evade when a hook of it is called
    Vanishing,      \* units that vanish or feign death outside dungeons
    Friends,        \* pairs of units friendly to each other
    Nobody,         \* the null pointer
    Reactions,      \* what AIs do: pairs <<hook, call>>, see React
    ReactsInEndCombat, \* whether they do it in the middle of EndCombat, too
    MaxReactions,   \* bound: reactions to one call
    Leaving,        \* bound: the units that leave the world and return,
    Failing,        \* ... that become unfit to fight,
    Hiding,         \* ... that become hidden
    PvPTimeout      \* updates a PvP reference outlives its last refresh

Hooks == {"JustEnteredCombat", "JustExitedCombat", "JustStartedThreateningMe"}
Calls == {"EngageWithTarget", "EnterEvadeMode"}

ASSUME UnitsAssumption ==
    /\ IsFiniteSet(Units)
    /\ Threatable \subseteq WithAI
    /\ WithAI \subseteq Units
    /\ Evading \subseteq WithAI
    /\ Vanishing \subseteq Units
    /\ Controlled \subseteq Units
    /\ {Leaving, Failing, Hiding} \subseteq SUBSET Units
    /\ ReactsInEndCombat \in BOOLEAN
    /\ Nobody \notin Units
    /\ Reactions \subseteq Hooks \X Calls
    /\ MaxReactions \in Nat
    /\ PvPTimeout \in Nat \ {0}

VARIABLES
    pve,          \* _pveRefs: the others of each unit's PvE references
    pvp,          \* _pvpRefs, likewise
    timer,        \* of the PvP reference begun by one with another, 0: none
    suppressed,   \* the others whose reference is suppressed for a unit
    inCombat,     \* the units with UNIT_FLAG_IN_COMBAT
    threat,       \* _myThreatListEntries: whom a unit has on its list
    online,       \* those of them that are not offline
    victim,       \* _currentVictimRef
    engaged,      \* _isEngaged of the AIs
    present,      \* units in the world
    fit,          \* units nothing else keeps from fighting
    hidden,       \* units that are no target: unseen or not attackable
    stack,        \* what the thread still has to do
    budget,       \* reactions left
    aborted       \* an ASSERT has failed

refs == <<pve, pvp, timer, suppressed>>
lists == <<threat, online, victim>>
world == <<present, fit, hidden>>
vars == <<refs, inCombat, lists, engaged, world, stack, budget, aborted>>

-----------------------------------------------------------------------------
(* The tasks of the stack.  a and b are the units of a call.  A task with  *)
(* ref holds a pointer to the reference of a and b, a loop an iterator at  *)
(* it; live says that it still exists.  left are the elements a loop has   *)
(* not reached yet.                                                        *)

Loops == {"EndPvEBeyondRange", "EndPvPBeyondRange",
          "RevalidatePvE", "RevalidatePvP", "Update"}

OfReference == {"EndCombatFirst", "EndCombatSecond", "EndCombatPurge"}

Others == {"SetInCombatWith", "EngageWithTarget", "AddThreat",
           "AddThreatUnchecked", "UpdateVictim", "ProcessAIUpdates",
           "RemoveMeFromThreatLists", "ClearThreat", "ClearAllThreat",
           "EndAllPvECombat", "EndAllPvPCombat", "SuppressPvPCombat",
           "EngagementOver"}

Tasks ==
    [do : Loops \cup OfReference \cup Others \cup Hooks,
     a : Units, b : Units \cup {Nobody}, left : SUBSET Units, live : BOOLEAN]

Task(do, a, b) ==
    [do |-> do, a |-> a, b |-> b, left |-> {}, live |-> TRUE]

\* A loop that has not begun.
Loop(do, a) == [Task(do, a, Nobody) EXCEPT !.left = Units]

\* A task is only taken up while what it points to exists.
Top(do) == stack # <<>> /\ Head(stack).do = do /\ Head(stack).live /\ ~aborted

\* What the code does next, then what was below.
Then(tasks) == stack' = tasks \o Tail(stack)

\* The tasks once the element b was erased from a map of a.
Erased(tasks, a, b) ==
    [i \in 1 .. Len(tasks) |->
        IF tasks[i].do \in Loops /\ tasks[i].a = a /\ tasks[i].b = b
        THEN [tasks[i] EXCEPT !.live = FALSE]
        ELSE tasks[i]]

\* The tasks once the reference of a and b was erased on both sides and
\* deleted.
Deleted(tasks, a, b) ==
    [i \in 1 .. Len(tasks) |->
        IF /\ tasks[i].do \in Loops \cup OfReference
           /\ {tasks[i].a, tasks[i].b} = {a, b}
        THEN [tasks[i] EXCEPT !.live = FALSE]
        ELSE tasks[i]]

-----------------------------------------------------------------------------
(* References. *)

\* Alive, in the world, not evading, hostile, not a game master, ...
CanBeginCombat(a, b) ==
    a # b /\ {a, b} \subseteq present \cap fit /\ {a, b} \notin Friends

IsPvP(a, b) == {a, b} \subseteq Controlled

IsInCombatWith(a, b) == b \in pve[a] \cup pvp[a]

HasCombat(u) == pve[u] # {} \/ ~(pvp[u] \subseteq suppressed[u])

\* UpdateOwnerCombatState of some units after their references have changed.
UpdateOwnerCombatState(some) ==
    inCombat' = (inCombat \ some) \cup {u \in some : HasCombat(u)'}

\* Whether it returned TRUE for a unit.
StateChanged(u) == (u \in inCombat) # (u \in inCombat')

Put(map, a, b) == [map EXCEPT ![a] = @ \cup {b}, ![b] = @ \cup {a}]
PurgeOneSide(map, a, b) == [map EXCEPT ![a] = @ \ {b}]
Purge(map, a, b) == [map EXCEPT ![a] = @ \ {b}, ![b] = @ \ {a}]

\* first and second of the reference of two units: those of a PvE reference
\* only decide who is told first, and may be either.
Pairs(a, b) ==
    {p \in {<<a, b>>, <<b, a>>} : IsPvP(a, b) => timer[p] > 0}

IsFirst(a, b) == timer[<<a, b>>] > 0

EndCombatOneList(pair) ==
    <<Task("EndCombatFirst", pair[1], pair[2]),
      Task("EndCombatPurge", pair[1], pair[2])>>

\* CombatReference::EndCombat.
EndCombat(pair) ==
    <<Task("EndCombatFirst", pair[1], pair[2]),
      Task("EndCombatSecond", pair[1], pair[2]),
      Task("EndCombatPurge", pair[1], pair[2])>>

AlwaysTold(hook, a, b) ==
    (IF a \in WithAI THEN <<Task(hook, a, b)>> ELSE <<>>)
    \o (IF b \in WithAI THEN <<Task(hook, b, a)>> ELSE <<>>)

\* The AI calls after the combat state of some units changed.
AfterChange(hook, a, b) ==
    (IF StateChanged(a) /\ a \in WithAI THEN <<Task(hook, a, b)>> ELSE <<>>)
    \o
    (IF StateChanged(b) /\ b \in WithAI THEN <<Task(hook, b, a)>> ELSE <<>>)

\* SetInCombatWith, and EngageWithTarget, which goes on to add threat if the
\* unit has a threat list.  The result of a refresh is TRUE whatever the AIs
\* do, that of a new reference is looked up after they were called.
SetInCombatWith ==
    \E do \in {"SetInCombatWith", "EngageWithTarget"} :
        /\ Top(do)
        /\ LET a == Head(stack).a
               b == Head(stack).b
               Rest(name) == IF do = "EngageWithTarget" /\ a \in Threatable
                             THEN <<Task(name, a, b)>> ELSE <<>>
           IN  \/ /\ b \in pvp[a]
                  /\ timer' = [p \in Units \X Units |->
                        IF p \in Pairs(a, b) THEN PvPTimeout ELSE timer[p]]
                  /\ suppressed' = Purge(suppressed, a, b)
                  /\ UNCHANGED <<pve, pvp, aborted>>
                  /\ UpdateOwnerCombatState(
                        {u \in {a, b} : {a, b} \ {u} \subseteq suppressed[u]})
                  /\ Then((IF IsFirst(a, b)
                           THEN AfterChange("JustEnteredCombat", a, b)
                           ELSE AfterChange("JustEnteredCombat", b, a))
                          \o Rest("AddThreatUnchecked"))
               \/ /\ b \in pve[a]
                  /\ Then(Rest("AddThreatUnchecked"))
                  /\ UNCHANGED <<refs, inCombat, aborted>>
               \/ /\ ~IsInCombatWith(a, b)
                  /\ ~CanBeginCombat(a, b)
                  /\ Then(<<>>)
                  /\ UNCHANGED <<refs, inCombat, aborted>>
               \/ /\ ~IsInCombatWith(a, b)
                  /\ CanBeginCombat(a, b)
                  /\ IF IsPvP(a, b)
                     THEN /\ aborted' = (a \in pvp[b])
                          /\ pvp' = Put(pvp, a, b)
                          /\ timer' = [timer EXCEPT ![<<a, b>>] = PvPTimeout]
                          /\ UNCHANGED <<pve, suppressed>>
                     ELSE /\ aborted' = (a \in pve[b])
                          /\ pve' = Put(pve, a, b)
                          /\ UNCHANGED <<pvp, timer, suppressed>>
                  /\ UpdateOwnerCombatState({a, b})
                  /\ Then(AfterChange("JustEnteredCombat", a, b)
                          \o Rest("AddThreat"))
    /\ UNCHANGED <<lists, engaged, world, budget>>

\* The end of EndCombat: both maps, both states, then both AIs.
EndCombatPurge ==
    /\ Top("EndCombatPurge")
    /\ LET a == Head(stack).a
           b == Head(stack).b
       IN  /\ pve' = IF IsPvP(a, b) THEN pve ELSE Purge(pve, a, b)
           /\ pvp' = IF IsPvP(a, b) THEN Purge(pvp, a, b) ELSE pvp
           /\ timer' = [timer EXCEPT ![<<a, b>>] = 0, ![<<b, a>>] = 0]
           /\ suppressed' = Purge(suppressed, a, b)
           /\ UpdateOwnerCombatState({a, b})
           /\ stack' = AfterChange("JustExitedCombat", a, b)
                       \o Deleted(Tail(stack), a, b)
    /\ UNCHANGED <<lists, engaged, world, budget, aborted>>

SuppressPvPCombat ==
    /\ Top("SuppressPvPCombat")
    /\ LET a == Head(stack).a
       IN  /\ suppressed' = [suppressed EXCEPT ![a] = pvp[a]]
           /\ UNCHANGED <<pve, pvp, timer>>
           /\ UpdateOwnerCombatState({a})
           /\ Then(IF StateChanged(a) /\ a \in WithAI
                   THEN <<Task("JustExitedCombat", a, Nobody)>> ELSE <<>>)
    /\ UNCHANGED <<lists, engaged, world, budget, aborted>>

\* while (!_pveRefs.empty()) _pveRefs.begin()->second->EndCombat(), and the
\* same of the PvP references.
EndAll(do, map) ==
    /\ Top(do)
    /\ LET a == Head(stack).a
       IN  \/ map[a] = {} /\ Then(<<>>)
           \/ \E b \in map[a] : \E pair \in Pairs(a, b) :
                stack' = EndCombat(pair) \o stack
    /\ UNCHANGED <<refs, inCombat, lists, engaged, world, budget, aborted>>

EndAllPvECombat == EndAll("EndAllPvECombat", pve)
EndAllPvPCombat == EndAll("EndAllPvPCombat", pvp)

-----------------------------------------------------------------------------
(* Loops that erase the references they end from the map of their unit     *)
(* before they end them.                                                   *)

TickedTwice(do, a, b) ==
    IF do = "Update" THEN [timer EXCEPT ![<<a, b>>] = @ - 1] ELSE timer

\* PvPCombatReference::Update, for the first of the two units only.
Ticked(do, a, b) ==
    IF do = "Update" /\ IsFirst(a, b)
    THEN [timer EXCEPT ![<<a, b>>] = @ - 1] ELSE timer

\* Whether the loop ends the reference it is at.
Ends(do, a, b) ==
    CASE do \in {"EndPvEBeyondRange", "EndPvPBeyondRange"} -> {TRUE, FALSE}
      [] do \in {"RevalidatePvE", "RevalidatePvP"} -> {~CanBeginCombat(a, b)}
      [] do = "Update" -> {IsFirst(a, b) /\ timer[<<a, b>>] = 1}

\* The loop at the next element of the map, or at its end.
Advance(t, map) ==
    LET rest == t.left \cap map
    IN  IF rest = {} THEN {[t EXCEPT !.b = Nobody, !.left = {}]}
        ELSE {[t EXCEPT !.b = b, !.left = rest \ {b}] : b \in rest}

LoopStep(do) ==
    /\ Top(do)
    /\ LET t == Head(stack)
           a == t.a
           Rest(u) == IF u.b = Nobody THEN <<>> ELSE <<u>>
           over == IF do \in {"EndPvEBeyondRange", "RevalidatePvE"}
                   THEN pve[a] ELSE pvp[a]
       IN  \/ /\ t.b = Nobody
              /\ \E u \in Advance(t, over) : Then(Rest(u))
              /\ UNCHANGED refs
           \/ /\ t.b # Nobody
              /\ FALSE \in Ends(do, a, t.b)
              /\ timer' = Ticked(do, a, t.b)
              /\ \E u \in Advance(t, over) : Then(Rest(u))
              /\ UNCHANGED <<pve, pvp, suppressed>>
           \/ /\ t.b # Nobody
              /\ TRUE \in Ends(do, a, t.b)
              /\ pve' = [pve EXCEPT ![a] = @ \ {t.b}]
              /\ pvp' = [pvp EXCEPT ![a] = @ \ {t.b}]
              /\ \E u \in Advance(t, over \ {t.b}), pair \in Pairs(a, t.b) :
                    stack' = EndCombat(pair) \o Rest(u)
                             \o Erased(Tail(stack), a, t.b)
              /\ UNCHANGED <<timer, suppressed>>
    /\ UNCHANGED <<inCombat, lists, engaged, world, budget, aborted>>

-----------------------------------------------------------------------------
(* Threat. *)

ShouldBeOffline(b) == b \in hidden

AnyVictim(a, list, was) ==
    /\ online' = [online EXCEPT ![a] = {b \in list : ~ShouldBeOffline(b)}]
    /\ \E v \in IF list = {} THEN {Nobody} ELSE list :
          victim' = [victim EXCEPT ![a] = v]
    /\ Then(<<>>)

\* UpdateVictim with a given list: every entry is brought up to date, then a
\* victim is selected among those available; which one is a matter of amounts
\* that are not modelled.  AIs are told of those that came online.
SelectVictim(a, list, was) ==
    LET now == {b \in list : ~ShouldBeOffline(b)}
    IN  /\ online' = [online EXCEPT ![a] = now]
        /\ \E v \in IF now = {} THEN {Nobody} ELSE now :
              victim' = [victim EXCEPT ![a] = v]
        /\ Then(<<[Task("ProcessAIUpdates", a, Nobody)
                     EXCEPT !.left = now \ was]>>)

\* ThreatManager::ClearThreat of the entry of b in the list of a, as part of
\* EndCombat or of RemoveMeFromThreatLists.
ClearThreat(a, b) ==
    IF b \notin threat[a]
    THEN Then(<<>>) /\ UNCHANGED lists
    ELSE /\ threat' = [threat EXCEPT ![a] = @ \ {b}]
         /\ IF victim[a] \in {b, Nobody}
            THEN SelectVictim(a, threat[a] \ {b}, online[a])
            ELSE /\ online' = [online EXCEPT ![a] = @ \ {b}]
                 /\ UNCHANGED victim
                 /\ Then(<<>>)

ClearThreatTask ==
    /\ \/ Top("EndCombatFirst") /\ ClearThreat(Head(stack).a, Head(stack).b)
       \/ Top("EndCombatSecond") /\ ClearThreat(Head(stack).b, Head(stack).a)
       \/ Top("ClearThreat") /\ ClearThreat(Head(stack).a, Head(stack).b)
    /\ UNCHANGED <<refs, inCombat, engaged, world, budget, aborted>>

\* The rest of ThreatManager::AddThreat, once SetInCombatWith has returned.
AddThreat ==
    /\ \/ Top("AddThreat")
       \/ Top("AddThreatUnchecked")
    /\ LET a == Head(stack).a
           b == Head(stack).b
           new == IF ShouldBeOffline(b) THEN {} ELSE {b}
       IN  IF \/ b \in threat[a]
              \/ Top("AddThreat") /\ ~IsInCombatWith(a, b)
           THEN Then(<<>>) /\ UNCHANGED lists
           ELSE /\ threat' = [threat EXCEPT ![a] = @ \cup {b}]
                /\ IF victim[a] = Nobody
                   THEN SelectVictim(a, threat[a] \cup {b}, online[a])
                   ELSE /\ online' = [online EXCEPT ![a] = @ \cup new]
                        /\ UNCHANGED victim
                        /\ Then(<<[Task("ProcessAIUpdates", a, Nobody)
                                     EXCEPT !.left = new]>>)
    /\ UNCHANGED <<refs, inCombat, engaged, world, budget, aborted>>

UpdateVictim ==
    /\ Top("UpdateVictim")
    /\ LET a == Head(stack).a
       IN  SelectVictim(a, threat[a], online[a])
    /\ UNCHANGED <<refs, inCombat, threat, engaged, world, budget, aborted>>

\* The AI is told of one entry after the other, of those still on the list.
ProcessAIUpdates ==
    /\ Top("ProcessAIUpdates")
    /\ LET t == Head(stack)
           now == t.left \cap threat[t.a]
       IN  \/ now = {} /\ Then(<<>>)
           \/ \E b \in now :
                Then(<<Task("JustStartedThreateningMe", t.a, b),
                       [t EXCEPT !.left = now \ {b}]>>)
    /\ UNCHANGED <<refs, inCombat, lists, engaged, world, budget, aborted>>

\* while (!_threatenedByMe.empty()) clear the entry in the other's list.
RemoveMeFromThreatLists ==
    /\ Top("RemoveMeFromThreatLists")
    /\ LET b == Head(stack).a
       IN  \/ /\ \A a \in Units : b \notin threat[a]
              /\ Then(<<>>)
           \/ \E a \in Units :
                /\ b \in threat[a]
                /\ stack' = <<Task("ClearThreat", a, b)>> \o stack
    /\ UNCHANGED <<refs, inCombat, lists, engaged, world, budget, aborted>>

ClearAllThreat ==
    /\ Top("ClearAllThreat")
    /\ LET a == Head(stack).a
       IN  /\ threat' = [threat EXCEPT ![a] = {}]
           /\ online' = [online EXCEPT ![a] = {}]
           /\ victim' = [victim EXCEPT ![a] = Nobody]
    /\ Then(<<>>)
    /\ UNCHANGED <<refs, inCombat, engaged, world, budget, aborted>>

-----------------------------------------------------------------------------
(* The AI. *)

EndAllPvE(a) ==
    <<Task("RemoveMeFromThreatLists", a, Nobody),
      Task("ClearAllThreat", a, Nobody),
      Task("EndAllPvECombat", a, Nobody)>>

EndWithoutPvP(a) == EndAllPvE(a)
EndAllCombat(a) == EndAllPvE(a) \o <<Task("EndAllPvPCombat", a, Nobody)>>

\* Whether the AI of u is told something it acts upon: a unit with a threat
\* list is engaged by the first enemy that threatens it, another one when it
\* enters combat.
Engages(hook, u) ==
    CASE hook = "JustStartedThreateningMe" -> u \notin engaged
      [] hook = "JustEnteredCombat" -> u \notin Threatable \cup engaged
      [] hook = "JustExitedCombat" -> FALSE

\* EndCombat has begun, and has not yet come to the point where it tells the
\* AIs: what is left of it lies on the stack without its beginning.
InEndCombat ==
    \E i \in 1 .. Len(stack) :
        \/ /\ stack[i].do = "EndCombatSecond"
           /\ i > 1 => stack[i - 1].do # "EndCombatFirst"
        \/ /\ stack[i].do = "EndCombatPurge"
           /\ i > 1 => stack[i - 1].do # "EndCombatSecond"

\* A hook is called.  The AI does nothing more, or makes one of the calls of
\* Reactions: it and its group engage an enemy, or it evades, if it is one
\* that does.
React ==
    \E hook \in Hooks :
        /\ Top(hook)
        /\ LET u == Head(stack).a
           IN  /\ engaged' = IF Engages(hook, u) THEN engaged \cup {u}
                             ELSE IF hook = "JustExitedCombat"
                             THEN engaged \ ({u} \ Threatable)
                             ELSE engaged
               /\ \/ Then(<<>>) /\ UNCHANGED budget
                  \/ /\ budget > 0
                     /\ InEndCombat => ReactsInEndCombat
                     /\ budget' = budget - 1
                     /\ hook = "JustStartedThreateningMe" => Engages(hook, u)
                     /\ \/ /\ <<hook, "EngageWithTarget">> \in Reactions
                           /\ \E a \in WithAI, b \in Units \ {u} :
                                /\ a # b
                                /\ Then(<<Task("EngageWithTarget", a, b)>>)
                        \/ /\ u \in Evading
                           /\ <<hook, "EnterEvadeMode">> \in Reactions
                           /\ Then(EndAllCombat(u) \o
                                   <<Task("EngagementOver", u, Nobody)>>)
        /\ UNCHANGED <<refs, inCombat, lists, world, aborted>>

\* The end of EnterEvadeMode: the unit walks home and cannot be fought.
EngagementOver ==
    /\ Top("EngagementOver")
    /\ engaged' = engaged \ {Head(stack).a}
    /\ fit' = fit \ {Head(stack).a}
    /\ Then(<<>>)
    /\ UNCHANGED <<refs, inCombat, lists, present, hidden, budget, aborted>>

-----------------------------------------------------------------------------
(* What the rest of the server calls. *)

Call(tasks) ==
    /\ stack = <<>>
    /\ stack' = tasks
    /\ budget' = MaxReactions
    /\ UNCHANGED <<refs, inCombat, lists, engaged, aborted>>

\* An attack, a spell that hits, an AI that aggroes.
Attack(a, b) ==
    /\ a # b
    /\ {a, b} \subseteq present
    /\ \E do \in {"SetInCombatWith", "EngageWithTarget"} :
          Call(<<Task(do, a, b)>>)
    /\ UNCHANGED world

\* CombatStop; with mutualPvP = FALSE where EffectSanctuary and
\* HandleFeignDeath call it.
CombatStop(a) ==
    /\ \/ Call(EndAllCombat(a))
       \/ a \in Vanishing /\ Call(EndAllPvE(a) \o
                                  <<Task("SuppressPvPCombat", a, Nobody)>>)
       \/ a \in WithAI /\ Call(EndAllCombat(a) \o
                               <<Task("EngagementOver", a, Nobody)>>)
    /\ UNCHANGED world

\* Player::Update, RemoveCharmedBy, Unit::Update, Creature::SelectVictim.
UpdateUnit(a) ==
    /\ \/ Call(<<Loop("EndPvEBeyondRange", a), Loop("EndPvPBeyondRange", a)>>)
       \/ Call(<<Loop("RevalidatePvE", a), Loop("RevalidatePvP", a)>>)
       \/ Call(<<Loop("Update", a)>>)
       \/ a \in Threatable /\ Call(<<Task("UpdateVictim", a, Nobody)>>)
    /\ UNCHANGED world

\* StopAttackFaction, SetImmuneToPC, SetImmuneToNPC: references collected
\* first, ended one after the other.
EndSome(a) ==
    /\ \E b \in pve[a], c \in pve[a] :
          Call(IF b = c THEN EndCombat(<<a, b>>)
               ELSE EndCombat(<<a, b>>) \o EndCombat(<<a, c>>))
    /\ UNCHANGED world

\* CleanupBeforeRemoveFromMap: out of the world, then CombatStop.
Remove(a) ==
    /\ a \in present \cap Leaving
    /\ Call(EndAllCombat(a))
    /\ present' = present \ {a}
    /\ UNCHANGED <<fit, hidden>>

\* Units appear, become fit to fight or not, are seen or not.
Appear(a) ==
    /\ stack = <<>>
    /\ \/ /\ a \in Leaving \ present
          /\ present' = present \cup {a}
          /\ UNCHANGED <<fit, hidden>>
       \/ /\ a \in Failing
          /\ fit' = IF a \in fit THEN fit \ {a} ELSE fit \cup {a}
          /\ UNCHANGED <<present, hidden>>
       \/ /\ a \in Hiding
          /\ hidden' = IF a \in hidden THEN hidden \ {a} ELSE hidden \cup {a}
          /\ UNCHANGED <<present, fit>>
    /\ UNCHANGED <<refs, inCombat, lists, engaged, stack, budget, aborted>>

-----------------------------------------------------------------------------

Init ==
    /\ pve = [u \in Units |-> {}]
    /\ pvp = [u \in Units |-> {}]
    /\ timer = [p \in Units \X Units |-> 0]
    /\ suppressed = [u \in Units |-> {}]
    /\ inCombat = {}
    /\ threat = [u \in Units |-> {}]
    /\ online = [u \in Units |-> {}]
    /\ victim = [u \in Units |-> Nobody]
    /\ engaged = {}
    /\ present = Units
    /\ fit = Units
    /\ hidden = {}
    /\ stack = <<>>
    /\ budget = 0
    /\ aborted = FALSE

Internal ==
    \/ SetInCombatWith \/ EndCombatPurge \/ SuppressPvPCombat
    \/ EndAllPvECombat \/ EndAllPvPCombat
    \/ \E do \in Loops : LoopStep(do)
    \/ ClearThreatTask \/ AddThreat \/ UpdateVictim \/ ProcessAIUpdates
    \/ RemoveMeFromThreatLists \/ ClearAllThreat
    \/ React \/ EngagementOver

External ==
    \E a \in Units :
        \/ \E b \in Units : Attack(a, b)
        \/ CombatStop(a) \/ UpdateUnit(a) \/ EndSome(a)
        \/ Remove(a) \/ Appear(a)

\* An access to what does not exist any more, or a failed assertion, is the
\* end of it.
Crashed == aborted \/ (stack # <<>> /\ ~Head(stack).live)

Next == Internal \/ External

Spec == Init /\ [][Next]_vars

-----------------------------------------------------------------------------

TypeOK ==
    /\ {pve, pvp, suppressed, threat, online} \subseteq [Units -> SUBSET Units]
    /\ timer \in [Units \X Units -> 0 .. PvPTimeout]
    /\ victim \in [Units -> Units \cup {Nobody}]
    /\ {inCombat, engaged, present, fit, hidden} \subseteq SUBSET Units
    /\ \A i \in 1 .. Len(stack) : stack[i] \in Tasks
    /\ budget \in 0 .. MaxReactions
    /\ aborted \in BOOLEAN

\* The thread is in the code of an AI, or in none of this.
HandOff == stack = <<>> \/ Head(stack).do \in Hooks

RefsOnBothSides ==
    \A a, b \in Units :
        /\ b \in pve[a] => a \in pve[b] /\ b \notin pvp[a]
        /\ b \in pvp[a] => a \in pvp[b] /\ IsFirst(a, b) # IsFirst(b, a)

InCombatIffReferences == \A u \in Units : u \in inCombat <=> HasCombat(u)

(***************************************************************************)
(* Whenever an AI is called, except in the middle of EndCombat, and when   *)
(* nothing is under way, a reference is in the maps of both units and says *)
(* the same in both, and a unit is in combat iff it has a reference that   *)
(* is not suppressed for it.                                               *)
(***************************************************************************)
ReferencesAgree ==
    HandOff /\ ~InEndCombat => RefsOnBothSides /\ InCombatIffReferences

(***************************************************************************)
(* Likewise, a unit is threatened only by those it is in combat with: no   *)
(* order of calls leaves threat behind when combat ends, whatever the AIs  *)
(* called on the way begin or end.                                         *)
(***************************************************************************)
ThreatImpliesCombat ==
    HandOff /\ ~InEndCombat =>
        \A a \in Units : threat[a] \subseteq pve[a] \cup pvp[a]

(***************************************************************************)
(* No call goes on with a reference, or an iterator at one, that an AI it  *)
(* called has deleted, and no unit gets a second reference with another.   *)
(***************************************************************************)
NothingDangles == ~Crashed

(***************************************************************************)
(* GetCurrentVictim asserts that the victim is available: the victim is an *)
(* entry of the list that is not offline, between any two calls.           *)
(***************************************************************************)
VictimAvailable == \A a \in Units : victim[a] \in online[a] \cup {Nobody}

(***************************************************************************)
(* The destructors assert that nothing is left: a unit that has left the   *)
(* world has no reference and no threat, and nobody has one to it, however *)
(* the AIs react to its leaving.                                           *)
(***************************************************************************)
RemovedIsClean ==
    stack = <<>> => \A a \in Units \ present :
        /\ pve[a] \cup pvp[a] \cup threat[a] = {}
        /\ \A b \in Units : a \notin pve[b] \cup pvp[b] \cup threat[b]

(***************************************************************************)
(* What the comment in EndCombat asks for: the references are in a         *)
(* consistent state whenever the code hands over to an AI, there as well.  *)
(***************************************************************************)
ConsistentAtHandOff == HandOff => RefsOnBothSides /\ InCombatIffReferences
=============================================================================
