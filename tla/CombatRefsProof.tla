--------------------------- MODULE CombatRefsProof ---------------------------
(***************************************************************************)
(* Proofs about CombatRefs, for any units, sides and friendships, and any  *)
(* number of reactions of their AIs.                                       *)
(***************************************************************************)
EXTENDS CombatRefs, SequenceTheorems, TLAPS

-----------------------------------------------------------------------------
(* The stack *)

(* Calls that have a second unit.                                          *)
OfTwo == OfReference \cup {"SetInCombatWith", "EngageWithTarget", "AddThreat",
                           "AddThreatUnchecked", "ClearThreat"}

GoodTasks == {t \in Tasks : t.do \in OfTwo => t.b \in Units}

SameCall(t, u) == t.do = u.do /\ t.a = u.a /\ t.b = u.b

(* t is the stack s with the tasks new in the place of its top.            *)
Onto(new, s, t) ==
  /\ t \in Seq(GoodTasks)
  /\ Len(new) \in Nat
  /\ Len(t) = Len(new) + Len(s) - 1
  /\ \A j \in 1 .. Len(new) : t[j] = new[j]
  /\ \A j \in 2 .. Len(s) : SameCall(t[Len(new) + j - 1], s[j])

LEMMA TaskIsGood ==
  ASSUME NEW do \in Loops \cup OfReference \cup Others \cup Hooks,
         NEW a \in Units, NEW b \in Units \cup {Nobody},
         do \in OfTwo => b \in Units
  PROVE  /\ Task(do, a, b) \in GoodTasks
         /\ Task(do, a, b).do = do
         /\ Task(do, a, b).a = a
         /\ Task(do, a, b).b = b
BY DEF Task, GoodTasks, Tasks

LEMMA ListsOfTasks ==
  /\ <<>> \in Seq(GoodTasks) /\ Len(<<>>) = 0
  /\ \A t \in GoodTasks :
       <<t>> \in Seq(GoodTasks) /\ Len(<<t>>) = 1 /\ <<t>>[1] = t
  /\ \A t, u \in GoodTasks :
       /\ <<t, u>> \in Seq(GoodTasks) /\ Len(<<t, u>>) = 2
       /\ <<t, u>>[1] = t /\ <<t, u>>[2] = u
  /\ \A t, u, v \in GoodTasks :
       /\ <<t, u, v>> \in Seq(GoodTasks) /\ Len(<<t, u, v>>) = 3
       /\ <<t, u, v>>[1] = t /\ <<t, u, v>>[2] = u /\ <<t, u, v>>[3] = v
OBVIOUS

LEMMA TailFacts ==
  ASSUME NEW S, NEW s \in Seq(S), s # <<>>
  PROVE  /\ Len(s) \in Nat \ {0}
         /\ Head(s) = s[1] /\ s[1] \in S
         /\ Tail(s) \in Seq(S)
         /\ Len(Tail(s)) = Len(s) - 1
         /\ \A j \in 1 .. Len(Tail(s)) : Tail(s)[j] = s[j + 1]
OBVIOUS

LEMMA OntoTail ==
  ASSUME NEW s \in Seq(GoodTasks), s # <<>>,
         NEW new \in Seq(GoodTasks), NEW tail \in Seq(GoodTasks),
         Len(tail) = Len(s) - 1,
         \A j \in 1 .. Len(tail) : SameCall(tail[j], s[j + 1])
  PROVE  Onto(new, s, new \o tail)
<1> DEFINE t == new \o tail
<1>1. /\ Len(s) \in Nat \ {0}
      /\ Len(new) \in Nat
      /\ Len(tail) \in Nat
  BY TailFacts, LenProperties
<1>2. /\ t \in Seq(GoodTasks)
      /\ Len(t) = Len(new) + Len(tail)
      /\ \A i \in 1 .. Len(new) + Len(tail) :
           t[i] = IF i <= Len(new) THEN new[i] ELSE tail[i - Len(new)]
  BY ConcatProperties
<1> HIDE DEF t
<1>3. ASSUME NEW j \in 1 .. Len(new)
      PROVE  t[j] = new[j]
  <2>1. j \in 1 .. Len(new) + Len(tail) /\ j <= Len(new)
    BY <1>1
  <2> QED
    BY <2>1, <1>2
<1>4. ASSUME NEW j \in 2 .. Len(s)
      PROVE  SameCall(t[Len(new) + j - 1], s[j])
  <2>1. /\ Len(new) + j - 1 \in 1 .. Len(new) + Len(tail)
        /\ ~(Len(new) + j - 1 <= Len(new))
        /\ (Len(new) + j - 1) - Len(new) = j - 1
        /\ j - 1 \in 1 .. Len(tail)
        /\ (j - 1) + 1 = j
    BY <1>1
  <2>2. t[Len(new) + j - 1] = tail[j - 1]
    BY <1>2, <2>1
  <2> QED
    BY <2>1, <2>2
<1>5. Len(t) = Len(new) + Len(s) - 1
  BY <1>1, <1>2
<1>6. Onto(new, s, t)
  BY <1>1, <1>2, <1>3, <1>4, <1>5, Zenon DEF Onto
<1> QED
  BY <1>6 DEF t

LEMMA OntoThen ==
  ASSUME stack \in Seq(GoodTasks), stack # <<>>,
         NEW new \in Seq(GoodTasks), Then(new)
  PROVE  Onto(new, stack, stack')
<1>1. \A j \in 1 .. Len(Tail(stack)) : SameCall(Tail(stack)[j], stack[j + 1])
  BY TailFacts DEF SameCall
<1> QED
  BY <1>1, TailFacts, OntoTail DEF Then

(* The top stays below the new tasks.                                      *)
LEMMA OntoAll ==
  ASSUME stack \in Seq(GoodTasks), stack # <<>>,
         NEW new \in Seq(GoodTasks), stack' = new \o stack
  PROVE  /\ new \o <<Head(stack)>> \in Seq(GoodTasks)
         /\ Len(new \o <<Head(stack)>>) = Len(new) + 1
         /\ \A j \in 1 .. Len(new) : (new \o <<Head(stack)>>)[j] = new[j]
         /\ (new \o <<Head(stack)>>)[Len(new) + 1] = Head(stack)
         /\ Onto(new \o <<Head(stack)>>, stack, stack')
<1> DEFINE top == <<Head(stack)>>
<1>1. /\ Head(stack) \in GoodTasks
      /\ Tail(stack) \in Seq(GoodTasks)
      /\ Len(new) \in Nat
  BY TailFacts, LenProperties
<1>2. top \in Seq(GoodTasks) /\ Len(top) = 1 /\ top[1] = Head(stack)
  BY <1>1, ListsOfTasks
<1> HIDE DEF top
<1>3. /\ new \o top \in Seq(GoodTasks)
      /\ Len(new \o top) = Len(new) + 1
      /\ \A i \in 1 .. Len(new) + 1 :
           (new \o top)[i] = IF i <= Len(new) THEN new[i] ELSE top[i - Len(new)]
  <2>1. /\ new \o top \in Seq(GoodTasks)
        /\ Len(new \o top) = Len(new) + Len(top)
        /\ \A i \in 1 .. Len(new) + Len(top) :
             (new \o top)[i] = IF i <= Len(new) THEN new[i] ELSE top[i - Len(new)]
    BY <1>2, ConcatProperties
  <2> QED
    BY <1>2, <2>1
<1>4. /\ \A j \in 1 .. Len(new) : (new \o top)[j] = new[j]
      /\ (new \o top)[Len(new) + 1] = Head(stack)
  BY <1>1, <1>2, <1>3
<1>5. /\ new \o stack \in Seq(GoodTasks)
      /\ Len(new \o stack) = Len(new) + Len(stack)
      /\ \A i \in 1 .. Len(new) + Len(stack) :
           (new \o stack)[i] = IF i <= Len(new) THEN new[i] ELSE stack[i - Len(new)]
  BY ConcatProperties
<1>6. Len(stack) \in Nat \ {0} /\ Head(stack) = stack[1]
  BY TailFacts
<1> DEFINE t == new \o stack
<1>7. /\ t \in Seq(GoodTasks)
      /\ Len(t) = Len(new \o top) + Len(stack) - 1
  BY <1>1, <1>3, <1>5, <1>6
<1>8. ASSUME NEW j \in 1 .. Len(new \o top)
      PROVE  t[j] = (new \o top)[j]
  <2>1. j \in 1 .. Len(new) + 1 /\ j \in 1 .. Len(new) + Len(stack)
    BY <1>1, <1>3, <1>6
  <2>2. CASE j <= Len(new)
    BY <2>1, <2>2, <1>3, <1>5
  <2>3. CASE j = Len(new) + 1
    <3>1. ~(j <= Len(new)) /\ j - Len(new) = 1
      BY <2>3, <1>1
    <3> QED
      BY <2>1, <2>3, <3>1, <1>4, <1>5, <1>6
  <2> QED
    BY <2>1, <2>2, <2>3, <1>1
<1>9. ASSUME NEW j \in 2 .. Len(stack)
      PROVE  SameCall(t[Len(new \o top) + j - 1], stack[j])
  <2>1. /\ Len(new \o top) + j - 1 = Len(new) + j
        /\ Len(new) + j \in 1 .. Len(new) + Len(stack)
        /\ ~(Len(new) + j <= Len(new))
        /\ (Len(new) + j) - Len(new) = j
    BY <1>1, <1>3, <1>6
  <2> QED
    BY <2>1, <1>5 DEF SameCall
<1>10. Onto(new \o top, stack, t)
  <2>1. Len(new \o top) \in Nat
    BY <1>1, <1>3
  <2> HIDE DEF t
  <2> QED
    BY <2>1, <1>7, <1>8, <1>9, Zenon DEF Onto
<1> QED
  BY <1>3, <1>4, <1>10 DEF top

(* To mark tasks whose element is gone changes nothing else.               *)
LEMMA MarkedTail ==
  ASSUME stack \in Seq(GoodTasks), stack # <<>>, NEW a, NEW b
  PROVE  \A tail \in {Erased(Tail(stack), a, b), Deleted(Tail(stack), a, b)} :
            /\ tail \in Seq(GoodTasks)
            /\ Len(tail) = Len(stack) - 1
            /\ \A j \in 1 .. Len(tail) : SameCall(tail[j], stack[j + 1])
<1> DEFINE rest == Tail(stack)
<1>1. /\ rest \in Seq(GoodTasks)
      /\ Len(rest) = Len(stack) - 1
      /\ Len(rest) \in Nat
      /\ \A j \in 1 .. Len(rest) : rest[j] = stack[j + 1] /\ rest[j] \in GoodTasks
  BY TailFacts, LenProperties, ElementOfSeq
<1> HIDE DEF rest
<1>2. \A t \in GoodTasks : /\ [t EXCEPT !.live = FALSE] \in GoodTasks
                           /\ SameCall([t EXCEPT !.live = FALSE], t)
                           /\ SameCall(t, t)
  BY DEF GoodTasks, Tasks, SameCall
<1>3. ASSUME NEW tail \in {Erased(rest, a, b), Deleted(rest, a, b)}
      PROVE  /\ tail \in [1 .. Len(rest) -> GoodTasks]
             /\ \A j \in 1 .. Len(rest) : SameCall(tail[j], rest[j])
  BY <1>1, <1>2, <1>3 DEF Erased, Deleted
<1>4. ASSUME NEW tail \in [1 .. Len(rest) -> GoodTasks]
      PROVE  tail \in Seq(GoodTasks) /\ Len(tail) = Len(rest)
  BY <1>1, SMTT(20)
<1>5. ASSUME NEW tail \in {Erased(rest, a, b), Deleted(rest, a, b)}
      PROVE  /\ tail \in Seq(GoodTasks)
             /\ Len(tail) = Len(stack) - 1
             /\ \A j \in 1 .. Len(tail) : SameCall(tail[j], stack[j + 1])
  <2>1. tail \in Seq(GoodTasks) /\ Len(tail) = Len(rest)
    BY <1>3, <1>4, <1>5
  <2> QED
    BY <1>1, <1>3, <1>5, <2>1
<1> QED
  BY <1>5 DEF rest

LEMMA EndCombatGood ==
  ASSUME NEW p \in Units \X Units
  PROVE  /\ EndCombat(p) \in Seq(GoodTasks)
         /\ Len(EndCombat(p)) = 3
         /\ EndCombat(p)[1] = Task("EndCombatFirst", p[1], p[2])
         /\ EndCombat(p)[2] = Task("EndCombatSecond", p[1], p[2])
         /\ EndCombat(p)[3] = Task("EndCombatPurge", p[1], p[2])
<1>1. \A do \in OfReference : Task(do, p[1], p[2]) \in GoodTasks
  BY TaskIsGood DEF OfReference
<1> QED
  BY <1>1, ListsOfTasks DEF EndCombat, OfReference

(* The tasks of one EndCombat, and those that follow.                      *)
LEMMA EndCombatTasks ==
  ASSUME NEW p \in Units \X Units, NEW rest \in Seq(GoodTasks)
  PROVE  /\ EndCombat(p) \o rest \in Seq(GoodTasks)
         /\ Len(EndCombat(p) \o rest) = Len(rest) + 3
         /\ (EndCombat(p) \o rest)[1] = Task("EndCombatFirst", p[1], p[2])
         /\ (EndCombat(p) \o rest)[2] = Task("EndCombatSecond", p[1], p[2])
         /\ (EndCombat(p) \o rest)[3] = Task("EndCombatPurge", p[1], p[2])
         /\ \A j \in 1 .. Len(rest) : (EndCombat(p) \o rest)[j + 3] = rest[j]
<1> DEFINE e == EndCombat(p)
<1>2. /\ e \in Seq(GoodTasks)
      /\ Len(e) = 3
      /\ e[1] = Task("EndCombatFirst", p[1], p[2])
      /\ e[2] = Task("EndCombatSecond", p[1], p[2])
      /\ e[3] = Task("EndCombatPurge", p[1], p[2])
  BY EndCombatGood
<1> HIDE DEF e
<1>3. /\ e \o rest \in Seq(GoodTasks)
      /\ Len(e \o rest) = Len(e) + Len(rest)
      /\ \A i \in 1 .. Len(e) + Len(rest) :
           (e \o rest)[i] = IF i <= Len(e) THEN e[i] ELSE rest[i - Len(e)]
  BY <1>2, ConcatProperties
<1>4. Len(rest) \in Nat
  BY LenProperties
<1>5. \A j \in 1 .. Len(rest) : (e \o rest)[j + 3] = rest[j]
  BY <1>2, <1>3, <1>4
<1> QED
  BY <1>2, <1>3, <1>4, <1>5 DEF e

-----------------------------------------------------------------------------
(* The calls of EndCombat on the stack *)

(* What runs in the middle of EndCombat: AIs are told whom they threaten.  *)
Quiet == {"ProcessAIUpdates", "JustStartedThreateningMe"}

AllQuiet(s) == \A i \in 1 .. Len(s) : s[i].do \in Quiet
Plain(s) == \A i \in 1 .. Len(s) : s[i].do \notin OfReference

QuietAbove(s, i) == \A j \in 1 .. i - 1 : s[j].do \in Quiet

(* An EndCombat of which a part has run.                                   *)
Begun(s, i) ==
  s[i].do \in {"EndCombatSecond", "EndCombatPurge"} /\ QuietAbove(s, i)

NothingBegun(s) == \A i \in 1 .. Len(s) : ~Begun(s, i)

Goes(s, i, next) ==
  /\ i < Len(s)
  /\ s[i + 1].do = next
  /\ s[i + 1].a = s[i].a /\ s[i + 1].b = s[i].b

Follows(s, i, before) == i > 1 /\ s[i - 1].do = before

(* The parts of EndCombat lie on the stack in their order, and nothing     *)
(* gets between them but what is quiet.                                    *)
WellFormed(s) ==
  \A i \in 1 .. Len(s) :
    /\ s[i].do = "EndCombatFirst" => Goes(s, i, "EndCombatSecond")
    /\ s[i].do = "EndCombatSecond" =>
         /\ Goes(s, i, "EndCombatPurge")
         /\ Begun(s, i) \/ Follows(s, i, "EndCombatFirst")
    /\ s[i].do = "EndCombatPurge" =>
         Begun(s, i) \/ Follows(s, i, "EndCombatSecond")

LEMMA PlainIsWellFormed ==
  ASSUME NEW s, Plain(s)
  PROVE  WellFormed(s) /\ NothingBegun(s)
BY DEF Plain, WellFormed, OfReference, NothingBegun, Begun

LEMMA FirstNotBegun ==
  ASSUME NEW s, s[1].do = "EndCombatFirst"
  PROVE  NothingBegun(s)
<1>1. ASSUME NEW i \in 1 .. Len(s), i > 1
      PROVE  ~Begun(s, i)
  <2>1. 1 \in 1 .. i - 1
    BY <1>1
  <2> QED
    BY <2>1 DEF Begun, QuietAbove, Quiet
<1>2. ~Begun(s, 1)
  BY DEF Begun
<1> QED
  BY <1>1, <1>2 DEF NothingBegun

LEMMA EndCombatBefore ==
  ASSUME NEW p \in Units \X Units, NEW rest \in Seq(GoodTasks),
         WellFormed(rest), \A i \in 1 .. Len(rest) : ~Begun(rest, i)
  PROVE  WellFormed(EndCombat(p) \o rest)
<1> DEFINE s == EndCombat(p) \o rest
<1>1. /\ Len(s) = Len(rest) + 3
      /\ s[1] = Task("EndCombatFirst", p[1], p[2])
      /\ s[2] = Task("EndCombatSecond", p[1], p[2])
      /\ s[3] = Task("EndCombatPurge", p[1], p[2])
      /\ \A j \in 1 .. Len(rest) : s[j + 3] = rest[j]
      /\ Len(rest) \in Nat
  BY EndCombatTasks, LenProperties
<1> HIDE DEF s
<1>2. /\ s[1].do = "EndCombatFirst" /\ s[2].do = "EndCombatSecond"
      /\ s[3].do = "EndCombatPurge"
      /\ s[1].a = s[2].a /\ s[1].b = s[2].b /\ s[2].a = s[3].a /\ s[2].b = s[3].b
  BY <1>1 DEF Task
<1>3. Goes(s, 1, "EndCombatSecond") /\ Goes(s, 2, "EndCombatPurge")
  BY <1>1, <1>2 DEF Goes
<1>4. Follows(s, 2, "EndCombatFirst") /\ Follows(s, 3, "EndCombatSecond")
  BY <1>2 DEF Follows
<1>5. ASSUME NEW i \in 1 .. Len(s)
      PROVE  /\ s[i].do = "EndCombatFirst" => Goes(s, i, "EndCombatSecond")
             /\ s[i].do = "EndCombatSecond" =>
                  Goes(s, i, "EndCombatPurge") /\ Follows(s, i, "EndCombatFirst")
             /\ s[i].do = "EndCombatPurge" => Follows(s, i, "EndCombatSecond")
  <2>1. CASE i \in {1, 2, 3}
    BY <1>2, <1>3, <1>4, <2>1
  <2>2. CASE i > 3
    <3> DEFINE k == i - 3
    <3>1. k \in 1 .. Len(rest) /\ k + 3 = i
      BY <1>1, <2>2
    <3>2. s[i] = rest[k]
      BY <1>1, <3>1
    <3>3. /\ rest[k].do = "EndCombatFirst" => Goes(rest, k, "EndCombatSecond")
          /\ rest[k].do = "EndCombatSecond" =>
               Goes(rest, k, "EndCombatPurge") /\ Follows(rest, k, "EndCombatFirst")
          /\ rest[k].do = "EndCombatPurge" => Follows(rest, k, "EndCombatSecond")
      BY <3>1 DEF WellFormed
    <3> HIDE DEF k
    <3>4. ASSUME NEW next, Goes(rest, k, next)
          PROVE  Goes(s, i, next)
      <4>1. k + 1 \in 1 .. Len(rest) /\ (k + 1) + 3 = i + 1 /\ i < Len(s)
        BY <1>1, <3>1, <3>4 DEF Goes
      <4>2. s[i + 1] = rest[k + 1]
        BY <1>1, <4>1
      <4> QED
        BY <3>2, <3>4, <4>1, <4>2 DEF Goes
    <3>5. ASSUME NEW before, Follows(rest, k, before)
          PROVE  Follows(s, i, before)
      <4>1. k - 1 \in 1 .. Len(rest) /\ (k - 1) + 3 = i - 1 /\ i > 1
        BY <1>1, <3>1, <3>5 DEF Follows
      <4>2. s[i - 1] = rest[k - 1]
        BY <1>1, <4>1
      <4> QED
        BY <3>5, <4>1, <4>2 DEF Follows
    <3> QED
      BY <3>2, <3>3, <3>4, <3>5
  <2> QED
    BY <1>1, <2>1, <2>2
<1> QED
  BY <1>5 DEF WellFormed, s

LEMMA EndCombatIsWellFormed ==
  ASSUME NEW p \in Units \X Units, NEW rest \in Seq(GoodTasks),
         Plain(rest)
  PROVE  WellFormed(EndCombat(p) \o rest)
<1>1. \A i \in 1 .. Len(rest) : ~Begun(rest, i)
  BY DEF Plain, Begun, OfReference
<1> QED
  BY <1>1, PlainIsWellFormed, EndCombatBefore

(* One EndCombat alone, of which nothing has run yet.                      *)
LEMMA OneEndCombat ==
  ASSUME NEW p \in Units \X Units
  PROVE  /\ WellFormed(EndCombat(p))
         /\ \A i \in 1 .. Len(EndCombat(p)) : ~Begun(EndCombat(p), i)
<1> DEFINE s == EndCombat(p)
<1>1. /\ Len(s) = 3
      /\ s[1] = Task("EndCombatFirst", p[1], p[2])
      /\ s[2] = Task("EndCombatSecond", p[1], p[2])
      /\ s[3] = Task("EndCombatPurge", p[1], p[2])
  BY EndCombatGood
<1> HIDE DEF s
<1>2. /\ s[1].do = "EndCombatFirst" /\ s[2].do = "EndCombatSecond"
      /\ s[3].do = "EndCombatPurge"
      /\ s[1].a = s[2].a /\ s[1].b = s[2].b /\ s[2].a = s[3].a /\ s[2].b = s[3].b
  BY <1>1 DEF Task
<1>3. Goes(s, 1, "EndCombatSecond") /\ Goes(s, 2, "EndCombatPurge")
  BY <1>1, <1>2 DEF Goes
<1>4. Follows(s, 2, "EndCombatFirst") /\ Follows(s, 3, "EndCombatSecond")
  BY <1>2 DEF Follows
<1>5. \A i \in 1 .. Len(s) : i \in {1, 2, 3}
  BY <1>1
<1>6. WellFormed(s)
  BY <1>2, <1>3, <1>4, <1>5 DEF WellFormed
<1>7. ASSUME NEW i \in 1 .. Len(s)
      PROVE  ~Begun(s, i)
  <2>1. CASE i = 1
    BY <1>2, <2>1 DEF Begun
  <2>2. CASE i > 1
    <3>1. 1 \in 1 .. i - 1
      BY <2>2
    <3> QED
      BY <1>2, <3>1 DEF Begun, QuietAbove, Quiet
  <2> QED
    BY <2>1, <2>2
<1> QED
  BY <1>6, <1>7 DEF s

(* What a step does with the stack keeps it so: tasks that are quiet take  *)
(* the place of the top, or others of anything but a part of EndCombat     *)
(* that others follow, while none is begun.                                *)
LEMMA StaysWellFormed ==
  ASSUME NEW s \in Seq(GoodTasks), s # <<>>, WellFormed(s),
         NEW new, NEW t, Onto(new, s, t),
         \/ AllQuiet(new)
         \/ /\ WellFormed(new)
            /\ s[1].do \notin {"EndCombatFirst", "EndCombatSecond"}
            /\ s[1].do \in Quiet => \A i \in 1 .. Len(s) : ~Begun(s, i)
  PROVE  WellFormed(t)
<1> DEFINE n == Len(new)
<1>1. /\ n \in Nat /\ Len(s) \in Nat \ {0}
      /\ Len(t) = n + Len(s) - 1
      /\ \A j \in 1 .. n : t[j] = new[j]
      /\ \A j \in 2 .. Len(s) :
            /\ t[n + j - 1].do = s[j].do
            /\ t[n + j - 1].a = s[j].a
            /\ t[n + j - 1].b = s[j].b
  BY TailFacts, LenProperties DEF Onto, SameCall
<1> HIDE DEF n
<1>2. ASSUME NEW i \in 1 .. n, ~AllQuiet(new)
      PROVE  /\ t[i].do = "EndCombatFirst" => Goes(t, i, "EndCombatSecond")
             /\ t[i].do = "EndCombatSecond" =>
                  /\ Goes(t, i, "EndCombatPurge")
                  /\ Begun(t, i) \/ Follows(t, i, "EndCombatFirst")
             /\ t[i].do = "EndCombatPurge" =>
                  Begun(t, i) \/ Follows(t, i, "EndCombatSecond")
  <2>1. WellFormed(new)
    BY <1>2
  <2>2. ASSUME NEW next, Goes(new, i, next)
        PROVE  Goes(t, i, next)
    <3>1. i < n
      BY <2>2 DEF Goes, n
    <3>2. i + 1 \in 1 .. n /\ i < Len(t)
      BY <1>1, <3>1
    <3> QED
      BY <1>1, <2>2, <3>2 DEF Goes
  <2>3. ASSUME Begun(new, i)
        PROVE  Begun(t, i)
    <3>1. \A j \in 1 .. i - 1 : j \in 1 .. n
      BY <1>1
    <3> QED
      BY <1>1, <2>3, <3>1 DEF Begun, QuietAbove
  <2>4. \A before : Follows(new, i, before) => Follows(t, i, before)
    BY <1>1 DEF Follows
  <2> QED
    BY <1>1, <2>1, <2>2, <2>3, <2>4 DEF WellFormed, n
<1>3. ASSUME NEW i \in 1 .. n, AllQuiet(new)
      PROVE  t[i].do \notin OfReference
  BY <1>1, <1>3 DEF AllQuiet, Quiet, OfReference, n
<1>4. ASSUME NEW k \in 2 .. Len(s)
      PROVE  LET i == n + k - 1 IN
             /\ t[i].do = "EndCombatFirst" => Goes(t, i, "EndCombatSecond")
             /\ t[i].do = "EndCombatSecond" =>
                  /\ Goes(t, i, "EndCombatPurge")
                  /\ Begun(t, i) \/ Follows(t, i, "EndCombatFirst")
             /\ t[i].do = "EndCombatPurge" =>
                  Begun(t, i) \/ Follows(t, i, "EndCombatSecond")
  <2> DEFINE i == n + k - 1
  <2>1. i \in Nat /\ i > n /\ i <= Len(t) /\ t[i].do = s[k].do /\ k \in 1 .. Len(s)
    BY <1>1
  <2>2. \A next : Goes(s, k, next) => Goes(t, i, next)
    <3>1. ASSUME k < Len(s)
          PROVE  /\ i < Len(t)
                 /\ t[i + 1].do = s[k + 1].do
                 /\ t[i + 1].a = s[k + 1].a
                 /\ t[i + 1].b = s[k + 1].b
      <4>1. k + 1 \in 2 .. Len(s) /\ n + (k + 1) - 1 = i + 1 /\ i < Len(t)
        BY <1>1, <3>1
      <4> QED
        BY <1>1, <4>1
    <3> QED
      BY <1>1, <3>1 DEF Goes
  <2>3. ASSUME AllQuiet(new), QuietAbove(s, k) \/ k = 2
        PROVE  QuietAbove(t, i)
    <3>1. ASSUME NEW j \in 1 .. i - 1
          PROVE  t[j].do \in Quiet
      <4>1. CASE j <= n
        BY <1>1, <2>3, <4>1 DEF AllQuiet, n
      <4>2. CASE j > n
        <5>1. /\ j - n + 1 \in 2 .. Len(s) /\ n + (j - n + 1) - 1 = j
              /\ j - n + 1 \in 1 .. k - 1 /\ k # 2
          BY <1>1, <4>2
        <5>2. t[j].do = s[j - n + 1].do
          BY <1>1, <5>1
        <5> QED
          BY <2>3, <5>1, <5>2 DEF QuietAbove
      <4> QED
        BY <1>1, <4>1, <4>2
    <3> QED
      BY <3>1 DEF QuietAbove
  <2>4. ASSUME NEW before, Follows(s, k, before), k # 2
        PROVE  Follows(t, i, before)
    <3>1. /\ k - 1 \in 2 .. Len(s) /\ n + (k - 1) - 1 = i - 1 /\ i > 1
      BY <1>1, <2>4
    <3>2. t[i - 1].do = s[k - 1].do
      BY <1>1, <3>1
    <3> QED
      BY <2>4, <3>1, <3>2 DEF Follows
  <2>5. ASSUME s[k].do \in {"EndCombatSecond", "EndCombatPurge"}, Begun(s, k)
        PROVE  Begun(t, i)
    <3>1. s[1].do \in Quiet
      BY <2>5 DEF Begun, QuietAbove
    <3>2. AllQuiet(new)
      BY <2>1, <2>5, <3>1
    <3> QED
      BY <2>1, <2>3, <2>5, <3>2 DEF Begun
  <2>6. ASSUME s[k].do \in {"EndCombatSecond", "EndCombatPurge"},
               NEW before \in {"EndCombatFirst", "EndCombatSecond"},
               Follows(s, k, before)
        PROVE  Begun(t, i) \/ Follows(t, i, before)
    <3>1. CASE k # 2
      BY <2>4, <2>6, <3>1
    <3>2. CASE k = 2
      <4>1. AllQuiet(new)
        BY <2>6, <3>2 DEF Follows
      <4> QED
        BY <2>1, <2>3, <2>6, <3>2, <4>1 DEF Begun
    <3> QED
      BY <3>1, <3>2
  <2>7. /\ s[k].do = "EndCombatFirst" => Goes(s, k, "EndCombatSecond")
        /\ s[k].do = "EndCombatSecond" =>
             /\ Goes(s, k, "EndCombatPurge")
             /\ Begun(s, k) \/ Follows(s, k, "EndCombatFirst")
        /\ s[k].do = "EndCombatPurge" =>
             Begun(s, k) \/ Follows(s, k, "EndCombatSecond")
    BY <2>1 DEF WellFormed
  <2> HIDE DEF i
  <2>8. /\ t[i].do = "EndCombatFirst" => Goes(t, i, "EndCombatSecond")
        /\ t[i].do = "EndCombatSecond" =>
             /\ Goes(t, i, "EndCombatPurge")
             /\ Begun(t, i) \/ Follows(t, i, "EndCombatFirst")
        /\ t[i].do = "EndCombatPurge" =>
             Begun(t, i) \/ Follows(t, i, "EndCombatSecond")
    BY <2>1, <2>2, <2>5, <2>6, <2>7
  <2> QED
    BY <2>8 DEF i
<1>5. ASSUME NEW i \in 1 .. Len(t)
      PROVE  /\ t[i].do = "EndCombatFirst" => Goes(t, i, "EndCombatSecond")
             /\ t[i].do = "EndCombatSecond" =>
                  /\ Goes(t, i, "EndCombatPurge")
                  /\ Begun(t, i) \/ Follows(t, i, "EndCombatFirst")
             /\ t[i].do = "EndCombatPurge" =>
                  Begun(t, i) \/ Follows(t, i, "EndCombatSecond")
  <2>1. CASE i <= n
    <3>1. i \in 1 .. n
      BY <1>1, <2>1
    <3> QED
      BY <3>1, <1>2, <1>3 DEF OfReference
  <2>2. CASE i > n
    <3>1. i - n + 1 \in 2 .. Len(s) /\ n + (i - n + 1) - 1 = i
      BY <1>1, <2>2
    <3> QED
      BY <3>1, <1>4
  <2> QED
    BY <1>1, <2>1, <2>2
<1> QED
  BY <1>5 DEF WellFormed

LEMMA MiddleOfEndCombat ==
  ASSUME stack \in Seq(GoodTasks), WellFormed(stack)
  PROVE  InEndCombat <=> \E i \in 1 .. Len(stack) : Begun(stack, i)
<1>1. ASSUME NEW i \in 1 .. Len(stack), Begun(stack, i), i > 1
      PROVE  stack[i - 1].do \in Quiet
  <2>1. i - 1 \in 1 .. i - 1 /\ Len(stack) \in Nat
    BY <1>1, LenProperties
  <2> QED
    BY <1>1, <2>1 DEF Begun, QuietAbove
<1>2. ASSUME NEW i \in 1 .. Len(stack), Begun(stack, i)
      PROVE  InEndCombat
  BY <1>1, <1>2 DEF InEndCombat, Begun, Quiet
<1>3. ASSUME InEndCombat
      PROVE  \E i \in 1 .. Len(stack) : Begun(stack, i)
  BY <1>3 DEF InEndCombat, WellFormed, Follows
<1> QED
  BY <1>2, <1>3

-----------------------------------------------------------------------------
(* What the steps do with the stack *)

TypeInv == TypeOK /\ stack \in Seq(GoodTasks)

(* What may run while a unit is about to be put on a threat list: nothing  *)
(* that ends combat, if no AI evades before combat is over.                *)
Harmless == {"SetInCombatWith", "EngageWithTarget", "AddThreat",
             "AddThreatUnchecked", "ProcessAIUpdates", "JustEnteredCombat",
             "JustStartedThreateningMe"}

EvadesLate ==
  \A hook \in Hooks : <<hook, "EnterEvadeMode">> \in Reactions => hook = "JustExitedCombat"

EndAlls == {"EndAllPvECombat", "EndAllPvPCombat"}

StackStep(new) ==
  /\ stack # <<>>
  /\ Onto(new, stack, stack')
  /\ \/ AllQuiet(new)
     \/ /\ WellFormed(new) /\ NothingBegun(new)
        /\ stack[1].do \notin {"EndCombatFirst", "EndCombatSecond"}
        /\ stack[1].do \in Quiet /\ InEndCombat => ReactsInEndCombat
  /\ EvadesLate /\ stack[1].do \in Harmless =>
       \A j \in 1 .. Len(new) : new[j].do \in Harmless
  /\ \A j \in 1 .. Len(new) : new[j].do = "AddThreatUnchecked" =>
       stack[1].do = "EngageWithTarget" /\ IsInCombatWith(new[j].a, new[j].b)
  /\ \/ stack[1].do \notin EndAlls
     \/ stack[1].do = "EndAllPvECombat" /\ pve[stack[1].a] = {}
     \/ stack[1].do = "EndAllPvPCombat" /\ pvp[stack[1].a] = {}
     \/ \E j \in 1 .. Len(new) : SameCall(new[j], stack[1])

LEMMA TopFacts ==
  ASSUME TypeInv, stack # <<>>
  PROVE  /\ Head(stack) = stack[1] /\ stack[1] \in GoodTasks
         /\ Head(stack).do = stack[1].do
         /\ Head(stack).a = stack[1].a /\ Head(stack).a \in Units
         /\ Head(stack).b = stack[1].b /\ Head(stack).b \in Units \cup {Nobody}
         /\ Head(stack).left = stack[1].left /\ Head(stack).left \subseteq Units
         /\ Head(stack).do \in OfTwo => Head(stack).b \in Units
<1>1. Head(stack) = stack[1] /\ stack[1] \in GoodTasks
  BY TailFacts DEF TypeInv
<1> QED
  BY <1>1 DEF GoodTasks, Tasks

LEMMA UpdatesTask ==
  ASSUME NEW a \in Units, NEW l \in SUBSET Units
  PROVE  /\ [Task("ProcessAIUpdates", a, Nobody) EXCEPT !.left = l] \in GoodTasks
         /\ [Task("ProcessAIUpdates", a, Nobody) EXCEPT !.left = l].do = "ProcessAIUpdates"
BY DEF Task, GoodTasks, Tasks, Others, OfTwo, OfReference

(* A step whose new tasks are quiet.                                       *)
LEMMA QuietStep ==
  ASSUME TypeInv, stack # <<>>, NEW new \in Seq(GoodTasks), Then(new),
         AllQuiet(new), stack[1].do \notin EndAlls
  PROVE  StackStep(new)
<1>1. Onto(new, stack, stack')
  BY OntoThen DEF TypeInv
<1>2. \A j \in 1 .. Len(new) :
        new[j].do \in Harmless /\ new[j].do # "AddThreatUnchecked"
  BY DEF AllQuiet, Quiet, Harmless
<1> QED
  BY <1>1, <1>2 DEF StackStep

LEMMA NoTasks ==
  ASSUME TypeInv, stack # <<>>, Then(<<>>), stack[1].do \notin EndAlls
  PROVE  StackStep(<<>>)
<1>1. <<>> \in Seq(GoodTasks) /\ AllQuiet(<<>>)
  BY DEF AllQuiet
<1> QED
  BY <1>1, QuietStep

(* A step whose new tasks are neither parts of EndCombat nor of AddThreat. *)
LEMMA PlainStep ==
  ASSUME TypeInv, stack # <<>>, NEW new \in Seq(GoodTasks),
         Onto(new, stack, stack'),
         \A j \in 1 .. Len(new) :
            new[j].do \notin OfReference \cup {"AddThreatUnchecked"},
         stack[1].do \notin {"EndCombatFirst", "EndCombatSecond"}
                            \cup EndAlls \cup Harmless
  PROVE  StackStep(new)
<1>1. WellFormed(new) /\ NothingBegun(new)
  BY PlainIsWellFormed DEF Plain
<1>2. stack[1].do \notin Quiet
  BY DEF Quiet, Harmless
<1> QED
  BY <1>1, <1>2 DEF StackStep

(* The AIs told of a change of combat.                                     *)
LEMMA AfterChangeTasks ==
  ASSUME NEW hook \in Hooks, NEW a \in Units, NEW b \in Units
  PROVE  AfterChange(hook, a, b) \in Seq({t \in GoodTasks : t.do = hook})
<1> DEFINE E == {t \in GoodTasks : t.do = hook}
           one == IF StateChanged(a) /\ a \in WithAI THEN <<Task(hook, a, b)>> ELSE <<>>
           two == IF StateChanged(b) /\ b \in WithAI THEN <<Task(hook, b, a)>> ELSE <<>>
<1>1. Task(hook, a, b) \in E /\ Task(hook, b, a) \in E
  BY TaskIsGood
<1> HIDE DEF E
<1>2. one \in Seq(E) /\ two \in Seq(E)
  BY <1>1
<1> HIDE DEF one, two
<1>3. one \o two \in Seq(E)
  BY <1>2, ConcatProperties
<1> QED
  BY <1>3 DEF AfterChange, one, two, E

LEMMA EngageStep ==
  ASSUME TypeInv, NEW do \in {"SetInCombatWith", "EngageWithTarget"}, Top(do),
         NEW new \in Seq({t \in GoodTasks :
            /\ t.do \in {"JustEnteredCombat", "AddThreat", "AddThreatUnchecked"}
            /\ t.do = "AddThreatUnchecked" =>
                 do = "EngageWithTarget" /\ IsInCombatWith(t.a, t.b)}),
         Then(new)
  PROVE  \E n : StackStep(n)
<1>1. \A j \in 1 .. Len(new) :
        /\ new[j] \in GoodTasks
        /\ new[j].do \in {"JustEnteredCombat", "AddThreat", "AddThreatUnchecked"}
        /\ new[j].do = "AddThreatUnchecked" =>
             do = "EngageWithTarget" /\ IsInCombatWith(new[j].a, new[j].b)
  BY ElementOfSeq
<1>2. new \in Seq(GoodTasks)
  BY SeqMonotonic
<1>3. WellFormed(new) /\ NothingBegun(new)
  BY <1>1, PlainIsWellFormed DEF Plain, OfReference
<1>4. stack # <<>> /\ stack[1].do = do
  BY TopFacts DEF Top
<1>5. Onto(new, stack, stack')
  BY <1>2, <1>4, OntoThen DEF TypeInv
<1>6. \A j \in 1 .. Len(new) : new[j].do \in Harmless
  BY <1>1 DEF Harmless
<1> QED
  BY <1>1, <1>3, <1>4, <1>5, <1>6 DEF StackStep, Quiet, EndAlls

LEMMA SetInCombatWithStack ==
  ASSUME TypeInv, SetInCombatWith
  PROVE  \E new : StackStep(new)
<1> DEFINE a == Head(stack).a
           b == Head(stack).b
           R(do, name) == IF do = "EngageWithTarget" /\ a \in Threatable
                          THEN <<Task(name, a, b)>> ELSE <<>>
           E(do) == {t \in GoodTasks :
            /\ t.do \in {"JustEnteredCombat", "AddThreat", "AddThreatUnchecked"}
            /\ t.do = "AddThreatUnchecked" =>
                 do = "EngageWithTarget" /\ IsInCombatWith(t.a, t.b)}
<1>1. PICK do \in {"SetInCombatWith", "EngageWithTarget"} :
        /\ Top(do)
        /\ \/ /\ IsInCombatWith(a, b)
              /\ Then((IF IsFirst(a, b)
                           THEN AfterChange("JustEnteredCombat", a, b)
                           ELSE AfterChange("JustEnteredCombat", b, a))
                      \o R(do, "AddThreatUnchecked"))
           \/ /\ IsInCombatWith(a, b)
              /\ Then(R(do, "AddThreatUnchecked"))
           \/ Then(<<>>)
           \/ Then(AfterChange("JustEnteredCombat", a, b) \o R(do, "AddThreat"))
  BY DEF SetInCombatWith, IsInCombatWith
<1>2. stack # <<>> /\ a \in Units /\ b \in Units
  BY <1>1, TopFacts DEF Top, OfTwo
<1> HIDE DEF a, b
<1>3. ASSUME NEW x \in {AfterChange("JustEnteredCombat", a, b),
                        AfterChange("JustEnteredCombat", b, a)}
      PROVE  x \in Seq(E(do))
  <2>1. x \in Seq({t \in GoodTasks : t.do = "JustEnteredCombat"})
    BY <1>2, <1>3, AfterChangeTasks DEF Hooks
  <2>2. {t \in GoodTasks : t.do = "JustEnteredCombat"} \subseteq E(do)
    OBVIOUS
  <2> HIDE DEF E
  <2> QED
    BY <2>1, <2>2, SeqMonotonic
<1>4. R(do, "AddThreat") \in Seq(E(do))
  <2> DEFINE t == Task("AddThreat", a, b)
  <2>1. "AddThreat" \in Others
    BY DEF Others
  <2>2. t \in GoodTasks /\ t.do = "AddThreat"
    BY <1>2, <2>1, TaskIsGood
  <2> HIDE DEF t
  <2>3. t \in E(do)
    BY <2>2
  <2> HIDE DEF E
  <2> QED
    BY <2>3 DEF t
<1>5. IsInCombatWith(a, b) => R(do, "AddThreatUnchecked") \in Seq(E(do))
  <2> DEFINE t == Task("AddThreatUnchecked", a, b)
  <2>1. "AddThreatUnchecked" \in Others
    BY DEF Others
  <2>2. t \in GoodTasks /\ t.do = "AddThreatUnchecked" /\ t.a = a /\ t.b = b
    BY <1>2, <2>1, TaskIsGood
  <2> HIDE DEF t
  <2>3. IsInCombatWith(a, b) /\ do = "EngageWithTarget" => t \in E(do)
    BY <2>2
  <2> HIDE DEF E
  <2> QED
    BY <2>3 DEF t
<1>6. ASSUME NEW new \in Seq(E(do)), Then(new)
      PROVE  \E n : StackStep(n)
  BY <1>1, <1>6, EngageStep
<1> HIDE DEF E, R
<1>7. ASSUME NEW x \in Seq(E(do)), NEW y \in Seq(E(do))
      PROVE  x \o y \in Seq(E(do))
  BY <1>7, ConcatProperties
<1>8. <<>> \in Seq(E(do))
  OBVIOUS
<1> QED
  BY <1>1, <1>3, <1>4, <1>5, <1>6, <1>7, <1>8

LEMMA EndCombatPurgeStack ==
  ASSUME TypeInv, EndCombatPurge
  PROVE  \E new : StackStep(new)
<1> DEFINE a == Head(stack).a
           b == Head(stack).b
           new == AfterChange("JustExitedCombat", a, b)
<1>1. stack # <<>> /\ stack[1].do = "EndCombatPurge" /\ a \in Units /\ b \in Units
  BY TopFacts DEF EndCombatPurge, Top, OfTwo, OfReference
<1>2. stack' = new \o Deleted(Tail(stack), a, b)
  BY DEF EndCombatPurge
<1>3. new \in Seq({t \in GoodTasks : t.do = "JustExitedCombat"})
  BY <1>1, AfterChangeTasks DEF Hooks
<1> HIDE DEF new
<1>4. /\ new \in Seq(GoodTasks)
      /\ \A j \in 1 .. Len(new) : new[j].do = "JustExitedCombat"
  <2>1. {t \in GoodTasks : t.do = "JustExitedCombat"} \subseteq GoodTasks
    OBVIOUS
  <2> QED
    BY <1>3, <2>1, SeqMonotonic, ElementOfSeq
<1>5. Onto(new, stack, new \o Deleted(Tail(stack), a, b))
  BY <1>1, <1>4, MarkedTail, OntoTail DEF TypeInv
<1> QED
  BY <1>1, <1>2, <1>4, <1>5, PlainStep DEF OfReference, EndAlls, Harmless

LEMMA SuppressPvPCombatStack ==
  ASSUME TypeInv, SuppressPvPCombat
  PROVE  \E new : StackStep(new)
<1> DEFINE a == Head(stack).a
           t == Task("JustExitedCombat", a, Nobody)
           new == IF StateChanged(a) /\ a \in WithAI THEN <<t>> ELSE <<>>
<1>1. stack # <<>> /\ stack[1].do = "SuppressPvPCombat" /\ a \in Units
  BY TopFacts DEF SuppressPvPCombat, Top
<1>2. t \in GoodTasks /\ t.do = "JustExitedCombat"
  <2>1. "JustExitedCombat" \in Hooks /\ "JustExitedCombat" \notin OfTwo
    BY DEF Hooks, OfTwo, OfReference
  <2> QED
    BY <1>1, <2>1, TaskIsGood
<1>3. Then(new)
  BY DEF SuppressPvPCombat
<1> HIDE DEF t
<1>4. /\ new \in Seq(GoodTasks)
      /\ \A j \in 1 .. Len(new) : new[j].do = "JustExitedCombat"
  BY <1>2, ListsOfTasks
<1> HIDE DEF new
<1>5. Onto(new, stack, stack')
  BY <1>1, <1>3, <1>4, OntoThen DEF TypeInv
<1> QED
  BY <1>1, <1>4, <1>5, PlainStep DEF OfReference, EndAlls, Harmless

LEMMA PairsAreUnits ==
  ASSUME NEW a \in Units, NEW b \in Units, NEW p \in Pairs(a, b)
  PROVE  /\ p \in Units \X Units
         /\ {p[1], p[2]} = {a, b}
BY DEF Pairs

LEMMA EndOneOfAll ==
  ASSUME TypeInv, stack # <<>>, stack[1].do \in EndAlls,
         NEW p \in Units \X Units, stack' = EndCombat(p) \o stack
  PROVE  StackStep(EndCombat(p) \o <<Head(stack)>>)
<1> DEFINE top == <<Head(stack)>>
           e == EndCombat(p)
           new == e \o top
<1>1. Head(stack) = stack[1] /\ stack[1] \in GoodTasks
  BY TopFacts
<1>2. top \in Seq(GoodTasks) /\ Len(top) = 1 /\ top[1] = stack[1]
  BY <1>1, ListsOfTasks
<1>3. e \in Seq(GoodTasks) /\ Len(e) = 3
  BY EndCombatGood
<1>4. Onto(new, stack, stack') /\ Len(new) = 4 /\ new[4] = stack[1]
  <2>1. /\ Len(new) = Len(e) + 1
        /\ new[Len(e) + 1] = Head(stack)
        /\ Onto(new, stack, stack')
    <3> HIDE DEF e
    <3> QED
      BY <1>3, OntoAll DEF TypeInv, e
  <2> HIDE DEF new, e
  <2> QED
    BY <1>1, <1>3, <2>1
<1>5. WellFormed(new)
  <2>1. Plain(top)
    BY <1>2 DEF Plain, EndAlls, OfReference
  <2> HIDE DEF top
  <2> QED
    BY <1>2, <2>1, EndCombatIsWellFormed
<1>6. /\ new[1].do = "EndCombatFirst" /\ new[2].do = "EndCombatSecond"
      /\ new[3].do = "EndCombatPurge"
  <2> HIDE DEF top
  <2>1. /\ new[1] = Task("EndCombatFirst", p[1], p[2])
        /\ new[2] = Task("EndCombatSecond", p[1], p[2])
        /\ new[3] = Task("EndCombatPurge", p[1], p[2])
    BY <1>2, EndCombatTasks
  <2> HIDE DEF new
  <2> QED
    BY <2>1 DEF Task
<1> HIDE DEF new
<1>7. \A j \in 1 .. Len(new) : new[j].do # "AddThreatUnchecked"
  <2>1. \A j \in 1 .. 4 : j \in {1, 2, 3, 4}
    OBVIOUS
  <2> QED
    BY <1>4, <1>6, <2>1 DEF EndAlls
<1>8. \E j \in 1 .. Len(new) : SameCall(new[j], stack[1])
  BY <1>4 DEF SameCall
<1>9. StackStep(new)
  BY <1>4, <1>5, <1>6, <1>7, <1>8, FirstNotBegun DEF StackStep, EndAlls, Harmless, Quiet
<1> QED
  BY <1>9 DEF new

LEMMA EndAllStack ==
  ASSUME TypeInv, EndAllPvECombat \/ EndAllPvPCombat
  PROVE  \E new : StackStep(new)
<1> DEFINE a == Head(stack).a
<1>1. /\ stack # <<>> /\ stack[1].do \in EndAlls /\ a \in Units /\ stack[1].a = a
      /\ Head(stack).do = stack[1].do
  BY TopFacts DEF EndAllPvECombat, EndAllPvPCombat, EndAll, Top, EndAlls
<1>2. /\ pve[a] \subseteq Units
      /\ pvp[a] \subseteq Units
  BY <1>1 DEF TypeInv, TypeOK
<1>3. \/ /\ Then(<<>>)
         /\ \/ stack[1].do = "EndAllPvECombat" /\ pve[a] = {}
            \/ stack[1].do = "EndAllPvPCombat" /\ pvp[a] = {}
      \/ \E b \in Units : \E p \in Pairs(a, b) : stack' = EndCombat(p) \o stack
  BY <1>1, <1>2 DEF EndAllPvECombat, EndAllPvPCombat, EndAll, Top
<1>4. ASSUME Then(<<>>),
             \/ stack[1].do = "EndAllPvECombat" /\ pve[a] = {}
             \/ stack[1].do = "EndAllPvPCombat" /\ pvp[a] = {}
      PROVE  StackStep(<<>>)
  <2>1. <<>> \in Seq(GoodTasks) /\ AllQuiet(<<>>) /\ Len(<<>>) = 0
    BY DEF AllQuiet
  <2>2. Onto(<<>>, stack, stack')
    BY <1>1, <1>4, <2>1, OntoThen DEF TypeInv
  <2> QED
    BY <1>1, <1>4, <2>1, <2>2 DEF StackStep
<1>5. ASSUME NEW b \in Units, NEW p \in Pairs(a, b), stack' = EndCombat(p) \o stack
      PROVE  \E new : StackStep(new)
  <2>1. p \in Units \X Units
    BY <1>1, <1>5, PairsAreUnits
  <2> QED
    BY <1>1, <1>5, <2>1, EndOneOfAll
<1> QED
  BY <1>3, <1>4, <1>5

(* What is left of a loop: nothing, or the loop at the next element.       *)
LoopAt(u) == IF u.b = Nobody THEN <<>> ELSE <<u>>

LEMMA LoopGoesOn ==
  ASSUME NEW t \in GoodTasks, t.do \in Loops, NEW m \in SUBSET Units,
         NEW u \in Advance(t, m)
  PROVE  /\ LoopAt(u) \in Seq(GoodTasks)
         /\ \A j \in 1 .. Len(LoopAt(u)) : LoopAt(u)[j].do = t.do
<1>1. u \in GoodTasks /\ u.do = t.do
  <2>1. t \in Tasks /\ t.do \notin OfTwo
    BY DEF GoodTasks, OfTwo, Loops, OfReference
  <2>2. \/ u = [t EXCEPT !.b = Nobody, !.left = {}]
        \/ \E b \in Units, l \in SUBSET Units : u = [t EXCEPT !.b = b, !.left = l]
    BY DEF Advance
  <2> QED
    BY <2>1, <2>2 DEF GoodTasks, Tasks
<1> QED
  BY <1>1, ListsOfTasks DEF LoopAt

(* A loop ends the reference it is at, and stands at the next or is over.  *)
LEMMA LoopStack ==
  ASSUME TypeInv, NEW do \in Loops, LoopStep(do)
  PROVE  \E new : StackStep(new)
<1> DEFINE t == Head(stack)
           a == t.a
           Rest(u) == IF u.b = Nobody THEN <<>> ELSE <<u>>
           over == IF do \in {"EndPvEBeyondRange", "RevalidatePvE"}
                   THEN pve[a] ELSE pvp[a]
<1>1. /\ stack # <<>> /\ t = stack[1] /\ t \in GoodTasks /\ t.do = do /\ a \in Units
      /\ do \notin OfReference \cup EndAlls \cup Harmless \cup {"AddThreatUnchecked"}
  BY TopFacts DEF LoopStep, Top, Loops, OfReference, EndAlls, Harmless
<1>2. over \subseteq Units
  BY <1>1 DEF TypeInv, TypeOK
<1>3. \/ \E u \in Advance(t, over) : Then(Rest(u))
      \/ \E u \in Advance(t, over \ {t.b}), p \in Pairs(a, t.b) :
            /\ t.b \in Units
            /\ stack' = EndCombat(p) \o Rest(u) \o Erased(Tail(stack), a, t.b)
  <2>1. t.b \in Units \cup {Nobody}
    BY <1>1 DEF GoodTasks, Tasks
  <2> QED
    BY <2>1 DEF LoopStep
<1> HIDE DEF over
<1>4. ASSUME NEW m \in SUBSET Units, NEW u \in Advance(t, m)
      PROVE  /\ Rest(u) \in Seq(GoodTasks)
             /\ \A j \in 1 .. Len(Rest(u)) : Rest(u)[j].do = do
  BY <1>1, <1>4, LoopGoesOn DEF LoopAt
<1>5. ASSUME NEW u \in Advance(t, over), Then(Rest(u))
      PROVE  \E new : StackStep(new)
  <2>1. /\ Rest(u) \in Seq(GoodTasks)
        /\ \A j \in 1 .. Len(Rest(u)) : Rest(u)[j].do = do
    BY <1>2, <1>4
  <2> HIDE DEF Rest, t
  <2>2. Onto(Rest(u), stack, stack')
    BY <1>1, <1>5, <2>1, OntoThen DEF TypeInv
  <2> QED
    BY <1>1, <2>1, <2>2, PlainStep DEF OfReference
<1>6. ASSUME NEW u \in Advance(t, over \ {t.b}), NEW p \in Pairs(a, t.b), t.b \in Units,
             stack' = EndCombat(p) \o Rest(u) \o Erased(Tail(stack), a, t.b)
      PROVE  \E new : StackStep(new)
  <2> DEFINE r == Rest(u)
             new == EndCombat(p) \o r
  <2>1. /\ r \in Seq(GoodTasks)
        /\ \A j \in 1 .. Len(r) : r[j].do = do
        /\ Len(r) \in Nat
    BY <1>2, <1>4, LenProperties
  <2> HIDE DEF r, Rest
  <2>2. p \in Units \X Units
    BY <1>1, <1>6, PairsAreUnits
  <2>3. /\ new \in Seq(GoodTasks)
        /\ Len(new) = Len(r) + 3
        /\ new[1].do = "EndCombatFirst" /\ new[2].do = "EndCombatSecond"
        /\ new[3].do = "EndCombatPurge"
        /\ \A j \in 1 .. Len(r) : new[j + 3] = r[j]
    <3>1. /\ new \in Seq(GoodTasks)
          /\ Len(new) = Len(r) + 3
          /\ new[1] = Task("EndCombatFirst", p[1], p[2])
          /\ new[2] = Task("EndCombatSecond", p[1], p[2])
          /\ new[3] = Task("EndCombatPurge", p[1], p[2])
          /\ \A j \in 1 .. Len(r) : new[j + 3] = r[j]
      BY <2>1, <2>2, EndCombatTasks
    <3> HIDE DEF new
    <3> QED
      BY <3>1 DEF Task
  <2>4. WellFormed(new)
    <3>1. Plain(r)
      BY <1>1, <2>1 DEF Plain
    <3> QED
      BY <2>1, <2>2, <3>1, EndCombatIsWellFormed
  <2>5. stack' = new \o Erased(Tail(stack), a, t.b)
    BY <1>6 DEF r
  <2> HIDE DEF new, t, a
  <2>6. Onto(new, stack, stack')
    BY <1>1, <2>3, <2>5, MarkedTail, OntoTail DEF TypeInv
  <2>7. \A j \in 1 .. Len(new) : new[j].do # "AddThreatUnchecked"
    <3>1. ASSUME NEW j \in 1 .. Len(new), j > 3
          PROVE  new[j].do = do
      <4>1. j - 3 \in 1 .. Len(r) /\ (j - 3) + 3 = j
        BY <2>1, <2>3, <3>1
      <4> QED
        BY <4>1, <2>1, <2>3
    <3>2. \A j \in 1 .. Len(new) : j > 3 \/ j \in {1, 2, 3}
      BY <2>1, <2>3
    <3> QED
      BY <1>1, <2>3, <3>1, <3>2
  <2>8. StackStep(new)
    BY <1>1, <2>3, <2>4, <2>6, <2>7, FirstNotBegun DEF StackStep, OfReference, Harmless, Quiet
  <2> QED
    BY <2>8
<1> QED
  BY <1>3, <1>5, <1>6

(* Of the threat managers.                                                 *)
LEMMA SelectVictimStack ==
  ASSUME TypeInv, stack # <<>>, stack[1].do \notin EndAlls,
         NEW a \in Units, NEW list \in SUBSET Units, NEW was,
         SelectVictim(a, list, was)
  PROVE  \E new : StackStep(new)
<1> DEFINE l == {b \in list : ~ShouldBeOffline(b)} \ was
           t == [Task("ProcessAIUpdates", a, Nobody) EXCEPT !.left = l]
<1>1. Then(<<t>>)
  BY DEF SelectVictim
<1>2. t \in GoodTasks /\ t.do = "ProcessAIUpdates"
  BY UpdatesTask
<1> HIDE DEF t
<1>3. <<t>> \in Seq(GoodTasks) /\ AllQuiet(<<t>>)
  BY <1>2, ListsOfTasks DEF AllQuiet, Quiet
<1> QED
  BY <1>1, <1>3, QuietStep

LEMMA ClearThreatStack ==
  ASSUME TypeInv, ClearThreatTask
  PROVE  \E new : StackStep(new)
<1>1. PICK a \in Units, b \in Units : ClearThreat(a, b)
  BY TopFacts DEF ClearThreatTask, Top, OfTwo, OfReference
<1>2. stack # <<>> /\ stack[1].do \notin EndAlls
  BY TopFacts DEF ClearThreatTask, Top, EndAlls
<1>3. threat[a] \ {b} \in SUBSET Units
  BY DEF TypeInv, TypeOK
<1>4. CASE SelectVictim(a, threat[a] \ {b}, online[a])
  BY <1>2, <1>3, <1>4, SelectVictimStack
<1>5. CASE Then(<<>>)
  BY <1>2, <1>5, NoTasks
<1> QED
  BY <1>1, <1>4, <1>5 DEF ClearThreat

LEMMA AddThreatStack ==
  ASSUME TypeInv, AddThreat
  PROVE  \E new : StackStep(new)
<1> DEFINE a == Head(stack).a
           b == Head(stack).b
           new == IF ShouldBeOffline(b) THEN {} ELSE {b}
           t == [Task("ProcessAIUpdates", a, Nobody) EXCEPT !.left = new]
<1>1. stack # <<>> /\ stack[1].do \notin EndAlls /\ a \in Units /\ b \in Units
  BY TopFacts DEF AddThreat, Top, EndAlls, OfTwo
<1>2. \/ Then(<<>>)
      \/ SelectVictim(a, threat[a] \cup {b}, online[a])
      \/ Then(<<t>>)
  BY DEF AddThreat
<1>3. threat[a] \cup {b} \in SUBSET Units
  BY <1>1 DEF TypeInv, TypeOK
<1>4. t \in GoodTasks /\ t.do = "ProcessAIUpdates"
  BY <1>1, UpdatesTask
<1> HIDE DEF t, a, b
<1>5. <<t>> \in Seq(GoodTasks) /\ AllQuiet(<<t>>)
  BY <1>4, ListsOfTasks DEF AllQuiet, Quiet
<1>6. CASE SelectVictim(a, threat[a] \cup {b}, online[a])
  BY <1>1, <1>3, <1>6, SelectVictimStack
<1>7. CASE Then(<<>>)
  BY <1>1, <1>7, NoTasks
<1>8. CASE Then(<<t>>)
  BY <1>1, <1>5, <1>8, QuietStep
<1> QED
  BY <1>2, <1>6, <1>7, <1>8

LEMMA UpdateVictimStack ==
  ASSUME TypeInv, UpdateVictim
  PROVE  \E new : StackStep(new)
<1> DEFINE a == Head(stack).a
<1>1. stack # <<>> /\ stack[1].do \notin EndAlls /\ a \in Units
  BY TopFacts DEF UpdateVictim, Top, EndAlls
<1>2. threat[a] \in SUBSET Units /\ SelectVictim(a, threat[a], online[a])
  BY <1>1 DEF TypeInv, TypeOK, UpdateVictim
<1> QED
  BY <1>1, <1>2, SelectVictimStack

LEMMA ProcessAIUpdatesStack ==
  ASSUME TypeInv, ProcessAIUpdates
  PROVE  \E new : StackStep(new)
<1> DEFINE t == Head(stack)
           now == t.left \cap threat[t.a]
           told(b) == Task("JustStartedThreateningMe", t.a, b)
           left(b) == [t EXCEPT !.left = now \ {b}]
<1>1. /\ stack # <<>> /\ stack[1].do = "ProcessAIUpdates" /\ t = stack[1]
      /\ t \in GoodTasks /\ t.left \in SUBSET Units /\ t.a \in Units
  BY TopFacts DEF ProcessAIUpdates, Top
<1>2. \/ Then(<<>>)
      \/ \E b \in now : Then(<<told(b), left(b)>>)
  BY DEF ProcessAIUpdates
<1> HIDE DEF t
<1>3. CASE Then(<<>>)
  BY <1>1, <1>3, NoTasks DEF EndAlls
<1>4. ASSUME NEW b \in now, Then(<<told(b), left(b)>>)
      PROVE  \E new : StackStep(new)
  <2>1. told(b) \in GoodTasks /\ told(b).do = "JustStartedThreateningMe"
    <3>1. /\ "JustStartedThreateningMe" \in Hooks
          /\ "JustStartedThreateningMe" \notin OfTwo
          /\ b \in Units
      BY <1>1, <1>4 DEF Hooks, OfTwo, OfReference
    <3> QED
      BY <1>1, <3>1, TaskIsGood
  <2>2. left(b) \in GoodTasks /\ left(b).do = "ProcessAIUpdates"
    <3>1. now \ {b} \in SUBSET Units
      BY <1>1
    <3> HIDE DEF now
    <3> QED
      BY <1>1, <3>1 DEF GoodTasks, Tasks
  <2> DEFINE new == <<told(b), left(b)>>
  <2> HIDE DEF told, left
  <2>3. new \in Seq(GoodTasks) /\ AllQuiet(new)
    BY <2>1, <2>2, ListsOfTasks DEF AllQuiet, Quiet
  <2> QED
    BY <1>1, <1>4, <2>3, QuietStep DEF EndAlls
<1> QED
  BY <1>2, <1>3, <1>4

LEMMA RemoveMeStack ==
  ASSUME TypeInv, RemoveMeFromThreatLists
  PROVE  \E new : StackStep(new)
<1> DEFINE b == Head(stack).a
<1>1. /\ stack # <<>> /\ stack[1].do = "RemoveMeFromThreatLists" /\ b \in Units
      /\ Head(stack) = stack[1]
  BY TopFacts DEF RemoveMeFromThreatLists, Top
<1>2. \/ Then(<<>>)
      \/ \E a \in Units : stack' = <<Task("ClearThreat", a, b)>> \o stack
  BY DEF RemoveMeFromThreatLists
<1>3. CASE Then(<<>>)
  BY <1>1, <1>3, NoTasks DEF EndAlls
<1>4. ASSUME NEW a \in Units, stack' = <<Task("ClearThreat", a, b)>> \o stack
      PROVE  \E new : StackStep(new)
  <2> DEFINE t == Task("ClearThreat", a, b)
             new == <<t>> \o <<Head(stack)>>
  <2>1. t \in GoodTasks /\ t.do = "ClearThreat"
    <3>1. "ClearThreat" \in Others
      BY DEF Others
    <3> QED
      BY <1>1, <3>1, TaskIsGood
  <2>2. stack' = <<t>> \o stack
    BY <1>4
  <2> HIDE DEF t
  <2>3. <<t>> \in Seq(GoodTasks) /\ Len(<<t>>) = 1 /\ <<t>>[1] = t
    BY <2>1, ListsOfTasks
  <2>4. /\ new \in Seq(GoodTasks)
        /\ Len(new) = Len(<<t>>) + 1
        /\ \A j \in 1 .. Len(<<t>>) : new[j] = <<t>>[j]
        /\ new[Len(<<t>>) + 1] = Head(stack)
        /\ Onto(new, stack, stack')
    BY <1>1, <2>2, <2>3, OntoAll DEF TypeInv
  <2> HIDE DEF new
  <2>5. Len(new) = 2 /\ new[1] = t /\ new[2] = stack[1]
    BY <1>1, <2>3, <2>4
  <2>6. \A j \in 1 .. Len(new) :
           new[j].do \notin OfReference \cup {"AddThreatUnchecked"}
    BY <1>1, <2>1, <2>5 DEF OfReference
  <2> QED
    BY <1>1, <2>4, <2>6, PlainStep DEF EndAlls, Harmless
<1> QED
  BY <1>2, <1>3, <1>4

LEMMA ClearAllThreatStack ==
  ASSUME TypeInv, ClearAllThreat
  PROVE  \E new : StackStep(new)
<1>1. stack # <<>> /\ stack[1].do \notin EndAlls
  BY TopFacts DEF ClearAllThreat, Top, EndAlls
<1> QED
  BY <1>1, NoTasks DEF ClearAllThreat

LEMMA EngagementOverStack ==
  ASSUME TypeInv, EngagementOver
  PROVE  \E new : StackStep(new)
<1>1. stack # <<>> /\ stack[1].do \notin EndAlls
  BY TopFacts DEF EngagementOver, Top, EndAlls
<1> QED
  BY <1>1, NoTasks DEF EngagementOver

(* The calls of CombatStop.                                                *)
LEMMA StopTasks ==
  ASSUME NEW a \in Units
  PROVE  LET none == {t \in GoodTasks :
                        t.do \notin OfReference \cup {"AddThreatUnchecked"}}
         IN  /\ EndAllCombat(a) \in Seq(none)
             /\ EndAllPvE(a) \o <<Task("SuppressPvPCombat", a, Nobody)>> \in Seq(none)
             /\ EndAllCombat(a) \o <<Task("EngagementOver", a, Nobody)>> \in Seq(none)
<1> DEFINE none == {t \in GoodTasks :
                      t.do \notin OfReference \cup {"AddThreatUnchecked"}}
<1>1. \A do \in {"RemoveMeFromThreatLists", "ClearAllThreat", "EndAllPvECombat",
                 "EndAllPvPCombat", "SuppressPvPCombat", "EngagementOver"} :
         Task(do, a, Nobody) \in none
  <2> TAKE do \in {"RemoveMeFromThreatLists", "ClearAllThreat", "EndAllPvECombat",
                   "EndAllPvPCombat", "SuppressPvPCombat", "EngagementOver"}
  <2>1. do \in Others /\ do \notin OfTwo /\ do \notin OfReference \cup {"AddThreatUnchecked"}
    BY DEF Others, OfTwo, OfReference
  <2>2. Task(do, a, Nobody) \in GoodTasks /\ Task(do, a, Nobody).do = do
    BY <2>1, TaskIsGood
  <2> QED
    BY <2>1, <2>2
<1> HIDE DEF none
<1>2. EndAllPvE(a) \in Seq(none)
  BY <1>1 DEF EndAllPvE
<1>3. \A do \in {"EndAllPvPCombat", "SuppressPvPCombat", "EngagementOver"} :
         <<Task(do, a, Nobody)>> \in Seq(none)
  BY <1>1
<1>4. EndAllCombat(a) \in Seq(none)
  BY <1>2, <1>3, ConcatProperties DEF EndAllCombat
<1>5. /\ EndAllPvE(a) \o <<Task("SuppressPvPCombat", a, Nobody)>> \in Seq(none)
      /\ EndAllCombat(a) \o <<Task("EngagementOver", a, Nobody)>> \in Seq(none)
  BY <1>2, <1>3, <1>4, ConcatProperties
<1> QED
  BY <1>4, <1>5 DEF none

LEMMA ReactStack ==
  ASSUME TypeInv, React
  PROVE  \E new : StackStep(new)
<1> DEFINE u == Head(stack).a
<1>1. PICK hook \in Hooks :
        /\ Top(hook)
        /\ \/ Then(<<>>)
           \/ /\ InEndCombat => ReactsInEndCombat
              /\ \/ \E a \in Units, b \in Units : Then(<<Task("EngageWithTarget", a, b)>>)
                 \/ /\ <<hook, "EnterEvadeMode">> \in Reactions
                    /\ Then(EndAllCombat(u) \o <<Task("EngagementOver", u, Nobody)>>)
  BY UnitsAssumption DEF React, UnitsAssumption
<1>2. stack # <<>> /\ stack[1].do = hook /\ u \in Units
  BY <1>1, TopFacts DEF Top
<1>3. hook \notin OfReference \cup EndAlls
  BY DEF Hooks, OfReference, EndAlls
<1>4. CASE Then(<<>>)
  BY <1>2, <1>3, <1>4, NoTasks
<1>5. ASSUME InEndCombat => ReactsInEndCombat,
             NEW a \in Units, NEW b \in Units, Then(<<Task("EngageWithTarget", a, b)>>)
      PROVE  \E new : StackStep(new)
  <2> DEFINE t == Task("EngageWithTarget", a, b)
  <2>1. t \in GoodTasks /\ t.do = "EngageWithTarget"
    <3>1. "EngageWithTarget" \in Others
      BY DEF Others
    <3> QED
      BY <3>1, TaskIsGood
  <2>2. Then(<<t>>)
    BY <1>5
  <2> HIDE DEF t
  <2>3. <<t>> \in Seq(GoodTasks) /\ Len(<<t>>) = 1 /\ <<t>>[1] = t
    BY <2>1, ListsOfTasks
  <2>4. Onto(<<t>>, stack, stack')
    BY <1>2, <2>2, <2>3, OntoThen DEF TypeInv
  <2> DEFINE new == <<t>>
  <2>5. /\ Len(new) = 1 /\ new[1].do = "EngageWithTarget"
        /\ Onto(new, stack, stack')
    BY <2>1, <2>3, <2>4
  <2> HIDE DEF new
  <2>6. \A j \in 1 .. Len(new) : new[j].do = "EngageWithTarget"
    BY <2>5
  <2>7. WellFormed(new) /\ NothingBegun(new)
    BY <2>6, PlainIsWellFormed DEF Plain, OfReference
  <2>8. StackStep(new)
    BY <1>2, <1>3, <1>5, <2>5, <2>6, <2>7 DEF StackStep, Harmless, OfReference
  <2> QED
    BY <2>8
<1>6. ASSUME InEndCombat => ReactsInEndCombat,
             <<hook, "EnterEvadeMode">> \in Reactions,
             Then(EndAllCombat(u) \o <<Task("EngagementOver", u, Nobody)>>)
      PROVE  \E new : StackStep(new)
  <2> DEFINE none == {t \in GoodTasks :
                        t.do \notin OfReference \cup {"AddThreatUnchecked"}}
             new == EndAllCombat(u) \o <<Task("EngagementOver", u, Nobody)>>
  <2>1. new \in Seq(none) /\ none \subseteq GoodTasks
    BY <1>2, StopTasks
  <2>2. Then(new)
    BY <1>6
  <2> HIDE DEF new
  <2>3. /\ new \in Seq(GoodTasks)
        /\ \A j \in 1 .. Len(new) : new[j] \in none
    <3> HIDE DEF none
    <3> QED
      BY <2>1, SeqMonotonic, ElementOfSeq
  <2>4. \A j \in 1 .. Len(new) :
           new[j].do \notin OfReference \cup {"AddThreatUnchecked"}
    BY <2>3
  <2>5. WellFormed(new) /\ NothingBegun(new)
    BY <2>4, PlainIsWellFormed DEF Plain
  <2>6. Onto(new, stack, stack')
    BY <1>2, <2>2, <2>3, OntoThen DEF TypeInv
  <2>7. EvadesLate => hook \notin Harmless
    BY <1>6 DEF EvadesLate, Harmless
  <2>8. StackStep(new)
    BY <1>2, <1>3, <1>6, <2>4, <2>5, <2>6, <2>7 DEF StackStep, OfReference
  <2> QED
    BY <2>8
<1> QED
  BY <1>1, <1>4, <1>5, <1>6

LEMMA InternalStack ==
  ASSUME TypeInv, Internal
  PROVE  \E new : StackStep(new)
BY SetInCombatWithStack, EndCombatPurgeStack, SuppressPvPCombatStack,
   EndAllStack, LoopStack, ClearThreatStack, AddThreatStack,
   UpdateVictimStack, ProcessAIUpdatesStack, RemoveMeStack,
   ClearAllThreatStack, ReactStack, EngagementOverStack DEF Internal

(* What the rest of the server calls begins with an empty stack.           *)
LEMMA ExternalStack ==
  ASSUME TypeInv, External
  PROVE  /\ stack = <<>>
         /\ stack' \in Seq(GoodTasks)
         /\ WellFormed(stack') /\ NothingBegun(stack')
         /\ \A i \in 1 .. Len(stack') : stack'[i].do # "AddThreatUnchecked"
<1> DEFINE none == {t \in GoodTasks :
                      t.do \notin OfReference \cup {"AddThreatUnchecked"}}
           Fine(s) == /\ s \in Seq(GoodTasks)
                      /\ WellFormed(s) /\ NothingBegun(s)
                      /\ \A i \in 1 .. Len(s) : s[i].do # "AddThreatUnchecked"
<1>1. ASSUME NEW s \in Seq(none)
      PROVE  Fine(s)
  <2>1. \A i \in 1 .. Len(s) : s[i] \in none
    <3> HIDE DEF none
    <3> QED
      BY <1>1, ElementOfSeq
  <2>2. s \in Seq(GoodTasks)
    <3>1. none \subseteq GoodTasks
      OBVIOUS
    <3> HIDE DEF none
    <3> QED
      BY <1>1, <3>1, SeqMonotonic
  <2> QED
    BY <2>1, <2>2, PlainIsWellFormed DEF Plain
<1> SUFFICES stack = <<>> /\ Fine(stack')
  OBVIOUS
<1>2. PICK a \in Units :
        \/ \E b \in Units : Attack(a, b)
        \/ CombatStop(a) \/ UpdateUnit(a) \/ EndSome(a)
        \/ Remove(a) \/ Appear(a)
  BY DEF External
<1> HIDE DEF none, Fine
<1>3. ASSUME NEW b \in Units, Attack(a, b)
      PROVE  stack = <<>> /\ Fine(stack')
  <2>1. PICK do \in {"SetInCombatWith", "EngageWithTarget"} :
          stack = <<>> /\ stack' = <<Task(do, a, b)>>
    BY <1>3 DEF Attack, Call
  <2>2. do \in Others /\ do \notin OfReference \cup {"AddThreatUnchecked"}
    BY DEF Others, OfReference
  <2>3. Task(do, a, b) \in GoodTasks /\ Task(do, a, b).do = do
    BY <2>2, TaskIsGood
  <2>4. Task(do, a, b) \in none
    BY <2>2, <2>3 DEF none
  <2>5. <<Task(do, a, b)>> \in Seq(none)
    BY <2>4
  <2> QED
    BY <1>1, <2>1, <2>5
<1>4. ASSUME CombatStop(a) \/ Remove(a)
      PROVE  stack = <<>> /\ Fine(stack')
  <2>1. /\ stack = <<>>
        /\ stack' \in {EndAllCombat(a),
                       EndAllPvE(a) \o <<Task("SuppressPvPCombat", a, Nobody)>>,
                       EndAllCombat(a) \o <<Task("EngagementOver", a, Nobody)>>}
    BY <1>4 DEF CombatStop, Remove, Call
  <2>2. stack' \in Seq(none)
    BY <2>1, StopTasks DEF none
  <2> QED
    BY <1>1, <2>1, <2>2
<1>5. ASSUME UpdateUnit(a)
      PROVE  stack = <<>> /\ Fine(stack')
  <2>1. /\ stack = <<>>
        /\ stack' \in {<<Loop("EndPvEBeyondRange", a), Loop("EndPvPBeyondRange", a)>>,
                       <<Loop("RevalidatePvE", a), Loop("RevalidatePvP", a)>>,
                       <<Loop("Update", a)>>,
                       <<Task("UpdateVictim", a, Nobody)>>}
    BY <1>5 DEF UpdateUnit, Call
  <2>2. \A do \in Loops : Loop(do, a) \in none
    BY DEF Loop, Task, Loops, none, GoodTasks, Tasks, OfTwo, OfReference
  <2>3. Task("UpdateVictim", a, Nobody) \in none
    BY DEF Task, none, GoodTasks, Tasks, Others, OfTwo, OfReference
  <2>4. stack' \in Seq(none)
    <3>1. /\ Loop("EndPvEBeyondRange", a) \in none /\ Loop("EndPvPBeyondRange", a) \in none
          /\ Loop("RevalidatePvE", a) \in none /\ Loop("RevalidatePvP", a) \in none
          /\ Loop("Update", a) \in none
      BY <2>2 DEF Loops
    <3>2. \A t, u \in none : <<t>> \in Seq(none) /\ <<t, u>> \in Seq(none)
      OBVIOUS
    <3> QED
      BY <2>1, <2>3, <3>1, <3>2, Zenon
  <2> QED
    BY <1>1, <2>1, <2>4
<1>6. ASSUME EndSome(a)
      PROVE  stack = <<>> /\ Fine(stack')
  <2>1. PICK b \in Units, c \in Units :
          /\ stack = <<>>
          /\ stack' = IF b = c THEN EndCombat(<<a, b>>)
                      ELSE EndCombat(<<a, b>>) \o EndCombat(<<a, c>>)
    BY <1>6 DEF EndSome, Call, TypeInv, TypeOK
  <2> DEFINE p == <<a, b>>
             q == <<a, c>>
             e == EndCombat(p)
             f == EndCombat(q)
  <2>2. p \in Units \X Units /\ q \in Units \X Units
    OBVIOUS
  <2> HIDE DEF p, q
  <2>3. /\ e \in Seq(GoodTasks) /\ WellFormed(e)
        /\ f \in Seq(GoodTasks) /\ WellFormed(f)
        /\ \A i \in 1 .. Len(f) : ~Begun(f, i)
    BY <2>2, EndCombatGood, OneEndCombat
  <2>4. /\ e \o f \in Seq(GoodTasks)
        /\ WellFormed(e \o f)
        /\ NothingBegun(e) /\ NothingBegun(e \o f)
    <3>1. /\ e \o f \in Seq(GoodTasks)
          /\ WellFormed(e \o f)
          /\ NothingBegun(e)
      BY <2>2, <2>3, EndCombatTasks, EndCombatBefore, OneEndCombat DEF NothingBegun
    <3>2. (e \o f)[1] = Task("EndCombatFirst", p[1], p[2])
      BY <2>2, <2>3, EndCombatTasks
    <3> DEFINE g == e \o f
    <3> HIDE DEF g, e, f
    <3>3. g[1] = Task("EndCombatFirst", p[1], p[2])
      BY <3>2 DEF g
    <3>4. g[1].do = "EndCombatFirst"
      BY <3>3 DEF Task
    <3> QED
      BY <3>1, <3>4, FirstNotBegun DEF g
  <2>5. ASSUME NEW r \in Units \X Units
        PROVE  /\ Len(EndCombat(r)) = 3
               /\ \A i \in 1 .. 3 : EndCombat(r)[i].do # "AddThreatUnchecked"
    <3>1. /\ Len(EndCombat(r)) = 3
          /\ EndCombat(r)[1].do = "EndCombatFirst"
          /\ EndCombat(r)[2].do = "EndCombatSecond"
          /\ EndCombat(r)[3].do = "EndCombatPurge"
      <4> DEFINE g == EndCombat(r)
      <4>1. /\ Len(g) = 3
            /\ g[1] = Task("EndCombatFirst", r[1], r[2])
            /\ g[2] = Task("EndCombatSecond", r[1], r[2])
            /\ g[3] = Task("EndCombatPurge", r[1], r[2])
        BY EndCombatGood
      <4> HIDE DEF g
      <4>2. /\ Len(g) = 3 /\ g[1].do = "EndCombatFirst"
            /\ g[2].do = "EndCombatSecond" /\ g[3].do = "EndCombatPurge"
        BY <4>1 DEF Task
      <4> QED
        BY <4>2 DEF g
    <3>2. \A i \in 1 .. 3 : i \in {1, 2, 3}
      OBVIOUS
    <3> QED
      BY <3>1, <3>2
  <2>6. \A i \in 1 .. Len(e \o f) : (e \o f)[i].do # "AddThreatUnchecked"
    <3>1. /\ Len(e \o f) = 6
          /\ \A i \in 1 .. 6 : (e \o f)[i] = IF i <= 3 THEN e[i] ELSE f[i - 3]
      <4>1. /\ Len(e \o f) = Len(e) + Len(f)
            /\ \A i \in 1 .. Len(e) + Len(f) :
                  (e \o f)[i] = IF i <= Len(e) THEN e[i] ELSE f[i - Len(e)]
        BY <2>3, ConcatProperties
      <4>2. Len(e) = 3 /\ Len(f) = 3
        BY <2>2, <2>5
      <4> QED
        BY <4>1, <4>2
    <3>2. /\ \A i \in 1 .. 3 : e[i].do # "AddThreatUnchecked"
          /\ \A i \in 1 .. 3 : f[i].do # "AddThreatUnchecked"
      BY <2>2, <2>5
    <3> DEFINE g == e \o f
    <3> HIDE DEF e, f, g
    <3>3. /\ Len(g) = 6
          /\ \A i \in 1 .. 6 : g[i] = IF i <= 3 THEN e[i] ELSE f[i - 3]
      BY <3>1 DEF g
    <3>4. ASSUME NEW i \in 1 .. 6
          PROVE  g[i].do # "AddThreatUnchecked"
      <4>1. CASE i <= 3
        BY <3>2, <3>3, <4>1
      <4>2. CASE i > 3
        <5>1. i - 3 \in 1 .. 3 /\ ~(i <= 3)
          BY <4>2
        <5>2. g[i] = f[i - 3]
          BY <3>3, <5>1
        <5> QED
          BY <3>2, <5>1, <5>2
      <4> QED
        BY <4>1, <4>2
    <3> QED
      BY <3>3, <3>4 DEF g
  <2>7. Fine(e \o f)
    BY <2>4, <2>6 DEF Fine
  <2>8. Fine(e)
    BY <2>2, <2>3, <2>4, <2>5 DEF Fine
  <2>9. stack' = e \/ stack' = e \o f
    BY <2>1 DEF p, q
  <2> HIDE DEF e, f
  <2> QED
    BY <2>1, <2>7, <2>8, <2>9
<1>7. ASSUME Appear(a)
      PROVE  stack = <<>> /\ Fine(stack')
  <2>1. stack = <<>> /\ stack' = <<>>
    BY <1>7 DEF Appear
  <2>2. <<>> \in Seq(none)
    OBVIOUS
  <2> QED
    BY <1>1, <2>1, <2>2
<1> QED
  BY <1>2, <1>3, <1>4, <1>5, <1>6, <1>7

-----------------------------------------------------------------------------
(* Types, and victims *)

DataOK ==
  /\ pve \in [Units -> SUBSET Units]
  /\ pvp \in [Units -> SUBSET Units]
  /\ suppressed \in [Units -> SUBSET Units]
  /\ threat \in [Units -> SUBSET Units]
  /\ online \in [Units -> SUBSET Units]
  /\ timer \in [Units \X Units -> 0 .. PvPTimeout]
  /\ victim \in [Units -> Units \cup {Nobody}]
  /\ inCombat \in SUBSET Units
  /\ engaged \in SUBSET Units
  /\ present \in SUBSET Units
  /\ fit \in SUBSET Units
  /\ hidden \in SUBSET Units
  /\ budget \in 0 .. MaxReactions
  /\ aborted \in BOOLEAN

LEMMA TypesOfData == TypeOK => DataOK
BY DEF TypeOK, DataOK

LEMMA TypesOfAll ==
  ASSUME DataOK, stack \in Seq(GoodTasks)
  PROVE  TypeInv
<1>1. \A i \in 1 .. Len(stack) : stack[i] \in Tasks
  BY ElementOfSeq DEF GoodTasks
<1> QED
  BY <1>1 DEF TypeOK, DataOK, TypeInv

LEMMA PutFacts ==
  ASSUME NEW map \in [Units -> SUBSET Units], NEW a \in Units, NEW b \in Units
  PROVE  /\ Put(map, a, b) \in [Units -> SUBSET Units]
         /\ \A u \in Units : Put(map, a, b)[u] =
              map[u] \cup (IF u = a THEN {b} ELSE {}) \cup (IF u = b THEN {a} ELSE {})
<1> DEFINE m == [map EXCEPT ![a] = @ \cup {b}]
<1>1. /\ m \in [Units -> SUBSET Units]
      /\ \A u \in Units : m[u] = map[u] \cup (IF u = a THEN {b} ELSE {})
  OBVIOUS
<1>2. Put(map, a, b) = [m EXCEPT ![b] = @ \cup {a}]
  BY DEF Put
<1> HIDE DEF m
<1> QED
  BY <1>1, <1>2

LEMMA PurgeFacts ==
  ASSUME NEW map \in [Units -> SUBSET Units], NEW a \in Units, NEW b \in Units
  PROVE  /\ Purge(map, a, b) \in [Units -> SUBSET Units]
         /\ \A u \in Units : Purge(map, a, b)[u] =
              (map[u] \ (IF u = a THEN {b} ELSE {})) \ (IF u = b THEN {a} ELSE {})
<1> DEFINE m == [map EXCEPT ![a] = @ \ {b}]
<1>1. /\ m \in [Units -> SUBSET Units]
      /\ \A u \in Units : m[u] = map[u] \ (IF u = a THEN {b} ELSE {})
  OBVIOUS
<1>2. Purge(map, a, b) = [m EXCEPT ![b] = @ \ {a}]
  BY DEF Purge
<1> HIDE DEF m
<1> QED
  BY <1>1, <1>2

LEMMA MapTypes ==
  ASSUME NEW map \in [Units -> SUBSET Units], NEW a \in Units, NEW b \in Units
  PROVE  /\ Put(map, a, b) \in [Units -> SUBSET Units]
         /\ Purge(map, a, b) \in [Units -> SUBSET Units]
BY PutFacts, PurgeFacts

LEMMA TimerFacts ==
  ASSUME NEW t \in [Units \X Units -> 0 .. PvPTimeout],
         NEW a \in Units, NEW b \in Units
  PROVE  /\ [t EXCEPT ![<<a, b>>] = PvPTimeout] \in [Units \X Units -> 0 .. PvPTimeout]
         /\ [t EXCEPT ![<<a, b>>] = 0, ![<<b, a>>] = 0]
              \in [Units \X Units -> 0 .. PvPTimeout]
BY UnitsAssumption DEF UnitsAssumption

LEMMA TypesOfCombat ==
  ASSUME TypeInv,
         \/ SetInCombatWith \/ EndCombatPurge \/ SuppressPvPCombat
         \/ EndAllPvECombat \/ EndAllPvPCombat
  PROVE  DataOK'
<1>1. DataOK /\ PvPTimeout \in Nat \ {0}
  BY TypesOfData, UnitsAssumption DEF TypeInv, UnitsAssumption
<1>2. ASSUME SetInCombatWith
      PROVE  DataOK'
  <2>1. PICK do \in {"SetInCombatWith", "EngageWithTarget"} : Top(do)
    BY <1>2 DEF SetInCombatWith
  <2>2. PICK a \in Units, b \in Units : Head(stack).a = a /\ Head(stack).b = b
    BY <2>1, TopFacts DEF Top, OfTwo
  <2>3. UNCHANGED <<lists, engaged, world, budget>> /\ inCombat' \in SUBSET Units
    BY <1>1, <1>2, <2>2 DEF SetInCombatWith, UpdateOwnerCombatState, DataOK
  <2>4. aborted' \in BOOLEAN
    <3>1. \/ aborted' = aborted
          \/ aborted' = (a \in pvp[b])
          \/ aborted' = (a \in pve[b])
      BY <1>2, <2>2 DEF SetInCombatWith
    <3>2. aborted \in BOOLEAN
      BY <1>1 DEF DataOK
    <3>3. CASE aborted' = aborted
      BY <3>2, <3>3
    <3>4. CASE aborted' = (a \in pvp[b])
      BY <3>4
    <3>5. CASE aborted' = (a \in pve[b])
      BY <3>5
    <3> QED
      BY <3>1, <3>3, <3>4, <3>5
  <2>5. pve' \in [Units -> SUBSET Units]
    <3>1. pve' = pve \/ pve' = Put(pve, a, b)
      BY <1>2, <2>2 DEF SetInCombatWith, refs
    <3>2. pve \in [Units -> SUBSET Units]
      BY <1>1 DEF DataOK
    <3> QED
      BY <3>1, <3>2, MapTypes
  <2>6. pvp' \in [Units -> SUBSET Units]
    <3>1. pvp' = pvp \/ pvp' = Put(pvp, a, b)
      BY <1>2, <2>2 DEF SetInCombatWith, refs
    <3>2. pvp \in [Units -> SUBSET Units]
      BY <1>1 DEF DataOK
    <3> QED
      BY <3>1, <3>2, MapTypes
  <2>7. suppressed' \in [Units -> SUBSET Units]
    <3>1. suppressed' = suppressed \/ suppressed' = Purge(suppressed, a, b)
      BY <1>2, <2>2 DEF SetInCombatWith, refs
    <3>2. suppressed \in [Units -> SUBSET Units]
      BY <1>1 DEF DataOK
    <3> QED
      BY <3>1, <3>2, MapTypes
  <2>8. timer' \in [Units \X Units -> 0 .. PvPTimeout]
    <3>1. \/ timer' = timer
          \/ timer' = [timer EXCEPT ![<<a, b>>] = PvPTimeout]
          \/ timer' = [p \in Units \X Units |->
                         IF p \in Pairs(a, b) THEN PvPTimeout ELSE timer[p]]
      BY <1>2, <2>2 DEF SetInCombatWith, refs
    <3>2. timer \in [Units \X Units -> 0 .. PvPTimeout]
      BY <1>1 DEF DataOK
    <3>3. [timer EXCEPT ![<<a, b>>] = PvPTimeout] \in [Units \X Units -> 0 .. PvPTimeout]
      BY <3>2, TimerFacts
    <3>4. [p \in Units \X Units |-> IF p \in Pairs(a, b) THEN PvPTimeout ELSE timer[p]]
            \in [Units \X Units -> 0 .. PvPTimeout]
      <4>1. PvPTimeout \in 0 .. PvPTimeout
        BY <1>1
      <4> QED
        BY <3>2, <4>1
    <3> QED
      BY <3>1, <3>2, <3>3, <3>4, Zenon
  <2> QED
    BY <1>1, <2>3, <2>4, <2>5, <2>6, <2>7, <2>8 DEF DataOK, lists, world
<1>3. ASSUME EndCombatPurge
      PROVE  DataOK'
  <2>1. PICK a \in Units, b \in Units : Head(stack).a = a /\ Head(stack).b = b
    BY <1>3, TopFacts DEF EndCombatPurge, Top, OfTwo, OfReference
  <2>2. /\ inCombat' \in SUBSET Units
        /\ UNCHANGED <<lists, engaged, world, budget, aborted>>
    BY <1>1, <1>3, <2>1 DEF EndCombatPurge, UpdateOwnerCombatState, DataOK
  <2>3. /\ pve' \in [Units -> SUBSET Units]
        /\ pvp' \in [Units -> SUBSET Units]
        /\ suppressed' \in [Units -> SUBSET Units]
    <3>1. /\ pve' = pve \/ pve' = Purge(pve, a, b)
          /\ pvp' = pvp \/ pvp' = Purge(pvp, a, b)
          /\ suppressed' = Purge(suppressed, a, b)
      BY <1>3, <2>1 DEF EndCombatPurge
    <3>2. /\ pve \in [Units -> SUBSET Units]
          /\ pvp \in [Units -> SUBSET Units]
          /\ suppressed \in [Units -> SUBSET Units]
      BY <1>1 DEF DataOK
    <3>3. pve' \in [Units -> SUBSET Units]
      BY <3>1, <3>2, MapTypes
    <3>4. pvp' \in [Units -> SUBSET Units]
      BY <3>1, <3>2, MapTypes
    <3>5. suppressed' \in [Units -> SUBSET Units]
      BY <3>1, <3>2, MapTypes
    <3> QED
      BY <3>3, <3>4, <3>5
  <2>4. timer' \in [Units \X Units -> 0 .. PvPTimeout]
    <3>1. timer' = [timer EXCEPT ![<<a, b>>] = 0, ![<<b, a>>] = 0]
      BY <1>3, <2>1 DEF EndCombatPurge
    <3>2. timer \in [Units \X Units -> 0 .. PvPTimeout]
      BY <1>1 DEF DataOK
    <3> QED
      BY <3>1, <3>2, TimerFacts
  <2> QED
    BY <1>1, <2>2, <2>3, <2>4 DEF DataOK, lists, world
<1>4. ASSUME SuppressPvPCombat
      PROVE  DataOK'
  <2>1. PICK a \in Units : Head(stack).a = a
    BY <1>4, TopFacts DEF SuppressPvPCombat, Top
  <2> QED
    BY <1>1, <1>4, <2>1 DEF SuppressPvPCombat, UpdateOwnerCombatState, DataOK, lists, world
<1>5. ASSUME EndAllPvECombat \/ EndAllPvPCombat
      PROVE  DataOK'
  BY <1>1, <1>5 DEF EndAllPvECombat, EndAllPvPCombat, EndAll, DataOK, refs, lists, world
<1> QED
  BY <1>2, <1>3, <1>4, <1>5

LEMMA TypesOfLoops ==
  ASSUME TypeInv, NEW do \in Loops, LoopStep(do)
  PROVE  DataOK'
<1> DEFINE a == Head(stack).a
           b == Head(stack).b
<1>1. DataOK /\ PvPTimeout \in Nat \ {0} /\ Nobody \notin Units
  BY TypesOfData, UnitsAssumption DEF TypeInv, UnitsAssumption
<1>2. a \in Units /\ b \in Units \cup {Nobody}
  BY TopFacts DEF LoopStep, Top
<1>3. /\ UNCHANGED <<inCombat, lists, engaged, world, budget, aborted, suppressed>>
      /\ pve' \in {pve, [pve EXCEPT ![a] = @ \ {b}]}
      /\ pvp' \in {pvp, [pvp EXCEPT ![a] = @ \ {b}]}
      /\ \/ timer' = timer
         \/ timer' = Ticked(do, a, b) /\ b # Nobody
  BY DEF LoopStep, refs
<1> HIDE DEF a, b
<1>4. timer' \in [Units \X Units -> 0 .. PvPTimeout]
  <2>1. timer \in [Units \X Units -> 0 .. PvPTimeout]
    BY <1>1 DEF DataOK
  <2>2. CASE timer' = timer
    BY <2>1, <2>2
  <2>3. CASE /\ timer' = [timer EXCEPT ![<<a, b>>] = @ - 1]
             /\ timer[<<a, b>>] > 0 /\ b \in Units
    <3>1. <<a, b>> \in Units \X Units
      BY <1>2, <2>3
    <3>2. timer[<<a, b>>] - 1 \in 0 .. PvPTimeout
      BY <1>1, <2>1, <2>3, <3>1
    <3> QED
      BY <2>1, <2>3, <3>1, <3>2, Zenon
  <2> QED
    BY <1>2, <1>3, <2>2, <2>3 DEF Ticked, IsFirst
<1> QED
  BY <1>1, <1>2, <1>3, <1>4, SMTT(20) DEF DataOK, lists, world

(* A victim is on the list and online; what a list becomes keeps that so.  *)
LEMMA TypesOfLists ==
  ASSUME TypeInv, VictimAvailable,
         \/ ClearThreatTask \/ AddThreat \/ UpdateVictim \/ ProcessAIUpdates
         \/ RemoveMeFromThreatLists \/ ClearAllThreat
  PROVE  DataOK' /\ VictimAvailable'
<1> DEFINE u == Head(stack).a
           w == Head(stack).b
<1>1. DataOK /\ Nobody \notin Units
  BY TypesOfData, UnitsAssumption DEF TypeInv, UnitsAssumption
<1>2. stack # <<>> => u \in Units
  BY TopFacts
<1>3. UNCHANGED <<refs, inCombat, engaged, world, budget, aborted>>
  BY DEF ClearThreatTask, AddThreat, UpdateVictim, ProcessAIUpdates,
         RemoveMeFromThreatLists, ClearAllThreat
<1>4. ASSUME /\ threat' \in [Units -> SUBSET Units]
             /\ online' \in [Units -> SUBSET Units]
             /\ victim' \in [Units -> Units \cup {Nobody}]
      PROVE  DataOK'
  BY <1>1, <1>3, <1>4 DEF DataOK, refs, world
<1>5. ASSUME UNCHANGED lists
      PROVE  DataOK' /\ VictimAvailable'
  BY <1>1, <1>4, <1>5 DEF DataOK, VictimAvailable, lists
<1>6. ASSUME NEW a \in Units, NEW list \in SUBSET Units,
             SelectVictim(a, list, online[a]),
             threat' = [threat EXCEPT ![a] = list]
      PROVE  DataOK' /\ VictimAvailable'
  <2>1. PICK now \in SUBSET Units, v \in Units \cup {Nobody} :
          /\ v \in now \cup {Nobody}
          /\ online' = [online EXCEPT ![a] = now]
          /\ victim' = [victim EXCEPT ![a] = v]
    BY <1>6 DEF SelectVictim
  <2>2. DataOK'
    BY <1>1, <1>4, <1>6, <2>1 DEF DataOK
  <2> QED
    BY <1>1, <2>1, <2>2 DEF DataOK, VictimAvailable
<1>7. ASSUME ClearThreatTask
      PROVE  DataOK' /\ VictimAvailable'
  <2>1. PICK a \in Units, b \in Units : ClearThreat(a, b)
    BY <1>7, TopFacts DEF ClearThreatTask, Top, OfTwo, OfReference
  <2>2. CASE b \notin threat[a]
    BY <1>5, <2>1, <2>2 DEF ClearThreat
  <2>3. CASE b \in threat[a] /\ victim[a] \in {b, Nobody}
    <3>1. /\ threat[a] \ {b} \in SUBSET Units
          /\ SelectVictim(a, threat[a] \ {b}, online[a])
          /\ threat' = [threat EXCEPT ![a] = threat[a] \ {b}]
      BY <1>1, <2>1, <2>3 DEF ClearThreat, DataOK
    <3> QED
      BY <3>1, <1>6
  <2>4. CASE b \in threat[a] /\ victim[a] \notin {b, Nobody}
    <3>1. /\ threat' = [threat EXCEPT ![a] = @ \ {b}]
          /\ online' = [online EXCEPT ![a] = @ \ {b}]
          /\ victim' = victim
      BY <2>1, <2>4 DEF ClearThreat
    <3>2. DataOK'
      BY <1>1, <1>4, <3>1 DEF DataOK
    <3> QED
      BY <1>1, <2>4, <3>1, <3>2 DEF DataOK, VictimAvailable
  <2> QED
    BY <2>2, <2>3, <2>4
<1>8. ASSUME AddThreat
      PROVE  DataOK' /\ VictimAvailable'
  <2>1. u \in Units /\ w \in Units
    BY <1>8, TopFacts DEF AddThreat, Top, OfTwo
  <2>2. \/ UNCHANGED lists
        \/ /\ threat' = [threat EXCEPT ![u] = @ \cup {w}]
           /\ \/ SelectVictim(u, threat[u] \cup {w}, online[u])
              \/ /\ online' = [online EXCEPT ![u] =
                                 @ \cup (IF ShouldBeOffline(w) THEN {} ELSE {w})]
                 /\ victim' = victim
    BY <1>8 DEF AddThreat
  <2> HIDE DEF u, w
  <2>3. CASE /\ threat' = [threat EXCEPT ![u] = @ \cup {w}]
             /\ SelectVictim(u, threat[u] \cup {w}, online[u])
    <3>1. /\ threat[u] \cup {w} \in SUBSET Units
          /\ threat' = [threat EXCEPT ![u] = threat[u] \cup {w}]
      BY <1>1, <2>1, <2>3 DEF DataOK
    <3> QED
      BY <2>1, <2>3, <3>1, <1>6
  <2>4. CASE /\ threat' = [threat EXCEPT ![u] = @ \cup {w}]
             /\ online' = [online EXCEPT ![u] =
                             @ \cup (IF ShouldBeOffline(w) THEN {} ELSE {w})]
             /\ victim' = victim
    <3>1. DataOK'
      BY <1>1, <1>4, <2>1, <2>4 DEF DataOK
    <3> QED
      BY <1>1, <2>1, <2>4, <3>1 DEF DataOK, VictimAvailable
  <2> QED
    BY <1>5, <2>2, <2>3, <2>4
<1>9. ASSUME UpdateVictim
      PROVE  DataOK' /\ VictimAvailable'
  <2>1. u \in Units /\ SelectVictim(u, threat[u], online[u]) /\ threat' = threat
    BY <1>2, <1>9 DEF UpdateVictim, Top
  <2> HIDE DEF u
  <2>2. threat[u] \in SUBSET Units /\ threat' = [threat EXCEPT ![u] = threat[u]]
    BY <1>1, <2>1 DEF DataOK
  <2> QED
    BY <1>6, <2>1, <2>2
<1>10. ASSUME ClearAllThreat
       PROVE  DataOK' /\ VictimAvailable'
  <2>1. /\ u \in Units
        /\ threat' = [threat EXCEPT ![u] = {}]
        /\ online' = [online EXCEPT ![u] = {}]
        /\ victim' = [victim EXCEPT ![u] = Nobody]
    BY <1>2, <1>10 DEF ClearAllThreat, Top
  <2> HIDE DEF u
  <2>2. DataOK'
    BY <1>1, <1>4, <2>1 DEF DataOK
  <2> QED
    BY <1>1, <2>1, <2>2 DEF DataOK, VictimAvailable
<1>11. ASSUME ProcessAIUpdates \/ RemoveMeFromThreatLists
       PROVE  DataOK' /\ VictimAvailable'
  BY <1>5, <1>11 DEF ProcessAIUpdates, RemoveMeFromThreatLists
<1> QED
  BY <1>7, <1>8, <1>9, <1>10, <1>11

LEMMA TypesOfAI ==
  ASSUME TypeInv, React \/ EngagementOver
  PROVE  DataOK'
<1>1. DataOK /\ MaxReactions \in Nat
  BY TypesOfData, UnitsAssumption DEF TypeInv, UnitsAssumption
<1>2. stack # <<>> => Head(stack).a \in Units
  BY TopFacts
<1>3. ASSUME React
      PROVE  DataOK'
  <2>1. /\ UNCHANGED <<refs, inCombat, lists, world, aborted>>
        /\ engaged' \subseteq engaged \cup {Head(stack).a}
        /\ stack # <<>>
        /\ \/ budget' = budget
           \/ budget > 0 /\ budget' = budget - 1
    BY <1>3 DEF React, Top
  <2> QED
    BY <1>1, <1>2, <2>1 DEF DataOK, refs, lists, world
<1>4. ASSUME EngagementOver
      PROVE  DataOK'
  BY <1>1, <1>4 DEF EngagementOver, DataOK, refs, lists
<1> QED
  BY <1>3, <1>4

LEMMA TypesOfCalls ==
  ASSUME TypeInv, External
  PROVE  DataOK' /\ UNCHANGED <<refs, inCombat, lists, engaged, aborted>>
<1>1. DataOK /\ MaxReactions \in Nat /\ {Leaving, Failing, Hiding} \subseteq SUBSET Units
  BY TypesOfData, UnitsAssumption DEF TypeInv, UnitsAssumption
<1>2. PICK a \in Units :
        \/ \E b \in Units : Attack(a, b)
        \/ CombatStop(a) \/ UpdateUnit(a) \/ EndSome(a)
        \/ Remove(a) \/ Appear(a)
  BY DEF External
<1>3. /\ UNCHANGED <<refs, inCombat, lists, engaged, aborted>>
      /\ budget' \in {budget, MaxReactions}
      /\ present' \in {present, present \cup {a}, present \ {a}}
      /\ fit' \in {fit, fit \cup {a}, fit \ {a}}
      /\ hidden' \in {hidden, hidden \cup {a}, hidden \ {a}}
  BY <1>2 DEF Attack, CombatStop, UpdateUnit, EndSome, Remove, Appear, Call, world
<1> QED
  BY <1>1, <1>3 DEF DataOK, refs, lists

LEMMA TypeInvStep ==
  ASSUME TypeInv, VictimAvailable, [Next]_vars
  PROVE  TypeInv' /\ VictimAvailable'
<1>1. ASSUME Internal
      PROVE  TypeInv' /\ VictimAvailable'
  <2>1. stack' \in Seq(GoodTasks)
    BY <1>1, InternalStack DEF StackStep, Onto
  <2>2. ASSUME DataOK'
        PROVE  TypeInv'
    <3>1. \A i \in 1 .. Len(stack') : stack'[i] \in Tasks
      BY <2>1, ElementOfSeq DEF GoodTasks
    <3> QED
      BY <2>1, <2>2, <3>1 DEF TypeOK, DataOK, TypeInv
  <2>3. CASE \/ ClearThreatTask \/ AddThreat \/ UpdateVictim \/ ProcessAIUpdates
             \/ RemoveMeFromThreatLists \/ ClearAllThreat
    BY <2>2, <2>3, TypesOfLists
  <2>4. CASE \/ SetInCombatWith \/ EndCombatPurge \/ SuppressPvPCombat
             \/ EndAllPvECombat \/ EndAllPvPCombat
    <3>1. UNCHANGED lists
      BY <2>4 DEF SetInCombatWith, EndCombatPurge, SuppressPvPCombat,
                  EndAllPvECombat, EndAllPvPCombat, EndAll
    <3> QED
      BY <2>2, <2>4, <3>1, TypesOfCombat DEF VictimAvailable, lists
  <2>5. CASE \E do \in Loops : LoopStep(do)
    <3>1. UNCHANGED lists
      BY <2>5 DEF LoopStep
    <3> QED
      BY <2>2, <2>5, <3>1, TypesOfLoops DEF VictimAvailable, lists
  <2>6. CASE React \/ EngagementOver
    <3>1. UNCHANGED lists
      BY <2>6 DEF React, EngagementOver
    <3> QED
      BY <2>2, <2>6, <3>1, TypesOfAI DEF VictimAvailable, lists
  <2> QED
    BY <1>1, <2>3, <2>4, <2>5, <2>6 DEF Internal
<1>2. ASSUME External
      PROVE  TypeInv' /\ VictimAvailable'
  <2>1. stack' \in Seq(GoodTasks) /\ DataOK' /\ UNCHANGED lists
    BY <1>2, ExternalStack, TypesOfCalls
  <2>2. \A i \in 1 .. Len(stack') : stack'[i] \in Tasks
    BY <2>1, ElementOfSeq DEF GoodTasks
  <2> QED
    BY <2>1, <2>2 DEF TypeOK, DataOK, TypeInv, VictimAvailable, lists
<1>3. ASSUME UNCHANGED vars
      PROVE  TypeInv' /\ VictimAvailable'
  BY <1>3 DEF vars, refs, lists, world, TypeInv, TypeOK, VictimAvailable
<1> QED
  BY <1>1, <1>2, <1>3 DEF Next

LEMMA TypeInvInit == Init => TypeInv /\ VictimAvailable
<1> SUFFICES ASSUME Init
             PROVE  TypeInv /\ VictimAvailable
  OBVIOUS
<1>1. DataOK
  <2>1. 0 \in 0 .. PvPTimeout /\ 0 \in 0 .. MaxReactions
    BY UnitsAssumption DEF UnitsAssumption
  <2> QED
    BY <2>1 DEF Init, DataOK
<1>2. stack \in Seq(GoodTasks)
  BY DEF Init
<1> QED
  BY <1>1, <1>2, TypesOfAll DEF Init, VictimAvailable

(* The types of the references, of the lists and of the calls under way,   *)
(* whatever the AIs do.                                                    *)
THEOREM CombatTypeCorrect == Spec => []TypeOK
<1>1. TypeInv => TypeOK
  BY DEF TypeInv
<1> QED
  BY <1>1, TypeInvInit, TypeInvStep, PTL DEF Spec

(* The victim of a unit is on its list and online, between any two calls   *)
(* of an AI: what GetCurrentVictim (ThreatManager.cpp:209) asserts.        *)
THEOREM VictimsAreAvailable == Spec => []VictimAvailable
BY TypeInvInit, TypeInvStep, PTL DEF Spec

-----------------------------------------------------------------------------
(* References *)

(* What the maps of two units say of their reference.                      *)
SidesAgree(x, y) ==
  /\ y \in pve[x] => x \in pve[y] /\ ~IsPvP(x, y)
  /\ y \in pvp[x] => x \in pvp[y] /\ IsPvP(x, y) /\ IsFirst(x, y) # IsFirst(y, x)
  /\ y \notin pvp[x] => timer[<<x, y>>] = 0

FlagIsRight(u) == u \in inCombat <=> HasCombat(u)

Agree ==
  /\ \A x, y \in Units : SidesAgree(x, y)
  /\ \A u \in Units : FlagIsRight(u)

(* All but the reference of a and b agree.                                 *)
AgreeBut(a, b) ==
  /\ \A x, y \in Units :
       ~(x = a /\ y = b) /\ ~(x = b /\ y = a) => SidesAgree(x, y)
  /\ \A u \in Units \ {a, b} : FlagIsRight(u)
  /\ \A x, y \in Units :
       (y \in pve[x] => ~IsPvP(x, y)) /\ (y \in pvp[x] => IsPvP(x, y))

(* The part of EndCombat that runs next, or will when what is quiet is     *)
(* over.                                                                   *)
InMiddle(i) == Begun(stack, i) \/ (i = 1 /\ stack[1].do = "EndCombatFirst")

RefInv ==
  \/ Agree
  \/ \E i \in 1 .. Len(stack) : InMiddle(i) /\ AgreeBut(stack[i].a, stack[i].b)

LEMMA NotInMiddle ==
  ASSUME TypeInv, stack # <<>>, stack[1].do \notin Quiet \cup OfReference,
         NEW i \in 1 .. Len(stack)
  PROVE  ~InMiddle(i)
<1>1. CASE i = 1
  BY <1>1 DEF InMiddle, Begun, OfReference
<1>2. CASE i > 1
  <2>1. 1 \in 1 .. i - 1
    BY <1>2
  <2> QED
    BY <1>2, <2>1 DEF InMiddle, Begun, QuietAbove
<1> QED
  BY <1>1, <1>2

LEMMA MiddleAtTop ==
  ASSUME TypeInv, stack # <<>>, stack[1].do \in OfReference,
         NEW i \in 1 .. Len(stack), InMiddle(i)
  PROVE  i = 1
<1>1. CASE i > 1
  <2>1. 1 \in 1 .. i - 1
    BY <1>1
  <2> QED
    BY <1>1, <2>1 DEF InMiddle, Begun, QuietAbove, Quiet, OfReference
<1> QED
  BY <1>1

(* What runs until EndCombat purges leaves it where it is.                 *)
LEMMA MiddleMoves ==
  ASSUME TypeInv, WellFormed(stack), ReactsInEndCombat = FALSE,
         NEW new, StackStep(new), stack[1].do # "EndCombatPurge",
         NEW i \in 1 .. Len(stack), InMiddle(i)
  PROVE  \E k \in 1 .. Len(stack') :
            /\ Begun(stack, k)'
            /\ stack'[k].a = stack[i].a /\ stack'[k].b = stack[i].b
            /\ stack'[k].do = "EndCombatSecond" =>
                 \/ stack[i].do = "EndCombatFirst" /\ i = 1
                 \/ stack[i].do = "EndCombatSecond" /\ i # 1
            /\ stack'[k].do = "EndCombatPurge" =>
                 \/ stack[i].do = "EndCombatSecond" /\ i = 1
                 \/ stack[i].do = "EndCombatPurge" /\ i # 1
<1> DEFINE n == Len(new)
<1>1. /\ n \in Nat /\ Len(stack) \in Nat \ {0}
      /\ Len(stack') = n + Len(stack) - 1
      /\ \A j \in 1 .. n : stack'[j] = new[j]
      /\ \A j \in 2 .. Len(stack) : SameCall(stack'[n + j - 1], stack[j])
  BY TailFacts DEF StackStep, Onto, TypeInv
<1>2. ASSUME AllQuiet(new), NEW j \in 2 .. Len(stack),
             stack[j].do \in {"EndCombatSecond", "EndCombatPurge"},
             \A m \in 2 .. j - 1 : stack[m].do \in Quiet
      PROVE  n + j - 1 \in 1 .. Len(stack') /\ Begun(stack, n + j - 1)'
  <2>0. n + j - 1 \in 1 .. Len(stack') /\ SameCall(stack'[n + j - 1], stack[j])
    <3>1. n \in Nat /\ Len(stack) \in Nat /\ Len(stack') = n + Len(stack) - 1
      BY <1>1
    <3> HIDE DEF n
    <3>2. n + j - 1 \in 1 .. Len(stack')
      BY <3>1
    <3> QED
      BY <1>1, <3>2
  <2>1. n + j - 1 \in 1 .. Len(stack') /\ stack'[n + j - 1].do = stack[j].do
    BY <2>0 DEF SameCall
  <2>2. ASSUME NEW m \in 1 .. (n + j - 1) - 1
        PROVE  stack'[m].do \in Quiet
    <3>1. CASE m <= n
      <4>1. m \in 1 .. n
        BY <1>1, <3>1
      <4> QED
        BY <1>1, <1>2, <4>1 DEF AllQuiet
    <3>2. CASE m > n
      <4>1. /\ m - n + 1 \in 2 .. j - 1 /\ m - n + 1 \in 2 .. Len(stack)
            /\ n + (m - n + 1) - 1 = m
        BY <1>1, <3>2
      <4>2. stack'[m].do = stack[m - n + 1].do
        BY <1>1, <4>1 DEF SameCall
      <4> QED
        BY <1>2, <4>1, <4>2
    <3> QED
      BY <1>1, <3>1, <3>2
  <2>3. QuietAbove(stack, n + j - 1)'
    BY <2>2 DEF QuietAbove
  <2>4. stack'[n + j - 1].do \in {"EndCombatSecond", "EndCombatPurge"}
    BY <1>2, <2>1
  <2> QED
    BY <2>1, <2>3, <2>4 DEF Begun
<1>3. CASE i = 1
  <2>1. stack[1].do \in {"EndCombatFirst", "EndCombatSecond"}
    BY <1>3 DEF InMiddle, Begun
  <2>2. AllQuiet(new)
    BY <2>1 DEF StackStep
  <2>3. /\ 2 \in 2 .. Len(stack)
        /\ stack[2].a = stack[1].a /\ stack[2].b = stack[1].b
        /\ stack[2].do = IF stack[1].do = "EndCombatFirst"
                         THEN "EndCombatSecond" ELSE "EndCombatPurge"
    BY <1>1, <2>1 DEF WellFormed, Goes
  <2>4. n + 2 - 1 \in 1 .. Len(stack') /\ Begun(stack, n + 2 - 1)'
    BY <1>2, <2>2, <2>3
  <2>5. SameCall(stack'[n + 2 - 1], stack[2])
    BY <1>1, <2>3
  <2> QED
    BY <1>3, <2>1, <2>3, <2>4, <2>5 DEF SameCall
<1>4. CASE i # 1
  <2>1. i \in 2 .. Len(stack) /\ Begun(stack, i)
    BY <1>1, <1>4 DEF InMiddle
  <2>2. 1 \in 1 .. i - 1 /\ \A m \in 2 .. i - 1 : m \in 1 .. i - 1
    BY <1>1, <2>1
  <2>3. stack[1].do \in Quiet /\ \A m \in 2 .. i - 1 : stack[m].do \in Quiet
    BY <2>1, <2>2 DEF Begun, QuietAbove
  <2>4. InEndCombat
    BY <2>1, MiddleOfEndCombat DEF TypeInv
  <2>5. AllQuiet(new)
    BY <2>3, <2>4 DEF StackStep
  <2>6. n + i - 1 \in 1 .. Len(stack') /\ Begun(stack, n + i - 1)'
    BY <1>2, <2>1, <2>3, <2>5 DEF Begun
  <2>7. SameCall(stack'[n + i - 1], stack[i])
    BY <1>1, <2>1
  <2> QED
    BY <1>4, <2>6, <2>7 DEF SameCall
<1> QED
  BY <1>3, <1>4

LEMMA WellFormedStep ==
  ASSUME TypeInv, WellFormed(stack), ReactsInEndCombat = FALSE,
         NEW new, StackStep(new)
  PROVE  WellFormed(stack)'
<1>1. stack[1].do \in Quiet /\ ~AllQuiet(new) => \A i \in 1 .. Len(stack) : ~Begun(stack, i)
  BY MiddleOfEndCombat DEF StackStep, TypeInv
<1> QED
  BY <1>1, StaysWellFormed DEF StackStep, TypeInv

(* Steps that leave references and flags alone.                            *)
LEMMA RefInvMoves ==
  ASSUME TypeInv, WellFormed(stack), ReactsInEndCombat = FALSE, RefInv,
         NEW new, StackStep(new), stack[1].do # "EndCombatPurge",
         UNCHANGED <<refs, inCombat>>
  PROVE  RefInv'
<1>1. ASSUME Agree
      PROVE  Agree'
  BY <1>1 DEF Agree, SidesAgree, FlagIsRight, IsFirst, HasCombat, refs
<1>2. ASSUME NEW a, NEW b, AgreeBut(a, b)
      PROVE  AgreeBut(a, b)'
  BY <1>2 DEF AgreeBut, SidesAgree, FlagIsRight, IsFirst, HasCombat, refs
<1>3. ASSUME NEW i \in 1 .. Len(stack), InMiddle(i), AgreeBut(stack[i].a, stack[i].b)
      PROVE  RefInv'
  <2>1. PICK k \in 1 .. Len(stack') :
           /\ Begun(stack, k)'
           /\ stack'[k].a = stack[i].a /\ stack'[k].b = stack[i].b
    BY <1>3, MiddleMoves
  <2>2. AgreeBut(stack[i].a, stack[i].b) => AgreeBut(stack[k].a, stack[k].b)'
    BY <2>1, <1>2
  <2> QED
    BY <1>3, <2>1, <2>2 DEF RefInv, InMiddle
<1> QED
  BY <1>1, <1>3 DEF RefInv

(* UpdateOwnerCombatState sets the flags of its units right.               *)
LEMMA FlagsAfter ==
  ASSUME NEW some, UpdateOwnerCombatState(some),
         \A u \in Units \ some : u \in inCombat <=> HasCombat(u)'
  PROVE  \A u \in Units : FlagIsRight(u)'
BY DEF UpdateOwnerCombatState, FlagIsRight

(* Neither of them touches the references of others.                       *)
LEMMA Elsewhere ==
  ASSUME NEW map \in [Units -> SUBSET Units], NEW a \in Units, NEW b \in Units,
         NEW u \in Units, u # a, u # b
  PROVE  Put(map, a, b)[u] = map[u] /\ Purge(map, a, b)[u] = map[u]
<1>1. Put(map, a, b)[u] =
        map[u] \cup (IF u = a THEN {b} ELSE {}) \cup (IF u = b THEN {a} ELSE {})
  BY PutFacts
<1>2. Purge(map, a, b)[u] =
        (map[u] \ (IF u = a THEN {b} ELSE {})) \ (IF u = b THEN {a} ELSE {})
  BY PurgeFacts
<1> QED
  BY <1>1, <1>2

(* What is to be shown of the two sides of a reference, the values of the  *)
(* timers apart.                                                           *)
LEMMA SidesAfter ==
  ASSUME NEW x \in Units, NEW y \in Units,
         y \in pve'[x] => x \in pve'[y] /\ ~IsPvP(x, y),
         y \in pvp'[x] => x \in pvp'[y] /\ IsPvP(x, y),
         y \in pvp'[x] => (timer'[<<x, y>>] > 0) # (timer'[<<y, x>>] > 0),
         y \notin pvp'[x] => timer'[<<x, y>>] = 0
  PROVE  SidesAgree(x, y)'
BY DEF SidesAgree, IsPvP, IsFirst

LEMMA SidesBefore ==
  ASSUME NEW x \in Units, NEW y \in Units, SidesAgree(x, y)
  PROVE  /\ y \in pve[x] => x \in pve[y] /\ ~IsPvP(x, y)
         /\ y \in pvp[x] => x \in pvp[y] /\ IsPvP(x, y)
         /\ y \in pvp[x] => (timer[<<x, y>>] > 0) # (timer[<<y, x>>] > 0)
         /\ y \notin pvp[x] => timer[<<x, y>>] = 0
BY DEF SidesAgree, IsPvP, IsFirst

LEMMA TimerIsNat ==
  ASSUME TypeInv, NEW x \in Units, NEW y \in Units
  PROVE  timer[<<x, y>>] \in Nat
<1>1. timer \in [Units \X Units -> 0 .. PvPTimeout] /\ PvPTimeout \in Nat
  BY TypesOfData, UnitsAssumption DEF TypeInv, DataOK, UnitsAssumption
<1> QED
  BY <1>1

(* A timer says which side began only by being above zero.                 *)
LEMMA SignsKept ==
  ASSUME \A x, y \in Units : SidesAgree(x, y),
         UNCHANGED <<pve, pvp>>,
         \A x, y \in Units :
           /\ timer'[<<x, y>>] > 0 <=> timer[<<x, y>>] > 0
           /\ timer'[<<x, y>>] = 0 <=> timer[<<x, y>>] = 0
  PROVE  \A x, y \in Units : SidesAgree(x, y)'
<1> TAKE x \in Units, y \in Units
<1>1. SidesAgree(x, y)
  OBVIOUS
<1>2. /\ y \in pve[x] => x \in pve[y] /\ ~IsPvP(x, y)
      /\ y \in pvp[x] => x \in pvp[y] /\ IsPvP(x, y)
      /\ y \in pvp[x] => (timer[<<x, y>>] > 0) # (timer[<<y, x>>] > 0)
      /\ y \notin pvp[x] => timer[<<x, y>>] = 0
  BY <1>1, SidesBefore
<1>3. /\ timer'[<<x, y>>] > 0 <=> timer[<<x, y>>] > 0
      /\ timer'[<<y, x>>] > 0 <=> timer[<<y, x>>] > 0
      /\ timer'[<<x, y>>] = 0 <=> timer[<<x, y>>] = 0
  OBVIOUS
<1>4. /\ y \in pve'[x] => x \in pve'[y] /\ ~IsPvP(x, y)
      /\ y \in pvp'[x] => x \in pvp'[y] /\ IsPvP(x, y)
  BY <1>2
<1>5. y \in pvp'[x] => (timer'[<<x, y>>] > 0) # (timer'[<<y, x>>] > 0)
  <2> DEFINE s == timer[<<x, y>>] > 0
             t == timer[<<y, x>>] > 0
             ss == timer'[<<x, y>>] > 0
             tt == timer'[<<y, x>>] > 0
  <2>1. (ss <=> s) /\ (tt <=> t) /\ (y \in pvp'[x] => s # t)
        /\ s \in BOOLEAN /\ t \in BOOLEAN /\ ss \in BOOLEAN /\ tt \in BOOLEAN
    BY <1>2, <1>3
  <2> HIDE DEF s, t, ss, tt
  <2>2. y \in pvp'[x] => ss # tt
    BY <2>1
  <2> QED
    BY <2>2 DEF ss, tt
<1>6. y \notin pvp'[x] => timer'[<<x, y>>] = 0
  BY <1>2, <1>3
<1> QED
  BY <1>4, <1>5, <1>6, SidesAfter

(* A refresh keeps the sign of the timers.                                 *)
LEMMA RefreshAgrees ==
  ASSUME TypeInv, Agree, NEW a \in Units, NEW b \in Units,
         b \in pvp[a],
         timer' = [p \in Units \X Units |->
                     IF p \in Pairs(a, b) THEN PvPTimeout ELSE timer[p]],
         suppressed' = Purge(suppressed, a, b),
         UNCHANGED <<pve, pvp>>,
         UpdateOwnerCombatState({u \in {a, b} : {a, b} \ {u} \subseteq suppressed[u]})
  PROVE  Agree'
<1>1. DataOK /\ PvPTimeout \in Nat \ {0}
  BY TypesOfData, UnitsAssumption DEF TypeInv, UnitsAssumption
<1>2. \A x, y \in Units : SidesAgree(x, y)
  BY DEF Agree
<1>3. a \in pvp[b] /\ IsPvP(a, b) /\ a # b
  BY <1>2, SidesBefore
<1>4. ASSUME NEW x \in Units, NEW y \in Units
      PROVE  /\ timer'[<<x, y>>] > 0 <=> timer[<<x, y>>] > 0
             /\ timer'[<<x, y>>] = 0 <=> timer[<<x, y>>] = 0
  <2>1. timer'[<<x, y>>] = IF <<x, y>> \in Pairs(a, b) THEN PvPTimeout ELSE timer[<<x, y>>]
    OBVIOUS
  <2>2. <<x, y>> \in Pairs(a, b) => timer[<<x, y>>] > 0
    BY <1>3 DEF Pairs
  <2>3. timer[<<x, y>>] \in Nat
    BY TimerIsNat
  <2> QED
    BY <1>1, <2>1, <2>2, <2>3
<1>5. \A x, y \in Units : SidesAgree(x, y)'
  BY <1>2, <1>4, SignsKept
<1>6. /\ suppressed \in [Units -> SUBSET Units]
      /\ suppressed' \in [Units -> SUBSET Units]
      /\ \A u \in Units : suppressed'[u] =
           (suppressed[u] \ (IF u = a THEN {b} ELSE {})) \ (IF u = b THEN {a} ELSE {})
  <2>1. suppressed \in [Units -> SUBSET Units]
    BY <1>1 DEF DataOK
  <2>2. suppressed' = Purge(suppressed, a, b)
    OBVIOUS
  <2> QED
    BY <2>1, <2>2, PurgeFacts
<1> DEFINE some == {u \in {a, b} : {a, b} \ {u} \subseteq suppressed[u]}
<1>7. ASSUME NEW u \in Units \ some
      PROVE  u \in inCombat <=> HasCombat(u)'
  <2>1. u \in inCombat <=> HasCombat(u)
    BY DEF Agree, FlagIsRight
  <2>2. CASE u \notin {a, b}
    BY <1>6, <2>1, <2>2 DEF HasCombat
  <2>3. CASE u = a
    <3>1. b \notin suppressed[a] /\ b \notin suppressed'[a]
      BY <1>3, <1>6, <2>3
    <3> QED
      BY <2>1, <2>3, <3>1 DEF HasCombat
  <2>4. CASE u = b
    <3>1. a \notin suppressed[b] /\ a \notin suppressed'[b]
      BY <1>3, <1>6, <2>4
    <3> QED
      BY <1>3, <2>1, <2>4, <3>1 DEF HasCombat
  <2> QED
    BY <2>2, <2>3, <2>4
<1>8. \A u \in Units : FlagIsRight(u)'
  <2>1. UpdateOwnerCombatState(some)
    OBVIOUS
  <2> HIDE DEF some
  <2> QED
    BY <1>7, <2>1, FlagsAfter
<1> QED
  BY <1>5, <1>8 DEF Agree

(* A new reference is put into both maps, of one kind.                     *)
LEMMA BeginAgrees ==
  ASSUME TypeInv, Agree, NEW a \in Units, NEW b \in Units, a # b,
         ~IsInCombatWith(a, b),
         \/ /\ IsPvP(a, b)
            /\ pvp' = Put(pvp, a, b)
            /\ timer' = [timer EXCEPT ![<<a, b>>] = PvPTimeout]
            /\ UNCHANGED pve
         \/ /\ ~IsPvP(a, b)
            /\ pve' = Put(pve, a, b)
            /\ UNCHANGED <<pvp, timer>>,
         UNCHANGED suppressed,
         UpdateOwnerCombatState({a, b})
  PROVE  Agree'
<1>1. DataOK /\ PvPTimeout \in Nat \ {0}
  BY TypesOfData, UnitsAssumption DEF TypeInv, UnitsAssumption
<1>0. pve \in [Units -> SUBSET Units] /\ pvp \in [Units -> SUBSET Units]
  BY <1>1 DEF DataOK
<1>2. \A x, y \in Units : SidesAgree(x, y)
  BY DEF Agree
<1>3. /\ b \notin pve[a] /\ a \notin pve[b]
      /\ b \notin pvp[a] /\ a \notin pvp[b]
      /\ timer[<<a, b>>] = 0 /\ timer[<<b, a>>] = 0
  <2>1. SidesAgree(a, b) /\ SidesAgree(b, a)
    BY <1>2
  <2> QED
    BY <2>1, SidesBefore DEF IsInCombatWith
<1>4. ASSUME NEW x \in Units, NEW y \in Units
      PROVE  SidesAgree(x, y)'
  <2>1. /\ y \in pve[x] => x \in pve[y] /\ ~IsPvP(x, y)
        /\ y \in pvp[x] => x \in pvp[y] /\ IsPvP(x, y)
        /\ y \in pvp[x] => (timer[<<x, y>>] > 0) # (timer[<<y, x>>] > 0)
        /\ y \notin pvp[x] => timer[<<x, y>>] = 0
    <3>1. SidesAgree(x, y)
      BY <1>2
    <3> QED
      BY <3>1, SidesBefore
  <2>2. CASE ~IsPvP(a, b)
    <3>1. pve' = Put(pve, a, b) /\ UNCHANGED <<pvp, timer>>
      BY <2>2
    <3>2. \A u \in Units : pve'[u] =
            pve[u] \cup (IF u = a THEN {b} ELSE {}) \cup (IF u = b THEN {a} ELSE {})
      BY <1>0, <3>1, PutFacts
    <3>3. ~IsPvP(b, a)
      BY <2>2 DEF IsPvP
    <3>4. y \in pve'[x] => x \in pve'[y] /\ ~IsPvP(x, y)
      BY <2>1, <2>2, <3>2, <3>3
    <3> QED
      BY <2>1, <3>1, <3>4, SidesAfter
  <2>3. CASE IsPvP(a, b)
    <3>1. /\ pvp' = Put(pvp, a, b) /\ UNCHANGED pve
          /\ timer' = [timer EXCEPT ![<<a, b>>] = PvPTimeout]
      BY <2>3
    <3>2. \A u \in Units : pvp'[u] =
            pvp[u] \cup (IF u = a THEN {b} ELSE {}) \cup (IF u = b THEN {a} ELSE {})
      BY <1>0, <3>1, PutFacts
    <3>3. IsPvP(b, a)
      BY <2>3 DEF IsPvP
    <3>4. \A v, w \in Units : timer'[<<v, w>>] =
            IF v = a /\ w = b THEN PvPTimeout ELSE timer[<<v, w>>]
      <4>1. timer \in [Units \X Units -> 0 .. PvPTimeout]
        BY <1>1 DEF DataOK
      <4> QED
        BY <3>1, <4>1
    <3>5. y \in pvp'[x] => x \in pvp'[y] /\ IsPvP(x, y)
      BY <2>1, <2>3, <3>2, <3>3
    <3>6. y \in pvp'[x] => (timer'[<<x, y>>] > 0) # (timer'[<<y, x>>] > 0)
      <4>1. CASE x = a /\ y = b
        BY <1>1, <1>3, <3>4, <4>1
      <4>2. CASE x = b /\ y = a
        BY <1>1, <1>3, <3>4, <4>2
      <4>3. CASE ~(x = a /\ y = b) /\ ~(x = b /\ y = a)
        BY <2>1, <3>2, <3>4, <4>3
      <4> QED
        BY <4>1, <4>2, <4>3
    <3>7. y \notin pvp'[x] => timer'[<<x, y>>] = 0
      BY <2>1, <3>2, <3>4
    <3> QED
      BY <2>1, <3>1, <3>5, <3>6, <3>7, SidesAfter
  <2> QED
    BY <2>2, <2>3
<1>5. \A u \in Units \ {a, b} : u \in inCombat <=> HasCombat(u)'
  <2> TAKE u \in Units \ {a, b}
  <2>1. u \in inCombat <=> HasCombat(u)
    BY DEF Agree, FlagIsRight
  <2>2. pve'[u] = pve[u] /\ pvp'[u] = pvp[u]
    <3>1. /\ pve' = pve \/ pve' = Put(pve, a, b)
          /\ pvp' = pvp \/ pvp' = Put(pvp, a, b)
      OBVIOUS
    <3>0. u \in Units /\ u # a /\ u # b
      OBVIOUS
    <3>2. Put(pve, a, b)[u] = pve[u] /\ Put(pvp, a, b)[u] = pvp[u]
      BY <1>0, <3>0, Elsewhere
    <3> QED
      BY <3>1, <3>2
  <2> QED
    BY <2>1, <2>2 DEF HasCombat
<1>6. \A u \in Units : FlagIsRight(u)'
  BY <1>5, FlagsAfter
<1> QED
  BY <1>4, <1>6 DEF Agree

LEMMA SetInCombatWithAgrees ==
  ASSUME TypeInv, RefInv, SetInCombatWith
  PROVE  Agree'
<1>1. PICK do \in {"SetInCombatWith", "EngageWithTarget"} : Top(do)
  BY DEF SetInCombatWith
<1>2. PICK a \in Units, b \in Units : Head(stack).a = a /\ Head(stack).b = b
  BY <1>1, TopFacts DEF Top, OfTwo
<1>3. Agree
  <2>1. stack # <<>> /\ stack[1].do \notin Quiet \cup OfReference
    BY <1>1, TopFacts DEF Top, Quiet, OfReference
  <2> QED
    BY <2>1, NotInMiddle DEF RefInv
<1>4. CASE /\ b \in pvp[a]
           /\ timer' = [p \in Units \X Units |->
                          IF p \in Pairs(a, b) THEN PvPTimeout ELSE timer[p]]
           /\ suppressed' = Purge(suppressed, a, b)
           /\ UNCHANGED <<pve, pvp>>
           /\ UpdateOwnerCombatState({u \in {a, b} : {a, b} \ {u} \subseteq suppressed[u]})
  BY <1>3, <1>4, RefreshAgrees
<1>5. CASE UNCHANGED <<refs, inCombat>>
  BY <1>3, <1>5 DEF Agree, SidesAgree, FlagIsRight, IsFirst, HasCombat, refs
<1>6. CASE /\ ~IsInCombatWith(a, b)
           /\ CanBeginCombat(a, b)
           /\ \/ /\ IsPvP(a, b)
                 /\ pvp' = Put(pvp, a, b)
                 /\ timer' = [timer EXCEPT ![<<a, b>>] = PvPTimeout]
                 /\ UNCHANGED pve
              \/ /\ ~IsPvP(a, b)
                 /\ pve' = Put(pve, a, b)
                 /\ UNCHANGED <<pvp, timer>>
           /\ UNCHANGED suppressed
           /\ UpdateOwnerCombatState({a, b})
  <2>1. a # b
    BY <1>6 DEF CanBeginCombat
  <2> QED
    BY <1>3, <1>6, <2>1, BeginAgrees
<1>7. \/ /\ b \in pvp[a]
         /\ timer' = [p \in Units \X Units |->
                        IF p \in Pairs(a, b) THEN PvPTimeout ELSE timer[p]]
         /\ suppressed' = Purge(suppressed, a, b)
         /\ UNCHANGED <<pve, pvp>>
         /\ UpdateOwnerCombatState({u \in {a, b} : {a, b} \ {u} \subseteq suppressed[u]})
      \/ UNCHANGED <<refs, inCombat>>
      \/ /\ ~IsInCombatWith(a, b)
         /\ CanBeginCombat(a, b)
         /\ \/ /\ IsPvP(a, b)
               /\ pvp' = Put(pvp, a, b)
               /\ timer' = [timer EXCEPT ![<<a, b>>] = PvPTimeout]
               /\ UNCHANGED pve
            \/ /\ ~IsPvP(a, b)
               /\ pve' = Put(pve, a, b)
               /\ UNCHANGED <<pvp, timer>>
         /\ UNCHANGED suppressed
         /\ UpdateOwnerCombatState({a, b})
  BY <1>2, Zenon DEF SetInCombatWith
<1> QED
  BY <1>4, <1>5, <1>6, <1>7

(* The end of EndCombat brings everything back to agree.                   *)
LEMMA EndCombatPurgeAgrees ==
  ASSUME TypeInv, RefInv, EndCombatPurge
  PROVE  Agree'
<1>1. PICK a \in Units, b \in Units :
        /\ Head(stack).a = a /\ Head(stack).b = b
        /\ stack # <<>> /\ stack[1].do = "EndCombatPurge"
        /\ stack[1].a = a /\ stack[1].b = b
  BY TopFacts DEF EndCombatPurge, Top, OfTwo, OfReference
<1>2. /\ pve' = IF IsPvP(a, b) THEN pve ELSE Purge(pve, a, b)
      /\ pvp' = IF IsPvP(a, b) THEN Purge(pvp, a, b) ELSE pvp
      /\ timer' = [timer EXCEPT ![<<a, b>>] = 0, ![<<b, a>>] = 0]
      /\ UpdateOwnerCombatState({a, b})
      /\ suppressed' = Purge(suppressed, a, b)
  BY <1>1 DEF EndCombatPurge
<1>3. /\ pve \in [Units -> SUBSET Units]
      /\ pvp \in [Units -> SUBSET Units]
      /\ suppressed \in [Units -> SUBSET Units]
  BY TypesOfData DEF TypeInv, DataOK
<1>4. timer \in [Units \X Units -> 0 .. PvPTimeout]
  BY TypesOfData DEF TypeInv, DataOK
<1>5. AgreeBut(a, b)
  <2>1. Agree => AgreeBut(a, b)
    BY DEF Agree, AgreeBut, SidesAgree
  <2>2. ASSUME NEW i \in 1 .. Len(stack), InMiddle(i)
        PROVE  i = 1
    BY <1>1, <2>2, MiddleAtTop DEF OfReference
  <2> QED
    BY <1>1, <2>1, <2>2 DEF RefInv
<1>6. /\ \A x, y \in Units : y \in pve'[x] <=>
            y \in pve[x] /\ (IsPvP(a, b) \/ (~(x = a /\ y = b) /\ ~(x = b /\ y = a)))
      /\ \A x, y \in Units : y \in pvp'[x] <=>
            y \in pvp[x] /\ (~IsPvP(a, b) \/ (~(x = a /\ y = b) /\ ~(x = b /\ y = a)))
  <2>1. \A map \in {pve, pvp} : \A x, y \in Units : y \in Purge(map, a, b)[x] <=>
            y \in map[x] /\ ~(x = a /\ y = b) /\ ~(x = b /\ y = a)
    <3> TAKE map \in {pve, pvp}
    <3> TAKE x \in Units, y \in Units
    <3>1. Purge(map, a, b)[x] =
            (map[x] \ (IF x = a THEN {b} ELSE {})) \ (IF x = b THEN {a} ELSE {})
      BY <1>3, PurgeFacts, SMTT(20)
    <3> QED
      BY <3>1
  <2>2. CASE IsPvP(a, b)
    BY <1>2, <2>1, <2>2
  <2>3. CASE ~IsPvP(a, b)
    BY <1>2, <2>1, <2>3
  <2> QED
    BY <2>2, <2>3
<1>7. \A x, y \in Units : timer'[<<x, y>>] =
         IF (x = a /\ y = b) \/ (x = b /\ y = a) THEN 0 ELSE timer[<<x, y>>]
  BY <1>2, <1>4
<1>8. IsPvP(a, b) <=> IsPvP(b, a)
  BY DEF IsPvP
<1>9. ASSUME NEW x \in Units, NEW y \in Units
      PROVE  SidesAgree(x, y)'
  <2>0. (y \in pve[x] => ~IsPvP(x, y)) /\ (y \in pvp[x] => IsPvP(x, y))
    BY <1>5 DEF AgreeBut
  <2>1. CASE (x = a /\ y = b) \/ (x = b /\ y = a)
    <3>1. IsPvP(x, y) <=> IsPvP(a, b)
      BY <1>8, <2>1
    <3>2. y \notin pve'[x]
      BY <1>6, <2>0, <2>1, <3>1
    <3>3. y \notin pvp'[x]
      BY <1>6, <2>0, <2>1, <3>1
    <3>4. timer'[<<x, y>>] = 0
      BY <1>7, <2>1
    <3> QED
      BY <3>2, <3>3, <3>4, SidesAfter
  <2>2. CASE ~(x = a /\ y = b) /\ ~(x = b /\ y = a)
    <3>1. SidesAgree(x, y)
      BY <1>5, <2>2 DEF AgreeBut
    <3>2. /\ y \in pve[x] => x \in pve[y] /\ ~IsPvP(x, y)
          /\ y \in pvp[x] => x \in pvp[y] /\ IsPvP(x, y)
          /\ y \in pvp[x] => (timer[<<x, y>>] > 0) # (timer[<<y, x>>] > 0)
          /\ y \notin pvp[x] => timer[<<x, y>>] = 0
      BY <3>1, SidesBefore
    <3>3. /\ y \in pve'[x] <=> y \in pve[x]
          /\ y \in pvp'[x] <=> y \in pvp[x]
          /\ x \in pve'[y] <=> x \in pve[y]
          /\ x \in pvp'[y] <=> x \in pvp[y]
      BY <1>6, <2>2
    <3>4. timer'[<<x, y>>] = timer[<<x, y>>] /\ timer'[<<y, x>>] = timer[<<y, x>>]
      BY <1>7, <2>2
    <3> QED
      BY <3>2, <3>3, <3>4, SidesAfter
  <2> QED
    BY <2>1, <2>2
<1>10. \A u \in Units \ {a, b} : u \in inCombat <=> HasCombat(u)'
  <2> TAKE u \in Units \ {a, b}
  <2>0. u \in Units /\ u # a /\ u # b
    OBVIOUS
  <2>1. u \in inCombat <=> HasCombat(u)
    BY <1>5 DEF AgreeBut, FlagIsRight
  <2>2. /\ Purge(pve, a, b)[u] = pve[u]
        /\ Purge(pvp, a, b)[u] = pvp[u]
        /\ Purge(suppressed, a, b)[u] = suppressed[u]
    BY <1>3, <2>0, Elsewhere
  <2>3. /\ pve' = pve \/ pve' = Purge(pve, a, b)
        /\ pvp' = pvp \/ pvp' = Purge(pvp, a, b)
    BY <1>2
  <2>4. pve'[u] = pve[u] /\ pvp'[u] = pvp[u] /\ suppressed'[u] = suppressed[u]
    BY <1>2, <2>2, <2>3
  <2> QED
    BY <2>1, <2>4 DEF HasCombat
<1>11. \A u \in Units : FlagIsRight(u)'
  BY <1>2, <1>10, FlagsAfter
<1> QED
  BY <1>9, <1>11 DEF Agree

LEMMA SuppressPvPCombatAgrees ==
  ASSUME TypeInv, RefInv, SuppressPvPCombat
  PROVE  Agree'
<1>1. PICK a \in Units : Head(stack).a = a
  BY TopFacts DEF SuppressPvPCombat, Top
<1>2. Agree
  <2>1. stack # <<>> /\ stack[1].do \notin Quiet \cup OfReference
    BY TopFacts DEF SuppressPvPCombat, Top, Quiet, OfReference
  <2> QED
    BY <2>1, NotInMiddle DEF RefInv
<1>3. /\ suppressed' = [suppressed EXCEPT ![a] = pvp[a]]
      /\ UNCHANGED <<pve, pvp, timer>>
      /\ UpdateOwnerCombatState({a})
  BY <1>1 DEF SuppressPvPCombat
<1>4. suppressed \in [Units -> SUBSET Units]
  BY TypesOfData DEF TypeInv, DataOK
<1>5. \A u \in Units \ {a} : u \in inCombat <=> HasCombat(u)'
  BY <1>2, <1>3, <1>4 DEF Agree, FlagIsRight, HasCombat
<1>6. \A u \in Units : FlagIsRight(u)'
  BY <1>3, <1>5, FlagsAfter
<1>7. \A x, y \in Units : SidesAgree(x, y)'
  BY <1>2, <1>3 DEF Agree, SidesAgree, IsFirst
<1> QED
  BY <1>6, <1>7 DEF Agree

(* A loop goes on, or takes the reference it is at out of the map of its   *)
(* unit and begins to end it.                                              *)
LEMMA LoopShape ==
  ASSUME TypeInv, NEW do \in Loops, LoopStep(do)
  PROVE  \E a \in Units, b \in Units \cup {Nobody} :
            /\ stack # <<>> /\ stack[1].do = do
            /\ \/ UNCHANGED refs
               \/ /\ b \in Units
                  /\ FALSE \in Ends(do, a, b)
                  /\ timer' = Ticked(do, a, b)
                  /\ UNCHANGED <<pve, pvp>>
               \/ /\ b \in Units
                  /\ pve' = [pve EXCEPT ![a] = @ \ {b}]
                  /\ pvp' = [pvp EXCEPT ![a] = @ \ {b}]
                  /\ timer' = timer
                  /\ \E p \in Pairs(a, b) :
                       /\ Len(stack') \in Nat \ {0}
                       /\ stack'[1].do = "EndCombatFirst"
                       /\ stack'[1].a = p[1] /\ stack'[1].b = p[2]
<1>1. PICK a \in Units, b \in Units \cup {Nobody} :
        /\ Head(stack).a = a /\ Head(stack).b = b
        /\ stack # <<>> /\ stack[1].do = do
  BY TopFacts DEF LoopStep, Top
<1>2. /\ pve \in [Units -> SUBSET Units]
      /\ pvp \in [Units -> SUBSET Units]
      /\ Nobody \notin Units
  BY TypesOfData, UnitsAssumption DEF TypeInv, DataOK, UnitsAssumption
<1>3. ASSUME b \in Units,
              NEW p \in Pairs(a, b),
              NEW r \in Seq(GoodTasks), NEW t \in Seq(GoodTasks),
              stack' = EndCombat(p) \o r \o t
       PROVE  /\ Len(stack') \in Nat \ {0}
              /\ stack'[1].do = "EndCombatFirst"
              /\ stack'[1].a = p[1] /\ stack'[1].b = p[2]
  <2> DEFINE e == EndCombat(p) \o r
  <2>1. p \in Units \X Units
    BY <1>3, PairsAreUnits
  <2>2. /\ e \in Seq(GoodTasks)
        /\ Len(e) = Len(r) + 3
        /\ e[1] = Task("EndCombatFirst", p[1], p[2])
    BY <2>1, EndCombatTasks
  <2>3. Len(r) \in Nat /\ Len(t) \in Nat
    BY LenProperties
  <2>4. stack' = e \o t
    BY <1>3
  <2> HIDE DEF e
  <2>5. /\ Len(e \o t) = Len(e) + Len(t)
        /\ \A i \in 1 .. Len(e) + Len(t) :
              (e \o t)[i] = IF i <= Len(e) THEN e[i] ELSE t[i - Len(e)]
    BY <2>2, ConcatProperties
  <2>6. Len(stack') \in Nat \ {0} /\ stack'[1] = Task("EndCombatFirst", p[1], p[2])
    BY <2>2, <2>3, <2>4, <2>5
  <2>7. /\ stack'[1].do = "EndCombatFirst"
        /\ stack'[1].a = p[1] /\ stack'[1].b = p[2]
    BY <2>6 DEF Task
  <2> QED
    BY <2>6, <2>7
<1>4. ASSUME b \in Units, NEW m \in SUBSET Units, NEW u \in Advance(Head(stack), m),
              NEW p \in Pairs(a, b),
              stack' = EndCombat(p) \o LoopAt(u) \o Erased(Tail(stack), a, b)
       PROVE  /\ Len(stack') \in Nat \ {0}
              /\ stack'[1].do = "EndCombatFirst"
              /\ stack'[1].a = p[1] /\ stack'[1].b = p[2]
  <2>3. LoopAt(u) \in Seq(GoodTasks)
    BY <1>1, <1>4, TopFacts, LoopGoesOn
  <2>4. Erased(Tail(stack), a, b) \in Seq(GoodTasks)
    BY <1>1, MarkedTail DEF TypeInv
  <2> QED
    BY <1>3, <1>4, <2>3, <2>4
<1>5. \/ UNCHANGED refs
       \/ /\ b # Nobody
          /\ FALSE \in Ends(do, a, b)
          /\ timer' = Ticked(do, a, b)
          /\ UNCHANGED <<pve, pvp>>
       \/ /\ b # Nobody
          /\ pve' = [pve EXCEPT ![a] = @ \ {b}]
          /\ pvp' = [pvp EXCEPT ![a] = @ \ {b}]
          /\ timer' = timer
          /\ \E m \in SUBSET Units :
               \E u \in Advance(Head(stack), m), p \in Pairs(a, b) :
                 stack' = EndCombat(p) \o LoopAt(u) \o Erased(Tail(stack), a, b)
  <2> DEFINE over == IF do \in {"EndPvEBeyondRange", "RevalidatePvE"}
                     THEN pve[a] ELSE pvp[a]
  <2>1. over \ {b} \in SUBSET Units
    <3>1. a \in Units
      BY <1>1, TopFacts
    <3> QED
      BY <1>2, <3>1
  <2> HIDE DEF over
  <2>2. \/ UNCHANGED refs
        \/ /\ b # Nobody
           /\ FALSE \in Ends(do, a, b)
           /\ timer' = Ticked(do, a, b)
           /\ UNCHANGED <<pve, pvp>>
        \/ /\ b # Nobody
           /\ pve' = [pve EXCEPT ![a] = @ \ {b}]
           /\ pvp' = [pvp EXCEPT ![a] = @ \ {b}]
           /\ timer' = timer
           /\ \E u \in Advance(Head(stack), over \ {b}), p \in Pairs(a, b) :
                 stack' = EndCombat(p) \o LoopAt(u) \o Erased(Tail(stack), a, b)
    BY <1>1, Zenon DEF LoopStep, LoopAt, over
  <2> QED
    BY <2>1, <2>2
<1>6. CASE /\ b # Nobody
            /\ pve' = [pve EXCEPT ![a] = @ \ {b}]
            /\ pvp' = [pvp EXCEPT ![a] = @ \ {b}]
            /\ timer' = timer
            /\ \E m \in SUBSET Units :
                 \E u \in Advance(Head(stack), m), p \in Pairs(a, b) :
                   stack' = EndCombat(p) \o LoopAt(u) \o Erased(Tail(stack), a, b)
  <2>1. PICK m \in SUBSET Units : \E u \in Advance(Head(stack), m), p \in Pairs(a, b) :
                   stack' = EndCombat(p) \o LoopAt(u) \o Erased(Tail(stack), a, b)
    BY <1>6
  <2>2. PICK u \in Advance(Head(stack), m), p \in Pairs(a, b) :
                   stack' = EndCombat(p) \o LoopAt(u) \o Erased(Tail(stack), a, b)
    BY <2>1
  <2>3. b \in Units
    BY <1>6
  <2>4. /\ Len(stack') \in Nat \ {0}
        /\ stack'[1].do = "EndCombatFirst"
        /\ stack'[1].a = p[1] /\ stack'[1].b = p[2]
    BY <1>4, <2>2, <2>3
  <2> QED
    BY <1>1, <1>6, <2>3, <2>4
<1>7. CASE UNCHANGED refs
  BY <1>1, <1>7
<1>8. CASE /\ b # Nobody
            /\ FALSE \in Ends(do, a, b)
            /\ timer' = Ticked(do, a, b)
            /\ UNCHANGED <<pve, pvp>>
  BY <1>1, <1>8
<1> QED
  BY <1>5, <1>6, <1>7, <1>8

LEMMA LoopAgrees ==
  ASSUME TypeInv, RefInv, NEW do \in Loops, LoopStep(do)
  PROVE  RefInv'
<1>1. PICK a \in Units, b \in Units \cup {Nobody} :
        /\ stack # <<>> /\ stack[1].do = do
        /\ \/ UNCHANGED refs
           \/ /\ b \in Units
              /\ FALSE \in Ends(do, a, b)
              /\ timer' = Ticked(do, a, b)
              /\ UNCHANGED <<pve, pvp>>
           \/ /\ b \in Units
              /\ pve' = [pve EXCEPT ![a] = @ \ {b}]
              /\ pvp' = [pvp EXCEPT ![a] = @ \ {b}]
              /\ timer' = timer
              /\ \E p \in Pairs(a, b) :
                   /\ Len(stack') \in Nat \ {0}
                   /\ stack'[1].do = "EndCombatFirst"
                   /\ stack'[1].a = p[1] /\ stack'[1].b = p[2]
  BY LoopShape
<1>2. Agree
  <2>1. stack[1].do \notin Quiet \cup OfReference
    BY <1>1 DEF Loops, Quiet, OfReference
  <2> QED
    BY <1>1, <2>1, NotInMiddle DEF RefInv
<1>3. /\ pve \in [Units -> SUBSET Units]
      /\ pvp \in [Units -> SUBSET Units]
      /\ Nobody \notin Units
  BY TypesOfData, UnitsAssumption DEF TypeInv, DataOK, UnitsAssumption
<1>4. timer \in [Units \X Units -> 0 .. PvPTimeout] /\ PvPTimeout \in Nat
  BY TypesOfData, UnitsAssumption DEF TypeInv, DataOK, UnitsAssumption
<1>5. inCombat' = inCombat /\ suppressed' = suppressed
  BY DEF LoopStep, refs
<1>6. \A u \in Units : FlagIsRight(u)
  BY <1>2 DEF Agree
<1>7. CASE UNCHANGED refs
  BY <1>2, <1>5, <1>7 DEF RefInv, Agree, SidesAgree, FlagIsRight, IsFirst, HasCombat, refs
<1>8. CASE /\ b \in Units
           /\ FALSE \in Ends(do, a, b)
           /\ timer' = Ticked(do, a, b)
           /\ UNCHANGED <<pve, pvp>>
  <2>1. ASSUME NEW x \in Units, NEW y \in Units
        PROVE  /\ timer'[<<x, y>>] > 0 <=> timer[<<x, y>>] > 0
               /\ timer'[<<x, y>>] = 0 <=> timer[<<x, y>>] = 0
    <3>1. CASE do = "Update" /\ IsFirst(a, b)
      <4>1. timer[<<a, b>>] # 1 /\ timer[<<a, b>>] > 0
        BY <1>8, <3>1 DEF Ends, IsFirst
      <4>2. timer' = [timer EXCEPT ![<<a, b>>] = @ - 1]
        BY <1>8, <3>1 DEF Ticked
      <4>3. timer[<<x, y>>] \in Nat
        BY TimerIsNat
      <4>4. timer'[<<x, y>>] = IF <<x, y>> = <<a, b>> THEN timer[<<x, y>>] - 1 ELSE timer[<<x, y>>]
        BY <1>4, <1>8, <4>2
      <4>5. <<x, y>> = <<a, b>> => timer[<<x, y>>] # 1 /\ timer[<<x, y>>] > 0
        BY <4>1
      <4> QED
        BY <4>3, <4>4, <4>5
    <3>2. CASE ~(do = "Update" /\ IsFirst(a, b))
      <4>1. timer' = timer
        BY <1>8, <3>2 DEF Ticked
      <4> QED
        BY <4>1
    <3> QED
      BY <3>1, <3>2
  <2>2. \A x, y \in Units : SidesAgree(x, y)'
    BY <1>2, <1>8, <2>1, SignsKept DEF Agree
  <2>3. \A u \in Units : FlagIsRight(u)'
    BY <1>5, <1>6, <1>8 DEF FlagIsRight, HasCombat
  <2> QED
    BY <2>2, <2>3 DEF RefInv, Agree
<1>9. ASSUME b \in Units,
             pve' = [pve EXCEPT ![a] = @ \ {b}],
             pvp' = [pvp EXCEPT ![a] = @ \ {b}],
             timer' = timer,
             NEW p \in Pairs(a, b),
             Len(stack') \in Nat \ {0},
             stack'[1].do = "EndCombatFirst",
             stack'[1].a = p[1] /\ stack'[1].b = p[2]
      PROVE  RefInv'
  <2>1. p[1] \in Units /\ p[2] \in Units /\ {p[1], p[2]} = {a, b}
    BY <1>9, PairsAreUnits
  <2>2. \A x, y \in Units :
          /\ y \in pve'[x] <=> y \in pve[x] /\ ~(x = a /\ y = b)
          /\ y \in pvp'[x] <=> y \in pvp[x] /\ ~(x = a /\ y = b)
    BY <1>3, <1>9
  <2>3. ASSUME NEW x \in Units, NEW y \in Units
        PROVE  /\ y \in pve[x] => x \in pve[y] /\ ~IsPvP(x, y)
               /\ y \in pvp[x] => x \in pvp[y] /\ IsPvP(x, y)
               /\ y \in pvp[x] => (timer[<<x, y>>] > 0) # (timer[<<y, x>>] > 0)
               /\ y \notin pvp[x] => timer[<<x, y>>] = 0
    <3>1. SidesAgree(x, y)
      BY <1>2 DEF Agree
    <3> QED
      BY <3>1, SidesBefore
  <2>4. ASSUME NEW x \in Units, NEW y \in Units,
               ~(x = a /\ y = b), ~(x = b /\ y = a)
        PROVE  SidesAgree(x, y)'
    <3>1. /\ y \in pve'[x] <=> y \in pve[x]
          /\ y \in pvp'[x] <=> y \in pvp[x]
          /\ x \in pve'[y] <=> x \in pve[y]
          /\ x \in pvp'[y] <=> x \in pvp[y]
      BY <2>2, <2>4
    <3> QED
      BY <1>9, <2>3, <3>1, SidesAfter
  <2>5. \A u \in Units \ {a, b} : FlagIsRight(u)'
    <3> TAKE u \in Units \ {a, b}
    <3>1. pve'[u] = pve[u] /\ pvp'[u] = pvp[u]
      BY <1>3, <1>9
    <3> QED
      BY <1>5, <1>6, <3>1 DEF FlagIsRight, HasCombat
  <2>6. \A x, y \in Units :
           (y \in pve'[x] => ~IsPvP(x, y)) /\ (y \in pvp'[x] => IsPvP(x, y))
    BY <2>2, <2>3
  <2>7. AgreeBut(p[1], p[2])'
    <3>1. ASSUME NEW x \in Units, NEW y \in Units
          PROVE  ~(x = p[1] /\ y = p[2]) /\ ~(x = p[2] /\ y = p[1])
                 => ~(x = a /\ y = b) /\ ~(x = b /\ y = a)
      BY <1>9, <2>1
    <3> QED
      BY <2>1, <2>4, <2>5, <2>6, <3>1 DEF AgreeBut
  <2>8. 1 \in 1 .. Len(stack')
    BY <1>9
  <2> QED
    BY <1>9, <2>7, <2>8 DEF RefInv, InMiddle
<1> QED
  BY <1>1, <1>7, <1>8, <1>9

(* What every state satisfies in which the references can be looked at.    *)
CombatInv == TypeInv /\ VictimAvailable /\ WellFormed(stack) /\ RefInv

(* The steps that leave references and flags alone.                        *)
Bystander ==
  \/ EndAllPvECombat \/ EndAllPvPCombat
  \/ ClearThreatTask \/ AddThreat \/ UpdateVictim \/ ProcessAIUpdates
  \/ RemoveMeFromThreatLists \/ ClearAllThreat
  \/ React \/ EngagementOver

LEMMA BystanderFacts ==
  ASSUME TypeInv, Bystander
  PROVE  /\ UNCHANGED <<refs, inCombat>>
         /\ stack[1].do # "EndCombatPurge"
         /\ stack # <<>>
<1>1. ASSUME EndAllPvECombat \/ EndAllPvPCombat
      PROVE  UNCHANGED <<refs, inCombat>> /\ stack # <<>> /\ Head(stack).do # "EndCombatPurge"
  BY <1>1 DEF EndAllPvECombat, EndAllPvPCombat, EndAll, Top
<1>2. ASSUME \/ ClearThreatTask \/ AddThreat \/ UpdateVictim \/ ProcessAIUpdates
             \/ RemoveMeFromThreatLists \/ ClearAllThreat
      PROVE  UNCHANGED <<refs, inCombat>> /\ stack # <<>> /\ Head(stack).do # "EndCombatPurge"
  BY <1>2 DEF ClearThreatTask, AddThreat, UpdateVictim, ProcessAIUpdates,
              RemoveMeFromThreatLists, ClearAllThreat, Top
<1>3. ASSUME React \/ EngagementOver
      PROVE  UNCHANGED <<refs, inCombat>> /\ stack # <<>> /\ Head(stack).do # "EndCombatPurge"
  BY <1>3 DEF React, EngagementOver, Top, Hooks
<1> QED
  BY <1>1, <1>2, <1>3, TopFacts DEF Bystander

LEMMA CombatInvInternal ==
  ASSUME CombatInv, ReactsInEndCombat = FALSE, Internal,
         NEW new, StackStep(new)
  PROVE  WellFormed(stack)' /\ RefInv'
<1>0. TypeInv /\ WellFormed(stack) /\ RefInv
  BY DEF CombatInv
<1>1. WellFormed(stack)'
  BY <1>0, WellFormedStep
<1>2. ASSUME Agree'
      PROVE  RefInv'
  BY <1>2 DEF RefInv
<1>3. RefInv'
  <2>1. CASE SetInCombatWith
    BY <1>0, <1>2, <2>1, SetInCombatWithAgrees
  <2>2. CASE EndCombatPurge
    BY <1>0, <1>2, <2>2, EndCombatPurgeAgrees
  <2>3. CASE SuppressPvPCombat
    BY <1>0, <1>2, <2>3, SuppressPvPCombatAgrees
  <2>4. CASE \E do \in Loops : LoopStep(do)
    BY <1>0, <2>4, LoopAgrees
  <2>5. CASE Bystander
    BY <1>0, <2>5, BystanderFacts, RefInvMoves
  <2> QED
    BY <2>1, <2>2, <2>3, <2>4, <2>5 DEF Internal, Bystander
<1> QED
  BY <1>1, <1>3

LEMMA CombatInvStep ==
  ASSUME CombatInv, ReactsInEndCombat = FALSE, [Next]_vars
  PROVE  CombatInv'
<1>0. TypeInv /\ VictimAvailable /\ WellFormed(stack) /\ RefInv
  BY DEF CombatInv
<1>1. TypeInv' /\ VictimAvailable'
  BY <1>0, TypeInvStep
<1>2. WellFormed(stack)' /\ RefInv'
  <2>1. CASE Internal
    <3>1. PICK new : StackStep(new)
      BY <1>0, <2>1, InternalStack
    <3> QED
      BY <2>1, <3>1, CombatInvInternal
  <2>2. CASE External
    <3>1. stack = <<>> /\ WellFormed(stack') /\ UNCHANGED <<refs, inCombat>>
      BY <1>0, <2>2, ExternalStack, TypesOfCalls
    <3>2. Agree
      <4>1. 1 .. Len(stack) = {}
        BY <3>1
      <4> QED
        BY <1>0, <4>1 DEF RefInv
    <3>3. Agree'
      BY <3>1, <3>2 DEF Agree, SidesAgree, FlagIsRight, IsFirst, HasCombat, refs
    <3> QED
      BY <3>1, <3>3 DEF RefInv
  <2>3. CASE UNCHANGED vars
    <3>1. stack' = stack /\ UNCHANGED <<refs, inCombat>>
      BY <2>3 DEF vars
    <3>2. \A a, b : AgreeBut(a, b) => AgreeBut(a, b)'
      BY <3>1 DEF AgreeBut, SidesAgree, FlagIsRight, IsFirst, HasCombat, refs
    <3>3. Agree => Agree'
      BY <3>1 DEF Agree, SidesAgree, FlagIsRight, IsFirst, HasCombat, refs
    <3>4. RefInv'
      BY <1>0, <3>1, <3>2, <3>3 DEF RefInv, InMiddle, Begun, QuietAbove
    <3> QED
      BY <1>0, <3>1, <3>4
  <2> QED
    BY <2>1, <2>2, <2>3 DEF Next
<1> QED
  BY <1>1, <1>2 DEF CombatInv

LEMMA CombatInvInit == Init => CombatInv
<1> SUFFICES ASSUME Init
             PROVE  CombatInv
  OBVIOUS
<1>1. TypeInv /\ VictimAvailable
  BY TypeInvInit
<1>2. WellFormed(stack)
  BY DEF Init, WellFormed
<1>3. Agree
  BY DEF Init, Agree, SidesAgree, FlagIsRight, HasCombat
<1> QED
  BY <1>1, <1>2, <1>3 DEF CombatInv, RefInv

(* Where an AI is called outside EndCombat, no part of it is under way.    *)
LEMMA NobodyInMiddle ==
  ASSUME CombatInv, HandOff, ~InEndCombat, NEW i \in 1 .. Len(stack)
  PROVE  ~InMiddle(i)
<1> SUFFICES ASSUME InMiddle(i)
             PROVE  FALSE
  OBVIOUS
<1>1. TypeInv /\ WellFormed(stack)
  BY DEF CombatInv
<1>2. ~Begun(stack, i)
  BY <1>1, MiddleOfEndCombat DEF TypeInv
<1>3. stack[1].do = "EndCombatFirst"
  BY <1>2 DEF InMiddle
<1>4. stack # <<>>
  OBVIOUS
<1>5. stack[1].do \in Hooks
  BY <1>1, <1>4, TopFacts DEF HandOff
<1> QED
  BY <1>3, <1>5 DEF Hooks

LEMMA AgreeAtHandOff ==
  ASSUME CombatInv, HandOff, ~InEndCombat
  PROVE  Agree
BY NobodyInMiddle DEF CombatInv, RefInv

(* Both sides of every reference say the same, and the flag of a unit says *)
(* whether it has one that counts, whenever an AI is called outside        *)
(* EndCombat: whatever AIs do with their calls, if they do nothing while   *)
(* EndCombat is half done (CombatManager.cpp:48).                          *)
THEOREM ReferencesAlwaysAgree ==
  ReactsInEndCombat = FALSE => (Spec => []ReferencesAgree)
<1> SUFFICES ASSUME ReactsInEndCombat = FALSE
             PROVE  Spec => []ReferencesAgree
  OBVIOUS
<1>1. CombatInv => ReferencesAgree
  <2> SUFFICES ASSUME CombatInv, HandOff, ~InEndCombat
               PROVE  RefsOnBothSides /\ InCombatIffReferences
    BY DEF ReferencesAgree
  <2>1. Agree
    BY AgreeAtHandOff
  <2>2. RefsOnBothSides
    BY <2>1 DEF Agree, SidesAgree, RefsOnBothSides
  <2>3. InCombatIffReferences
    BY <2>1 DEF Agree, FlagIsRight, InCombatIffReferences
  <2> QED
    BY <2>2, <2>3
<1>2. CombatInv /\ [Next]_vars => CombatInv'
  BY CombatInvStep
<1> QED
  BY <1>1, <1>2, CombatInvInit, PTL DEF Spec

-----------------------------------------------------------------------------
(* Threat *)

Fought(a, b) == b \in pve[a] \cup pvp[a]

(* A unit is only threatened by those it fights, or is about to have       *)
(* fought.                                                                 *)
ThreatIsFought ==
  \A a, b \in Units : b \in threat[a] =>
    \/ Fought(a, b)
    \/ \E i \in 1 .. Len(stack) : InMiddle(i) /\ {a, b} = {stack[i].a, stack[i].b}

(* Once a part of EndCombat has run, what it clears is gone.               *)
ClearedInOrder ==
  \A i \in 1 .. Len(stack) : Begun(stack, i) =>
    /\ stack[i].b \notin threat[stack[i].a]
    /\ stack[i].do = "EndCombatPurge" => stack[i].a \notin threat[stack[i].b]

(* Threat that is to be added without another look at the references comes *)
(* before anything that could end them.                                    *)
AddedInTime ==
  \A i \in 1 .. Len(stack) : stack[i].do = "AddThreatUnchecked" =>
    /\ Fought(stack[i].a, stack[i].b)
    /\ \A j \in 1 .. i - 1 : stack[j].do \in Harmless

(* A part of EndCombat that has begun was in its middle before the step.   *)
LEMMA MiddleCameFrom ==
  ASSUME TypeInv, WellFormed(stack),
         NEW new, StackStep(new),
         NEW k \in 1 .. Len(stack'), Begun(stack, k)'
  PROVE  \E i \in 1 .. Len(stack) :
            /\ InMiddle(i)
            /\ stack'[k].a = stack[i].a /\ stack'[k].b = stack[i].b
            /\ stack'[k].do = "EndCombatSecond" =>
                 \/ stack[i].do = "EndCombatFirst" /\ i = 1
                 \/ stack[i].do = "EndCombatSecond" /\ i # 1
            /\ stack'[k].do = "EndCombatPurge" =>
                 \/ stack[i].do = "EndCombatSecond" /\ i = 1
                 \/ stack[i].do = "EndCombatPurge" /\ i # 1
<1> DEFINE n == Len(new)
<1>1. /\ n \in Nat /\ Len(stack) \in Nat \ {0}
      /\ Len(stack') = n + Len(stack) - 1
      /\ \A j \in 1 .. n : stack'[j] = new[j]
      /\ \A j \in 2 .. Len(stack) : SameCall(stack'[n + j - 1], stack[j])
  BY TailFacts DEF StackStep, Onto, TypeInv
<1>2. /\ stack'[k].do \in {"EndCombatSecond", "EndCombatPurge"}
      /\ \A m \in 1 .. k - 1 : stack'[m].do \in Quiet
  BY DEF Begun, QuietAbove
<1>3. k > n
  <2> SUFFICES ASSUME k <= n
               PROVE  FALSE
    BY <1>1
  <2>1. k \in 1 .. n /\ \A m \in 1 .. k - 1 : m \in 1 .. n
    BY <1>1
  <2>2. Begun(new, k)
    BY <1>1, <1>2, <2>1 DEF Begun, QuietAbove
  <2>3. new[k].do \notin Quiet
    BY <2>2 DEF Begun, Quiet
  <2> QED
    BY <2>1, <2>2, <2>3 DEF StackStep, AllQuiet, NothingBegun
<1> DEFINE j == k - n + 1
<1>4. j \in 2 .. Len(stack) /\ n + j - 1 = k
  BY <1>1, <1>3
<1>5. stack'[k].do = stack[j].do /\ stack'[k].a = stack[j].a /\ stack'[k].b = stack[j].b
  <2>1. SameCall(stack'[n + j - 1], stack[j])
    BY <1>1, <1>4
  <2> QED
    BY <1>4, <2>1 DEF SameCall
<1>6. ASSUME NEW m \in 2 .. j - 1
      PROVE  stack[m].do \in Quiet
  <2>1. m \in 2 .. Len(stack) /\ n + m - 1 \in 1 .. k - 1
    BY <1>1, <1>4
  <2>2. SameCall(stack'[n + m - 1], stack[m])
    BY <1>1, <2>1
  <2> QED
    BY <1>2, <2>1, <2>2 DEF SameCall
<1> HIDE DEF j
<1>7. CASE Begun(stack, j)
  BY <1>4, <1>5, <1>7 DEF InMiddle
<1>8. ASSUME NEW before \in {"EndCombatFirst", "EndCombatSecond"},
             Follows(stack, j, before)
      PROVE  j = 2 /\ stack[1].do = before
  <2>1. CASE j > 2
    <3>1. j - 1 \in 2 .. j - 1
      BY <1>4, <2>1
    <3> QED
      BY <1>6, <1>8, <3>1 DEF Follows, Quiet
  <2>2. CASE j = 2
    BY <1>8, <2>2 DEF Follows
  <2> QED
    BY <1>4, <2>1, <2>2
<1>9. CASE stack[j].do = "EndCombatSecond" /\ Follows(stack, j, "EndCombatFirst")
  <2>1. j = 2 /\ stack[1].do = "EndCombatFirst"
    BY <1>8, <1>9
  <2>2. 1 \in 1 .. Len(stack) /\ Goes(stack, 1, "EndCombatSecond")
    BY <1>1, <2>1 DEF WellFormed
  <2>3. stack[2].a = stack[1].a /\ stack[2].b = stack[1].b
    BY <2>2 DEF Goes
  <2> QED
    BY <1>5, <1>9, <2>1, <2>2, <2>3 DEF InMiddle
<1>10. CASE stack[j].do = "EndCombatPurge" /\ Follows(stack, j, "EndCombatSecond")
  <2>1. j = 2 /\ stack[1].do = "EndCombatSecond"
    BY <1>8, <1>10
  <2>2. 1 \in 1 .. Len(stack) /\ Goes(stack, 1, "EndCombatPurge")
    BY <1>1, <2>1 DEF WellFormed
  <2>3. stack[2].a = stack[1].a /\ stack[2].b = stack[1].b
    BY <2>2 DEF Goes
  <2>4. Begun(stack, 1)
    BY <2>1 DEF Begun, QuietAbove
  <2> QED
    BY <1>5, <1>10, <2>1, <2>2, <2>3, <2>4 DEF InMiddle
<1> QED
  BY <1>1, <1>2, <1>4, <1>5, <1>7, <1>9, <1>10 DEF WellFormed

(* What a step does with the threat lists.                                 *)
LEMMA ThreatMoves ==
  ASSUME TypeInv, Internal, NEW x \in Units, NEW y \in Units
  PROVE  /\ y \in threat'[x] =>
              \/ y \in threat[x]
              \/ /\ x = stack[1].a /\ y = stack[1].b
                 /\ \/ stack[1].do = "AddThreat" /\ Fought(x, y)
                    \/ stack[1].do = "AddThreatUnchecked"
         /\ stack[1].do = "EndCombatFirst" /\ x = stack[1].a /\ y = stack[1].b
              => y \notin threat'[x]
         /\ stack[1].do = "EndCombatSecond" /\ x = stack[1].b /\ y = stack[1].a
              => y \notin threat'[x]
<1>0. threat \in [Units -> SUBSET Units]
  BY TypesOfData DEF TypeInv, DataOK
<1>1. stack # <<>>
  <2>1. \E new : StackStep(new)
    BY InternalStack
  <2> QED
    BY <2>1 DEF StackStep
<1>2. PICK t \in GoodTasks : t = Head(stack) /\ t = stack[1]
  BY <1>1, TopFacts
<1>3. t.do \in OfTwo => t.a \in Units /\ t.b \in Units
  BY DEF GoodTasks, Tasks
<1>4. CASE /\ UNCHANGED threat
           /\ t.do \notin {"EndCombatFirst", "EndCombatSecond"}
  BY <1>2, <1>4
<1>5. CASE ClearThreatTask
  <2>1. \/ t.do \in {"EndCombatFirst", "ClearThreat"} /\ ClearThreat(t.a, t.b)
        \/ t.do = "EndCombatSecond" /\ ClearThreat(t.b, t.a)
    BY <1>2, <1>5 DEF ClearThreatTask, Top
  <2>2. ASSUME NEW a \in Units, NEW b \in Units, ClearThreat(a, b)
        PROVE  /\ threat'[x] \subseteq threat[x]
               /\ x = a /\ y = b => y \notin threat'[x]
    <3>1. CASE b \notin threat[a]
      BY <2>2, <3>1 DEF ClearThreat, lists
    <3>2. CASE b \in threat[a]
      <4>1. threat' = [threat EXCEPT ![a] = @ \ {b}]
        BY <2>2, <3>2 DEF ClearThreat
      <4> QED
        BY <1>0, <4>1
    <3> QED
      BY <3>1, <3>2
  <2>3. t.a \in Units /\ t.b \in Units
    BY <1>3, <2>1 DEF OfTwo, OfReference
  <2> QED
    BY <1>2, <2>1, <2>2, <2>3
<1>6. CASE AddThreat
  <2>1. /\ t.do \in {"AddThreat", "AddThreatUnchecked"}
        /\ t.a \in Units /\ t.b \in Units
    BY <1>2, <1>3, <1>6 DEF AddThreat, Top, OfTwo
  <2>2. \/ UNCHANGED threat
        \/ /\ threat' = [threat EXCEPT ![t.a] = @ \cup {t.b}]
           /\ t.do = "AddThreat" => IsInCombatWith(t.a, t.b)
    BY <1>2, <1>6 DEF AddThreat, Top, lists
  <2> QED
    BY <1>0, <1>2, <2>1, <2>2 DEF IsInCombatWith, Fought
<1>7. CASE ClearAllThreat
  <2>1. t.do = "ClearAllThreat" /\ threat' = [threat EXCEPT ![t.a] = {}]
    BY <1>2, <1>7 DEF ClearAllThreat, Top
  <2> QED
    BY <1>0, <1>2, <2>1
<1>8. ASSUME \/ SetInCombatWith \/ EndCombatPurge \/ SuppressPvPCombat
             \/ EndAllPvECombat \/ EndAllPvPCombat
             \/ \E do \in Loops : LoopStep(do)
      PROVE  /\ UNCHANGED threat
             /\ t.do \notin {"EndCombatFirst", "EndCombatSecond"}
  BY <1>2, <1>8 DEF SetInCombatWith, EndCombatPurge, SuppressPvPCombat,
       EndAllPvECombat, EndAllPvPCombat, EndAll, LoopStep, Top, lists, Loops
<1>9. ASSUME UpdateVictim \/ ProcessAIUpdates \/ RemoveMeFromThreatLists
      PROVE  /\ UNCHANGED threat
             /\ t.do \notin {"EndCombatFirst", "EndCombatSecond"}
  BY <1>2, <1>9 DEF UpdateVictim, ProcessAIUpdates, RemoveMeFromThreatLists, Top, lists
<1>10. ASSUME React \/ EngagementOver
       PROVE  /\ UNCHANGED threat
              /\ t.do \notin {"EndCombatFirst", "EndCombatSecond"}
  BY <1>2, <1>10 DEF React, EngagementOver, Top, lists, Hooks
<1> QED
  BY <1>4, <1>5, <1>6, <1>7, <1>8, <1>9, <1>10 DEF Internal

(* References end where EndCombat purges them, and where a loop has taken  *)
(* them out before it calls EndCombat.                                     *)
LEMMA FoughtMoves ==
  ASSUME TypeInv, Internal, NEW x \in Units, NEW y \in Units, Fought(x, y)
  PROVE  \/ Fought(x, y)'
         \/ stack[1].do = "EndCombatPurge" /\ {x, y} = {stack[1].a, stack[1].b}
         \/ /\ stack[1].do \in Loops
            /\ \E i \in 1 .. Len(stack') :
                 InMiddle(i)' /\ {x, y} = {stack'[i].a, stack'[i].b}
<1>1. pve \in [Units -> SUBSET Units] /\ pvp \in [Units -> SUBSET Units]
  BY TypesOfData DEF TypeInv, DataOK
<1>2. CASE UNCHANGED <<pve, pvp>>
  BY <1>2 DEF Fought
<1>3. CASE SetInCombatWith
  <2>1. PICK do \in {"SetInCombatWith", "EngageWithTarget"} : Top(do)
    BY <1>3 DEF SetInCombatWith
  <2>2. PICK a \in Units, b \in Units : Head(stack).a = a /\ Head(stack).b = b
    BY <2>1, TopFacts DEF Top, OfTwo
  <2>3. /\ pve' = pve \/ pve' = Put(pve, a, b)
        /\ pvp' = pvp \/ pvp' = Put(pvp, a, b)
    BY <1>3, <2>2 DEF SetInCombatWith, refs
  <2>4. pve[x] \subseteq Put(pve, a, b)[x] /\ pvp[x] \subseteq Put(pvp, a, b)[x]
    <3>1. Put(pve, a, b)[x] =
            pve[x] \cup (IF x = a THEN {b} ELSE {}) \cup (IF x = b THEN {a} ELSE {})
      BY <1>1, PutFacts
    <3>2. Put(pvp, a, b)[x] =
            pvp[x] \cup (IF x = a THEN {b} ELSE {}) \cup (IF x = b THEN {a} ELSE {})
      BY <1>1, PutFacts
    <3> QED
      BY <3>1, <3>2
  <2> QED
    BY <2>3, <2>4 DEF Fought
<1>4. CASE EndCombatPurge
  <2>1. PICK a \in Units, b \in Units :
          /\ Head(stack).a = a /\ Head(stack).b = b
          /\ stack[1].do = "EndCombatPurge"
          /\ stack[1].a = a /\ stack[1].b = b
    BY <1>4, TopFacts DEF EndCombatPurge, Top, OfTwo, OfReference
  <2>2. /\ pve' = pve \/ pve' = Purge(pve, a, b)
        /\ pvp' = pvp \/ pvp' = Purge(pvp, a, b)
    BY <1>4, <2>1 DEF EndCombatPurge
  <2>3. /\ Purge(pve, a, b)[x] =
            (pve[x] \ (IF x = a THEN {b} ELSE {})) \ (IF x = b THEN {a} ELSE {})
        /\ Purge(pvp, a, b)[x] =
            (pvp[x] \ (IF x = a THEN {b} ELSE {})) \ (IF x = b THEN {a} ELSE {})
    <3>1. Purge(pve, a, b)[x] =
            (pve[x] \ (IF x = a THEN {b} ELSE {})) \ (IF x = b THEN {a} ELSE {})
      BY <1>1, PurgeFacts
    <3>2. Purge(pvp, a, b)[x] =
            (pvp[x] \ (IF x = a THEN {b} ELSE {})) \ (IF x = b THEN {a} ELSE {})
      BY <1>1, PurgeFacts
    <3> QED
      BY <3>1, <3>2
  <2>4. CASE {x, y} = {a, b}
    BY <2>1, <2>4
  <2>5. CASE {x, y} # {a, b}
    <3>1. ~(x = a /\ y = b) /\ ~(x = b /\ y = a)
      BY <2>5
    <3>2. /\ y \in pve[x] => y \in Purge(pve, a, b)[x]
          /\ y \in pvp[x] => y \in Purge(pvp, a, b)[x]
      BY <2>3, <3>1
    <3> QED
      BY <2>2, <3>2 DEF Fought
  <2> QED
    BY <2>4, <2>5
<1>5. CASE SuppressPvPCombat
  BY <1>2, <1>5 DEF SuppressPvPCombat
<1>6. ASSUME NEW do \in Loops, LoopStep(do)
      PROVE  \/ Fought(x, y)'
             \/ /\ stack[1].do \in Loops
                /\ \E i \in 1 .. Len(stack') :
                     InMiddle(i)' /\ {x, y} = {stack'[i].a, stack'[i].b}
  <2>1. PICK a \in Units, b \in Units \cup {Nobody} :
          /\ stack[1].do = do
          /\ \/ UNCHANGED <<pve, pvp>>
             \/ /\ b \in Units
                /\ pve' = [pve EXCEPT ![a] = @ \ {b}]
                /\ pvp' = [pvp EXCEPT ![a] = @ \ {b}]
                /\ \E p \in Pairs(a, b) :
                     /\ Len(stack') \in Nat \ {0}
                     /\ stack'[1].do = "EndCombatFirst"
                     /\ stack'[1].a = p[1] /\ stack'[1].b = p[2]
    BY <1>6, LoopShape, ZenonT(60) DEF refs
  <2>2. CASE UNCHANGED <<pve, pvp>>
    BY <2>2 DEF Fought
  <2>3. CASE ~(x = a /\ y = b) /\ ~UNCHANGED <<pve, pvp>>
    BY <1>1, <2>1, <2>3 DEF Fought
  <2>4. CASE x = a /\ y = b /\ ~UNCHANGED <<pve, pvp>>
    <3>1. PICK p \in Pairs(a, b) :
             /\ Len(stack') \in Nat \ {0}
             /\ stack'[1].do = "EndCombatFirst"
             /\ stack'[1].a = p[1] /\ stack'[1].b = p[2]
      BY <2>1, <2>4
    <3>2. {p[1], p[2]} = {a, b}
      BY <2>1, <2>4, PairsAreUnits
    <3>3. 1 \in 1 .. Len(stack') /\ InMiddle(1)'
      BY <3>1 DEF InMiddle
    <3>4. {x, y} = {stack'[1].a, stack'[1].b}
      BY <2>4, <3>1, <3>2
    <3> QED
      BY <1>6, <2>1, <3>3, <3>4
  <2> QED
    BY <2>2, <2>3, <2>4
<1>7. CASE Bystander
  BY <1>2, <1>7, BystanderFacts DEF refs
<1> QED
  BY <1>3, <1>4, <1>5, <1>6, <1>7 DEF Internal, Bystander

ThreatInv == ThreatIsFought /\ ClearedInOrder /\ AddedInTime

LEMMA ThreatIsFoughtStep ==
  ASSUME CombatInv, ThreatInv, ReactsInEndCombat = FALSE, Internal,
         NEW new, StackStep(new)
  PROVE  ThreatIsFought'
<1>1. TypeInv /\ WellFormed(stack)
  BY DEF CombatInv
<1>2. stack # <<>> /\ Len(stack) \in Nat \ {0}
  BY <1>1, TailFacts DEF StackStep, TypeInv
<1> SUFFICES ASSUME NEW a \in Units, NEW b \in Units, b \in threat'[a]
             PROVE  \/ Fought(a, b)'
                    \/ \E i \in 1 .. Len(stack') :
                         InMiddle(i)' /\ {a, b} = {stack'[i].a, stack'[i].b}
  BY DEF ThreatIsFought
<1>3. ASSUME Fought(a, b),
             stack[1].do = "EndCombatPurge" => {a, b} # {stack[1].a, stack[1].b}
      PROVE  \/ Fought(a, b)'
             \/ \E i \in 1 .. Len(stack') :
                  InMiddle(i)' /\ {a, b} = {stack'[i].a, stack'[i].b}
  BY <1>1, <1>3, FoughtMoves
<1>4. CASE b \in threat[a]
  <2>1. CASE Fought(a, b)
    <3>1. ASSUME stack[1].do = "EndCombatPurge"
          PROVE  {a, b} # {stack[1].a, stack[1].b}
      <4>1. Begun(stack, 1) /\ 1 \in 1 .. Len(stack)
        BY <1>2, <3>1 DEF Begun, QuietAbove
      <4>2. stack[1].b \notin threat[stack[1].a] /\ stack[1].a \notin threat[stack[1].b]
        BY <3>1, <4>1 DEF ThreatInv, ClearedInOrder
      <4> QED
        BY <1>4, <4>2
    <3> QED
      BY <1>3, <2>1, <3>1
  <2>2. ASSUME NEW i \in 1 .. Len(stack), InMiddle(i), {a, b} = {stack[i].a, stack[i].b}
        PROVE  \E k \in 1 .. Len(stack') :
                  InMiddle(k)' /\ {a, b} = {stack'[k].a, stack'[k].b}
    <3>1. stack[1].do # "EndCombatPurge"
      <4> SUFFICES ASSUME stack[1].do = "EndCombatPurge"
                   PROVE  FALSE
        OBVIOUS
      <4>1. i = 1
        BY <1>1, <1>2, <2>2, MiddleAtTop DEF OfReference
      <4>2. Begun(stack, 1)
        BY <2>2, <4>1 DEF InMiddle
      <4>3. stack[1].b \notin threat[stack[1].a] /\ stack[1].a \notin threat[stack[1].b]
        BY <1>2, <4>2 DEF ThreatInv, ClearedInOrder
      <4> QED
        BY <1>4, <2>2, <4>1, <4>3
    <3>2. PICK k \in 1 .. Len(stack') :
            /\ Begun(stack, k)'
            /\ stack'[k].a = stack[i].a /\ stack'[k].b = stack[i].b
      BY <1>1, <2>2, <3>1, MiddleMoves
    <3>3. InMiddle(k)' /\ {a, b} = {stack'[k].a, stack'[k].b}
      BY <2>2, <3>2 DEF InMiddle
    <3> QED
      BY <3>3
  <2> QED
    BY <1>4, <2>1, <2>2 DEF ThreatInv, ThreatIsFought
<1>5. CASE b \notin threat[a]
  <2>1. /\ a = stack[1].a /\ b = stack[1].b
        /\ \/ stack[1].do = "AddThreat" /\ Fought(a, b)
           \/ stack[1].do = "AddThreatUnchecked"
    BY <1>1, <1>5, ThreatMoves
  <2>2. Fought(a, b)
    BY <1>2, <2>1 DEF ThreatInv, AddedInTime
  <2> QED
    BY <1>3, <2>1, <2>2
<1> QED
  BY <1>4, <1>5

LEMMA ClearedInOrderStep ==
  ASSUME CombatInv, ThreatInv, Internal, NEW new, StackStep(new)
  PROVE  ClearedInOrder'
<1>1. TypeInv /\ WellFormed(stack)
  BY DEF CombatInv
<1>2. stack \in Seq(GoodTasks) /\ stack # <<>>
  BY <1>1 DEF TypeInv, StackStep
<1> SUFFICES ASSUME NEW k \in 1 .. Len(stack'), Begun(stack, k)'
             PROVE  /\ stack'[k].b \notin threat'[stack'[k].a]
                    /\ stack'[k].do = "EndCombatPurge" =>
                         stack'[k].a \notin threat'[stack'[k].b]
  BY DEF ClearedInOrder
<1>3. PICK i \in 1 .. Len(stack) :
        /\ InMiddle(i)
        /\ stack'[k].a = stack[i].a /\ stack'[k].b = stack[i].b
        /\ stack'[k].do = "EndCombatSecond" =>
             \/ stack[i].do = "EndCombatFirst" /\ i = 1
             \/ stack[i].do = "EndCombatSecond" /\ i # 1
        /\ stack'[k].do = "EndCombatPurge" =>
             \/ stack[i].do = "EndCombatSecond" /\ i = 1
             \/ stack[i].do = "EndCombatPurge" /\ i # 1
  BY <1>1, MiddleCameFrom
<1>4. stack'[k].do \in {"EndCombatSecond", "EndCombatPurge"}
  BY DEF Begun
<1>5. stack[i].do \in OfReference /\ stack[i].a \in Units /\ stack[i].b \in Units
  <2>1. stack[i].do \in OfReference
    BY <1>3, <1>4 DEF OfReference
  <2>2. stack[i] \in GoodTasks
    BY <1>2, ElementOfSeq
  <2> QED
    BY <2>1, <2>2 DEF GoodTasks, Tasks, OfTwo
<1>6. stack[1].do \notin {"AddThreat", "AddThreatUnchecked"}
  BY <1>1, <1>2, <1>3, NotInMiddle DEF Quiet, OfReference
<1>7. \A x, y \in Units : y \in threat'[x] => y \in threat[x]
  BY <1>1, <1>6, ThreatMoves
<1>8. CASE stack'[k].do = "EndCombatSecond" /\ stack[i].do = "EndCombatFirst" /\ i = 1
  <2>1. stack[1].b \notin threat'[stack[1].a]
    BY <1>1, <1>5, <1>8, ThreatMoves
  <2> QED
    BY <1>3, <1>8, <2>1
<1>9. CASE stack'[k].do = "EndCombatPurge" /\ stack[i].do = "EndCombatSecond" /\ i = 1
  <2>1. stack[1].a \notin threat'[stack[1].b]
    BY <1>1, <1>5, <1>9, ThreatMoves
  <2>2. Begun(stack, i)
    BY <1>3, <1>9 DEF InMiddle
  <2>3. stack[i].b \notin threat[stack[i].a]
    BY <2>2 DEF ThreatInv, ClearedInOrder
  <2> QED
    BY <1>3, <1>5, <1>7, <1>9, <2>1, <2>3
<1>10. CASE i # 1 /\ stack[i].do = stack'[k].do
  <2>1. Begun(stack, i)
    BY <1>3, <1>10 DEF InMiddle
  <2>2. /\ stack[i].b \notin threat[stack[i].a]
        /\ stack[i].do = "EndCombatPurge" => stack[i].a \notin threat[stack[i].b]
    BY <2>1 DEF ThreatInv, ClearedInOrder
  <2> QED
    BY <1>3, <1>5, <1>7, <1>10, <2>2
<1> QED
  BY <1>3, <1>4, <1>8, <1>9, <1>10

LEMMA AddedInTimeStep ==
  ASSUME CombatInv, ThreatInv, EvadesLate, Internal,
         NEW new, StackStep(new)
  PROVE  AddedInTime'
<1> DEFINE n == Len(new)
<1>1. TypeInv /\ WellFormed(stack)
  BY DEF CombatInv
<1>2. /\ n \in Nat /\ Len(stack) \in Nat \ {0}
      /\ stack \in Seq(GoodTasks) /\ stack' \in Seq(GoodTasks)
      /\ Len(stack') = n + Len(stack) - 1
      /\ \A j \in 1 .. n : stack'[j] = new[j]
      /\ \A j \in 2 .. Len(stack) : SameCall(stack'[n + j - 1], stack[j])
  BY <1>1, TailFacts DEF StackStep, Onto, TypeInv
<1>3. ASSUME NEW x \in Units, NEW y \in Units, Fought(x, y), stack[1].do \in Harmless
      PROVE  Fought(x, y)'
  <2>1. stack[1].do # "EndCombatPurge" /\ stack[1].do \notin Loops
    BY <1>3 DEF Harmless, Loops
  <2> QED
    BY <1>1, <1>3, <2>1, FoughtMoves
<1>4. ASSUME stack[1].do \in Harmless
      PROVE  \A j \in 1 .. n : new[j].do \in Harmless
  BY <1>4 DEF StackStep
<1> SUFFICES ASSUME NEW k \in 1 .. Len(stack'), stack'[k].do = "AddThreatUnchecked"
             PROVE  /\ Fought(stack[k].a, stack[k].b)'
                    /\ \A j \in 1 .. k - 1 : stack'[j].do \in Harmless
  BY DEF AddedInTime
<1>5. stack'[k].a \in Units /\ stack'[k].b \in Units
  <2>1. stack'[k] \in GoodTasks
    BY <1>2, ElementOfSeq
  <2> QED
    BY <2>1 DEF GoodTasks, Tasks, OfTwo
<1>6. CASE k <= n
  <2>1. k \in 1 .. n /\ \A j \in 1 .. k - 1 : j \in 1 .. n
    BY <1>2, <1>6
  <2>2. stack[1].do = "EngageWithTarget" /\ IsInCombatWith(new[k].a, new[k].b)
    BY <1>2, <2>1 DEF StackStep
  <2>3. stack[1].do \in Harmless /\ Fought(stack'[k].a, stack'[k].b)
    BY <1>2, <2>1, <2>2 DEF Harmless, IsInCombatWith, Fought
  <2>4. Fought(stack[k].a, stack[k].b)'
    <3>1. PICK v \in Units, w \in Units : v = stack'[k].a /\ w = stack'[k].b
      BY <1>5
    <3>2. Fought(v, w)'
      BY <1>3, <2>3, <3>1
    <3> QED
      BY <3>1, <3>2 DEF Fought
  <2> QED
    BY <1>2, <1>4, <2>1, <2>3, <2>4
<1>7. CASE k > n
  <2> DEFINE j == k - n + 1
  <2>1. j \in 2 .. Len(stack) /\ n + j - 1 = k
    BY <1>2, <1>7
  <2>2. /\ stack'[k].do = stack[j].do
        /\ stack'[k].a = stack[j].a /\ stack'[k].b = stack[j].b
    <3>1. SameCall(stack'[n + j - 1], stack[j])
      BY <1>2, <2>1
    <3> QED
      BY <2>1, <3>1 DEF SameCall
  <2>3. /\ Fought(stack[j].a, stack[j].b)
        /\ \A m \in 1 .. j - 1 : stack[m].do \in Harmless
    BY <1>2, <2>1, <2>2 DEF ThreatInv, AddedInTime
  <2>4. stack[1].do \in Harmless
    BY <2>1, <2>3
  <2>5. ASSUME NEW m \in 1 .. k - 1
        PROVE  stack'[m].do \in Harmless
    <3>1. CASE m <= n
      <4>1. m \in 1 .. n
        BY <1>2, <3>1
      <4> QED
        BY <1>2, <1>4, <2>4, <4>1
    <3>2. CASE m > n
      <4>1. /\ m - n + 1 \in 1 .. j - 1 /\ m - n + 1 \in 2 .. Len(stack)
            /\ n + (m - n + 1) - 1 = m
        BY <1>2, <2>1, <3>2
      <4>2. SameCall(stack'[n + (m - n + 1) - 1], stack[m - n + 1])
        BY <1>2, <4>1
      <4> QED
        BY <2>3, <4>1, <4>2 DEF SameCall
    <3> QED
      BY <1>2, <3>1, <3>2
  <2> HIDE DEF j
  <2>6. Fought(stack[k].a, stack[k].b)'
    <3>1. PICK v \in Units, w \in Units : v = stack'[k].a /\ w = stack'[k].b
      BY <1>5
    <3>2. Fought(v, w)'
      BY <1>3, <2>2, <2>3, <2>4, <3>1
    <3> QED
      BY <3>1, <3>2 DEF Fought
  <2> QED
    BY <2>5, <2>6
<1> QED
  BY <1>2, <1>6, <1>7

LEMMA ThreatInvStep ==
  ASSUME CombatInv, ThreatInv, ReactsInEndCombat = FALSE, EvadesLate,
         [Next]_vars
  PROVE  ThreatInv'
<1>1. TypeInv
  BY DEF CombatInv
<1>2. CASE Internal
  <2>1. PICK new : StackStep(new)
    BY <1>1, <1>2, InternalStack
  <2> QED
    BY <1>2, <2>1, ThreatIsFoughtStep, ClearedInOrderStep, AddedInTimeStep DEF ThreatInv
<1>3. CASE External
  <2>1. /\ stack = <<>> /\ NothingBegun(stack')
        /\ \A i \in 1 .. Len(stack') : stack'[i].do # "AddThreatUnchecked"
        /\ UNCHANGED <<refs, lists>>
    BY <1>1, <1>3, ExternalStack, TypesOfCalls
  <2>2. 1 .. Len(stack) = {}
    BY <2>1
  <2>3. ThreatIsFought'
    BY <2>1, <2>2 DEF ThreatInv, ThreatIsFought, Fought, refs, lists
  <2>4. ClearedInOrder'
    BY <2>1 DEF ClearedInOrder, NothingBegun, Begun, QuietAbove
  <2>5. AddedInTime'
    BY <2>1 DEF AddedInTime
  <2> QED
    BY <2>3, <2>4, <2>5 DEF ThreatInv
<1>4. CASE UNCHANGED vars
  BY <1>4 DEF vars, refs, lists, ThreatInv, ThreatIsFought, ClearedInOrder,
              AddedInTime, Fought, InMiddle, Begun, QuietAbove
<1> QED
  BY <1>2, <1>3, <1>4 DEF Next

LEMMA ThreatInvInit == Init => ThreatInv
BY DEF Init, ThreatInv, ThreatIsFought, ClearedInOrder, AddedInTime

(* No unit is on the list of another it is not in combat with, whenever an *)
(* AI is called outside EndCombat: if AIs do nothing while EndCombat is    *)
(* half done, and evade only when combat is over.                          *)
THEOREM ThreatNeedsCombat ==
  ReactsInEndCombat = FALSE /\ EvadesLate => (Spec => []ThreatImpliesCombat)
<1> SUFFICES ASSUME ReactsInEndCombat = FALSE, EvadesLate
             PROVE  Spec => []ThreatImpliesCombat
  OBVIOUS
<1>1. CombatInv /\ ThreatInv => ThreatImpliesCombat
  <2> SUFFICES ASSUME CombatInv, ThreatInv, HandOff, ~InEndCombat,
                      NEW a \in Units, NEW b \in threat[a]
               PROVE  b \in pve[a] \cup pvp[a]
    BY DEF ThreatImpliesCombat
  <2>1. b \in Units
    <3>1. threat \in [Units -> SUBSET Units]
      BY TypesOfData DEF CombatInv, TypeInv, DataOK
    <3> QED
      BY <3>1
  <2>2. ASSUME NEW i \in 1 .. Len(stack)
        PROVE  ~InMiddle(i)
    BY NobodyInMiddle
  <2> QED
    BY <2>1, <2>2 DEF ThreatInv, ThreatIsFought, Fought
<1>2. (CombatInv /\ ThreatInv) /\ [Next]_vars => (CombatInv /\ ThreatInv)'
  BY CombatInvStep, ThreatInvStep
<1>3. Init => CombatInv /\ ThreatInv
  BY CombatInvInit, ThreatInvInit
<1> QED
  BY <1>1, <1>2, <1>3, PTL DEF Spec

-----------------------------------------------------------------------------
(* Units that have left the world *)

StillEnds(do, a) ==
  \E i \in 1 .. Len(stack) : stack[i].do = do /\ stack[i].a = a

(* A unit that left has no references, or the call that ends them is still *)
(* to come.                                                                *)
GoneInv ==
  \A a \in Units \ present :
    /\ pve[a] = {} \/ StillEnds("EndAllPvECombat", a)
    /\ pvp[a] = {} \/ StillEnds("EndAllPvPCombat", a)

(* Nobody can begin combat with what is not in the world.                  *)
LEMMA GoneGetNothing ==
  ASSUME TypeInv, Internal, NEW a \in Units \ present
  PROVE  pve'[a] \subseteq pve[a] /\ pvp'[a] \subseteq pvp[a]
<1>1. pve \in [Units -> SUBSET Units] /\ pvp \in [Units -> SUBSET Units]
  BY TypesOfData DEF TypeInv, DataOK
<1>2. CASE UNCHANGED <<pve, pvp>>
  BY <1>2
<1>3. CASE SetInCombatWith
  <2>1. PICK do \in {"SetInCombatWith", "EngageWithTarget"} : Top(do)
    BY <1>3 DEF SetInCombatWith
  <2>2. PICK x \in Units, y \in Units : Head(stack).a = x /\ Head(stack).b = y
    BY <2>1, TopFacts DEF Top, OfTwo
  <2>3. \/ UNCHANGED <<pve, pvp>>
        \/ /\ CanBeginCombat(x, y)
           /\ pve' = pve \/ pve' = Put(pve, x, y)
           /\ pvp' = pvp \/ pvp' = Put(pvp, x, y)
    BY <1>3, <2>2 DEF SetInCombatWith, refs
  <2>4. CASE /\ CanBeginCombat(x, y)
             /\ pve' = pve \/ pve' = Put(pve, x, y)
             /\ pvp' = pvp \/ pvp' = Put(pvp, x, y)
    <3>1. a \in Units /\ a # x /\ a # y
      BY <2>4 DEF CanBeginCombat
    <3>2. Put(pve, x, y)[a] = pve[a] /\ Put(pvp, x, y)[a] = pvp[a]
      BY <1>1, <3>1, Elsewhere
    <3> QED
      BY <2>4, <3>2
  <2> QED
    BY <1>2, <2>3, <2>4
<1>4. CASE EndCombatPurge
  <2>1. PICK x \in Units, y \in Units : Head(stack).a = x /\ Head(stack).b = y
    BY <1>4, TopFacts DEF EndCombatPurge, Top, OfTwo, OfReference
  <2>2. /\ pve' = pve \/ pve' = Purge(pve, x, y)
        /\ pvp' = pvp \/ pvp' = Purge(pvp, x, y)
    BY <1>4, <2>1 DEF EndCombatPurge
  <2>3. Purge(pve, x, y)[a] =
          (pve[a] \ (IF a = x THEN {y} ELSE {})) \ (IF a = y THEN {x} ELSE {})
    BY <1>1, PurgeFacts
  <2>4. Purge(pvp, x, y)[a] =
          (pvp[a] \ (IF a = x THEN {y} ELSE {})) \ (IF a = y THEN {x} ELSE {})
    BY <1>1, PurgeFacts
  <2>5. Purge(pve, x, y)[a] \subseteq pve[a] /\ Purge(pvp, x, y)[a] \subseteq pvp[a]
    BY <2>3, <2>4
  <2> QED
    BY <2>2, <2>5
<1>5. CASE SuppressPvPCombat
  BY <1>2, <1>5 DEF SuppressPvPCombat
<1>6. ASSUME NEW do \in Loops, LoopStep(do)
      PROVE  pve'[a] \subseteq pve[a] /\ pvp'[a] \subseteq pvp[a]
  <2>1. PICK x \in Units, y \in Units \cup {Nobody} :
          \/ UNCHANGED <<pve, pvp>>
          \/ /\ pve' = [pve EXCEPT ![x] = @ \ {y}]
             /\ pvp' = [pvp EXCEPT ![x] = @ \ {y}]
    BY <1>6, LoopShape DEF refs
  <2> QED
    BY <1>1, <2>1
<1>7. CASE Bystander
  BY <1>2, <1>7, BystanderFacts DEF refs
<1> QED
  BY <1>3, <1>4, <1>5, <1>6, <1>7 DEF Internal, Bystander

LEMMA GoneInvStep ==
  ASSUME TypeInv, GoneInv, [Next]_vars
  PROVE  GoneInv'
<1>1. CASE Internal
  <2>1. PICK new : StackStep(new)
    BY <1>1, InternalStack
  <2> DEFINE n == Len(new)
  <2>2. /\ n \in Nat /\ Len(stack) \in Nat \ {0}
        /\ Len(stack') = n + Len(stack) - 1
        /\ \A j \in 1 .. n : stack'[j] = new[j]
        /\ \A j \in 2 .. Len(stack) : SameCall(stack'[n + j - 1], stack[j])
    BY <2>1, TailFacts DEF StackStep, Onto, TypeInv
  <2>3. ASSUME NEW do \in EndAlls, NEW a \in Units, StillEnds(do, a)
        PROVE  \/ StillEnds(do, a)'
               \/ do = "EndAllPvECombat" /\ pve[a] = {}
               \/ do = "EndAllPvPCombat" /\ pvp[a] = {}
    <3>1. PICK i \in 1 .. Len(stack) : stack[i].do = do /\ stack[i].a = a
      BY <2>3 DEF StillEnds
    <3>2. CASE i = 1
      <4>1. CASE \E j \in 1 .. n : SameCall(new[j], stack[1])
        <5>1. PICK j \in 1 .. n : SameCall(new[j], stack[1])
          BY <4>1
        <5>2. j \in 1 .. Len(stack') /\ stack'[j].do = do /\ stack'[j].a = a
          BY <2>2, <3>1, <3>2, <5>1 DEF SameCall
        <5> QED
          BY <5>2 DEF StillEnds
      <4>2. CASE ~\E j \in 1 .. n : SameCall(new[j], stack[1])
        BY <2>1, <3>1, <3>2, <4>2 DEF StackStep, EndAlls
      <4> QED
        BY <4>1, <4>2
    <3>3. CASE i # 1
      <4>1. i \in 2 .. Len(stack) /\ n + i - 1 \in 1 .. Len(stack')
        BY <2>2, <3>3
      <4>2. SameCall(stack'[n + i - 1], stack[i])
        BY <2>2, <4>1
      <4>3. stack'[n + i - 1].do = do /\ stack'[n + i - 1].a = a
        BY <3>1, <4>2 DEF SameCall
      <4> QED
        BY <4>1, <4>3 DEF StillEnds
    <3> QED
      BY <3>2, <3>3
  <2>4. present' = present
    BY <1>1 DEF Internal, SetInCombatWith, EndCombatPurge, SuppressPvPCombat,
         EndAllPvECombat, EndAllPvPCombat, EndAll, LoopStep, ClearThreatTask,
         AddThreat, UpdateVictim, ProcessAIUpdates, RemoveMeFromThreatLists,
         ClearAllThreat, React, EngagementOver, world
  <2> SUFFICES ASSUME NEW a \in Units \ present
               PROVE  /\ pve'[a] = {} \/ StillEnds("EndAllPvECombat", a)'
                      /\ pvp'[a] = {} \/ StillEnds("EndAllPvPCombat", a)'
    BY <2>4 DEF GoneInv
  <2>5. pve'[a] \subseteq pve[a] /\ pvp'[a] \subseteq pvp[a]
    BY <1>1, GoneGetNothing
  <2>6. /\ pve[a] = {} \/ StillEnds("EndAllPvECombat", a)
        /\ pvp[a] = {} \/ StillEnds("EndAllPvPCombat", a)
    BY DEF GoneInv
  <2>7. pve[a] = {} \/ StillEnds("EndAllPvECombat", a)'
    BY <2>3, <2>6 DEF EndAlls
  <2>8. pvp[a] = {} \/ StillEnds("EndAllPvPCombat", a)'
    BY <2>3, <2>6 DEF EndAlls
  <2> QED
    BY <2>5, <2>7, <2>8
<1>2. CASE External
  <2>1. stack = <<>> /\ UNCHANGED refs
    BY <1>2, ExternalStack, TypesOfCalls
  <2>2. \A a \in Units \ present : pve[a] = {} /\ pvp[a] = {}
    <3>1. 1 .. Len(stack) = {}
      BY <2>1
    <3> QED
      BY <3>1 DEF GoneInv, StillEnds
  <2>3. PICK x \in Units :
          \/ present \subseteq present'
          \/ present' = present \ {x} /\ stack' = EndAllCombat(x)
    BY <1>2 DEF External, Attack, CombatStop, UpdateUnit, EndSome, Remove, Appear,
                Call, world
  <2>4. CASE present \subseteq present'
    BY <2>1, <2>2, <2>4 DEF GoneInv, refs
  <2>5. CASE present' = present \ {x} /\ stack' = EndAllCombat(x)
    <3>1. StillEnds("EndAllPvECombat", x)' /\ StillEnds("EndAllPvPCombat", x)'
      <4>1. PICK c, d, e, f :
              /\ c = Task("RemoveMeFromThreatLists", x, Nobody)
              /\ d = Task("ClearAllThreat", x, Nobody)
              /\ e = Task("EndAllPvECombat", x, Nobody)
              /\ f = Task("EndAllPvPCombat", x, Nobody)
        OBVIOUS
      <4>2. stack' = <<c, d, e>> \o <<f>>
        BY <2>5, <4>1 DEF EndAllCombat, EndAllPvE
      <4>3. Len(stack') = 4 /\ stack'[3] = e /\ stack'[4] = f
        BY <4>2
      <4>4. e.do = "EndAllPvECombat" /\ e.a = x /\ f.do = "EndAllPvPCombat" /\ f.a = x
        BY <4>1 DEF Task
      <4>5. 3 \in 1 .. Len(stack') /\ 4 \in 1 .. Len(stack')
        BY <4>3
      <4> QED
        BY <4>3, <4>4, <4>5 DEF StillEnds
    <3> QED
      BY <2>1, <2>2, <2>5, <3>1 DEF GoneInv, refs
  <2> QED
    BY <2>3, <2>4, <2>5
<1>3. CASE UNCHANGED vars
  BY <1>3 DEF vars, refs, world, GoneInv, StillEnds
<1> QED
  BY <1>1, <1>2, <1>3 DEF Next

(* A unit that has left the world leaves nothing behind: neither it nor    *)
(* anybody else has a reference or threat of the two, when nothing is      *)
(* under way.  The destructors of both managers assert it                  *)
(* (CombatManager.cpp:136, ThreatManager.cpp:170).                         *)
THEOREM TheGoneAreForgotten ==
  ReactsInEndCombat = FALSE /\ EvadesLate => (Spec => []RemovedIsClean)
<1> SUFFICES ASSUME ReactsInEndCombat = FALSE, EvadesLate
             PROVE  Spec => []RemovedIsClean
  OBVIOUS
<1> DEFINE Inv == CombatInv /\ ThreatInv /\ GoneInv
<1>1. Inv => RemovedIsClean
  <2> SUFFICES ASSUME Inv, stack = <<>>, NEW a \in Units \ present
               PROVE  /\ pve[a] \cup pvp[a] \cup threat[a] = {}
                      /\ \A b \in Units : a \notin pve[b] \cup pvp[b] \cup threat[b]
    BY DEF RemovedIsClean
  <2>1. 1 .. Len(stack) = {}
    OBVIOUS
  <2>2. Agree
    BY <2>1 DEF CombatInv, RefInv
  <2>3. pve[a] = {} /\ pvp[a] = {}
    BY <2>1 DEF GoneInv, StillEnds
  <2>4. threat \in [Units -> SUBSET Units]
    BY TypesOfData DEF CombatInv, TypeInv, DataOK
  <2>5. \A x, y \in Units : y \in threat[x] => y \in pve[x] \cup pvp[x]
    BY <2>1 DEF ThreatInv, ThreatIsFought, Fought
  <2>6. \A b \in Units : a \notin pve[b] /\ a \notin pvp[b]
    BY <2>2, <2>3 DEF Agree, SidesAgree
  <2>7. threat[a] = {}
    BY <2>3, <2>4, <2>5
  <2> QED
    BY <2>3, <2>5, <2>6, <2>7
<1>2. Inv /\ [Next]_vars => Inv'
  <2>1. CombatInv => TypeInv
    BY DEF CombatInv
  <2> QED
    BY <2>1, CombatInvStep, ThreatInvStep, GoneInvStep
<1>3. Init => Inv
  <2>1. Init => GoneInv
    BY DEF Init, GoneInv
  <2> QED
    BY <2>1, CombatInvInit, ThreatInvInit
<1> HIDE DEF Inv
<1> QED
  BY <1>1, <1>2, <1>3, PTL DEF Spec

-----------------------------------------------------------------------------
(* The assertion of PutReference *)

NoneTwice == aborted = FALSE

LEMMA NoneTwiceStep ==
  ASSUME CombatInv, NoneTwice, [Next]_vars
  PROVE  NoneTwice'
<1>1. TypeInv /\ RefInv
  BY DEF CombatInv
<1>2. CASE UNCHANGED aborted
  BY <1>2 DEF NoneTwice
<1>3. CASE SetInCombatWith
  <2>1. PICK do \in {"SetInCombatWith", "EngageWithTarget"} : Top(do)
    BY <1>3 DEF SetInCombatWith
  <2>2. PICK a \in Units, b \in Units : Head(stack).a = a /\ Head(stack).b = b
    BY <1>1, <2>1, TopFacts DEF Top, OfTwo
  <2>3. Agree
    <3>1. stack # <<>> /\ stack[1].do \notin Quiet \cup OfReference
      BY <1>1, <2>1, TopFacts DEF Top, Quiet, OfReference
    <3> QED
      BY <1>1, <3>1, NotInMiddle DEF RefInv
  <2>4. \/ UNCHANGED aborted
        \/ /\ ~IsInCombatWith(a, b)
           /\ aborted' = (a \in pvp[b]) \/ aborted' = (a \in pve[b])
    BY <1>3, <2>2 DEF SetInCombatWith
  <2>5. ~IsInCombatWith(a, b) => a \notin pvp[b] /\ a \notin pve[b]
    BY <2>3 DEF Agree, SidesAgree, IsInCombatWith
  <2>6. CASE ~IsInCombatWith(a, b) /\ aborted' = (a \in pvp[b])
    <3>1. (a \in pvp[b]) = FALSE
      BY <2>5, <2>6
    <3> QED
      BY <2>6, <3>1 DEF NoneTwice
  <2>7. CASE ~IsInCombatWith(a, b) /\ aborted' = (a \in pve[b])
    <3>1. (a \in pve[b]) = FALSE
      BY <2>5, <2>7
    <3> QED
      BY <2>7, <3>1 DEF NoneTwice
  <2> QED
    BY <1>2, <2>4, <2>6, <2>7
<1>4. ASSUME \/ EndCombatPurge \/ SuppressPvPCombat \/ EndAllPvECombat
             \/ EndAllPvPCombat \/ \E do \in Loops : LoopStep(do)
      PROVE  UNCHANGED aborted
  BY <1>4 DEF EndCombatPurge, SuppressPvPCombat, EndAllPvECombat, EndAllPvPCombat,
              EndAll, LoopStep
<1>5. ASSUME \/ ClearThreatTask \/ AddThreat \/ UpdateVictim \/ ProcessAIUpdates
             \/ RemoveMeFromThreatLists \/ ClearAllThreat \/ React \/ EngagementOver
      PROVE  UNCHANGED aborted
  BY <1>5 DEF ClearThreatTask, AddThreat, UpdateVictim, ProcessAIUpdates,
              RemoveMeFromThreatLists, ClearAllThreat, React, EngagementOver
<1>6. CASE External
  BY <1>1, <1>2, <1>6, TypesOfCalls
<1>7. CASE UNCHANGED vars
  BY <1>2, <1>7 DEF vars
<1> QED
  BY <1>2, <1>3, <1>4, <1>5, <1>6, <1>7 DEF Next, Internal

(* PutReference never finds a reference where it puts one: its assertion   *)
(* (CombatManager.cpp:344, :350) holds as long as AIs do nothing while     *)
(* EndCombat is half done.                                                 *)
THEOREM NoSecondReference ==
  ReactsInEndCombat = FALSE => (Spec => []NoneTwice)
<1> SUFFICES ASSUME ReactsInEndCombat = FALSE
             PROVE  Spec => []NoneTwice
  OBVIOUS
<1>1. (CombatInv /\ NoneTwice) /\ [Next]_vars => (CombatInv /\ NoneTwice)'
  BY CombatInvStep, NoneTwiceStep
<1>2. Init => CombatInv /\ NoneTwice
  BY CombatInvInit DEF Init, NoneTwice
<1> QED
  BY <1>1, <1>2, PTL DEF Spec

-----------------------------------------------------------------------------
(* Pointers to references, and iterators *)

(* t holds a pointer to the reference of x and y, or an iterator at it.    *)
PointsAt(t, x, y) ==
  /\ t.do \in OfReference \cup Loops
  /\ t.a = x /\ t.b = y

Referenced(x, y) == Fought(x, y) \/ Fought(y, x)

(* t may lead to the end of the reference of x and y.                      *)
MayEnd(t, x, y) ==
  \/ t.do = "EndCombatPurge" /\ {t.a, t.b} = {x, y}
  \/ t.do \in EndAlls /\ t.a \in {x, y}
  \/ t.do = "JustExitedCombat" /\ t.a \in Evading \cap {x, y}
  \/ t.do \in Loops

(* What a call on the stack points at is there, and nothing above it may   *)
(* end it.                                                                 *)
CallsHold ==
  \A i \in 1 .. Len(stack) :
    /\ stack[i].live
    /\ stack[i].do = "SuppressPvPCombat" => stack[i].a \in Vanishing
    /\ \A x, y \in Units : PointsAt(stack[i], x, y) =>
         /\ Referenced(x, y)
         /\ \A j \in 1 .. i - 1 : ~MayEnd(stack[j], x, y)

(* The calls that remain keep what they point at, if the new ones do not   *)
(* end it, and the new ones have what they point at.                       *)
LEMMA CallsMove ==
  ASSUME TypeInv, CallsHold, stack # <<>>, NEW new, Onto(new, stack, stack'),
         \A i \in 1 .. Len(stack') : stack'[i].live,
         \A j \in 1 .. Len(new) : new[j].do # "SuppressPvPCombat",
         \A j \in 1 .. Len(new) : \A x, y \in Units : PointsAt(new[j], x, y) =>
            /\ Referenced(x, y)'
            /\ \A m \in 1 .. j - 1 : ~MayEnd(new[m], x, y),
         \A i \in 2 .. Len(stack) : \A x, y \in Units : PointsAt(stack[i], x, y) =>
            /\ Referenced(x, y)'
            /\ \A m \in 1 .. Len(new) : ~MayEnd(new[m], x, y)
  PROVE  CallsHold'
<1> DEFINE n == Len(new)
<1>1. /\ n \in Nat /\ Len(stack) \in Nat \ {0}
      /\ Len(stack') = n + Len(stack) - 1
      /\ \A j \in 1 .. n : stack'[j] = new[j]
      /\ \A j \in 2 .. Len(stack) : SameCall(stack'[n + j - 1], stack[j])
  BY TailFacts DEF Onto, TypeInv
<1>2. ASSUME NEW k \in 1 .. Len(stack'), k > n
      PROVE  /\ k - n + 1 \in 2 .. Len(stack)
             /\ SameCall(stack'[k], stack[k - n + 1])
  <2>1. k - n + 1 \in 2 .. Len(stack) /\ n + (k - n + 1) - 1 = k
    BY <1>1, <1>2
  <2> QED
    BY <1>1, <2>1
<1> SUFFICES ASSUME NEW k \in 1 .. Len(stack')
             PROVE  /\ stack'[k].do = "SuppressPvPCombat" => stack'[k].a \in Vanishing
                    /\ \A x, y \in Units : PointsAt(stack'[k], x, y) =>
                         /\ Referenced(x, y)'
                         /\ \A j \in 1 .. k - 1 : ~MayEnd(stack'[j], x, y)
  BY DEF CallsHold, PointsAt, MayEnd
<1>3. CASE k <= n
  <2>1. k \in 1 .. n /\ \A j \in 1 .. k - 1 : j \in 1 .. n
    BY <1>1, <1>3
  <2> QED
    BY <1>1, <2>1
<1>4. CASE k > n
  <2> DEFINE i == k - n + 1
  <2>1. i \in 2 .. Len(stack) /\ i \in 1 .. Len(stack) /\ SameCall(stack'[k], stack[i])
    BY <1>1, <1>2, <1>4
  <2>2. stack'[k].do = "SuppressPvPCombat" => stack'[k].a \in Vanishing
    BY <2>1 DEF CallsHold, SameCall
  <2>3. ASSUME NEW x \in Units, NEW y \in Units, PointsAt(stack'[k], x, y)
        PROVE  /\ Referenced(x, y)'
               /\ \A j \in 1 .. k - 1 : ~MayEnd(stack'[j], x, y)
    <3>1. PointsAt(stack[i], x, y)
      BY <2>1, <2>3 DEF PointsAt, SameCall
    <3>2. /\ Referenced(x, y)'
          /\ \A m \in 1 .. n : ~MayEnd(new[m], x, y)
          /\ \A j \in 1 .. i - 1 : ~MayEnd(stack[j], x, y)
      BY <2>1, <3>1 DEF CallsHold
    <3>3. ASSUME NEW j \in 1 .. k - 1
          PROVE  ~MayEnd(stack'[j], x, y)
      <4>1. CASE j <= n
        BY <1>1, <3>2, <4>1
      <4>2. CASE j > n
        <5>1. /\ j \in 1 .. Len(stack')
              /\ j - n + 1 \in 1 .. i - 1
          BY <1>1, <4>2
        <5>2. SameCall(stack'[j], stack[j - n + 1])
          BY <1>2, <4>2, <5>1
        <5> QED
          BY <3>2, <5>1, <5>2 DEF SameCall, MayEnd
      <4> QED
        BY <1>1, <4>1, <4>2
    <3> QED
      BY <3>2, <3>3
  <2> QED
    BY <2>2, <2>3
<1>5. k <= n \/ k > n
  BY <1>1
<1> QED
  BY <1>3, <1>4, <1>5

(* Calls that point at nothing and end nothing.                            *)
Calm == {t \in GoodTasks :
           /\ t.live
           /\ t.do \notin OfReference \cup Loops \cup EndAlls
                          \cup {"JustExitedCombat", "SuppressPvPCombat"}}

LEMMA CalmTask ==
  ASSUME NEW do \in {"SetInCombatWith", "EngageWithTarget", "AddThreat",
                     "AddThreatUnchecked", "ClearThreat", "UpdateVictim",
                     "RemoveMeFromThreatLists", "ClearAllThreat",
                     "EngagementOver", "JustEnteredCombat",
                     "JustStartedThreateningMe"},
         NEW a \in Units, NEW b \in Units \cup {Nobody},
         do \in OfTwo => b \in Units
  PROVE  Task(do, a, b) \in Calm
<1>1. /\ do \in Loops \cup OfReference \cup Others \cup Hooks
      /\ do \notin OfReference \cup Loops \cup EndAlls
                   \cup {"JustExitedCombat", "SuppressPvPCombat"}
  BY DEF Others, Hooks, OfReference, Loops, EndAlls
<1>2. Task(do, a, b) \in GoodTasks /\ Task(do, a, b).do = do
  BY <1>1, TaskIsGood
<1>3. Task(do, a, b).live
  BY DEF Task
<1> QED
  BY <1>1, <1>2, <1>3 DEF Calm

(* A sequence of tasks that are live, before another.                      *)
LEMMA LiveTogether ==
  ASSUME NEW s \in Seq(GoodTasks), NEW t \in Seq(GoodTasks),
         \A i \in 1 .. Len(s) : s[i].live,
         \A i \in 1 .. Len(t) : t[i].live
  PROVE  \A i \in 1 .. Len(s \o t) : (s \o t)[i].live
<1>1. /\ Len(s) \in Nat /\ Len(t) \in Nat
      /\ Len(s \o t) = Len(s) + Len(t)
      /\ \A i \in 1 .. Len(s) + Len(t) :
           (s \o t)[i] = IF i <= Len(s) THEN s[i] ELSE t[i - Len(s)]
  BY LenProperties, ConcatProperties
<1> TAKE i \in 1 .. Len(s \o t)
<1>2. CASE i <= Len(s)
  BY <1>1, <1>2
<1>3. CASE i > Len(s)
  <2>1. i - Len(s) \in 1 .. Len(t) /\ ~(i <= Len(s)) /\ i \in 1 .. Len(s) + Len(t)
    BY <1>1, <1>3
  <2> QED
    BY <1>1, <2>1
<1> QED
  BY <1>1, <1>2, <1>3

LEMMA LiveThen ==
  ASSUME TypeInv, CallsHold, stack # <<>>, NEW new \in Seq(GoodTasks),
         \A i \in 1 .. Len(new) : new[i].live, Then(new)
  PROVE  \A i \in 1 .. Len(stack') : stack'[i].live
<1>1. /\ Tail(stack) \in Seq(GoodTasks)
      /\ \A j \in 1 .. Len(Tail(stack)) : Tail(stack)[j].live
  <2>1. /\ Tail(stack) \in Seq(GoodTasks)
        /\ Len(stack) \in Nat \ {0}
        /\ Len(Tail(stack)) = Len(stack) - 1
        /\ \A j \in 1 .. Len(Tail(stack)) : Tail(stack)[j] = stack[j + 1]
    BY TailFacts DEF TypeInv
  <2> QED
    BY <2>1 DEF CallsHold
<1>2. \A i \in 1 .. Len(new \o Tail(stack)) : (new \o Tail(stack))[i].live
  BY <1>1, LiveTogether
<1> QED
  BY <1>2 DEF Then

(* A step with calm tasks only.                                            *)
LEMMA CalmStep ==
  ASSUME TypeInv, CallsHold, stack # <<>>, NEW new \in Seq(Calm), Then(new),
         \A x, y \in Units : Referenced(x, y) => Referenced(x, y)'
  PROVE  CallsHold'
<1>1. \A j \in 1 .. Len(new) : new[j] \in Calm
  BY ElementOfSeq
<1>2. new \in Seq(GoodTasks)
  <2>1. Calm \subseteq GoodTasks
    BY DEF Calm
  <2> QED
    BY <2>1, SeqMonotonic
<1>3. Onto(new, stack, stack')
  BY <1>2, OntoThen DEF TypeInv
<1>4. \A i \in 1 .. Len(stack') : stack'[i].live
  BY <1>1, <1>2, LiveThen DEF Calm
<1>5. /\ \A j \in 1 .. Len(new) : new[j].do # "SuppressPvPCombat"
      /\ \A j \in 1 .. Len(new) : \A x, y \in Units : ~PointsAt(new[j], x, y)
      /\ \A j \in 1 .. Len(new) : \A x, y \in Units : ~MayEnd(new[j], x, y)
  BY <1>1 DEF Calm, PointsAt, MayEnd, OfReference
<1>6. \A i \in 2 .. Len(stack) : \A x, y \in Units :
         PointsAt(stack[i], x, y) => Referenced(x, y)'
  <2>1. Len(stack) \in Nat
    BY TailFacts DEF TypeInv
  <2>2. \A i \in 2 .. Len(stack) : i \in 1 .. Len(stack)
    BY <2>1
  <2> QED
    BY <2>2 DEF CallsHold
<1> QED
  BY <1>3, <1>4, <1>5, <1>6, CallsMove

(* What is put on the stack without taking the top away.                   *)
LEMMA ThenOver ==
  ASSUME stack \in Seq(GoodTasks), stack # <<>>,
         NEW new \in Seq(GoodTasks), stack' = new \o stack
  PROVE  Then(new \o <<Head(stack)>>)
<1>1. Head(stack) \in GoodTasks /\ Tail(stack) \in Seq(GoodTasks)
  BY HeadTailProperties
<1>2. <<Head(stack)>> \in Seq(GoodTasks)
  BY <1>1
<1>3. stack = <<Head(stack)>> \o Tail(stack)
  <2> DEFINE h == <<Head(stack)>>
             t == Tail(stack)
  <2>1. /\ h \in Seq(GoodTasks) /\ Len(h) = 1 /\ h[1] = stack[1]
        /\ t \in Seq(GoodTasks) /\ Len(t) = Len(stack) - 1
        /\ \A j \in 1 .. Len(t) : t[j] = stack[j + 1]
        /\ Len(stack) \in Nat \ {0}
    BY <1>1, <1>2, TailFacts
  <2> HIDE DEF h, t
  <2>2. /\ h \o t \in Seq(GoodTasks)
        /\ Len(h \o t) = Len(h) + Len(t)
        /\ \A i \in 1 .. Len(h) + Len(t) :
             (h \o t)[i] = IF i <= Len(h) THEN h[i] ELSE t[i - Len(h)]
    BY <2>1, ConcatProperties
  <2>3. Len(h \o t) = Len(stack)
    BY <2>1, <2>2
  <2>4. ASSUME NEW i \in 1 .. Len(stack)
        PROVE  stack[i] = (h \o t)[i]
    <3>1. CASE i = 1
      BY <2>1, <2>2, <3>1
    <3>2. CASE i # 1
      <4>1. i - 1 \in 1 .. Len(t) /\ ~(i <= Len(h)) /\ i \in 1 .. Len(h) + Len(t)
            /\ i - Len(h) = i - 1 /\ (i - 1) + 1 = i
        BY <2>1, <3>2
      <4> QED
        BY <2>1, <2>2, <4>1
    <3> QED
      BY <3>1, <3>2
  <2>5. stack = h \o t
    BY <2>2, <2>3, <2>4, SeqEqual
  <2> QED
    BY <2>5 DEF h, t
<1>4. (new \o <<Head(stack)>>) \o Tail(stack) = new \o (<<Head(stack)>> \o Tail(stack))
  BY <1>1, <1>2, ConcatAssociative
<1> QED
  BY <1>3, <1>4 DEF Then

LEMMA ListsOfCalm ==
  /\ <<>> \in Seq(Calm)
  /\ \A t \in Calm : <<t>> \in Seq(Calm)
  /\ \A t, u \in Calm : <<t, u>> \in Seq(Calm)
OBVIOUS

LEMMA AfterChangeIsCalm ==
  ASSUME NEW a \in Units, NEW b \in Units
  PROVE  AfterChange("JustEnteredCombat", a, b) \in Seq(Calm)
<1> DEFINE one == IF StateChanged(a) /\ a \in WithAI
                  THEN <<Task("JustEnteredCombat", a, b)>> ELSE <<>>
           two == IF StateChanged(b) /\ b \in WithAI
                  THEN <<Task("JustEnteredCombat", b, a)>> ELSE <<>>
<1>1. Task("JustEnteredCombat", a, b) \in Calm /\ Task("JustEnteredCombat", b, a) \in Calm
  BY CalmTask
<1>2. one \in Seq(Calm) /\ two \in Seq(Calm)
  BY <1>1, ListsOfCalm
<1> HIDE DEF one, two
<1>3. one \o two \in Seq(Calm)
  BY <1>2, ConcatProperties
<1> QED
  BY <1>3 DEF AfterChange, one, two

LEMMA SetInCombatWithIsCalm ==
  ASSUME TypeInv, SetInCombatWith
  PROVE  \E new \in Seq(Calm) : Then(new)
<1> DEFINE R(a, b, do, name) == IF do = "EngageWithTarget" /\ a \in Threatable
                                THEN <<Task(name, a, b)>> ELSE <<>>
<1>0. PICK top \in {"SetInCombatWith", "EngageWithTarget"} : Top(top)
  BY DEF SetInCombatWith
<1>1. PICK a \in Units, b \in Units : Head(stack).a = a /\ Head(stack).b = b
  BY <1>0, TopFacts DEF Top, OfTwo
<1>2. PICK do \in {"SetInCombatWith", "EngageWithTarget"} :
        \/ Then(AfterChange("JustEnteredCombat", a, b) \o R(a, b, do, "AddThreatUnchecked"))
        \/ Then(AfterChange("JustEnteredCombat", b, a) \o R(a, b, do, "AddThreatUnchecked"))
        \/ Then(R(a, b, do, "AddThreatUnchecked"))
        \/ Then(<<>>)
        \/ Then(AfterChange("JustEnteredCombat", a, b) \o R(a, b, do, "AddThreat"))
  BY <1>1 DEF SetInCombatWith
<1>3. ASSUME NEW name \in {"AddThreat", "AddThreatUnchecked"}
      PROVE  R(a, b, do, name) \in Seq(Calm)
  <2>1. Task(name, a, b) \in Calm
    BY CalmTask
  <2> QED
    BY <2>1, ListsOfCalm
<1>4. /\ AfterChange("JustEnteredCombat", a, b) \in Seq(Calm)
      /\ AfterChange("JustEnteredCombat", b, a) \in Seq(Calm)
  BY AfterChangeIsCalm
<1> HIDE DEF R
<1>5. \A s \in Seq(Calm) : \A t \in Seq(Calm) : s \o t \in Seq(Calm)
  BY ConcatProperties
<1>6. <<>> \in Seq(Calm)
  BY ListsOfCalm
<1> QED
  BY <1>2, <1>3, <1>4, <1>5, <1>6

LEMMA UpdatesIsCalm ==
  ASSUME NEW a \in Units, NEW l \in SUBSET Units
  PROVE  <<[Task("ProcessAIUpdates", a, Nobody) EXCEPT !.left = l]>> \in Seq(Calm)
<1> DEFINE t == [Task("ProcessAIUpdates", a, Nobody) EXCEPT !.left = l]
<1>1. t \in GoodTasks /\ t.do = "ProcessAIUpdates"
  BY UpdatesTask
<1>2. t.live
  BY DEF Task
<1> HIDE DEF t
<1>3. t \in Calm
  BY <1>1, <1>2 DEF Calm, OfReference, Loops, EndAlls
<1>4. <<t>> \in Seq(Calm)
  BY <1>3, ListsOfCalm
<1> QED
  BY <1>4 DEF t

LEMMA ThreatIsCalm ==
  ASSUME TypeInv,
         ClearThreatTask \/ AddThreat \/ UpdateVictim \/ ClearAllThreat
  PROVE  \E new \in Seq(Calm) : Then(new)
<1>1. PICK a \in Units, b \in Units \cup {Nobody} :
        /\ Head(stack).a = a /\ Head(stack).b = b
        /\ Head(stack).do \in OfTwo => b \in Units
  BY TopFacts DEF ClearThreatTask, AddThreat, UpdateVictim, ClearAllThreat, Top
<1>2. threat \in [Units -> SUBSET Units] /\ online \in [Units -> SUBSET Units]
  BY TypesOfData DEF TypeInv, DataOK
<1>3. <<>> \in Seq(Calm)
  BY ListsOfCalm
<1>4. ASSUME NEW u \in Units, NEW list \in SUBSET Units, NEW was,
             SelectVictim(u, list, was)
      PROVE  \E new \in Seq(Calm) : Then(new)
  <2>1. PICK l \in SUBSET Units :
          Then(<<[Task("ProcessAIUpdates", u, Nobody) EXCEPT !.left = l]>>)
    BY <1>4 DEF SelectVictim
  <2> QED
    BY <2>1, UpdatesIsCalm
<1>5. ASSUME NEW u \in Units, NEW v \in Units, ClearThreat(u, v)
      PROVE  \E new \in Seq(Calm) : Then(new)
  <2>1. Then(<<>>) \/ SelectVictim(u, threat[u] \ {v}, online[u])
    BY <1>5 DEF ClearThreat
  <2>2. threat[u] \ {v} \in SUBSET Units
    BY <1>2
  <2> QED
    BY <1>3, <1>4, <2>1, <2>2
<1>6. CASE ClearThreatTask
  <2>1. b \in Units
    BY <1>1, <1>6 DEF ClearThreatTask, Top, OfTwo, OfReference
  <2>2. ClearThreat(a, b) \/ ClearThreat(b, a)
    BY <1>1, <1>6 DEF ClearThreatTask
  <2> QED
    BY <1>5, <2>1, <2>2
<1>7. CASE AddThreat
  <2>1. b \in Units
    BY <1>1, <1>7 DEF AddThreat, Top, OfTwo
  <2>2. \/ Then(<<>>)
        \/ SelectVictim(a, threat[a] \cup {b}, online[a])
        \/ \E l \in SUBSET Units :
              Then(<<[Task("ProcessAIUpdates", a, Nobody) EXCEPT !.left = l]>>)
    BY <1>1, <1>7, <2>1 DEF AddThreat
  <2>3. threat[a] \cup {b} \in SUBSET Units
    BY <1>2, <2>1
  <2> QED
    BY <1>3, <1>4, <2>2, <2>3, UpdatesIsCalm
<1>8. CASE UpdateVictim
  <2>1. SelectVictim(a, threat[a], online[a])
    BY <1>1, <1>8 DEF UpdateVictim
  <2>2. threat[a] \in SUBSET Units
    BY <1>2
  <2> QED
    BY <1>4, <2>1, <2>2
<1>9. CASE ClearAllThreat
  BY <1>3, <1>9 DEF ClearAllThreat
<1> QED
  BY <1>6, <1>7, <1>8, <1>9

LEMMA ProcessAIUpdatesIsCalm ==
  ASSUME TypeInv, ProcessAIUpdates
  PROVE  \E new \in Seq(Calm) : Then(new)
<1>1. /\ stack # <<>> /\ Head(stack) \in GoodTasks
      /\ Head(stack).do = "ProcessAIUpdates" /\ Head(stack).live
      /\ Head(stack).a \in Units
  BY TopFacts DEF ProcessAIUpdates, Top
<1>2. CASE Then(<<>>)
  BY <1>2, ListsOfCalm
<1>3. ASSUME NEW b \in Units, NEW l \in SUBSET Units,
             Then(<<Task("JustStartedThreateningMe", Head(stack).a, b),
                    [Head(stack) EXCEPT !.left = l]>>)
      PROVE  \E new \in Seq(Calm) : Then(new)
  <2> DEFINE t == Task("JustStartedThreateningMe", Head(stack).a, b)
             u == [Head(stack) EXCEPT !.left = l]
  <2>1. t \in Calm
    BY <1>1, CalmTask
  <2>2. u \in GoodTasks /\ u.do = "ProcessAIUpdates" /\ u.live
    BY <1>1 DEF GoodTasks, Tasks
  <2> HIDE DEF t, u
  <2>3. u \in Calm
    BY <2>2 DEF Calm, OfReference, Loops, EndAlls
  <2>4. <<t, u>> \in Seq(Calm)
    BY <2>1, <2>3, ListsOfCalm
  <2>5. Then(<<t, u>>)
    BY <1>3 DEF t, u
  <2> QED
    BY <2>4, <2>5
<1>4. \/ Then(<<>>)
      \/ \E b \in Units, l \in SUBSET Units :
            Then(<<Task("JustStartedThreateningMe", Head(stack).a, b),
                   [Head(stack) EXCEPT !.left = l]>>)
  <2>1. threat \in [Units -> SUBSET Units]
    BY TypesOfData DEF TypeInv, DataOK
  <2> DEFINE now == Head(stack).left \cap threat[Head(stack).a]
  <2>2. now \subseteq Units
    BY <1>1, <2>1
  <2>3. \/ Then(<<>>)
        \/ \E b \in now : Then(<<Task("JustStartedThreateningMe", Head(stack).a, b),
                                 [Head(stack) EXCEPT !.left = now \ {b}]>>)
    BY DEF ProcessAIUpdates
  <2> HIDE DEF now
  <2>4. \A b \in now : b \in Units /\ now \ {b} \in SUBSET Units
    BY <2>2
  <2> QED
    BY <2>3, <2>4
<1> QED
  BY <1>2, <1>3, <1>4

LEMMA RemoveMeIsCalm ==
  ASSUME TypeInv, RemoveMeFromThreatLists
  PROVE  \E new \in Seq(Calm) : Then(new)
<1>1. /\ stack # <<>> /\ Head(stack) \in GoodTasks
      /\ Head(stack).do = "RemoveMeFromThreatLists" /\ Head(stack).live
      /\ Head(stack).a \in Units
  BY TopFacts DEF RemoveMeFromThreatLists, Top
<1>2. \/ Then(<<>>)
      \/ \E a \in Units : stack' = <<Task("ClearThreat", a, Head(stack).a)>> \o stack
  BY DEF RemoveMeFromThreatLists
<1>3. CASE Then(<<>>)
  BY <1>3, ListsOfCalm
<1>4. ASSUME NEW a \in Units, stack' = <<Task("ClearThreat", a, Head(stack).a)>> \o stack
      PROVE  \E new \in Seq(Calm) : Then(new)
  <2> DEFINE t == Task("ClearThreat", a, Head(stack).a)
  <2>1. t \in Calm
    BY <1>1, CalmTask
  <2>2. Head(stack) \in Calm
    BY <1>1 DEF Calm, OfReference, Loops, EndAlls
  <2>3. stack' = <<t>> \o stack
    BY <1>4
  <2> HIDE DEF t
  <2>4. <<t>> \in Seq(Calm) /\ <<Head(stack)>> \in Seq(Calm)
    BY <2>1, <2>2, ListsOfCalm
  <2>5. <<t>> \in Seq(GoodTasks)
    BY <2>1 DEF Calm
  <2>6. Then(<<t>> \o <<Head(stack)>>)
    BY <1>1, <2>3, <2>5, ThenOver DEF TypeInv
  <2>7. <<t>> \o <<Head(stack)>> \in Seq(Calm)
    BY <2>4, ConcatProperties
  <2> QED
    BY <2>6, <2>7
<1> QED
  BY <1>2, <1>3, <1>4

(* A hook that does nothing, or engages.                                   *)
LEMMA ReactOrEvade ==
  ASSUME TypeInv, React, EvadesLate
  PROVE  \/ \E new \in Seq(Calm) : Then(new)
         \/ /\ stack[1].do = "JustExitedCombat" /\ stack[1].a \in Evading
            /\ Then(EndAllCombat(stack[1].a)
                    \o <<Task("EngagementOver", stack[1].a, Nobody)>>)
<1> DEFINE u == Head(stack).a
<1>1. PICK hook \in Hooks :
        /\ Top(hook)
        /\ \/ Then(<<>>)
           \/ \E a \in Units, b \in Units : Then(<<Task("EngageWithTarget", a, b)>>)
           \/ /\ u \in Evading
              /\ <<hook, "EnterEvadeMode">> \in Reactions
              /\ Then(EndAllCombat(u) \o <<Task("EngagementOver", u, Nobody)>>)
  BY UnitsAssumption DEF React, UnitsAssumption
<1>2. stack # <<>> /\ stack[1].do = hook /\ u = stack[1].a
  BY <1>1, TopFacts DEF Top
<1>3. CASE Then(<<>>)
  BY <1>3, ListsOfCalm
<1>4. ASSUME NEW a \in Units, NEW b \in Units, Then(<<Task("EngageWithTarget", a, b)>>)
      PROVE  \E new \in Seq(Calm) : Then(new)
  <2>1. Task("EngageWithTarget", a, b) \in Calm
    BY CalmTask
  <2> QED
    BY <1>4, <2>1, ListsOfCalm
<1>5. CASE /\ u \in Evading
           /\ <<hook, "EnterEvadeMode">> \in Reactions
           /\ Then(EndAllCombat(u) \o <<Task("EngagementOver", u, Nobody)>>)
  BY <1>2, <1>5 DEF EvadesLate
<1> QED
  BY <1>1, <1>3, <1>4, <1>5

(* What AIs and threat lists do, evading apart.                            *)
LEMMA CalmStepsHold ==
  ASSUME TypeInv, CallsHold,
         \/ SetInCombatWith \/ ClearThreatTask \/ AddThreat \/ UpdateVictim
         \/ ProcessAIUpdates \/ RemoveMeFromThreatLists \/ ClearAllThreat
         \/ EngagementOver
         \/ React /\ \E new \in Seq(Calm) : Then(new)
  PROVE  CallsHold'
<1>1. stack # <<>>
  BY DEF SetInCombatWith, ClearThreatTask, AddThreat, UpdateVictim,
         ProcessAIUpdates, RemoveMeFromThreatLists, ClearAllThreat,
         EngagementOver, React, Top
<1>2. \E new \in Seq(Calm) : Then(new)
  <2>1. EngagementOver => Then(<<>>)
    BY DEF EngagementOver
  <2> QED
    BY <2>1, SetInCombatWithIsCalm, ThreatIsCalm, ProcessAIUpdatesIsCalm,
       RemoveMeIsCalm, ListsOfCalm
<1>3. \A x, y \in Units : Referenced(x, y) => Referenced(x, y)'
  <2>1. CASE SetInCombatWith
    <3>1. PICK do \in {"SetInCombatWith", "EngageWithTarget"} : Top(do)
      BY <2>1 DEF SetInCombatWith
    <3>2. PICK a \in Units, b \in Units : Head(stack).a = a /\ Head(stack).b = b
      BY <3>1, TopFacts DEF Top, OfTwo
    <3>3. /\ pve' = pve \/ pve' = Put(pve, a, b)
          /\ pvp' = pvp \/ pvp' = Put(pvp, a, b)
      BY <2>1, <3>2 DEF SetInCombatWith, refs
    <3>4. pve \in [Units -> SUBSET Units] /\ pvp \in [Units -> SUBSET Units]
      BY TypesOfData DEF TypeInv, DataOK
    <3>5. \A x \in Units : pve[x] \subseteq pve'[x] /\ pvp[x] \subseteq pvp'[x]
      <4>1. \A m \in {pve, pvp} : \A x \in Units : m[x] \subseteq Put(m, a, b)[x]
        <5> TAKE m \in {pve, pvp}
        <5> TAKE x \in Units
        <5>1. Put(m, a, b)[x] =
                m[x] \cup (IF x = a THEN {b} ELSE {}) \cup (IF x = b THEN {a} ELSE {})
          BY <3>4, PutFacts
        <5> QED
          BY <5>1
      <4> QED
        BY <3>3, <4>1
    <3> QED
      BY <3>5 DEF Referenced, Fought
  <2>2. ASSUME \/ ClearThreatTask \/ AddThreat \/ UpdateVictim
               \/ ProcessAIUpdates \/ RemoveMeFromThreatLists \/ ClearAllThreat
               \/ EngagementOver \/ React
        PROVE  UNCHANGED <<pve, pvp>>
    BY <2>2 DEF ClearThreatTask, AddThreat, UpdateVictim, ProcessAIUpdates,
                RemoveMeFromThreatLists, ClearAllThreat, EngagementOver, React, refs
  <2> QED
    BY <2>1, <2>2 DEF Referenced, Fought
<1> QED
  BY <1>1, <1>2, <1>3, CalmStep

LEMMA BelowTop ==
  ASSUME TypeInv, CallsHold, stack # <<>>, NEW i \in 2 .. Len(stack),
         NEW x \in Units, NEW y \in Units, PointsAt(stack[i], x, y)
  PROVE  Referenced(x, y) /\ ~MayEnd(stack[1], x, y)
<1>1. Len(stack) \in Nat
  BY TailFacts DEF TypeInv
<1>2. i \in 1 .. Len(stack) /\ 1 \in 1 .. i - 1
  BY <1>1
<1> QED
  BY <1>2 DEF CallsHold

(* Calls that end the combat of a unit.                                    *)
StopCalls(a) ==
  {t \in GoodTasks :
     /\ t.do \in {"RemoveMeFromThreatLists", "ClearAllThreat", "EndAllPvECombat",
                  "EndAllPvPCombat", "EngagementOver"}
     /\ t.a = a /\ t.live}

LEMMA StopIsOfOne ==
  ASSUME NEW a \in Units
  PROVE  /\ EndAllPvE(a) \in Seq(StopCalls(a))
         /\ EndAllCombat(a) \in Seq(StopCalls(a))
         /\ EndAllCombat(a) \o <<Task("EngagementOver", a, Nobody)>> \in Seq(StopCalls(a))
<1> DEFINE own == StopCalls(a)
<1>1. \A do \in {"RemoveMeFromThreatLists", "ClearAllThreat", "EndAllPvECombat",
                 "EndAllPvPCombat", "EngagementOver"} :
         Task(do, a, Nobody) \in own
  <2> TAKE do \in {"RemoveMeFromThreatLists", "ClearAllThreat", "EndAllPvECombat",
                   "EndAllPvPCombat", "EngagementOver"}
  <2>1. do \in Others /\ do \notin OfTwo
    BY DEF Others, OfTwo, OfReference
  <2>2. /\ Task(do, a, Nobody) \in GoodTasks /\ Task(do, a, Nobody).do = do
        /\ Task(do, a, Nobody).a = a
    BY <2>1, TaskIsGood
  <2>3. Task(do, a, Nobody).live
    BY DEF Task
  <2> QED
    BY <2>2, <2>3 DEF StopCalls
<1> HIDE DEF own
<1>2. EndAllPvE(a) \in Seq(own)
  BY <1>1 DEF EndAllPvE
<1>3. \A do \in {"EndAllPvPCombat", "EngagementOver"} :
         <<Task(do, a, Nobody)>> \in Seq(own)
  BY <1>1
<1>4. EndAllCombat(a) \in Seq(own)
  BY <1>2, <1>3, ConcatProperties DEF EndAllCombat
<1>5. EndAllCombat(a) \o <<Task("EngagementOver", a, Nobody)>> \in Seq(own)
  BY <1>3, <1>4, ConcatProperties
<1> QED
  BY <1>2, <1>4, <1>5 DEF own

(* A unit that evades ends nothing that is pointed at.                     *)
LEMMA EvadeHolds ==
  ASSUME TypeInv, CallsHold, stack # <<>>, UNCHANGED refs,
         stack[1].do = "JustExitedCombat", stack[1].a \in Evading,
         Then(EndAllCombat(stack[1].a)
              \o <<Task("EngagementOver", stack[1].a, Nobody)>>)
  PROVE  CallsHold'
<1> DEFINE u == stack[1].a
           new == EndAllCombat(u) \o <<Task("EngagementOver", u, Nobody)>>
<1>1. u \in Units
  BY TopFacts
<1>2. new \in Seq(StopCalls(u)) /\ Then(new)
  BY <1>1, StopIsOfOne
<1> HIDE DEF new
<1>3. \A j \in 1 .. Len(new) : new[j] \in StopCalls(u)
  BY <1>2, ElementOfSeq
<1>4. new \in Seq(GoodTasks)
  <2>1. StopCalls(u) \subseteq GoodTasks
    BY DEF StopCalls
  <2> QED
    BY <1>2, <2>1, SeqMonotonic
<1>5. Onto(new, stack, stack')
  BY <1>2, <1>4, OntoThen DEF TypeInv
<1>6. \A i \in 1 .. Len(stack') : stack'[i].live
  BY <1>2, <1>3, <1>4, LiveThen DEF StopCalls
<1>7. \A j \in 1 .. Len(new) :
        /\ new[j].do # "SuppressPvPCombat"
        /\ \A x, y \in Units : ~PointsAt(new[j], x, y)
        /\ \A x, y \in Units : u \notin {x, y} => ~MayEnd(new[j], x, y)
  BY <1>3 DEF StopCalls, PointsAt, MayEnd, OfReference, Loops
<1>8. ASSUME NEW i \in 2 .. Len(stack), NEW x \in Units, NEW y \in Units,
             PointsAt(stack[i], x, y)
      PROVE  Referenced(x, y)' /\ u \notin {x, y}
  <2>1. Referenced(x, y) /\ ~MayEnd(stack[1], x, y)
    BY <1>8, BelowTop
  <2>2. u \notin {x, y}
    BY <2>1 DEF MayEnd
  <2> QED
    BY <2>1, <2>2 DEF Referenced, Fought, refs
<1> QED
  BY <1>5, <1>6, <1>7, <1>8, CallsMove

(* The unit whose PvP combat is suppressed does not evade.                 *)
LEMMA SuppressHolds ==
  ASSUME TypeInv, CallsHold, SuppressPvPCombat, Evading \cap Vanishing = {}
  PROVE  CallsHold'
<1> DEFINE a == Head(stack).a
           t == Task("JustExitedCombat", a, Nobody)
           new == IF StateChanged(a) /\ a \in WithAI THEN <<t>> ELSE <<>>
<1>1. /\ stack # <<>> /\ stack[1].do = "SuppressPvPCombat"
      /\ a \in Units /\ stack[1].a = a
  BY TopFacts DEF SuppressPvPCombat, Top
<1>2. a \notin Evading
  <2>1. 1 \in 1 .. Len(stack)
    BY <1>1, TailFacts DEF TypeInv
  <2> QED
    BY <1>1, <2>1 DEF CallsHold
<1>3. t \in GoodTasks /\ t.do = "JustExitedCombat" /\ t.a = a
  <2>1. "JustExitedCombat" \in Hooks /\ "JustExitedCombat" \notin OfTwo
    BY DEF Hooks, OfTwo, OfReference
  <2> QED
    BY <1>1, <2>1, TaskIsGood
<1>4. t.live
  BY DEF Task
<1>5. Then(new) /\ UNCHANGED <<pve, pvp>>
  BY DEF SuppressPvPCombat
<1> HIDE DEF t
<1>6. /\ new \in Seq(GoodTasks)
      /\ \A j \in 1 .. Len(new) : new[j] = t
  BY <1>3, ListsOfTasks
<1> HIDE DEF new, a
<1>7. Onto(new, stack, stack')
  BY <1>1, <1>5, <1>6, OntoThen DEF TypeInv
<1>8. \A i \in 1 .. Len(stack') : stack'[i].live
  BY <1>1, <1>4, <1>5, <1>6, LiveThen
<1>9. \A j \in 1 .. Len(new) :
        /\ new[j].do # "SuppressPvPCombat"
        /\ \A x, y \in Units : ~PointsAt(new[j], x, y) /\ ~MayEnd(new[j], x, y)
  BY <1>2, <1>3, <1>6 DEF PointsAt, MayEnd, OfReference, Loops, EndAlls
<1>10. ASSUME NEW i \in 2 .. Len(stack), NEW x \in Units, NEW y \in Units,
              PointsAt(stack[i], x, y)
       PROVE  Referenced(x, y)'
  <2>1. Referenced(x, y)
    BY <1>1, <1>10, BelowTop
  <2> QED
    BY <1>5, <2>1 DEF Referenced, Fought
<1> QED
  BY <1>1, <1>7, <1>8, <1>9, <1>10, CallsMove

(* A reference is only ended by a call that nothing below points into.    *)
LEMMA EndAllHolds ==
  ASSUME TypeInv, CallsHold, EndAllPvECombat \/ EndAllPvPCombat
  PROVE  CallsHold'
<1> DEFINE a == Head(stack).a
<1>1. /\ stack # <<>> /\ stack[1].do \in EndAlls /\ a \in Units /\ stack[1].a = a
      /\ Head(stack) = stack[1] /\ stack[1] \in GoodTasks /\ stack[1].live
      /\ UNCHANGED refs
  BY TopFacts DEF EndAllPvECombat, EndAllPvPCombat, EndAll, Top, EndAlls
<1>2. pve \in [Units -> SUBSET Units] /\ pvp \in [Units -> SUBSET Units]
  BY TypesOfData DEF TypeInv, DataOK
<1>3. \/ Then(<<>>)
      \/ \E b \in Units : \E p \in Pairs(a, b) :
            Fought(a, b) /\ stack' = EndCombat(p) \o stack
  BY <1>1, <1>2 DEF EndAllPvECombat, EndAllPvPCombat, EndAll, Fought
<1>4. ASSUME Then(<<>>)
      PROVE  CallsHold'
  <2>1. <<>> \in Seq(Calm)
    BY ListsOfCalm
  <2>2. \A x, y \in Units : Referenced(x, y) => Referenced(x, y)'
    BY <1>1 DEF Referenced, Fought, refs
  <2> QED
    BY <1>1, <1>4, <2>1, <2>2, CalmStep
<1>5. ASSUME NEW b \in Units, NEW p \in Pairs(a, b), Fought(a, b),
             stack' = EndCombat(p) \o stack
      PROVE  CallsHold'
  <2> DEFINE new == EndCombat(p) \o <<Head(stack)>>
  <2>1. p \in Units \X Units /\ {p[1], p[2]} = {a, b}
    BY <1>1, <1>5, PairsAreUnits
  <2>2. /\ <<Head(stack)>> \in Seq(GoodTasks) /\ Len(<<Head(stack)>>) = 1
        /\ <<Head(stack)>>[1] = stack[1]
    BY <1>1, ListsOfTasks
  <2>3. /\ new \in Seq(GoodTasks)
        /\ Len(new) = 4
        /\ new[1] = Task("EndCombatFirst", p[1], p[2])
        /\ new[2] = Task("EndCombatSecond", p[1], p[2])
        /\ new[3] = Task("EndCombatPurge", p[1], p[2])
        /\ new[4] = stack[1]
    <3> DEFINE top == <<Head(stack)>>
    <3>0. top \in Seq(GoodTasks) /\ Len(top) = 1 /\ top[1] = stack[1]
      BY <2>2
    <3> HIDE DEF top
    <3>1. /\ EndCombat(p) \o top \in Seq(GoodTasks)
          /\ Len(EndCombat(p) \o top) = Len(top) + 3
          /\ (EndCombat(p) \o top)[1] = Task("EndCombatFirst", p[1], p[2])
          /\ (EndCombat(p) \o top)[2] = Task("EndCombatSecond", p[1], p[2])
          /\ (EndCombat(p) \o top)[3] = Task("EndCombatPurge", p[1], p[2])
          /\ \A j \in 1 .. Len(top) : (EndCombat(p) \o top)[j + 3] = top[j]
      BY <2>1, <3>0, EndCombatTasks
    <3>2. 1 \in 1 .. Len(top) /\ 1 + 3 = 4
      BY <3>0
    <3> QED
      BY <3>0, <3>1, <3>2 DEF top
  <2>4. EndCombat(p) \in Seq(GoodTasks)
    BY <2>1, EndCombatGood
  <2>5. Then(new)
    BY <1>1, <1>5, <2>4, ThenOver DEF TypeInv
  <2> HIDE DEF new
  <2>6. \A j \in 1 .. Len(new) : j \in {1, 2, 3, 4}
    BY <2>3
  <2>7. /\ new[1].do = "EndCombatFirst" /\ new[2].do = "EndCombatSecond"
        /\ new[3].do = "EndCombatPurge"
        /\ \A j \in {1, 2, 3} : new[j].live /\ new[j].a = p[1] /\ new[j].b = p[2]
    BY <2>3 DEF Task
  <2>8. Onto(new, stack, stack')
    BY <1>1, <2>3, <2>5, OntoThen DEF TypeInv
  <2>9. \A i \in 1 .. Len(stack') : stack'[i].live
    <3>1. \A j \in 1 .. Len(new) : new[j].live
      BY <1>1, <2>3, <2>6, <2>7
    <3> QED
      BY <1>1, <2>3, <2>5, <3>1, LiveThen
  <2>10. \A j \in 1 .. Len(new) : new[j].do # "SuppressPvPCombat"
    BY <1>1, <2>3, <2>6, <2>7 DEF EndAlls
  <2>11. ASSUME NEW j \in 1 .. Len(new), NEW x \in Units, NEW y \in Units,
                PointsAt(new[j], x, y)
         PROVE  /\ Referenced(x, y)'
                /\ \A m \in 1 .. j - 1 : ~MayEnd(new[m], x, y)
    <3>1. j \in {1, 2, 3}
      BY <1>1, <2>3, <2>6, <2>11 DEF PointsAt, EndAlls, OfReference, Loops
    <3>2. x = p[1] /\ y = p[2]
      BY <2>7, <2>11, <3>1 DEF PointsAt
    <3>3. Referenced(x, y)
      BY <1>5, <2>1, <3>2 DEF Referenced
    <3>4. \A m \in 1 .. j - 1 : m \in {1, 2}
      BY <3>1
    <3>5. \A m \in {1, 2} : ~MayEnd(new[m], x, y)
      BY <2>7 DEF MayEnd, EndAlls, Loops
    <3> QED
      BY <1>1, <3>3, <3>4, <3>5 DEF Referenced, Fought, refs
  <2>12. ASSUME NEW i \in 2 .. Len(stack), NEW x \in Units, NEW y \in Units,
                PointsAt(stack[i], x, y)
         PROVE  /\ Referenced(x, y)'
                /\ \A m \in 1 .. Len(new) : ~MayEnd(new[m], x, y)
    <3>1. Referenced(x, y) /\ ~MayEnd(stack[1], x, y)
      BY <1>1, <2>12, BelowTop
    <3>2. a \notin {x, y}
      BY <1>1, <3>1 DEF MayEnd
    <3>3. {p[1], p[2]} # {x, y}
      BY <2>1, <3>2
    <3>4. \A m \in {1, 2, 3} : ~MayEnd(new[m], x, y)
      BY <2>7, <3>3 DEF MayEnd, EndAlls, Loops
    <3> QED
      BY <1>1, <2>3, <2>6, <3>1, <3>4 DEF Referenced, Fought, refs
  <2> QED
    BY <1>1, <2>8, <2>9, <2>10, <2>11, <2>12, CallsMove
<1> QED
  BY <1>3, <1>4, <1>5

(* Only what vanishes has its references suppressed.                       *)
VanishOnly == \A u \in Units : suppressed[u] # {} => u \in Vanishing

(* A unit that fights is in combat, even where it is not told yet that it  *)
(* no longer fights.                                                       *)
FlagCovers == \A u \in Units : HasCombat(u) => u \in inCombat

(* The maps once EndCombat has purged the reference of a and b.            *)
LEMMA PurgedMaps ==
  ASSUME TypeInv, NEW a \in Units, NEW b \in Units,
         pve' = IF IsPvP(a, b) THEN pve ELSE Purge(pve, a, b),
         pvp' = IF IsPvP(a, b) THEN Purge(pvp, a, b) ELSE pvp,
         suppressed' = Purge(suppressed, a, b)
  PROVE  /\ \A x, y \in Units : ~(x = a /\ y = b) /\ ~(x = b /\ y = a) =>
              (y \in pve'[x] <=> y \in pve[x]) /\ (y \in pvp'[x] <=> y \in pvp[x])
         /\ \A x \in Units : /\ pve'[x] \subseteq pve[x]
                             /\ pvp'[x] \subseteq pvp[x]
                             /\ suppressed'[x] \subseteq suppressed[x]
         /\ \A x \in Units : x \notin {a, b} => /\ pve'[x] = pve[x]
                                                /\ pvp'[x] = pvp[x]
                                                /\ suppressed'[x] = suppressed[x]
<1>1. /\ pve \in [Units -> SUBSET Units]
      /\ pvp \in [Units -> SUBSET Units]
      /\ suppressed \in [Units -> SUBSET Units]
  BY TypesOfData DEF TypeInv, DataOK
<1>2. ASSUME NEW map \in {pve, pvp, suppressed}, NEW x \in Units
      PROVE  Purge(map, a, b)[x] =
               (map[x] \ (IF x = a THEN {b} ELSE {})) \ (IF x = b THEN {a} ELSE {})
  <2>1. map \in [Units -> SUBSET Units]
    BY <1>1, <1>2
  <2> QED
    BY <2>1, PurgeFacts
<1>3. ASSUME NEW map \in {pve, pvp, suppressed}, NEW x \in Units
      PROVE  /\ Purge(map, a, b)[x] \subseteq map[x]
             /\ x \notin {a, b} => Purge(map, a, b)[x] = map[x]
             /\ \A y \in Units : ~(x = a /\ y = b) /\ ~(x = b /\ y = a) =>
                  (y \in Purge(map, a, b)[x] <=> y \in map[x])
  <2>1. Purge(map, a, b)[x] =
          (map[x] \ (IF x = a THEN {b} ELSE {})) \ (IF x = b THEN {a} ELSE {})
    BY <1>2, <1>3
  <2> QED
    BY <2>1
<1>4. /\ pve' = pve \/ pve' = Purge(pve, a, b)
      /\ pvp' = pvp \/ pvp' = Purge(pvp, a, b)
  OBVIOUS
<1> QED
  BY <1>3, <1>4

(* An AI is only told that its unit left combat if no other reference of   *)
(* it counts.                                                              *)
LEMMA PurgeHolds ==
  ASSUME TypeInv, RefInv, CallsHold, VanishOnly, FlagCovers, EndCombatPurge,
         Evading \cap Vanishing = {}
  PROVE  CallsHold'
<1>1. PICK a \in Units, b \in Units :
        /\ Head(stack).a = a /\ Head(stack).b = b
        /\ stack # <<>> /\ stack[1].do = "EndCombatPurge"
        /\ stack[1].a = a /\ stack[1].b = b
  BY TopFacts DEF EndCombatPurge, Top, OfTwo, OfReference
<1>2. /\ pve' = IF IsPvP(a, b) THEN pve ELSE Purge(pve, a, b)
      /\ pvp' = IF IsPvP(a, b) THEN Purge(pvp, a, b) ELSE pvp
      /\ suppressed' = Purge(suppressed, a, b)
      /\ UpdateOwnerCombatState({a, b})
      /\ stack' = AfterChange("JustExitedCombat", a, b) \o Deleted(Tail(stack), a, b)
  BY <1>1 DEF EndCombatPurge
<1>3. AgreeBut(a, b)
  <2>1. Agree => AgreeBut(a, b)
    BY DEF Agree, AgreeBut, SidesAgree
  <2>2. ASSUME NEW i \in 1 .. Len(stack), InMiddle(i)
        PROVE  i = 1
    BY <1>1, <2>2, MiddleAtTop DEF OfReference
  <2> QED
    BY <1>1, <2>1, <2>2 DEF RefInv
<1>4. /\ \A x, y \in Units : ~(x = a /\ y = b) /\ ~(x = b /\ y = a) =>
            (y \in pve'[x] <=> y \in pve[x]) /\ (y \in pvp'[x] <=> y \in pvp[x])
      /\ \A x \in Units : suppressed'[x] \subseteq suppressed[x]
  BY <1>2, PurgedMaps
<1>5. ASSUME NEW x \in Units, NEW y \in Units, Referenced(x, y), {a, b} # {x, y}
      PROVE  /\ Referenced(x, y)'
             /\ \A u \in Evading \cap {x, y} : u \in {a, b} => ~StateChanged(u)
  <2>0. ~(x = a /\ y = b) /\ ~(x = b /\ y = a) /\ ~(y = a /\ x = b) /\ ~(y = b /\ x = a)
    BY <1>5
  <2>1. SidesAgree(x, y) /\ SidesAgree(y, x)
    BY <1>3, <2>0 DEF AgreeBut
  <2>2. Fought(x, y) /\ Fought(y, x)
    BY <1>5, <2>1 DEF Referenced, Fought, SidesAgree
  <2>3. /\ (y \in pve'[x] <=> y \in pve[x]) /\ (y \in pvp'[x] <=> y \in pvp[x])
        /\ (x \in pve'[y] <=> x \in pve[y]) /\ (x \in pvp'[y] <=> x \in pvp[y])
    BY <1>4, <2>0
  <2>4. Referenced(x, y)'
    BY <2>2, <2>3 DEF Referenced, Fought
  <2>5. ASSUME NEW u \in Evading \cap {x, y}, u \in {a, b}
        PROVE  ~StateChanged(u)
    <3>1. u \in Units /\ u \notin Vanishing
      BY <2>5
    <3>2. suppressed[u] = {}
      BY <3>1 DEF VanishOnly
    <3>3. suppressed'[u] = {}
      BY <1>4, <3>1, <3>2
    <3>4. HasCombat(u)
      BY <2>2, <2>5, <3>2 DEF HasCombat, Fought
    <3>5. HasCombat(u)'
      BY <2>2, <2>3, <2>5, <3>3 DEF HasCombat, Fought
    <3>6. u \in inCombat
      BY <3>1, <3>4 DEF FlagCovers
    <3>7. u \in inCombat'
      BY <1>2, <2>5, <3>5 DEF UpdateOwnerCombatState
    <3> QED
      BY <3>6, <3>7 DEF StateChanged
  <2> QED
    BY <2>4, <2>5
<1>6. ASSUME NEW i \in 2 .. Len(stack), NEW x \in Units, NEW y \in Units,
             PointsAt(stack[i], x, y)
      PROVE  /\ {a, b} # {x, y}
             /\ Referenced(x, y)'
             /\ \A u \in Evading \cap {x, y} : u \in {a, b} => ~StateChanged(u)
  <2>1. Referenced(x, y) /\ ~MayEnd(stack[1], x, y)
    BY <1>1, <1>6, BelowTop
  <2>2. {a, b} # {x, y}
    BY <1>1, <2>1 DEF MayEnd
  <2> QED
    BY <1>5, <2>1, <2>2
<1> DEFINE E == {t \in GoodTasks : /\ t.do = "JustExitedCombat" /\ t.live
                                   /\ t.a \in {a, b} /\ StateChanged(t.a)}
           one == IF StateChanged(a) /\ a \in WithAI
                  THEN <<Task("JustExitedCombat", a, b)>> ELSE <<>>
           two == IF StateChanged(b) /\ b \in WithAI
                  THEN <<Task("JustExitedCombat", b, a)>> ELSE <<>>
           new == one \o two
<1>7. new \in Seq(E) /\ new = AfterChange("JustExitedCombat", a, b)
  <2>1. ASSUME NEW x \in {a, b}, NEW y \in {a, b}, StateChanged(x)
        PROVE  Task("JustExitedCombat", x, y) \in E
    <3>1. "JustExitedCombat" \in Hooks /\ "JustExitedCombat" \notin OfTwo
      BY DEF Hooks, OfTwo, OfReference
    <3>2. /\ Task("JustExitedCombat", x, y) \in GoodTasks
          /\ Task("JustExitedCombat", x, y).do = "JustExitedCombat"
          /\ Task("JustExitedCombat", x, y).a = x
      BY <3>1, TaskIsGood
    <3>3. Task("JustExitedCombat", x, y).live
      BY DEF Task
    <3> QED
      BY <2>1, <3>2, <3>3
  <2>2. /\ StateChanged(a) => Task("JustExitedCombat", a, b) \in E
        /\ StateChanged(b) => Task("JustExitedCombat", b, a) \in E
    BY <2>1
  <2> HIDE DEF E
  <2>3. one \in Seq(E) /\ two \in Seq(E)
    BY <2>2
  <2>4. new = AfterChange("JustExitedCombat", a, b)
    BY DEF AfterChange
  <2> HIDE DEF one, two
  <2>5. new \in Seq(E)
    BY <2>3, ConcatProperties
  <2> QED
    BY <2>4, <2>5
<1> HIDE DEF new
<1>8. /\ new \in Seq(GoodTasks)
      /\ \A j \in 1 .. Len(new) :
           /\ new[j].do = "JustExitedCombat" /\ new[j].live
           /\ new[j].a \in {a, b} /\ StateChanged(new[j].a)
  <2>1. E \subseteq GoodTasks
    OBVIOUS
  <2>2. \A j \in 1 .. Len(new) : new[j] \in E
    BY <1>7, ElementOfSeq
  <2> QED
    BY <1>7, <2>1, <2>2, SeqMonotonic
<1> DEFINE tail == Deleted(Tail(stack), a, b)
<1>9. /\ tail \in Seq(GoodTasks) /\ Len(tail) = Len(stack) - 1
      /\ \A j \in 1 .. Len(tail) : tail[j].live
  <2>1. tail \in Seq(GoodTasks) /\ Len(tail) = Len(stack) - 1
    BY <1>1, MarkedTail DEF TypeInv
  <2>2. ASSUME NEW j \in 1 .. Len(tail)
        PROVE  tail[j].live
    <3>1. /\ j \in 1 .. Len(Tail(stack)) /\ Tail(stack)[j] = stack[j + 1]
          /\ j + 1 \in 2 .. Len(stack) /\ j + 1 \in 1 .. Len(stack)
      BY <1>1, <2>1, TailFacts DEF TypeInv
    <3>2. /\ stack[j + 1].live /\ stack[j + 1] \in GoodTasks
      BY <3>1, ElementOfSeq DEF CallsHold, TypeInv
    <3>3. ~(/\ stack[j + 1].do \in Loops \cup OfReference
            /\ {stack[j + 1].a, stack[j + 1].b} = {a, b})
      <4> SUFFICES ASSUME stack[j + 1].do \in Loops \cup OfReference,
                          {stack[j + 1].a, stack[j + 1].b} = {a, b}
                   PROVE  FALSE
        OBVIOUS
      <4>1. stack[j + 1].a \in Units /\ stack[j + 1].b \in Units
        OBVIOUS
      <4>2. PointsAt(stack[j + 1], stack[j + 1].a, stack[j + 1].b)
        BY DEF PointsAt
      <4> QED
        BY <1>6, <3>1, <4>1, <4>2
    <3>4. tail[j] = stack[j + 1]
      BY <3>1, <3>3 DEF Deleted
    <3> QED
      BY <3>2, <3>4
  <2> QED
    BY <2>1, <2>2
<1>10. stack' = new \o tail
  BY <1>2, <1>7
<1>11. Onto(new, stack, new \o tail)
  BY <1>1, <1>8, MarkedTail, OntoTail DEF TypeInv
<1> HIDE DEF tail
<1>12. \A i \in 1 .. Len(new \o tail) : (new \o tail)[i].live
  BY <1>8, <1>9, LiveTogether
<1>13. \A j \in 1 .. Len(new) :
         /\ new[j].do # "SuppressPvPCombat"
         /\ \A x, y \in Units : ~PointsAt(new[j], x, y)
  BY <1>8 DEF PointsAt, OfReference, Loops
<1>14. ASSUME NEW i \in 2 .. Len(stack), NEW x \in Units, NEW y \in Units,
              PointsAt(stack[i], x, y)
       PROVE  /\ Referenced(x, y)'
              /\ \A m \in 1 .. Len(new) : ~MayEnd(new[m], x, y)
  <2>1. /\ Referenced(x, y)'
        /\ \A u \in Evading \cap {x, y} : u \in {a, b} => ~StateChanged(u)
    BY <1>6, <1>14
  <2>2. ASSUME NEW m \in 1 .. Len(new)
        PROVE  ~MayEnd(new[m], x, y)
    BY <1>8, <2>1 DEF MayEnd, EndAlls, Loops
  <2> QED
    BY <2>1, <2>2
<1> QED
  BY <1>1, <1>10, <1>11, <1>12, <1>13, <1>14, CallsMove

NoneFightsItself == \A u \in Units : ~Fought(u, u)

LEMMA AdvanceFacts ==
  ASSUME NEW t \in GoodTasks, t.do \in Loops, t.live,
         NEW m \in SUBSET Units, NEW u \in Advance(t, m)
  PROVE  /\ LoopAt(u) \in Seq(GoodTasks)
         /\ Len(LoopAt(u)) = 0 \/ Len(LoopAt(u)) = 1
         /\ \A j \in 1 .. Len(LoopAt(u)) :
              /\ LoopAt(u)[j].do = t.do /\ LoopAt(u)[j].a = t.a
              /\ LoopAt(u)[j].live /\ LoopAt(u)[j].b \in m
<1>1. /\ u \in GoodTasks /\ u.do = t.do /\ u.a = t.a /\ u.live
      /\ u.b \in m \cup {Nobody}
  <2>1. t \in Tasks /\ t.do \notin OfTwo
    BY DEF GoodTasks, OfTwo, Loops, OfReference
  <2>2. \/ u = [t EXCEPT !.b = Nobody, !.left = {}]
        \/ \E b \in m, l \in SUBSET Units : u = [t EXCEPT !.b = b, !.left = l]
    BY DEF Advance
  <2> QED
    BY <2>1, <2>2 DEF GoodTasks, Tasks
<1> QED
  BY <1>1, ListsOfTasks DEF LoopAt

(* A loop stands at an element of the map it goes through, or takes the    *)
(* one it is at out of it.                                                 *)
LEMMA LoopMoves ==
  ASSUME TypeInv, NEW do \in Loops, LoopStep(do)
  PROVE  \E a \in Units, b \in Units \cup {Nobody}, m \in SUBSET Units :
            /\ stack # <<>> /\ stack[1].do = do /\ stack[1].live
            /\ stack[1].a = a /\ stack[1].b = b
            /\ m \subseteq pve[a] \cup pvp[a]
            /\ \/ /\ UNCHANGED <<pve, pvp>>
                  /\ \E u \in Advance(stack[1], m) : Then(LoopAt(u))
               \/ /\ b \in Units
                  /\ pve' = [pve EXCEPT ![a] = @ \ {b}]
                  /\ pvp' = [pvp EXCEPT ![a] = @ \ {b}]
                  /\ \E u \in Advance(stack[1], m \ {b}), p \in Pairs(a, b) :
                       stack' = EndCombat(p) \o LoopAt(u) \o Erased(Tail(stack), a, b)
<1> DEFINE a == Head(stack).a
           b == Head(stack).b
           over == IF do \in {"EndPvEBeyondRange", "RevalidatePvE"}
                   THEN pve[a] ELSE pvp[a]
<1>1. /\ stack # <<>> /\ Head(stack) = stack[1] /\ stack[1].do = do /\ stack[1].live
      /\ a \in Units /\ b \in Units \cup {Nobody}
      /\ stack[1].a = a /\ stack[1].b = b
  BY TopFacts DEF LoopStep, Top
<1>2. /\ pve \in [Units -> SUBSET Units]
      /\ pvp \in [Units -> SUBSET Units]
      /\ Nobody \notin Units
  BY TypesOfData, UnitsAssumption DEF TypeInv, DataOK, UnitsAssumption
<1>3. over \in SUBSET Units /\ over \subseteq pve[a] \cup pvp[a]
  BY <1>1, <1>2
<1> HIDE DEF over
<1>4. \/ /\ UNCHANGED <<pve, pvp>>
         /\ \E u \in Advance(Head(stack), over) : Then(LoopAt(u))
      \/ /\ b # Nobody
         /\ pve' = [pve EXCEPT ![a] = @ \ {b}]
         /\ pvp' = [pvp EXCEPT ![a] = @ \ {b}]
         /\ \E u \in Advance(Head(stack), over \ {b}), p \in Pairs(a, b) :
              stack' = EndCombat(p) \o LoopAt(u) \o Erased(Tail(stack), a, b)
  BY Zenon DEF LoopStep, LoopAt, over, refs
<1> QED
  BY <1>1, <1>3, <1>4, ZenonT(60)

(* A loop runs with nothing below it that points at anything, and begins   *)
(* to end what it no longer stands at.                                     *)
LEMMA LoopHolds ==
  ASSUME TypeInv, RefInv, CallsHold, NoneFightsItself,
         NEW do \in Loops, LoopStep(do)
  PROVE  CallsHold'
<1>1. PICK a \in Units, b \in Units \cup {Nobody}, m \in SUBSET Units :
            /\ stack # <<>> /\ stack[1].do = do /\ stack[1].live
            /\ stack[1].a = a /\ stack[1].b = b
            /\ m \subseteq pve[a] \cup pvp[a]
            /\ \/ /\ UNCHANGED <<pve, pvp>>
                  /\ \E u \in Advance(stack[1], m) : Then(LoopAt(u))
               \/ /\ b \in Units
                  /\ pve' = [pve EXCEPT ![a] = @ \ {b}]
                  /\ pvp' = [pvp EXCEPT ![a] = @ \ {b}]
                  /\ \E u \in Advance(stack[1], m \ {b}), p \in Pairs(a, b) :
                       stack' = EndCombat(p) \o LoopAt(u) \o Erased(Tail(stack), a, b)
  BY LoopMoves
<1>2. Agree
  <2>1. stack[1].do \notin Quiet \cup OfReference
    BY <1>1 DEF Loops, Quiet, OfReference
  <2> QED
    BY <1>1, <2>1, NotInMiddle DEF RefInv
<1>3. /\ pve \in [Units -> SUBSET Units]
      /\ pvp \in [Units -> SUBSET Units]
  BY TypesOfData DEF TypeInv, DataOK
<1>4. stack[1] \in GoodTasks
  BY <1>1, TopFacts
<1>5. \A i \in 2 .. Len(stack) : \A x, y \in Units : ~PointsAt(stack[i], x, y)
  BY <1>1, BelowTop DEF MayEnd
<1>6. do # "SuppressPvPCombat" /\ do \notin OfReference
  BY DEF Loops, OfReference
<1>7. ASSUME UNCHANGED <<pve, pvp>>, NEW u \in Advance(stack[1], m), Then(LoopAt(u))
      PROVE  CallsHold'
  <2> DEFINE new == LoopAt(u)
  <2>1. /\ new \in Seq(GoodTasks)
        /\ Len(new) = 0 \/ Len(new) = 1
        /\ \A j \in 1 .. Len(new) :
             /\ new[j].do = do /\ new[j].a = a
             /\ new[j].live /\ new[j].b \in m
    BY <1>1, <1>4, AdvanceFacts
  <2>2. Then(new)
    BY <1>7
  <2> HIDE DEF new
  <2>3. Onto(new, stack, stack')
    BY <1>1, <2>1, <2>2, OntoThen DEF TypeInv
  <2>4. \A i \in 1 .. Len(stack') : stack'[i].live
    BY <1>1, <2>1, <2>2, LiveThen
  <2>5. ASSUME NEW j \in 1 .. Len(new), NEW x \in Units, NEW y \in Units,
               PointsAt(new[j], x, y)
        PROVE  /\ Referenced(x, y)'
               /\ \A k \in 1 .. j - 1 : ~MayEnd(new[k], x, y)
    <3>1. x = a /\ y \in m /\ j = 1
      BY <2>1, <2>5 DEF PointsAt
    <3>2. Fought(x, y)'
      BY <1>1, <1>7, <3>1 DEF Fought
    <3> QED
      BY <3>1, <3>2 DEF Referenced
  <2> QED
    BY <1>1, <1>5, <1>6, <2>1, <2>3, <2>4, <2>5, CallsMove
<1>8. ASSUME b \in Units,
             pve' = [pve EXCEPT ![a] = @ \ {b}],
             pvp' = [pvp EXCEPT ![a] = @ \ {b}],
             NEW u \in Advance(stack[1], m \ {b}), NEW p \in Pairs(a, b),
             stack' = EndCombat(p) \o LoopAt(u) \o Erased(Tail(stack), a, b)
      PROVE  CallsHold'
  <2> DEFINE r == LoopAt(u)
             new == EndCombat(p) \o r
             tail == Erased(Tail(stack), a, b)
  <2>1. /\ r \in Seq(GoodTasks)
        /\ Len(r) = 0 \/ Len(r) = 1
        /\ \A j \in 1 .. Len(r) :
             /\ r[j].do = do /\ r[j].a = a
             /\ r[j].live /\ r[j].b \in m \ {b}
    <3>1. m \ {b} \in SUBSET Units
      OBVIOUS
    <3> QED
      BY <1>1, <1>4, <3>1, AdvanceFacts
  <2>2. p \in Units \X Units /\ {p[1], p[2]} = {a, b}
    BY <1>8, PairsAreUnits
  <2> HIDE DEF r
  <2>3. /\ new \in Seq(GoodTasks)
        /\ Len(new) = Len(r) + 3
        /\ new[1] = Task("EndCombatFirst", p[1], p[2])
        /\ new[2] = Task("EndCombatSecond", p[1], p[2])
        /\ new[3] = Task("EndCombatPurge", p[1], p[2])
        /\ \A j \in 1 .. Len(r) : new[j + 3] = r[j]
    BY <2>1, <2>2, EndCombatTasks
  <2>4. stack' = new \o tail
    BY <1>8 DEF r
  <2> HIDE DEF new
  <2>5. /\ tail \in Seq(GoodTasks) /\ Len(tail) = Len(stack) - 1
        /\ \A j \in 1 .. Len(tail) : tail[j].live
    <3>1. tail \in Seq(GoodTasks) /\ Len(tail) = Len(stack) - 1
      BY <1>1, MarkedTail DEF TypeInv
    <3>2. ASSUME NEW j \in 1 .. Len(tail)
          PROVE  tail[j].live
      <4>1. /\ j \in 1 .. Len(Tail(stack)) /\ Tail(stack)[j] = stack[j + 1]
            /\ j + 1 \in 2 .. Len(stack) /\ j + 1 \in 1 .. Len(stack)
        BY <1>1, <3>1, TailFacts DEF TypeInv
      <4>2. stack[j + 1].live
        BY <4>1 DEF CallsHold
      <4>3. ~(/\ stack[j + 1].do \in Loops
              /\ stack[j + 1].a = a /\ stack[j + 1].b = b)
        BY <1>5, <1>8, <4>1 DEF PointsAt
      <4>4. tail[j] = stack[j + 1]
        BY <4>1, <4>3 DEF Erased
      <4> QED
        BY <4>2, <4>4
    <3> QED
      BY <3>1, <3>2
  <2>6. Onto(new, stack, new \o tail)
    BY <1>1, <2>3, MarkedTail, OntoTail DEF TypeInv
  <2> HIDE DEF tail
  <2>7. /\ new[1].do = "EndCombatFirst" /\ new[2].do = "EndCombatSecond"
        /\ new[3].do = "EndCombatPurge"
        /\ \A j \in {1, 2, 3} : new[j].live /\ new[j].a = p[1] /\ new[j].b = p[2]
    BY <2>3 DEF Task
  <2>8. \A j \in 1 .. Len(new) :
          \/ j \in {1, 2, 3}
          \/ /\ j = 4 /\ new[j].do = do /\ new[j].a = a
             /\ new[j].live /\ new[j].b \in m \ {b}
    <3> TAKE j \in 1 .. Len(new)
    <3>1. CASE j <= 3
      BY <3>1
    <3>2. CASE j > 3
      <4>1. j = 4 /\ 1 \in 1 .. Len(r)
        BY <2>1, <2>3, <3>2
      <4>2. new[4] = r[1]
        BY <2>3, <4>1
      <4> QED
        BY <2>1, <4>1, <4>2
    <3> QED
      BY <3>1, <3>2
  <2>9. \A i \in 1 .. Len(new \o tail) : (new \o tail)[i].live
    <3>1. \A j \in 1 .. Len(new) : new[j].live
      BY <2>7, <2>8
    <3> QED
      BY <2>3, <2>5, <3>1, LiveTogether
  <2>10. \A j \in 1 .. Len(new) : new[j].do # "SuppressPvPCombat"
    BY <1>6, <2>7, <2>8
  <2>11. Referenced(a, b)' /\ Referenced(b, a)'
    <3>1. 1 \in 1 .. Len(stack) /\ PointsAt(stack[1], a, b)
      BY <1>1, TailFacts DEF TypeInv, PointsAt
    <3>2. Referenced(a, b)
      BY <1>8, <3>1 DEF CallsHold
    <3>3. Fought(b, a)
      BY <1>2, <1>8, <3>2 DEF Referenced, Fought, Agree, SidesAgree
    <3>4. a # b
      BY <3>3 DEF NoneFightsItself
    <3>5. Fought(b, a)'
      BY <1>3, <1>8, <3>3, <3>4 DEF Fought
    <3> QED
      BY <3>5 DEF Referenced
  <2>12. ASSUME NEW j \in 1 .. Len(new), NEW x \in Units, NEW y \in Units,
                PointsAt(new[j], x, y)
         PROVE  /\ Referenced(x, y)'
                /\ \A k \in 1 .. j - 1 : ~MayEnd(new[k], x, y)
    <3>1. CASE j \in {1, 2, 3}
      <4>1. x = p[1] /\ y = p[2]
        BY <2>7, <2>12, <3>1 DEF PointsAt
      <4>2. Referenced(x, y)'
        <5>1. (x = a /\ y = b) \/ (x = b /\ y = a)
          BY <1>8, <4>1 DEF Pairs
        <5> QED
          BY <2>11, <5>1
      <4>3. \A k \in 1 .. j - 1 : k \in {1, 2}
        BY <3>1
      <4>4. \A k \in {1, 2} : ~MayEnd(new[k], x, y)
        BY <2>7 DEF MayEnd, EndAlls, Loops
      <4> QED
        BY <4>2, <4>3, <4>4
    <3>2. CASE j \notin {1, 2, 3}
      <4>1. j = 4 /\ x = a /\ y \in m \ {b}
        BY <2>8, <2>12, <3>2 DEF PointsAt
      <4>2. Fought(x, y)'
        BY <1>1, <1>3, <1>8, <4>1 DEF Fought
      <4>3. {p[1], p[2]} # {x, y}
        BY <2>2, <4>1
      <4>4. \A k \in {1, 2, 3} : ~MayEnd(new[k], x, y)
        BY <2>7, <4>3 DEF MayEnd, EndAlls, Loops
      <4>5. \A k \in 1 .. j - 1 : k \in {1, 2, 3}
        BY <4>1
      <4> QED
        BY <4>2, <4>4, <4>5 DEF Referenced
    <3> QED
      BY <3>1, <3>2
  <2> QED
    BY <1>1, <1>5, <2>4, <2>6, <2>9, <2>10, <2>12, CallsMove
<1> QED
  BY <1>1, <1>7, <1>8

(* Calls that point at nothing.                                            *)
Pointless ==
  {t \in GoodTasks :
     /\ t.live
     /\ \A x, y \in Units : ~PointsAt(t, x, y)
     /\ t.do = "SuppressPvPCombat" => t.a \in Vanishing}

LEMMA PointlessHolds ==
  ASSUME stack' \in Seq(Pointless)
  PROVE  CallsHold'
<1>1. \A i \in 1 .. Len(stack') : stack'[i] \in Pointless
  BY ElementOfSeq
<1> QED
  BY <1>1 DEF CallsHold, Pointless, PointsAt

LEMMA StopIsPointless ==
  ASSUME NEW a \in Units
  PROVE  /\ EndAllCombat(a) \in Seq(Pointless)
         /\ EndAllCombat(a) \o <<Task("EngagementOver", a, Nobody)>> \in Seq(Pointless)
         /\ a \in Vanishing =>
              EndAllPvE(a) \o <<Task("SuppressPvPCombat", a, Nobody)>> \in Seq(Pointless)
<1>1. StopCalls(a) \subseteq Pointless
  BY DEF StopCalls, Pointless, PointsAt, OfReference, Loops
<1>2. ASSUME NEW s \in Seq(StopCalls(a))
      PROVE  s \in Seq(Pointless)
  BY <1>1, SeqMonotonic
<1>3. /\ EndAllCombat(a) \in Seq(Pointless)
      /\ EndAllPvE(a) \in Seq(Pointless)
      /\ EndAllCombat(a) \o <<Task("EngagementOver", a, Nobody)>> \in Seq(Pointless)
  BY <1>2, StopIsOfOne
<1>4. ASSUME a \in Vanishing
      PROVE  EndAllPvE(a) \o <<Task("SuppressPvPCombat", a, Nobody)>> \in Seq(Pointless)
  <2> DEFINE t == Task("SuppressPvPCombat", a, Nobody)
  <2>1. t \in GoodTasks /\ t.do = "SuppressPvPCombat" /\ t.a = a
    <3>1. /\ "SuppressPvPCombat" \in Others
          /\ "SuppressPvPCombat" \notin OfTwo
      BY DEF Others, OfTwo, OfReference
    <3> QED
      BY <3>1, TaskIsGood
  <2>2. t.live
    BY DEF Task
  <2> HIDE DEF t
  <2>3. t \in Pointless
    BY <1>4, <2>1, <2>2 DEF Pointless, PointsAt, OfReference, Loops
  <2>4. <<t>> \in Seq(Pointless)
    BY <2>3
  <2>5. EndAllPvE(a) \o <<t>> \in Seq(Pointless)
    BY <1>3, <2>4, ConcatProperties
  <2> QED
    BY <2>5 DEF t
<1> QED
  BY <1>3, <1>4

LEMMA UpdateIsPointless ==
  ASSUME NEW a \in Units
  PROVE  {<<Loop("EndPvEBeyondRange", a), Loop("EndPvPBeyondRange", a)>>,
          <<Loop("RevalidatePvE", a), Loop("RevalidatePvP", a)>>,
          <<Loop("Update", a)>>,
          <<Task("UpdateVictim", a, Nobody)>>} \subseteq Seq(Pointless)
<1>1. ASSUME NEW do \in Loops
      PROVE  Loop(do, a) \in Pointless
  <2>1. do \notin OfTwo /\ do # "SuppressPvPCombat"
    BY DEF Loops, OfTwo, OfReference
  <2>2. /\ Loop(do, a) \in Tasks /\ Loop(do, a).do = do
        /\ Loop(do, a).b = Nobody /\ Loop(do, a).live
    BY DEF Loop, Task, Tasks
  <2>3. Nobody \notin Units
    BY UnitsAssumption DEF UnitsAssumption
  <2> QED
    BY <2>1, <2>2, <2>3 DEF Pointless, GoodTasks, PointsAt
<1>2. Task("UpdateVictim", a, Nobody) \in Pointless
  <2>1. Task("UpdateVictim", a, Nobody) \in Calm
    BY CalmTask DEF OfTwo, OfReference
  <2> QED
    BY <2>1 DEF Calm, Pointless, PointsAt
<1>3. /\ Loop("EndPvEBeyondRange", a) \in Pointless /\ Loop("EndPvPBeyondRange", a) \in Pointless
      /\ Loop("RevalidatePvE", a) \in Pointless /\ Loop("RevalidatePvP", a) \in Pointless
      /\ Loop("Update", a) \in Pointless
  BY <1>1 DEF Loops
<1>4. \A t, u \in Pointless : <<t>> \in Seq(Pointless) /\ <<t, u>> \in Seq(Pointless)
  OBVIOUS
<1> QED
  BY <1>2, <1>3, <1>4, Zenon

LEMMA EndCombatParts ==
  ASSUME NEW p \in Units \X Units
  PROVE  /\ EndCombat(p) \in Seq(GoodTasks) /\ Len(EndCombat(p)) = 3
         /\ \A i \in 1 .. 3 :
              /\ EndCombat(p)[i].live /\ EndCombat(p)[i].do \in OfReference
              /\ EndCombat(p)[i].a = p[1] /\ EndCombat(p)[i].b = p[2]
              /\ EndCombat(p)[i].do = "EndCombatPurge" => i = 3
<1> DEFINE e == EndCombat(p)
<1>1. /\ e \in Seq(GoodTasks) /\ Len(e) = 3
      /\ e[1] = Task("EndCombatFirst", p[1], p[2])
      /\ e[2] = Task("EndCombatSecond", p[1], p[2])
      /\ e[3] = Task("EndCombatPurge", p[1], p[2])
  BY EndCombatGood
<1> HIDE DEF e
<1>2. \A i \in {1, 2, 3} :
        /\ e[i].live /\ e[i].do \in OfReference
        /\ e[i].a = p[1] /\ e[i].b = p[2]
        /\ e[i].do = "EndCombatPurge" => i = 3
  BY <1>1 DEF Task, OfReference
<1>3. \A i \in 1 .. 3 : i \in {1, 2, 3}
  OBVIOUS
<1> QED
  BY <1>1, <1>2, <1>3 DEF e

(* The parts of two EndCombats of one unit, or of one.                     *)
Collected(s, a, b, c) ==
  /\ Len(s) = 3 \/ (Len(s) = 6 /\ b # c)
  /\ \A i \in 1 .. Len(s) :
       /\ s[i].live /\ s[i].do \in OfReference
       /\ s[i].a = a /\ s[i].b = (IF i <= 3 THEN b ELSE c)
       /\ s[i].do = "EndCombatPurge" => i = 3 \/ i = 6

LEMMA TwoCollected ==
  ASSUME NEW e \in Seq(GoodTasks), NEW f \in Seq(GoodTasks),
         NEW a, NEW b, NEW c, b # c,
         Len(e) = 3, Len(f) = 3, Collected(e, a, b, b), Collected(f, a, c, c)
  PROVE  Collected(e \o f, a, b, c)
<1> DEFINE g == e \o f
<1>1. /\ Len(g) = 6
      /\ \A i \in 1 .. 6 : g[i] = IF i <= 3 THEN e[i] ELSE f[i - 3]
  <2>1. /\ Len(e \o f) = Len(e) + Len(f)
        /\ \A i \in 1 .. Len(e) + Len(f) :
              (e \o f)[i] = IF i <= Len(e) THEN e[i] ELSE f[i - Len(e)]
    BY ConcatProperties
  <2> QED
    BY <2>1
<1> HIDE DEF g
<1>2. ASSUME NEW i \in 1 .. 6
      PROVE  /\ g[i].live /\ g[i].do \in OfReference
             /\ g[i].a = a /\ g[i].b = (IF i <= 3 THEN b ELSE c)
             /\ g[i].do = "EndCombatPurge" => i = 3 \/ i = 6
  <2>1. CASE i <= 3
    <3>1. i \in 1 .. Len(e) /\ g[i] = e[i]
      BY <1>1, <2>1
    <3>2. /\ e[i].live /\ e[i].do \in OfReference /\ e[i].a = a /\ e[i].b = b
          /\ e[i].do = "EndCombatPurge" => i = 3 \/ i = 6
      BY <3>1 DEF Collected
    <3> QED
      BY <2>1, <3>1, <3>2
  <2>2. CASE i > 3
    <3>1. i - 3 \in 1 .. Len(f) /\ ~(i <= 3)
      BY <2>2
    <3>2. g[i] = f[i - 3]
      BY <1>1, <3>1
    <3>3. /\ f[i - 3].live /\ f[i - 3].do \in OfReference /\ f[i - 3].a = a
          /\ f[i - 3].b = c
          /\ f[i - 3].do = "EndCombatPurge" => i - 3 = 3 \/ i - 3 = 6
      BY <3>1 DEF Collected
    <3>4. i - 3 = 3 \/ i - 3 = 6 => i = 6
      BY <2>2
    <3> QED
      BY <3>1, <3>2, <3>3, <3>4
  <2> QED
    BY <2>1, <2>2
<1>3. Collected(g, a, b, c)
  BY <1>1, <1>2 DEF Collected
<1> QED
  BY <1>3 DEF g

LEMMA CollectedHold ==
  ASSUME NEW a \in Units, NEW b \in Units, NEW c \in Units,
         Referenced(a, b)', Referenced(a, c)', Collected(stack', a, b, c)
  PROVE  CallsHold'
<1>1. /\ Len(stack') = 3 \/ (Len(stack') = 6 /\ b # c)
      /\ \A i \in 1 .. Len(stack') :
           /\ stack'[i].live /\ stack'[i].do \in OfReference
           /\ stack'[i].a = a /\ stack'[i].b = (IF i <= 3 THEN b ELSE c)
           /\ stack'[i].do = "EndCombatPurge" => i = 3 \/ i = 6
  BY DEF Collected
<1>2. \A i \in 1 .. Len(stack') : stack'[i].do # "SuppressPvPCombat"
  BY <1>1 DEF OfReference
<1>3. ASSUME NEW i \in 1 .. Len(stack'), NEW x \in Units, NEW y \in Units,
             PointsAt(stack'[i], x, y)
      PROVE  /\ Referenced(x, y)'
             /\ \A j \in 1 .. i - 1 : ~MayEnd(stack'[j], x, y)
  <2>1. x = a /\ y = (IF i <= 3 THEN b ELSE c)
    BY <1>1, <1>3 DEF PointsAt
  <2>2. ASSUME NEW j \in 1 .. i - 1, MayEnd(stack'[j], x, y)
        PROVE  FALSE
    <3>1. j \in 1 .. Len(stack') /\ j < i /\ i <= Len(stack')
      BY <1>1, <2>2
    <3>2. stack'[j].do \in OfReference
      BY <1>1, <3>1
    <3>3. /\ stack'[j].do = "EndCombatPurge"
          /\ {stack'[j].a, stack'[j].b} = {x, y}
      BY <2>2, <3>2 DEF MayEnd, OfReference, EndAlls, Loops
    <3>4. j = 3 \/ j = 6
      BY <1>1, <3>1, <3>3
    <3>5. j = 3 /\ ~(i <= 3) /\ b # c
      BY <1>1, <3>1, <3>4, SMTT(20)
    <3>6. stack'[j].a = a /\ stack'[j].b = b /\ x = a /\ y = c
      BY <1>1, <2>1, <3>1, <3>5
    <3>7. {a, b} = {a, c}
      BY <3>3, <3>6
    <3> QED
      BY <3>5, <3>7
  <2>3. Referenced(x, y)'
    BY <2>1
  <2> QED
    BY <2>2, <2>3
<1> QED
  BY <1>1, <1>2, <1>3 DEF CallsHold, PointsAt, MayEnd

(* References collected first are not ended by each other.                 *)
LEMMA EndSomeHolds ==
  ASSUME NEW a \in Units, NEW b \in Units, NEW c \in Units,
         UNCHANGED refs, b \in pve[a], c \in pve[a],
         stack' = IF b = c THEN EndCombat(<<a, b>>)
                  ELSE EndCombat(<<a, b>>) \o EndCombat(<<a, c>>)
  PROVE  CallsHold'
<1> DEFINE e == EndCombat(<<a, b>>)
           f == EndCombat(<<a, c>>)
<1>1. ASSUME NEW y \in Units
      PROVE  /\ EndCombat(<<a, y>>) \in Seq(GoodTasks)
             /\ Len(EndCombat(<<a, y>>)) = 3
             /\ Collected(EndCombat(<<a, y>>), a, y, y)
  <2> DEFINE p == <<a, y>>
  <2>1. p \in Units \X Units /\ p[1] = a /\ p[2] = y
    OBVIOUS
  <2> HIDE DEF p
  <2>2. EndCombat(p) \in Seq(GoodTasks) /\ Len(EndCombat(p)) = 3
    BY <2>1, EndCombatParts
  <2>3. \A i \in 1 .. 3 :
             /\ EndCombat(p)[i].live /\ EndCombat(p)[i].do \in OfReference
             /\ EndCombat(p)[i].a = a /\ EndCombat(p)[i].b = y
             /\ EndCombat(p)[i].do = "EndCombatPurge" => i = 3
    BY <2>1, EndCombatParts
  <2>4. Collected(EndCombat(p), a, y, y)
    BY <2>2, <2>3 DEF Collected
  <2> QED
    BY <2>2, <2>4 DEF p
<1>2. /\ e \in Seq(GoodTasks) /\ Len(e) = 3 /\ Collected(e, a, b, b)
      /\ f \in Seq(GoodTasks) /\ Len(f) = 3 /\ Collected(f, a, c, c)
  BY <1>1
<1>3. IF b = c THEN stack' = e ELSE stack' = e \o f
  OBVIOUS
<1> HIDE DEF e, f
<1>4. Collected(stack', a, b, c)
  <2>1. CASE b = c
    BY <1>2, <1>3, <2>1
  <2>2. CASE b # c
    <3>1. Collected(e \o f, a, b, c)
      BY <1>2, <2>2, TwoCollected
    <3> QED
      BY <1>3, <2>2, <3>1
  <2> QED
    BY <2>1, <2>2
<1>5. Referenced(a, b)' /\ Referenced(a, c)'
  BY DEF Referenced, Fought, refs
<1> QED
  BY <1>4, <1>5, CollectedHold

LEMMA ExternalHolds ==
  ASSUME TypeInv, External
  PROVE  CallsHold'
<1>0. UNCHANGED refs
  BY TypesOfCalls
<1>1. PICK a \in Units :
        \/ \E b \in Units : Attack(a, b)
        \/ CombatStop(a) \/ UpdateUnit(a) \/ EndSome(a)
        \/ Remove(a) \/ Appear(a)
  BY DEF External
<1>2. ASSUME NEW b \in Units, Attack(a, b)
      PROVE  CallsHold'
  <2>1. PICK do \in {"SetInCombatWith", "EngageWithTarget"} : stack' = <<Task(do, a, b)>>
    BY <1>2 DEF Attack, Call
  <2>2. Task(do, a, b) \in Calm
    BY CalmTask
  <2>3. Task(do, a, b) \in Pointless
    BY <2>2 DEF Calm, Pointless, PointsAt
  <2>4. <<Task(do, a, b)>> \in Seq(Pointless)
    BY <2>3
  <2> QED
    BY <2>1, <2>4, PointlessHolds
<1>3. ASSUME CombatStop(a) \/ Remove(a)
      PROVE  CallsHold'
  <2>1. \/ stack' = EndAllCombat(a)
        \/ a \in Vanishing /\ stack' = EndAllPvE(a) \o <<Task("SuppressPvPCombat", a, Nobody)>>
        \/ stack' = EndAllCombat(a) \o <<Task("EngagementOver", a, Nobody)>>
    BY <1>3 DEF CombatStop, Remove, Call
  <2> QED
    BY <2>1, StopIsPointless, PointlessHolds
<1>4. ASSUME UpdateUnit(a)
      PROVE  CallsHold'
  <2>1. stack' \in {<<Loop("EndPvEBeyondRange", a), Loop("EndPvPBeyondRange", a)>>,
                    <<Loop("RevalidatePvE", a), Loop("RevalidatePvP", a)>>,
                    <<Loop("Update", a)>>,
                    <<Task("UpdateVictim", a, Nobody)>>}
    BY <1>4 DEF UpdateUnit, Call
  <2>2. stack' \in Seq(Pointless)
    BY <2>1, UpdateIsPointless, Zenon
  <2> QED
    BY <2>2, PointlessHolds
<1>5. ASSUME EndSome(a)
      PROVE  CallsHold'
  <2>1. pve[a] \subseteq Units
    BY DEF TypeInv, TypeOK
  <2>2. PICK b \in pve[a], c \in pve[a] :
          stack' = IF b = c THEN EndCombat(<<a, b>>)
                   ELSE EndCombat(<<a, b>>) \o EndCombat(<<a, c>>)
    BY <1>5 DEF EndSome, Call
  <2>3. b \in Units /\ c \in Units
    BY <2>1
  <2> QED
    BY <1>0, <2>2, <2>3, EndSomeHolds
<1>6. ASSUME Appear(a)
      PROVE  CallsHold'
  <2>1. stack' = <<>> /\ stack = <<>>
    BY <1>6 DEF Appear
  <2>2. <<>> \in Seq(Pointless)
    OBVIOUS
  <2> QED
    BY <2>1, <2>2, PointlessHolds
<1> QED
  BY <1>1, <1>2, <1>3, <1>4, <1>5, <1>6

HoldInv == CallsHold /\ VanishOnly /\ FlagCovers /\ NoneFightsItself

(* A step that begins no reference, and leaves the flags alone, leaves     *)
(* them right.                                                             *)
LEMMA FewerReferences ==
  ASSUME VanishOnly, FlagCovers, NoneFightsItself,
         inCombat' = inCombat, suppressed' = suppressed,
         \A u \in Units : pve'[u] \subseteq pve[u] /\ pvp'[u] \subseteq pvp[u]
  PROVE  VanishOnly' /\ FlagCovers' /\ NoneFightsItself'
<1>1. \A u \in Units : HasCombat(u)' => HasCombat(u)
  BY DEF HasCombat
<1>2. \A u \in Units : Fought(u, u)' => Fought(u, u)
  BY DEF Fought
<1> QED
  BY <1>1, <1>2 DEF VanishOnly, FlagCovers, NoneFightsItself

LEMMA FlagsOfStep ==
  ASSUME TypeInv, RefInv, HoldInv,
         SetInCombatWith \/ EndCombatPurge \/ SuppressPvPCombat
  PROVE  VanishOnly' /\ FlagCovers' /\ NoneFightsItself'
<1>0. CallsHold /\ VanishOnly /\ FlagCovers /\ NoneFightsItself
  BY DEF HoldInv
<1>1. FlagCovers'
  <2>1. Agree'
    BY SetInCombatWithAgrees, EndCombatPurgeAgrees, SuppressPvPCombatAgrees
  <2> QED
    BY <2>1 DEF Agree, FlagIsRight, FlagCovers
<1>2. /\ pve \in [Units -> SUBSET Units]
      /\ pvp \in [Units -> SUBSET Units]
      /\ suppressed \in [Units -> SUBSET Units]
  BY TypesOfData DEF TypeInv, DataOK
<1>3. CASE SetInCombatWith
  <2>1. PICK do \in {"SetInCombatWith", "EngageWithTarget"} : Top(do)
    BY <1>3 DEF SetInCombatWith
  <2>2. PICK a \in Units, b \in Units : Head(stack).a = a /\ Head(stack).b = b
    BY <2>1, TopFacts DEF Top, OfTwo
  <2>3. /\ suppressed' = suppressed \/ suppressed' = Purge(suppressed, a, b)
        /\ \/ UNCHANGED <<pve, pvp>>
           \/ /\ a # b
              /\ pve' = pve \/ pve' = Put(pve, a, b)
              /\ pvp' = pvp \/ pvp' = Put(pvp, a, b)
    BY <1>3, <2>2 DEF SetInCombatWith, refs, CanBeginCombat
  <2>4. \A u \in Units : suppressed'[u] \subseteq suppressed[u]
    <3> TAKE u \in Units
    <3>1. Purge(suppressed, a, b)[u] =
            (suppressed[u] \ (IF u = a THEN {b} ELSE {})) \ (IF u = b THEN {a} ELSE {})
      BY <1>2, PurgeFacts
    <3> QED
      BY <2>3, <3>1
  <2>5. VanishOnly'
    BY <1>0, <2>4 DEF VanishOnly
  <2>6. CASE UNCHANGED <<pve, pvp>>
    BY <1>0, <1>1, <2>5, <2>6 DEF NoneFightsItself, Fought
  <2>7. CASE /\ a # b
             /\ pve' = pve \/ pve' = Put(pve, a, b)
             /\ pvp' = pvp \/ pvp' = Put(pvp, a, b)
    <3>1. ASSUME NEW map \in {pve, pvp}, NEW u \in Units, u \notin map[u]
          PROVE  u \notin Put(map, a, b)[u]
      <4>1. map \in [Units -> SUBSET Units]
        BY <1>2, <3>1
      <4>2. Put(map, a, b)[u] =
              map[u] \cup (IF u = a THEN {b} ELSE {}) \cup (IF u = b THEN {a} ELSE {})
        BY <4>1, PutFacts
      <4> QED
        BY <2>7, <3>1, <4>2
    <3> QED
      BY <1>0, <1>1, <2>5, <2>7, <3>1 DEF NoneFightsItself, Fought
  <2> QED
    BY <2>3, <2>6, <2>7
<1>4. CASE EndCombatPurge
  <2>1. PICK a \in Units, b \in Units : Head(stack).a = a /\ Head(stack).b = b
    BY <1>4, TopFacts DEF EndCombatPurge, Top, OfTwo, OfReference
  <2>2. /\ pve' = IF IsPvP(a, b) THEN pve ELSE Purge(pve, a, b)
        /\ pvp' = IF IsPvP(a, b) THEN Purge(pvp, a, b) ELSE pvp
        /\ suppressed' = Purge(suppressed, a, b)
    BY <1>4, <2>1 DEF EndCombatPurge
  <2>3. \A x \in Units : /\ pve'[x] \subseteq pve[x]
                         /\ pvp'[x] \subseteq pvp[x]
                         /\ suppressed'[x] \subseteq suppressed[x]
    BY <2>2, PurgedMaps
  <2> QED
    BY <1>0, <1>1, <2>3 DEF VanishOnly, NoneFightsItself, Fought
<1>5. CASE SuppressPvPCombat
  <2>1. /\ stack # <<>> /\ stack[1].do = "SuppressPvPCombat"
        /\ Head(stack).a = stack[1].a
    BY <1>5, TopFacts DEF SuppressPvPCombat, Top
  <2>2. stack[1].a \in Vanishing
    <3>1. 1 \in 1 .. Len(stack)
      BY <2>1, TailFacts DEF TypeInv
    <3> QED
      BY <1>0, <2>1, <3>1 DEF CallsHold
  <2>3. /\ suppressed' = [suppressed EXCEPT ![stack[1].a] = pvp[stack[1].a]]
        /\ UNCHANGED <<pve, pvp>>
    BY <1>5, <2>1 DEF SuppressPvPCombat
  <2>4. VanishOnly'
    BY <1>0, <1>2, <2>2, <2>3 DEF VanishOnly
  <2> QED
    BY <1>0, <1>1, <2>3, <2>4 DEF NoneFightsItself, Fought
<1> QED
  BY <1>3, <1>4, <1>5

LEMMA HoldInvInternal ==
  ASSUME CombatInv, HoldInv, EvadesLate, Evading \cap Vanishing = {}, Internal
  PROVE  HoldInv'
<1>0. /\ TypeInv /\ RefInv
      /\ CallsHold /\ VanishOnly /\ FlagCovers /\ NoneFightsItself
  BY DEF CombatInv, HoldInv
<1>1. CASE SetInCombatWith \/ EndCombatPurge \/ SuppressPvPCombat
  <2>1. VanishOnly' /\ FlagCovers' /\ NoneFightsItself'
    BY <1>0, <1>1, FlagsOfStep
  <2>2. CallsHold'
    BY <1>0, <1>1, CalmStepsHold, PurgeHolds, SuppressHolds
  <2> QED
    BY <2>1, <2>2 DEF HoldInv
<1>2. CASE \E do \in Loops : LoopStep(do)
  <2>1. PICK do \in Loops : LoopStep(do)
    BY <1>2
  <2>2. CallsHold'
    BY <1>0, <2>1, LoopHolds
  <2>3. inCombat' = inCombat /\ suppressed' = suppressed
    BY <2>1 DEF LoopStep, refs
  <2>4. \A u \in Units : pve'[u] \subseteq pve[u] /\ pvp'[u] \subseteq pvp[u]
    <3>1. PICK a \in Units, b \in Units \cup {Nobody} :
            \/ UNCHANGED <<pve, pvp>>
            \/ /\ pve' = [pve EXCEPT ![a] = @ \ {b}]
               /\ pvp' = [pvp EXCEPT ![a] = @ \ {b}]
      BY <1>0, <2>1, LoopMoves
    <3>2. pve \in [Units -> SUBSET Units] /\ pvp \in [Units -> SUBSET Units]
      BY <1>0, TypesOfData DEF TypeInv, DataOK
    <3> QED
      BY <3>1, <3>2
  <2> QED
    BY <1>0, <2>2, <2>3, <2>4, FewerReferences DEF HoldInv
<1>3. CASE Bystander
  <2>1. UNCHANGED <<refs, inCombat>> /\ stack # <<>>
    BY <1>0, <1>3, BystanderFacts
  <2>2. VanishOnly' /\ FlagCovers' /\ NoneFightsItself'
    BY <1>0, <2>1, FewerReferences DEF refs
  <2>3. CallsHold'
    <3>1. CASE EndAllPvECombat \/ EndAllPvPCombat
      BY <1>0, <3>1, EndAllHolds
    <3>2. CASE React
      <4>1. CASE \E new \in Seq(Calm) : Then(new)
        BY <1>0, <3>2, <4>1, CalmStepsHold
      <4>2. CASE /\ stack[1].do = "JustExitedCombat" /\ stack[1].a \in Evading
                 /\ Then(EndAllCombat(stack[1].a)
                         \o <<Task("EngagementOver", stack[1].a, Nobody)>>)
        <5>1. UNCHANGED refs
          BY <2>1
        <5> QED
          BY <1>0, <2>1, <4>2, <5>1, EvadeHolds
      <4> QED
        BY <1>0, <3>2, <4>1, <4>2, ReactOrEvade
    <3>3. CASE \/ ClearThreatTask \/ AddThreat \/ UpdateVictim \/ ProcessAIUpdates
               \/ RemoveMeFromThreatLists \/ ClearAllThreat \/ EngagementOver
      BY <1>0, <3>3, CalmStepsHold
    <3> QED
      BY <1>3, <3>1, <3>2, <3>3 DEF Bystander
  <2> QED
    BY <2>2, <2>3 DEF HoldInv
<1> QED
  BY <1>1, <1>2, <1>3 DEF Internal, Bystander

LEMMA HoldInvStep ==
  ASSUME CombatInv, HoldInv, EvadesLate, Evading \cap Vanishing = {}, [Next]_vars
  PROVE  HoldInv'
<1>0. TypeInv /\ CallsHold /\ VanishOnly /\ FlagCovers /\ NoneFightsItself
  BY DEF CombatInv, HoldInv
<1>1. CASE Internal
  BY <1>1, HoldInvInternal
<1>2. CASE External
  <2>1. UNCHANGED <<refs, inCombat>>
    BY <1>0, <1>2, TypesOfCalls
  <2>2. VanishOnly' /\ FlagCovers' /\ NoneFightsItself'
    BY <1>0, <2>1, FewerReferences DEF refs
  <2>3. CallsHold'
    BY <1>0, <1>2, ExternalHolds
  <2> QED
    BY <2>2, <2>3 DEF HoldInv
<1>3. CASE UNCHANGED vars
  <2>1. UNCHANGED <<refs, inCombat>> /\ stack' = stack
    BY <1>3 DEF vars
  <2>2. VanishOnly' /\ FlagCovers' /\ NoneFightsItself'
    BY <1>0, <2>1, FewerReferences DEF refs
  <2>3. CallsHold'
    <3>1. \A x, y \in Units : Referenced(x, y)' <=> Referenced(x, y)
      BY <2>1 DEF Referenced, Fought, refs
    <3>2. ASSUME NEW i \in 1 .. Len(stack)
          PROVE  /\ stack'[i].live
                 /\ stack'[i].do = "SuppressPvPCombat" => stack'[i].a \in Vanishing
                 /\ \A x, y \in Units : PointsAt(stack'[i], x, y) =>
                      /\ Referenced(x, y)'
                      /\ \A j \in 1 .. i - 1 : ~MayEnd(stack'[j], x, y)
      BY <1>0, <2>1, <3>1 DEF CallsHold
    <3>3. stack' = stack
      BY <2>1
    <3> QED
      BY <3>2, <3>3 DEF CallsHold, PointsAt, MayEnd
  <2> QED
    BY <2>2, <2>3 DEF HoldInv
<1> QED
  BY <1>1, <1>2, <1>3 DEF Next

LEMMA HoldInvInit == Init => HoldInv
BY DEF Init, HoldInv, CallsHold, VanishOnly, FlagCovers, HasCombat,
       NoneFightsItself, Fought

(* No call goes on with a reference or an iterator that was deleted while  *)
(* it waited, and no unit gets a second reference with another, whatever   *)
(* the AIs do, if those that evade do so when combat is over, and none of  *)
(* them is of a unit that vanishes (CombatManager.cpp:48, :260, :287).     *)
THEOREM NothingIsLeftDangling ==
  ReactsInEndCombat = FALSE /\ EvadesLate /\ Evading \cap Vanishing = {} =>
     (Spec => []NothingDangles)
<1> SUFFICES ASSUME ReactsInEndCombat = FALSE, EvadesLate, Evading \cap Vanishing = {}
             PROVE  Spec => []NothingDangles
  OBVIOUS
<1>1. Init => CombatInv /\ HoldInv /\ NoneTwice
  BY CombatInvInit, HoldInvInit DEF Init, NoneTwice
<1>2. CombatInv /\ HoldInv /\ NoneTwice /\ [Next]_vars => (CombatInv /\ HoldInv /\ NoneTwice)'
  BY CombatInvStep, HoldInvStep, NoneTwiceStep
<1>3. CombatInv /\ HoldInv /\ NoneTwice => NothingDangles
  <2> SUFFICES ASSUME CombatInv, HoldInv, NoneTwice, stack # <<>>
               PROVE  Head(stack).live
    BY DEF NothingDangles, Crashed, NoneTwice
  <2>1. 1 \in 1 .. Len(stack) /\ Head(stack) = stack[1]
    BY TailFacts DEF CombatInv, TypeInv
  <2> QED
    BY <2>1 DEF HoldInv, CallsHold
<1> QED
  BY <1>1, <1>2, <1>3, PTL DEF Spec
=============================================================================
