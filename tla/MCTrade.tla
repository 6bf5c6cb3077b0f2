------------------------------- MODULE MCTrade -------------------------------
(* Small instances of Trade: two players with an item each, and a third.   *)
EXTENDS Trade, TLC

CONSTANTS ann, bob, eve, sword, ring, spell

OwnerInstance == [i \in Items |-> IF i = sword THEN ann ELSE bob]

\* The owners may be exchanged, with their items: all the properties are of
\* states or of single steps, and none names a player.
OwnersAreAlike ==
    {f \in Permutations({ann, bob, sword, ring}) :
        \/ \A x \in {ann, bob, sword, ring} : f[x] = x
        \/ f[ann] = bob /\ f[bob] = ann /\ f[sword] = ring /\ f[ring] = sword}
=============================================================================
