-------------------------- MODULE MCWorldSessions --------------------------
(* Small instances of WorldSessions.  A session object is named for the    *)
(* account it serves: two for the account that reconnects while online.    *)
EXTENDS WorldSessions, TLC

CONSTANTS ann, bob, gm,        \* accounts; gm may skip the queue
          a1, a2, b1, g1,      \* sessions
          c1, c2, c3           \* characters: two of ann, one of bob

OwnerInstance == (a1 :> ann) @@ (a2 :> ann) @@ (b1 :> bob) @@ (g1 :> gm)
AccountOfInstance == [s \in Sessions |-> OwnerInstance[s]]
OwnerOfInstance == [c \in Chars |-> IF c = c3 THEN bob ELSE ann]
=============================================================================
