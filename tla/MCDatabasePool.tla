--------------------------- MODULE MCDatabasePool ---------------------------
(* Small instances of DatabasePool.                                        *)
EXTENDS DatabasePool

CONSTANTS w1, w2,            \* workers
          x1, x2,            \* calling threads
          c1, c2,            \* synchronous connections
          t1, t2, t3, t4, t5,  \* transactions
          s1                 \* a single statement

(* t1 and t2 have two statements, t4 and t5 one, t3 none.                  *)
Sizes == [t \in Operations |-> CASE t \in {t1, t2} -> 2 [] t = t3 -> 0 [] OTHER -> 1]
=============================================================================
