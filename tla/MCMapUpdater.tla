---------------------------- MODULE MCMapUpdater ----------------------------
(* Small instances of MapUpdater.                                          *)
EXTENDS MapUpdater

CONSTANTS m1, m2, m3, m4,      \* maps
          w1, w2, w3           \* threads
=============================================================================
