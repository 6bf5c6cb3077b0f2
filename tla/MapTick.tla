------------------------------ MODULE MapTick ------------------------------
(***************************************************************************)
(* What an update of the maps promises, whoever runs it: every map on the  *)
(* list is settled exactly once - updated, destroyed, or passed over for   *)
(* the players it still has - and the delayed updates, which move objects  *)
(* between cells and maps, only start when all of them are.                *)
(***************************************************************************)
CONSTANT Maps

VARIABLES
  phase,     \* between updates, updating, delayed updates, the end
  live,      \* the maps that exist
  owed       \* the maps this update has not settled

tickVars == <<phase, live, owed>>

Init ==
  /\ phase = "idle"
  /\ live = {}
  /\ owed = {}

Create(m) ==
  /\ phase = "idle"
  /\ live' = live \cup {m}
  /\ UNCHANGED <<phase, owed>>

Begin ==
  /\ phase = "idle"
  /\ phase' = "update"
  /\ owed' = live
  /\ UNCHANGED live

(* Updated by some thread, or passed over.                                 *)
Settle(m) ==
  /\ phase = "update"
  /\ m \in owed
  /\ owed' = owed \ {m}
  /\ UNCHANGED <<phase, live>>

Destroy(m) ==
  /\ phase = "update"
  /\ m \in owed
  /\ owed' = owed \ {m}
  /\ live' = live \ {m}
  /\ UNCHANGED phase

Delay ==
  /\ phase = "update"
  /\ owed = {}
  /\ phase' = "delayed"
  /\ UNCHANGED <<live, owed>>

End ==
  /\ phase = "delayed"
  /\ phase' = "idle"
  /\ UNCHANGED <<live, owed>>

UnloadAll ==
  /\ phase = "idle"
  /\ phase' = "end"
  /\ live' = {}
  /\ UNCHANGED owed

Next ==
  \/ \E m \in Maps : Create(m) \/ Settle(m) \/ Destroy(m)
  \/ Begin \/ Delay \/ End \/ UnloadAll

Spec == Init /\ [][Next]_tickVars

=============================================================================
