-------------------------- MODULE TransactionStore --------------------------
(***************************************************************************)
(* What the users of a database pool rely on: an operation takes effect as *)
(* a whole or not at all, at most once, and its outcome tells which.       *)
(***************************************************************************)
CONSTANTS
  Operations,
  RowsOf(_)      \* what an operation writes

VARIABLES
  stored,        \* the rows the database keeps
  outcome        \* what became of each operation

Init ==
  /\ stored = {}
  /\ outcome = [t \in Operations |-> "none"]

Store(t) ==
  /\ outcome[t] = "none"
  /\ RowsOf(t) \cap stored = {}
  /\ stored' = stored \cup RowsOf(t)
  /\ UNCHANGED outcome

Succeed(t) ==
  /\ outcome[t] = "none"
  /\ RowsOf(t) \subseteq stored
  /\ outcome' = [outcome EXCEPT ![t] = "done"]
  /\ UNCHANGED stored

Fail(t) ==
  /\ outcome[t] = "none"
  /\ RowsOf(t) \cap stored = {}
  /\ outcome' = [outcome EXCEPT ![t] = "failed"]
  /\ UNCHANGED stored

(* At the end the operations that never began are thrown away.             *)
Drop(T) ==
  /\ \A t \in T : outcome[t] = "none" /\ RowsOf(t) \cap stored = {}
  /\ outcome' = [t \in Operations |-> IF t \in T THEN "dropped" ELSE outcome[t]]
  /\ UNCHANGED stored

Next ==
  \/ \E t \in Operations : Store(t) \/ Succeed(t) \/ Fail(t)
  \/ \E T \in SUBSET Operations : Drop(T)

Spec == Init /\ [][Next]_<<stored, outcome>>

=============================================================================
