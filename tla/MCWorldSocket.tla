---------------------------- MODULE MCWorldSocket ----------------------------
(***************************************************************************)
(* A socket whose network thread, world thread and one map send packets.   *)
(* The packet in Large does not fit into the send buffer.                  *)
(***************************************************************************)
EXTENDS WorldSocket

=============================================================================
