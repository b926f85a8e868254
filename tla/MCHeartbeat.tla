---------------------------- MODULE MCHeartbeat ----------------------------
(***************************************************************************)
(* A small instance of Heartbeat: a tick every two units, an ACK may take  *)
(* three and a write two, so that a tick may find a heartbeat waiting or   *)
(* being written, a timeout may come between two ticks, and a write may    *)
(* take a whole period; of the two heartbeats under way at a time, beside  *)
(* the ticker's, the server may have asked for both.                       *)
(***************************************************************************)
EXTENDS Heartbeat
=============================================================================
