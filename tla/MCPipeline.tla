----------------------------- MODULE MCPipeline -----------------------------
(***************************************************************************)
(* One open file, one goroutine that reads it, a hub channel that holds a  *)
(* single event, and enough events and faults to lose events on both sides *)
(* of the gateway: with the session and in the full channel.               *)
(***************************************************************************)
EXTENDS Pipeline, TLC

\* The code treats no conversation in a way of its own.
Symmetry == Permutations(Channels)
=============================================================================
