-------------------------- MODULE MCGatewaySession --------------------------
(***************************************************************************)
(* Small instances of GatewaySession: four events and four faults are    *)
(* enough to lose a session, break the first connection of the next one    *)
(* and resume it.                                                          *)
(***************************************************************************)
EXTENDS GatewaySession
=============================================================================
