---------------------------- MODULE MCPresence ----------------------------
(***************************************************************************)
(* Small instances of Presence: two writers, of one file or of two.        *)
(***************************************************************************)
EXTENDS Presence
=============================================================================
