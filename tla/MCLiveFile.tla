----------------------------- MODULE MCLiveFile -----------------------------
(***************************************************************************)
(* Small instances of LiveFile for TLC.  Subscriptions, each of which can  *)
(* follow either channel or both, goroutines that read, a channel that is  *)
(* full after one or two events and records fetched in one read or two.    *)
(***************************************************************************)
EXTENDS LiveFile, TLC

\* The code names neither goroutines nor subscriptions.
Symmetry == Permutations(Subs) \cup Permutations(Calls) \cup Permutations(Channels)
=============================================================================
