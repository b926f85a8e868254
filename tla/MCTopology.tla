---------------------------- MODULE MCTopology ----------------------------
(***************************************************************************)
(* Small instances of Topology: two friends of the same name, two DMs      *)
(* whose IDs end alike, three channels in an array that a delete shifts,   *)
(* one named like another one with its suffix, and two goroutines that     *)
(* send.                                                                   *)
(***************************************************************************)
EXTENDS Topology, TLC

ABase == <<"a">>
BBase == <<"a", "k1">>
MCBases == {ABase, BBase}
MCBoot ==
  [friends  |-> ("u1" :> ABase @@ "u2" :> ABase),
   dms      |-> <<>>,
   channels |-> <<[id |-> "k1", base |-> ABase],
                  [id |-> "k2", base |-> BBase],
                  [id |-> "k3", base |-> ABase]>>]

MCDMOf == "u1" :> "d1" @@ "u2" :> "d2"
MCShort ==
  [i \in {"u1", "u2", "d1", "d2", "k1", "k2", "k3", "g"} |-> IF i = "d2" THEN "d1" ELSE i]
=============================================================================
