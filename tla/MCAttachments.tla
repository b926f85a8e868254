--------------------------- MODULE MCAttachments ---------------------------
(***************************************************************************)
(* A small instance of Attachments: two messages, of which the history     *)
(* shows one; the first has two attachments of one name and one called     *)
(* info.json.                                                              *)
(***************************************************************************)
EXTENDS Attachments

MCMessageOf == [a \in Atts |-> IF a = "b1" THEN 2 ELSE 1]
MCBase == [a \in Atts |-> IF a = "a3" THEN <<"info.json">> ELSE <<"cat.png">>]
MCShort == [a \in Atts |-> a]
=============================================================================
