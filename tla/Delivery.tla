------------------------------ MODULE Delivery ------------------------------
(***************************************************************************)
(* What a program is promised of a Close, without buffers, pieces,         *)
(* parsers, uploads, refusals and repeated requests: it has one moment.    *)
(* Until then nobody sees anything of the letter; at that moment the       *)
(* message is there as a whole, or the Close has failed; and after it the  *)
(* Close does nothing more.                                                *)
(***************************************************************************)
EXTENDS Integers

CONSTANTS Fids, Messages

VARIABLES
  meant,   \* [Fids -> the message that the program means]
  exact,   \* [Fids -> the letter has come as it was written, and says it]
  sent,    \* [Fids -> what the Close has sent: one message at most]
  answer   \* [Fids -> what the Close has returned]

deliveryVars == <<meant, exact, sent, answer>>

Init ==
  /\ meant \in [Fids -> Messages]
  /\ exact \in [Fids -> BOOLEAN]
  /\ sent = [f \in Fids |-> <<>>]
  /\ answer = [f \in Fids |-> "none"]

\* A piece of the letter is refused, or was never written.
Slip(f) ==
  /\ exact' = [exact EXCEPT ![f] = FALSE]
  /\ UNCHANGED <<meant, sent, answer>>

\* The program may be told of a failure although the message was sent, but never of a success when
\* it was not.
Deliver(f) ==
  /\ answer[f] = "none" /\ sent[f] = <<>>
  /\ sent'[f] \in IF exact[f] THEN {<<meant[f]>>} ELSE [1..1 -> Messages]
  /\ sent' = [sent EXCEPT ![f] = sent'[f]]
  /\ \E result \in {"ok", "error"} : answer' = [answer EXCEPT ![f] = result]
  /\ UNCHANGED <<meant, exact>>

Fail(f) ==
  /\ answer[f] = "none" /\ sent[f] = <<>>
  /\ answer' = [answer EXCEPT ![f] = "error"]
  /\ exact' \in {exact, [exact EXCEPT ![f] = FALSE]}
  /\ UNCHANGED <<meant, sent>>

Next == \E f \in Fids : Slip(f) \/ Deliver(f) \/ Fail(f)

Spec == Init /\ [][Next]_deliveryVars
=============================================================================
