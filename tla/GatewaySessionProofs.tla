------------------------ MODULE GatewaySessionProofs ------------------------
(***************************************************************************)
(* Proofs about GatewaySession, for any number of events and faults and    *)
(* for any cap of the pauses.                                              *)
(***************************************************************************)
EXTENDS GatewaySession, WellFoundedInduction, TLAPS

\* What the fields of a payload hold.
LEMMA PayloadFields ==
  ASSUME NEW p \in Payload
  PROVE  /\ p.op = "READY" => p.s = 1 /\ p.session \in Nat /\ p.base \in Nat
         /\ p.op = "EVENT" => p.s \in Nat /\ p.event \in Nat
         /\ p.op = "INVALID_SESSION" => p.resumable \in BOOLEAN
BY DEF Payload

\* The payloads the server makes.
LEMMA PayloadsSent ==
  /\ \A o \in {"HELLO", "RESUMED", "RECONNECT", "CLOSE4004"} :
       [op |-> o] \in Payload /\ [op |-> o].op = o
  /\ \A x, y \in Nat : [op |-> "READY", s |-> 1, session |-> x, base |-> y] \in Payload
  /\ \A x, y \in Nat : [op |-> "EVENT", s |-> x, event |-> y] \in Payload
  /\ \A b \in BOOLEAN : [op |-> "INVALID_SESSION", resumable |-> b] \in Payload
BY DEF Payload

\* Requests.
LEMMA Requests ==
  /\ Nothing \in Request /\ [op |-> "IDENTIFY"] \in Request
  /\ \A x, y \in Nat : [op |-> "RESUME", session |-> x, seq |-> y] \in Request
  /\ [op |-> "IDENTIFY"] # Nothing
  /\ \A x, y \in Nat : [op |-> "RESUME", session |-> x, seq |-> y] # Nothing
  /\ Nothing.op \notin {"IDENTIFY", "RESUME"}
BY DEF Request, Nothing

(***************************************************************************)
(* A link with nothing on it, neither payloads nor a request, satisfies    *)
(* whatever is said of links.                                              *)
(***************************************************************************)
LEMMA EmptyLink ==
  inbox = <<>> /\ request = Nothing /\ attached = FALSE
    => DispatchesInOrder /\ AttachedUpToDate /\ RequestIsCurrent /\ LinkInPhase
<1> SUFFICES ASSUME inbox = <<>>, request = Nothing, attached = FALSE
             PROVE  DispatchesInOrder /\ AttachedUpToDate /\ RequestIsCurrent /\ LinkInPhase
  OBVIOUS
<1>1. Dispatches = {} /\ \A op : ~Awaits(op)
  BY DEF Dispatches, Awaits
<1>2. request.op \notin {"IDENTIFY", "RESUME"}
  BY Requests
<1> QED
  BY <1>1, <1>2 DEF DispatchesInOrder, AttachedUpToDate, RequestIsCurrent, LinkInPhase

\* The next pause stays within its bounds.
LEMMA BackoffType ==
  /\ 1 \in 1..BackoffCap
  /\ \A b \in 1..BackoffCap : (IF 2 * b > BackoffCap THEN BackoffCap ELSE 2 * b) \in 1..BackoffCap
BY GatewayAssumption DEF GatewayAssumption

(***************************************************************************)
(* The connection is given up (Leave of Gateway.connect), and the session  *)
(* is kept or given up with it.                                            *)
(***************************************************************************)
LEMMA LeaveKeepsIInv ==
  ASSUME IInv, Leave,
         \/ UNCHANGED <<sessionID, sequence, gapPending>>
         \/ sessionID' = NoSession /\ sequence' = 0 /\ gapPending' = TRUE,
         UNCHANGED <<session, started, log, base, accounted, joined, happened>>,
         recent' \in BOOLEAN, faults' \in 0..MaxFaults
  PROVE  IInv'
<1>1. DispatchesInOrder' /\ AttachedUpToDate' /\ RequestIsCurrent' /\ LinkInPhase'
  <2>1. (inbox = <<>> /\ request = Nothing /\ attached = FALSE)'
    BY DEF Leave
  <2> QED
    BY <2>1, EmptyLink, PTL
<1>2. TypeOK'
  <2>1. backoff' \in 1..BackoffCap
    BY BackoffType DEF Leave, IInv, TypeOK
  <2>2. pauses' \in Nat
    BY DEF Leave, CountPause, IInv, TypeOK
  <2>3. inbox' \in Seq(Payload) /\ request' \in Request
    BY Requests DEF Leave
  <2>4. sessionID' \in Nat \cup {NoSession} /\ sequence' \in Nat
    BY DEF IInv, TypeOK
  <2>5. gapPending' \in BOOLEAN /\ readySince' \in BOOLEAN /\ connected' \in BOOLEAN
        /\ broken' \in BOOLEAN /\ attached' \in BOOLEAN /\ joined' \in BOOLEAN
    BY Zenon DEF Leave, IInv, TypeOK
  <2> QED
    BY <2>1, <2>2, <2>3, <2>4, <2>5 DEF Leave, Phases, IInv, TypeOK
<1>3. ServerKeepsAll'
  BY DEF IInv, ServerKeepsAll
<1>4. ClientFollows'
  BY GatewayAssumption DEF GatewayAssumption, IInv, TypeOK, ServerKeepsAll, ClientFollows
<1>5. GapIsOwed'
  BY Zenon DEF IInv, GapIsOwed
<1> QED
  BY <1>1, <1>2, <1>3, <1>4, <1>5 DEF IInv
-----------------------------------------------------------------------------
\* What a payload more on the link changes.
LEMMA LinkAppend ==
  ASSUME inbox \in Seq(Payload), NEW p \in Payload, inbox' = Append(inbox, p)
  PROVE  /\ inbox' \in Seq(Payload)
         /\ Len(inbox') = Len(inbox) + 1 /\ Len(inbox) \in Nat
         /\ \A i \in 1..Len(inbox) : inbox'[i] = inbox[i]
         /\ inbox'[Len(inbox) + 1] = p
         /\ p.op \in {"READY", "EVENT"} => Dispatches' = Dispatches \cup {Len(inbox) + 1}
         /\ p.op \notin {"READY", "EVENT"} => Dispatches' = Dispatches
         /\ Awaits("HELLO")' => Awaits("HELLO") \/ p.op = "HELLO"
         /\ Awaits("CLOSE4004")' => Awaits("CLOSE4004") \/ p.op = "CLOSE4004"
<1>1. PICK n \in Nat : n = Len(inbox)
  OBVIOUS
<1>2. /\ inbox' \in Seq(Payload) /\ Len(inbox') = n + 1
      /\ \A i \in 1..n : inbox'[i] = inbox[i]
      /\ inbox'[n + 1] = p
  BY <1>1
<1>3. 1..(n + 1) = (1..n) \cup {n + 1} /\ n + 1 \notin 1..n
  OBVIOUS
<1>4. Dispatches' = {i \in 1..(n + 1) : inbox'[i].op \in {"READY", "EVENT"}}
  BY <1>2 DEF Dispatches
<1>5. Dispatches = {i \in 1..n : inbox[i].op \in {"READY", "EVENT"}}
  BY <1>1 DEF Dispatches
<1>6. \A i \in 1..(n + 1) : inbox'[i].op = IF i \in 1..n THEN inbox[i].op ELSE p.op
  BY <1>2, <1>3
<1>7. p.op \in {"READY", "EVENT"} => Dispatches' = Dispatches \cup {n + 1}
  BY <1>3, <1>4, <1>5, <1>6
<1>8. p.op \notin {"READY", "EVENT"} => Dispatches' = Dispatches
  BY <1>3, <1>4, <1>5, <1>6
<1>9. ASSUME NEW o, NEW i \in 1..(n + 1), inbox'[i].op = o
      PROVE  (\E k \in 1..n : inbox[k].op = o) \/ p.op = o
  BY <1>6, <1>9
<1> QED
  BY <1>1, <1>2, <1>7, <1>8, <1>9 DEF Awaits

\* What the reading of a payload changes: the others move up.
LEMMA LinkTail ==
  ASSUME inbox \in Seq(Payload), inbox # <<>>, inbox' = Tail(inbox)
  PROVE  /\ inbox' \in Seq(Payload)
         /\ Head(inbox) = inbox[1] /\ Head(inbox) \in Payload
         /\ 1 \in 1..Len(inbox)
         /\ Len(inbox) \in Nat /\ Len(inbox') = Len(inbox) - 1
         /\ \A i \in 1..Len(inbox') : i + 1 \in 1..Len(inbox) /\ inbox'[i] = inbox[i + 1]
         /\ \A i \in Dispatches' : i \in Nat /\ i + 1 \in Dispatches /\ inbox'[i] = inbox[i + 1]
         /\ \A i \in Dispatches : i # 1 => i \in Nat /\ i - 1 \in Dispatches'
                                          /\ inbox'[i - 1] = inbox[i]
         /\ Awaits("HELLO")' => \E i \in 2..Len(inbox) : inbox[i].op = "HELLO"
         /\ Awaits("CLOSE4004")' => Awaits("CLOSE4004")
<1>1. PICK n \in Nat : n = Len(inbox) - 1
  <2>1. Len(inbox) \in Nat /\ Len(inbox) # 0
    OBVIOUS
  <2>2. Len(inbox) - 1 \in Nat
    BY <2>1
  <2> QED
    BY <2>2
<1>2. /\ Len(inbox) = n + 1 /\ Len(inbox') = n /\ Head(inbox) = inbox[1]
      /\ inbox' \in Seq(Payload) /\ Head(inbox) \in Payload
      /\ \A i \in 1..n : inbox'[i] = inbox[i + 1]
  BY <1>1
<1>3. \A i \in 1..n : i \in Nat /\ i + 1 \in 1..(n + 1) /\ i + 1 \in 2..(n + 1)
  OBVIOUS
<1>4. ASSUME NEW i \in Dispatches'
      PROVE  i \in Nat /\ i + 1 \in Dispatches /\ inbox'[i] = inbox[i + 1]
  <2>1. i \in 1..n /\ inbox'[i].op \in {"READY", "EVENT"}
    BY <1>2 DEF Dispatches
  <2> QED
    BY <1>2, <1>3, <2>1 DEF Dispatches
<1>5. ASSUME NEW i \in Dispatches, i # 1
      PROVE  i \in Nat /\ i - 1 \in Dispatches' /\ inbox'[i - 1] = inbox[i]
  <2>1. i \in 1..(n + 1) /\ inbox[i].op \in {"READY", "EVENT"}
    BY <1>2 DEF Dispatches
  <2>2. PICK k \in 1..n : k = i - 1 /\ i = k + 1
    BY <1>5, <2>1
  <2>3. inbox'[k] = inbox[i]
    BY <1>2, <2>2
  <2>4. k \in Dispatches'
    BY <1>2, <2>1, <2>3 DEF Dispatches
  <2>5. i \in Nat
    BY <2>1
  <2> QED
    BY <2>2, <2>3, <2>4, <2>5
<1>6. Awaits("HELLO")' => \E i \in 2..Len(inbox) : inbox[i].op = "HELLO"
  BY <1>2, <1>3 DEF Awaits
<1>7. Awaits("CLOSE4004")' => Awaits("CLOSE4004")
  BY <1>2, <1>3 DEF Awaits
<1>8. 1 \in 1..Len(inbox) /\ Len(inbox) \in Nat /\ Len(inbox') = Len(inbox) - 1
  BY <1>2
<1>9. \A i \in 1..Len(inbox') : i + 1 \in 1..Len(inbox) /\ inbox'[i] = inbox[i + 1]
  BY <1>2, <1>3
<1> QED
  BY <1>2, <1>4, <1>5, <1>6, <1>7, <1>8, <1>9

\* A dispatch has a number.
LEMMA DispatchNumber ==
  ASSUME inbox \in Seq(Payload), NEW i \in Dispatches
  PROVE  i \in Nat /\ i \in 1..Len(inbox) /\ inbox[i] \in Payload /\ inbox[i].s \in Nat
<1>1. i \in 1..Len(inbox) /\ inbox[i] \in Payload /\ inbox[i].op \in {"READY", "EVENT"}
  BY DEF Dispatches
<1> QED
  BY <1>1, PayloadFields

(***************************************************************************)
(* Dispatches stay in order while the link only loses payloads at its end  *)
(* or gets other payloads, and the client's place stays the same.          *)
(***************************************************************************)
LEMMA OrderKept ==
  ASSUME DispatchesInOrder, inbox \in Seq(Payload),
         Dispatches' \subseteq Dispatches,
         \A i \in Dispatches', k \in Dispatches : k < i => k \in Dispatches',
         \A i \in Dispatches' : inbox'[i] = inbox[i],
         UNCHANGED <<sessionID, sequence, started, base>>,
         session' # NoSession => /\ session # NoSession
                                 /\ Len(log) \in Nat /\ Len(log') \in Nat
                                 /\ Len(log) <= Len(log')
  PROVE  DispatchesInOrder'
<1> SUFFICES ASSUME NEW i \in Dispatches'
             PROVE  /\ sessionID \in {NoSession, started}
                    /\ inbox[i].op = "READY" => inbox[i].session = started /\ inbox[i].base = base
                    /\ inbox[i].op = "EVENT" => inbox[i].s > 1 /\ inbox[i].event = base + inbox[i].s - 1
                    /\ inbox[i].s > sequence
                    /\ session' # NoSession => inbox[i].s <= Len(log') + 1
                    /\ \/ inbox[i].s = sequence + 1
                       \/ \E k \in Dispatches' : k < i /\ inbox[k].s = inbox[i].s - 1
                    /\ \A k \in Dispatches' : k < i => inbox[k].s < inbox[i].s
  BY DEF DispatchesInOrder
<1>1. i \in Dispatches /\ inbox[i].s \in Nat
  BY DispatchNumber
<1>2. session' # NoSession => inbox[i].s <= Len(log') + 1
  <2> SUFFICES ASSUME session' # NoSession
               PROVE  inbox[i].s <= Len(log') + 1
    OBVIOUS
  <2>1. inbox[i].s <= Len(log) + 1
    BY <1>1 DEF DispatchesInOrder
  <2> QED
    BY <1>1, <2>1
<1>3. \/ inbox[i].s = sequence + 1
      \/ \E k \in Dispatches : k < i /\ inbox[k].s = inbox[i].s - 1
  BY <1>1 DEF DispatchesInOrder
<1> QED
  BY <1>1, <1>2, <1>3 DEF DispatchesInOrder

(***************************************************************************)
(* The steps that leave the payloads on their way alone: the timer of Run, *)
(* the three minutes of HELLO, and a server that forgets a session.        *)
(***************************************************************************)
LEMMA LinkUntouched ==
  ASSUME IInv, Retry \/ WindowExpires \/ ServerForgets
  PROVE  IInv'
<1>1. /\ UNCHANGED <<sessionID, sequence, gapPending, inbox, broken, request, started, attached,
                     happened, accounted, base, joined, connected, readySince, pauses>>
      /\ UNCHANGED <<session, log>> \/ (session' = NoSession /\ log' = <<>> /\ ~attached)
  BY DEF Retry, WindowExpires, ServerForgets, serverVars, historyVars, linkVars, clientVars
<1>2. TypeOK'
  <2>1. backoff' \in 1..BackoffCap
    BY BackoffType DEF Retry, WindowExpires, ServerForgets, clientVars, IInv, TypeOK
  <2>2. faults' \in 0..MaxFaults
    BY GatewayAssumption DEF GatewayAssumption, Retry, WindowExpires, ServerForgets, Fault, IInv, TypeOK
  <2>3. phase' \in Phases
    BY DEF Retry, WindowExpires, ServerForgets, clientVars, IInv, TypeOK, Phases
  <2>4. session' \in Nat \cup {NoSession} /\ log' \in Seq(Nat)
    <3>1. session' \in {session, NoSession} /\ log' \in {log, <<>>}
      BY <1>1
    <3>2. session \in Nat \cup {NoSession} /\ log \in Seq(Nat) /\ <<>> \in Seq(Nat)
      BY DEF IInv, TypeOK
    <3> QED
      BY <3>1, <3>2
  <2>5. recent' \in BOOLEAN
    BY Zenon DEF Retry, WindowExpires, ServerForgets, clientVars, IInv, TypeOK
  <2> QED
    BY <1>1, <2>1, <2>2, <2>3, <2>4, <2>5 DEF IInv, TypeOK
<1>3. GapIsOwed'
  BY <1>1 DEF IInv, GapIsOwed
<1>4. ServerKeepsAll'
  BY <1>1 DEF IInv, ServerKeepsAll
<1>5. ClientFollows'
  BY <1>1 DEF IInv, ClientFollows
<1>6. DispatchesInOrder'
  <2>1. Dispatches' = Dispatches /\ inbox \in Seq(Payload) /\ DispatchesInOrder
    BY <1>1 DEF Dispatches, IInv, TypeOK
  <2>2. session' # NoSession => session # NoSession /\ Len(log) \in Nat /\ log' = log
    BY <1>1 DEF IInv, TypeOK
  <2> QED
    BY <1>1, <2>1, <2>2, OrderKept
<1>7. AttachedUpToDate'
  BY <1>1 DEF IInv, AttachedUpToDate, Dispatches
<1>8. RequestIsCurrent'
  BY <1>1 DEF IInv, RequestIsCurrent, Dispatches, Awaits
<1>9. LinkInPhase'
  BY <1>1 DEF IInv, LinkInPhase, Dispatches, Awaits, Retry, WindowExpires, ServerForgets, clientVars
<1> QED
  BY <1>2, <1>3, <1>4, <1>5, <1>6, <1>7, <1>8, <1>9 DEF IInv

(***************************************************************************)
(* A payload without a number joins the link: HELLO when it opens, the     *)
(* server's INVALID_SESSION or RECONNECT, the refusal of the token.        *)
(***************************************************************************)
LEMMA QuietSendKeepsIInv ==
  ASSUME IInv,
         \/ DialSucceeds \/ (\E resumable \in BOOLEAN : ServerInvalidates(resumable))
         \/ ServerAsksReconnect \/ ServerRefusesToken
  PROVE  IInv'
<1>1. PICK p \in Payload :
        /\ inbox' = Append(inbox, p)
        /\ \/ DialSucceeds /\ p.op = "HELLO"
           \/ (\E resumable \in BOOLEAN : ServerInvalidates(resumable)) /\ p.op = "INVALID_SESSION"
           \/ ServerAsksReconnect /\ p.op = "RECONNECT"
           \/ ServerRefusesToken /\ p.op = "CLOSE4004"
  BY PayloadsSent DEF DialSucceeds, ServerInvalidates, ServerAsksReconnect, ServerRefusesToken, Send
<1>2. /\ UNCHANGED <<sessionID, sequence, gapPending, recent, readySince, backoff, connected,
                     session, started, log, base, historyVars, happened>>
      /\ request' \in {request, Nothing}
      /\ attached' = attached \/ attached' = FALSE
      /\ broken' = broken \/ (p.op = "CLOSE4004" /\ broken' = TRUE /\ attached' = FALSE)
  BY <1>1 DEF DialSucceeds, ServerInvalidates, ServerAsksReconnect, ServerRefusesToken,
              clientVars, serverVars, historyVars
<1>3. inbox \in Seq(Payload)
  BY DEF IInv, TypeOK
<1>4. p.op \notin {"READY", "EVENT"}
  BY <1>1
<1>5. /\ inbox' \in Seq(Payload)
      /\ Len(inbox') = Len(inbox) + 1 /\ Len(inbox) \in Nat
      /\ \A i \in 1..Len(inbox) : inbox'[i] = inbox[i]
      /\ inbox'[Len(inbox) + 1] = p
      /\ Dispatches' = Dispatches
      /\ Awaits("HELLO")' => Awaits("HELLO") \/ p.op = "HELLO"
      /\ Awaits("CLOSE4004")' => Awaits("CLOSE4004") \/ p.op = "CLOSE4004"
  BY <1>1, <1>3, <1>4, LinkAppend
<1>6. \A i \in Dispatches : inbox'[i] = inbox[i]
  BY <1>5 DEF Dispatches
<1>7. p.op = "HELLO" => /\ inbox = <<>> /\ Dispatches = {} /\ ~Awaits("CLOSE4004")
                        /\ ~attached' /\ request' = Nothing
  <2> SUFFICES ASSUME p.op = "HELLO"
               PROVE  /\ inbox = <<>> /\ Dispatches = {} /\ ~Awaits("CLOSE4004")
                      /\ ~attached' /\ request' = Nothing
    OBVIOUS
  <2>1. phase = "dial" /\ UNCHANGED serverVars
    BY <1>1 DEF DialSucceeds
  <2>2. inbox = <<>> /\ request = Nothing /\ ~attached
    BY <2>1 DEF IInv, LinkInPhase
  <2>3. Dispatches = {} /\ ~Awaits("CLOSE4004")
    BY <2>2 DEF Dispatches, Awaits
  <2> QED
    BY <2>1, <2>2, <2>3 DEF serverVars
<1>8. TypeOK'
  <2>1. faults' \in 0..MaxFaults
    <3>1. faults' = faults \/ Fault
      BY <1>1 DEF DialSucceeds, ServerInvalidates, ServerAsksReconnect, ServerRefusesToken
    <3>2. faults \in 0..MaxFaults
      BY DEF IInv, TypeOK
    <3> QED
      BY <3>1, <3>2, GatewayAssumption DEF GatewayAssumption, Fault
  <2>2. phase' \in Phases
    BY <1>1 DEF DialSucceeds, ServerInvalidates, ServerAsksReconnect, ServerRefusesToken,
                clientVars, IInv, TypeOK, Phases
  <2>3. request' \in Request
    BY <1>2, Requests DEF IInv, TypeOK
  <2>4. attached' \in BOOLEAN /\ broken' \in BOOLEAN
    BY <1>2, Zenon DEF IInv, TypeOK
  <2> QED
    BY <1>2, <1>5, <2>1, <2>2, <2>3, <2>4 DEF IInv, TypeOK, historyVars
<1>9. GapIsOwed' /\ ServerKeepsAll' /\ ClientFollows'
  BY <1>2 DEF IInv, GapIsOwed, ServerKeepsAll, ClientFollows, historyVars
<1>10. DispatchesInOrder'
  <2>1. session # NoSession => Len(log) \in Nat /\ Len(log) <= Len(log)
    BY DEF IInv, TypeOK
  <2> QED
    BY <1>2, <1>3, <1>5, <1>6, <2>1, OrderKept DEF IInv
<1>11. AttachedUpToDate'
  <2> SUFFICES ASSUME attached'
               PROVE  AttachedUpToDate'
    BY DEF AttachedUpToDate
  <2>1. attached /\ broken' = broken /\ request' = Nothing
    BY <1>2 DEF IInv, AttachedUpToDate
  <2> QED
    BY <1>2, <1>5, <1>6, <2>1 DEF IInv, AttachedUpToDate
<1>12. RequestIsCurrent'
  <2>1. CASE request' = Nothing
    BY <2>1, Requests DEF RequestIsCurrent
  <2>2. CASE request' # Nothing
    <3>1. request' = request /\ request # Nothing /\ p.op # "HELLO"
      BY <1>2, <1>7, <2>2
    <3> QED
      BY <1>2, <1>5, <3>1 DEF IInv, RequestIsCurrent
  <2> QED
    BY <2>1, <2>2
<1>13. LinkInPhase'
  <2>1. \A i \in 1..Len(inbox') : inbox'[i].op = "HELLO" => i = 1
    <3>1. CASE p.op = "HELLO"
      <4>1. Len(inbox') = 1
        BY <1>5, <1>7, <3>1
      <4> QED
        BY <4>1
    <3>2. CASE p.op # "HELLO"
      <4>1. \A i \in 1..(Len(inbox) + 1) : i \in 1..Len(inbox) \/ i = Len(inbox) + 1
        BY <1>5
      <4> QED
        BY <1>5, <3>2, <4>1 DEF IInv, LinkInPhase
    <3> QED
      BY <3>1, <3>2
  <2>2. Awaits("HELLO")' => Dispatches' = {} /\ ~attached' /\ request' = Nothing
    BY <1>2, <1>5, <1>7 DEF IInv, LinkInPhase
  <2>3. Awaits("CLOSE4004")' => broken' /\ request' = Nothing /\ ~Awaits("HELLO")'
    <3>1. CASE p.op = "HELLO"
      BY <1>5, <1>7, <3>1
    <3>2. CASE p.op = "CLOSE4004"
      <4>1. request # Nothing /\ request' = Nothing /\ broken'
        BY <1>1, <3>2 DEF ServerRefusesToken
      <4> QED
        BY <1>5, <3>2, <4>1 DEF IInv, RequestIsCurrent
    <3>3. CASE p.op \notin {"HELLO", "CLOSE4004"}
      BY <1>2, <1>5, <3>3 DEF IInv, LinkInPhase
    <3> QED
      BY <3>1, <3>2, <3>3
  <2>4. phase' = "read"
    <3>1. ASSUME NEW resumable \in BOOLEAN, ServerInvalidates(resumable)
          PROVE  phase' = "read"
      <4>1. request # Nothing /\ phase' = phase
        BY <3>1, Requests DEF ServerInvalidates, clientVars
      <4> QED
        BY <4>1 DEF IInv, LinkInPhase
    <3>2. CASE DialSucceeds \/ ServerAsksReconnect \/ ServerRefusesToken
      BY <3>2 DEF DialSucceeds, ServerAsksReconnect, ServerRefusesToken, clientVars
    <3> QED
      BY <1>1, <3>1, <3>2
  <2> QED
    BY <2>1, <2>2, <2>3, <2>4 DEF LinkInPhase
<1> QED
  BY <1>8, <1>9, <1>10, <1>11, <1>12, <1>13 DEF IInv

(***************************************************************************)
(* Something happens: it joins the server's log of the session and, if the *)
(* connection is attached to that session, the link.                       *)
(***************************************************************************)
LEMMA EventHappensKeepsIInv ==
  ASSUME IInv, EventHappens
  PROVE  IInv'
<1>1. /\ UNCHANGED <<clientVars, historyVars, request, session, started, attached, base,
                     broken, faults>>
      /\ happened \in Nat /\ base \in Nat /\ happened' = happened + 1
      /\ inbox \in Seq(Payload) /\ log \in Seq(Nat) /\ sequence \in Nat
  BY DEF EventHappens, IInv, TypeOK
<1>2. /\ UNCHANGED <<phase, sessionID, sequence, gapPending, recent, readySince, backoff,
                     connected, accounted, pauses, joined>>
  BY <1>1 DEF clientVars, historyVars
<1>3. PICK n \in Nat : n = Len(log)
  BY <1>1
<1>4. session = NoSession => log' = log
  BY DEF EventHappens
<1>5. session # NoSession => /\ log' \in Seq(Nat) /\ Len(log') = n + 1
                             /\ \A i \in 1..n : log'[i] = log[i]
                             /\ log'[n + 1] = happened + 1
  <2> SUFFICES ASSUME session # NoSession
               PROVE  /\ log' \in Seq(Nat) /\ Len(log') = n + 1
                      /\ \A i \in 1..n : log'[i] = log[i]
                      /\ log'[n + 1] = happened + 1
    OBVIOUS
  <2>1. log' = Append(log, happened + 1) /\ happened + 1 \in Nat
    BY <1>1 DEF EventHappens
  <2> QED
    BY <1>1, <1>3, <2>1
<1>6. ServerKeepsAll'
  <2>1. base <= happened /\ session \in {NoSession, started}
    BY DEF IInv, ServerKeepsAll
  <2>2. base <= happened'
    BY <1>1, <2>1
  <2>3. ASSUME session # NoSession
        PROVE  Len(log') = happened' - base /\ \A i \in 1..Len(log') : log'[i] = base + i
    <3>1. n = happened - base /\ \A i \in 1..n : log[i] = base + i
      BY <1>3, <2>3 DEF IInv, ServerKeepsAll
    <3>2. Len(log') = n + 1 /\ n + 1 = happened' - base
      BY <1>1, <1>5, <2>3, <3>1
    <3>3. \A i \in 1..(n + 1) : i \in 1..n \/ i = n + 1
      OBVIOUS
    <3>4. happened + 1 = base + (n + 1)
      BY <1>1, <3>1
    <3> QED
      BY <1>5, <2>3, <3>1, <3>2, <3>3, <3>4
  <2> QED
    BY <1>1, <2>1, <2>2, <2>3 DEF ServerKeepsAll
<1>7. ClientFollows'
  <2>1. sessionID = session /\ session # NoSession => sequence <= Len(log') + 1
    <3> SUFFICES ASSUME sessionID = session, session # NoSession
                 PROVE  sequence <= Len(log') + 1
      OBVIOUS
    <3>1. sequence <= n + 1
      BY <1>3 DEF IInv, ClientFollows
    <3> QED
      BY <1>1, <1>5, <3>1
  <2> QED
    BY <1>1, <1>2, <2>1 DEF IInv, ClientFollows
<1>8. GapIsOwed'
  BY <1>2 DEF IInv, GapIsOwed
<1>9. CASE ~attached
  <2>1. inbox' = inbox
    BY <1>9 DEF EventHappens
  <2>2. TypeOK'
    <3>1. log' \in Seq(Nat)
      BY <1>1, <1>4, <1>5
    <3>2. happened' \in Nat
      BY <1>1
    <3> QED
      BY <1>1, <1>2, <2>1, <3>1, <3>2 DEF IInv, TypeOK
  <2>3. Dispatches' = Dispatches /\ \A o : Awaits(o)' <=> Awaits(o)
    BY <2>1 DEF Dispatches, Awaits
  <2>4. DispatchesInOrder'
    <3>1. session' # NoSession => /\ session # NoSession
                                  /\ Len(log) \in Nat /\ Len(log') \in Nat
                                  /\ Len(log) <= Len(log')
      BY <1>1, <1>3, <1>5
    <3> QED
      BY <1>1, <1>2, <2>1, <2>3, <3>1, OrderKept DEF IInv
  <2>5. AttachedUpToDate'
    BY <1>1, <1>9 DEF AttachedUpToDate
  <2>6. RequestIsCurrent'
    BY <1>1, <1>2, <2>1 DEF IInv, RequestIsCurrent, Dispatches, Awaits
  <2>7. LinkInPhase'
    BY <1>1, <1>2, <2>1 DEF IInv, LinkInPhase, Dispatches, Awaits
  <2> QED
    BY <1>6, <1>7, <1>8, <2>2, <2>4, <2>5, <2>6, <2>7 DEF IInv
<1>10. CASE attached
  <2>0. PICK p : p = [op |-> "EVENT", s |-> n + 2, event |-> happened + 1]
    OBVIOUS
  <2>1. PICK m \in Nat : m = Len(inbox)
    BY <1>1
  <2>2. p \in Payload /\ p.op = "EVENT" /\ p.s = n + 2 /\ p.event = happened + 1
    <3>1. n + 2 \in Nat /\ happened + 1 \in Nat
      BY <1>1
    <3> QED
      BY <2>0, <3>1, PayloadsSent
  <2>3. inbox' = Append(inbox, p)
    BY <1>3, <1>10, <2>0 DEF EventHappens, Send
  <2>4. /\ inbox' \in Seq(Payload)
        /\ Len(inbox') = m + 1
        /\ \A i \in 1..m : inbox'[i] = inbox[i]
        /\ inbox'[m + 1] = p
        /\ Dispatches' = Dispatches \cup {m + 1}
        /\ Awaits("HELLO")' => Awaits("HELLO")
        /\ Awaits("CLOSE4004")' => Awaits("CLOSE4004")
    BY <1>1, <2>1, <2>2, <2>3, LinkAppend
  <2>5. /\ session # NoSession /\ session = started /\ sessionID \in {NoSession, started}
        /\ request = Nothing /\ ~broken
        /\ sequence = n + 1 \/ \E k \in Dispatches : inbox[k].s = n + 1
    BY <1>3, <1>10 DEF IInv, AttachedUpToDate, ServerKeepsAll
  <2>6. happened + 1 = base + (n + 2) - 1
    <3>1. n = happened - base
      BY <1>3, <2>5 DEF IInv, ServerKeepsAll
    <3> QED
      BY <1>1, <3>1
  <2>7. sequence <= n + 1
    <3>1. sessionID = NoSession => sequence = 0
      BY DEF IInv, ClientFollows
    <3>2. sessionID = started => sequence <= n + 1
      BY <1>3, <2>5 DEF IInv, ClientFollows
    <3> QED
      BY <2>5, <3>1, <3>2
  <2>8. \A k \in Dispatches : k \in 1..m /\ inbox[k].s \in Nat /\ inbox[k].s <= n + 1
    BY <1>1, <1>3, <2>1, <2>5, DispatchNumber DEF IInv, DispatchesInOrder
  <2>9. DispatchesInOrder'
    <3>1. Len(log') = n + 1
      BY <1>5, <2>5
    <3> SUFFICES ASSUME NEW i \in Dispatches'
                 PROVE  /\ sessionID \in {NoSession, started}
                        /\ inbox'[i].op = "READY" => inbox'[i].session = started /\ inbox'[i].base = base
                        /\ inbox'[i].op = "EVENT" => inbox'[i].s > 1 /\ inbox'[i].event = base + inbox'[i].s - 1
                        /\ inbox'[i].s > sequence
                        /\ inbox'[i].s <= n + 2
                        /\ \/ inbox'[i].s = sequence + 1
                           \/ \E k \in Dispatches' : k < i /\ inbox'[k].s = inbox'[i].s - 1
                        /\ \A k \in Dispatches' : k < i => inbox'[k].s < inbox'[i].s
      BY <1>1, <1>2, <3>1 DEF DispatchesInOrder
    <3>2. CASE i \in Dispatches
      <4>1. i \in 1..m /\ inbox'[i] = inbox[i] /\ inbox[i].s \in Nat /\ inbox[i].s <= n + 1
        BY <2>4, <2>8, <3>2
      <4>2. ASSUME NEW k \in Dispatches', k < i
            PROVE  k \in Dispatches /\ inbox'[k] = inbox[k]
        <5>1. k # m + 1
          BY <4>1, <4>2
        <5> QED
          BY <2>4, <2>8, <5>1
      <4>3. \A k \in Dispatches : k \in Dispatches' /\ inbox'[k] = inbox[k]
        BY <2>4, <2>8
      <4>4. inbox[i].s <= n + 2
        BY <4>1
      <4> QED
        BY <3>2, <4>1, <4>2, <4>3, <4>4 DEF IInv, DispatchesInOrder
    <3>3. CASE i = m + 1
      <4>1. inbox'[i] = p
        BY <2>4, <3>3
      <4>2. n + 2 > 1 /\ n + 2 > sequence
        BY <1>1, <2>7
      <4>3. \A k \in Dispatches : k < i /\ k \in Dispatches' /\ inbox'[k] = inbox[k]
        BY <2>4, <2>8, <3>3
      <4>4. n + 2 = sequence + 1 \/ \E k \in Dispatches' : k < i /\ inbox'[k].s = (n + 2) - 1
        BY <1>1, <2>5, <4>3
      <4>5. \A k \in Dispatches' : k < i => inbox'[k].s < n + 2
        <5> SUFFICES ASSUME NEW k \in Dispatches', k < i
                     PROVE  inbox'[k].s < n + 2
          OBVIOUS
        <5>1. k \in Dispatches
          BY <2>4, <3>3
        <5>2. inbox'[k].s \in Nat /\ inbox'[k].s <= n + 1
          BY <2>8, <4>3, <5>1
        <5> QED
          BY <5>2
      <4> QED
        BY <2>2, <2>5, <2>6, <4>1, <4>2, <4>4, <4>5
    <3> QED
      BY <2>4, <3>2, <3>3
  <2>10. TypeOK'
    <3>1. log' \in Seq(Nat)
      BY <1>5, <2>5
    <3>2. happened' \in Nat
      BY <1>1
    <3> QED
      BY <1>1, <1>2, <2>4, <3>1, <3>2 DEF IInv, TypeOK
  <2>11. AttachedUpToDate'
    <3>1. m + 1 \in Dispatches' /\ inbox'[m + 1].s = Len(log') + 1
      BY <1>5, <2>2, <2>4, <2>5
    <3> QED
      BY <1>1, <1>2, <2>5, <3>1 DEF IInv, AttachedUpToDate
  <2>12. RequestIsCurrent'
    BY <1>1, <2>5, Requests DEF RequestIsCurrent
  <2>13. LinkInPhase'
    <3>1. ~Awaits("HELLO") /\ ~Awaits("CLOSE4004")
      BY <1>10, <2>5 DEF IInv, LinkInPhase
    <3>2. ~Awaits("HELLO")' /\ ~Awaits("CLOSE4004")'
      BY <2>4, <3>1
    <3>3. phase = "read"
      BY <1>10 DEF IInv, LinkInPhase
    <3>4. \A i \in 1..Len(inbox') : inbox'[i].op # "HELLO"
      BY <3>2 DEF Awaits
    <3> QED
      BY <1>2, <3>2, <3>3, <3>4 DEF LinkInPhase
  <2> QED
    BY <1>6, <1>7, <1>8, <2>9, <2>10, <2>11, <2>12, <2>13 DEF IInv
<1> QED
  BY <1>9, <1>10

(***************************************************************************)
(* The server starts a session: its READY is the first dispatch, and       *)
(* nothing of an older session is on its way.                              *)
(***************************************************************************)
LEMMA IdentifyKeepsIInv ==
  ASSUME IInv, ServerIdentify
  PROVE  IInv'
<1>1. /\ UNCHANGED <<phase, sessionID, sequence, gapPending, recent, readySince, backoff, connected,
                     accounted, pauses, joined, broken, happened, faults>>
      /\ started \in Nat /\ happened \in Nat /\ sequence \in Nat /\ inbox \in Seq(Payload)
      /\ started' = started + 1 /\ session' = started + 1 /\ log' = <<>> /\ base' = happened
      /\ request' = Nothing
  BY DEF ServerIdentify, clientVars, historyVars, IInv, TypeOK
<1>2. attached' = TRUE /\ ~broken'
  BY DEF ServerIdentify
<1>3. /\ request # Nothing /\ sessionID = NoSession /\ sequence = 0
      /\ Dispatches = {} /\ ~Awaits("HELLO") /\ ~Awaits("CLOSE4004") /\ phase = "read"
  <2>1. request # Nothing /\ sessionID = NoSession
    BY Requests DEF ServerIdentify, IInv, RequestIsCurrent
  <2> QED
    BY <2>1 DEF IInv, RequestIsCurrent, LinkInPhase, ClientFollows
<1>4. started' \in Nat /\ started' # NoSession /\ session' = started'
  BY <1>1, GatewayAssumption DEF GatewayAssumption
<1>5. PICK p : p = [op |-> "READY", s |-> 1, session |-> started + 1, base |-> happened]
  OBVIOUS
<1>6. p \in Payload /\ p.op = "READY" /\ p.s = 1 /\ p.session = started' /\ p.base = base'
  <2>1. started + 1 \in Nat
    BY <1>1
  <2> QED
    BY <1>1, <1>5, <2>1, PayloadsSent
<1>7. PICK m \in Nat : m = Len(inbox)
  BY <1>1
<1>8. /\ inbox' \in Seq(Payload)
      /\ Len(inbox') = m + 1
      /\ inbox'[m + 1] = p
      /\ Dispatches' = {m + 1}
      /\ ~Awaits("HELLO")' /\ ~Awaits("CLOSE4004")'
  <2>1. inbox' = Append(inbox, p)
    BY <1>5 DEF ServerIdentify, Send
  <2> QED
    BY <1>1, <1>3, <1>6, <1>7, <2>1, LinkAppend
<1>9. TypeOK'
  <2>1. attached' \in BOOLEAN
    BY <1>2
  <2> QED
    BY <1>1, <1>4, <1>8, <2>1, Requests DEF IInv, TypeOK
<1>10. GapIsOwed'
  BY <1>1 DEF IInv, GapIsOwed
<1>11. ServerKeepsAll'
  <2>1. Len(log') = happened' - base' /\ 1..Len(log') = {}
    BY <1>1
  <2>2. base' <= happened'
    BY <1>1
  <2> QED
    BY <1>4, <2>1, <2>2 DEF ServerKeepsAll
<1>12. ClientFollows'
  BY <1>1, <1>3, <1>4 DEF ClientFollows
<1>13. DispatchesInOrder'
  BY <1>1, <1>3, <1>4, <1>6, <1>8 DEF DispatchesInOrder
<1>14. AttachedUpToDate'
  BY <1>1, <1>2, <1>3, <1>4, <1>6, <1>8 DEF AttachedUpToDate
<1>15. RequestIsCurrent'
  BY <1>1, Requests DEF RequestIsCurrent
<1>16. LinkInPhase'
  <2>1. \A i \in 1..Len(inbox') : inbox'[i].op # "HELLO"
    BY <1>8 DEF Awaits
  <2> QED
    BY <1>1, <1>3, <1>8, <2>1 DEF LinkInPhase
<1> QED
  BY <1>9, <1>10, <1>11, <1>12, <1>13, <1>14, <1>15, <1>16 DEF IInv

(***************************************************************************)
(* The server resumes a session: it replays what follows the client's      *)
(* sequence number, which is of that very session.                         *)
(***************************************************************************)
LEMMA ResumeKeepsIInv ==
  ASSUME IInv, ServerResume
  PROVE  IInv'
<1>1. /\ UNCHANGED <<phase, sessionID, sequence, gapPending, recent, readySince, backoff, connected,
                     accounted, pauses, joined, broken, happened, faults, session, started, log, base>>
      /\ base \in Nat /\ happened \in Nat /\ sequence \in Nat /\ inbox \in Seq(Payload)
      /\ log \in Seq(Nat)
      /\ request' = Nothing
  BY DEF ServerResume, clientVars, historyVars, IInv, TypeOK
<1>2. attached' = TRUE /\ ~broken'
  BY DEF ServerResume
<1>3. PICK n \in Nat, m \in Nat : n = Len(log) /\ m = Len(inbox)
  BY <1>1
<1>4. /\ request # Nothing /\ sessionID = session /\ session = started /\ session # NoSession
      /\ request.seq = sequence /\ sequence # 0 /\ sequence <= n + 1
      /\ Dispatches = {} /\ ~Awaits("HELLO") /\ ~Awaits("CLOSE4004") /\ phase = "read"
  <2>1. request # Nothing /\ sessionID # NoSession /\ sessionID = session /\ request.seq = sequence
    BY Requests DEF ServerResume, IInv, RequestIsCurrent
  <2> QED
    BY <1>3, <2>1 DEF IInv, RequestIsCurrent, LinkInPhase, ClientFollows, ServerKeepsAll
<1>5. PICK c \in Nat : /\ c = n + 1 - sequence
                       /\ (IF sequence > n THEN 0 ELSE n - sequence + 1) = c
  <2>1. n + 1 - sequence \in Nat
    BY <1>1, <1>4
  <2>2. (IF sequence > n THEN 0 ELSE n - sequence + 1) = n + 1 - sequence
    BY <1>1, <1>4
  <2> QED
    BY <2>1, <2>2
<1>6. PICK replay : replay = [i \in 1..c |-> [op |-> "EVENT", s |-> sequence + i,
                                              event |-> log[sequence + i - 1]]]
  OBVIOUS
<1>7. \A i \in 1..c : /\ sequence + i \in Nat /\ sequence + i > 1 /\ sequence + i <= n + 1
                      /\ sequence + i - 1 \in 1..n
                      /\ log[sequence + i - 1] \in Nat
                      /\ log[sequence + i - 1] = base + (sequence + i) - 1
  <2> SUFFICES ASSUME NEW i \in 1..c
               PROVE  /\ sequence + i \in Nat /\ sequence + i > 1 /\ sequence + i <= n + 1
                      /\ sequence + i - 1 \in 1..n
                      /\ log[sequence + i - 1] \in Nat
                      /\ log[sequence + i - 1] = base + (sequence + i) - 1
    OBVIOUS
  <2>1. /\ sequence + i \in Nat /\ sequence + i > 1 /\ sequence + i <= n + 1
        /\ sequence + i - 1 \in 1..n
    BY <1>1, <1>4, <1>5
  <2>2. PICK k \in 1..n : k = sequence + i - 1
    BY <2>1
  <2>3. log[k] = base + k /\ log[k] \in Nat
    BY <1>1, <1>3, <1>4, <2>2 DEF IInv, ServerKeepsAll
  <2>4. base + k = base + (sequence + i) - 1
    BY <1>1, <2>2
  <2> QED
    BY <2>1, <2>2, <2>3, <2>4
<1>8. replay \in Seq(Payload) /\ Len(replay) = c
  <2>1. \A i \in 1..c : replay[i] \in Payload
    BY <1>6, <1>7, PayloadsSent
  <2> QED
    BY <1>6, <2>1
<1>9. PICK q \in Payload : q = [op |-> "RESUMED"] /\ q.op = "RESUMED"
  BY PayloadsSent
<1>10. inbox' = (inbox \o replay) \o <<q>>
  <2>1. inbox' = inbox \o replay \o <<[op |-> "RESUMED"]>>
    BY <1>3, <1>4, <1>5, <1>6 DEF ServerResume
  <2> QED
    BY <1>9, <2>1
<1>11. /\ inbox' \in Seq(Payload) /\ Len(inbox') = m + c + 1
       /\ \A i \in 1..m : inbox'[i] = inbox[i]
       /\ \A i \in 1..c : inbox'[m + i] = replay[i]
       /\ inbox'[m + c + 1] = q
  <2>0. inbox \o replay \in Seq(Payload)
    BY <1>1, <1>8
  <2>1. PICK r \in Seq(Payload) : r = inbox \o replay
    BY <2>0
  <2>2. /\ Len(r) = m + c
        /\ \A i \in 1..m : r[i] = inbox[i]
        /\ \A i \in 1..c : r[m + i] = replay[i]
    BY <1>1, <1>3, <1>8, <2>1
  <2>3. inbox' = r \o <<q>> /\ <<q>> \in Seq(Payload) /\ Len(<<q>>) = 1
    BY <1>9, <1>10, <2>1
  <2>4. /\ inbox' \in Seq(Payload) /\ Len(inbox') = m + c + 1
        /\ \A i \in 1..(m + c) : inbox'[i] = r[i]
        /\ inbox'[m + c + 1] = q
    BY <2>2, <2>3
  <2>5. \A i \in 1..m : i \in 1..(m + c)
    OBVIOUS
  <2>6. \A i \in 1..c : m + i \in 1..(m + c)
    OBVIOUS
  <2> QED
    BY <2>2, <2>4, <2>5, <2>6
<1>12. \A i \in 1..(m + c + 1) : \/ i \in 1..m
                                 \/ \E k \in 1..c : i = m + k
                                 \/ i = m + c + 1
  <2> SUFFICES ASSUME NEW i \in 1..(m + c + 1), i \notin 1..m, i # m + c + 1
               PROVE  \E k \in 1..c : i = m + k
    OBVIOUS
  <2>1. i - m \in 1..c /\ i = m + (i - m)
    OBVIOUS
  <2> QED
    BY <2>1
<1>13. \A i \in 1..m : inbox[i].op \notin {"READY", "EVENT", "HELLO", "CLOSE4004"}
  BY <1>3, <1>4 DEF Dispatches, Awaits
<1>14. \A k \in 1..c : /\ inbox'[m + k].op = "EVENT" /\ inbox'[m + k].s = sequence + k
                       /\ inbox'[m + k].event = base + (sequence + k) - 1
  <2> SUFFICES ASSUME NEW k \in 1..c
               PROVE  /\ inbox'[m + k].op = "EVENT" /\ inbox'[m + k].s = sequence + k
                      /\ inbox'[m + k].event = base + (sequence + k) - 1
    OBVIOUS
  <2>1. inbox'[m + k] = [op |-> "EVENT", s |-> sequence + k, event |-> log[sequence + k - 1]]
    BY <1>6, <1>11
  <2> QED
    BY <1>7, <2>1
<1>15. ASSUME NEW i \in Dispatches'
       PROVE  \E k \in 1..c : i = m + k
  <2>1. i \in 1..(m + c + 1) /\ inbox'[i].op \in {"READY", "EVENT"}
    BY <1>11 DEF Dispatches
  <2>2. i \notin 1..m
    BY <1>11, <1>13, <2>1
  <2>3. i # m + c + 1
    BY <1>9, <1>11, <2>1
  <2> QED
    BY <1>12, <2>1, <2>2, <2>3
<1>16. \A k \in 1..c : m + k \in Dispatches'
  <2>1. \A k \in 1..c : m + k \in 1..(m + c + 1)
    OBVIOUS
  <2> QED
    BY <1>11, <1>14, <2>1 DEF Dispatches
<1>17. \A i \in 1..Len(inbox') : inbox'[i].op \notin {"HELLO", "CLOSE4004"}
  BY <1>9, <1>11, <1>12, <1>13, <1>14, ZenonT(30)
<1>18. TypeOK'
  <2>1. attached' \in BOOLEAN
    BY <1>2
  <2> QED
    BY <1>1, <1>11, <2>1, Requests DEF IInv, TypeOK
<1>19. GapIsOwed' /\ ServerKeepsAll' /\ ClientFollows'
  BY <1>1 DEF IInv, GapIsOwed, ServerKeepsAll, ClientFollows
<1>20. DispatchesInOrder'
  <2> SUFFICES ASSUME NEW i \in Dispatches'
               PROVE  /\ inbox'[i].op = "EVENT"
                      /\ inbox'[i].s > 1 /\ inbox'[i].event = base + inbox'[i].s - 1
                      /\ inbox'[i].s > sequence
                      /\ inbox'[i].s <= n + 1
                      /\ \/ inbox'[i].s = sequence + 1
                         \/ \E k \in Dispatches' : k < i /\ inbox'[k].s = inbox'[i].s - 1
                      /\ \A k \in Dispatches' : k < i => inbox'[k].s < inbox'[i].s
    BY <1>1, <1>3, <1>4 DEF DispatchesInOrder
  <2>1. PICK k \in 1..c : i = m + k
    BY <1>15
  <2>2. /\ inbox'[i].op = "EVENT" /\ inbox'[i].s = sequence + k
        /\ inbox'[i].event = base + (sequence + k) - 1
    BY <1>14, <2>1
  <2>3. sequence + k > 1 /\ sequence + k <= n + 1 /\ sequence + k > sequence
    <3>1. k \in Nat /\ k > 0
      OBVIOUS
    <3>2. sequence + k > sequence
      BY <1>1, <3>1
    <3> QED
      BY <1>7, <3>2
  <2>4. \/ inbox'[i].s = sequence + 1
        \/ \E h \in Dispatches' : h < i /\ inbox'[h].s = inbox'[i].s - 1
    <3>1. CASE k = 1
      BY <2>2, <3>1
    <3>2. CASE k # 1
      <4>1. PICK j \in 1..c : j = k - 1
        BY <3>2
      <4>2. m + j \in Dispatches' /\ m + j < i /\ inbox'[m + j].s = sequence + j
        BY <1>14, <1>16, <2>1, <4>1
      <4>3. sequence + j = (sequence + k) - 1
        BY <1>1, <4>1
      <4> QED
        BY <2>2, <4>2, <4>3
    <3> QED
      BY <3>1, <3>2
  <2>5. ASSUME NEW h \in Dispatches', h < i
        PROVE  inbox'[h].s < inbox'[i].s
    <3>1. PICK j \in 1..c : h = m + j
      BY <1>15
    <3>2. j < k
      BY <2>1, <2>5, <3>1
    <3>3. inbox'[h].s = sequence + j
      BY <1>14, <3>1
    <3>4. sequence + j < sequence + k
      BY <1>1, <3>2
    <3> QED
      BY <2>2, <3>3, <3>4
  <2> QED
    BY <2>2, <2>3, <2>4, <2>5
<1>21. AttachedUpToDate'
  <2>1. sequence = n + 1 \/ \E k \in Dispatches' : inbox'[k].s = n + 1
    <3>1. CASE c = 0
      BY <1>1, <1>5, <3>1
    <3>2. CASE c # 0
      <4>1. c \in 1..c /\ sequence + c = n + 1
        BY <1>1, <1>5, <3>2
      <4> QED
        BY <1>14, <1>16, <4>1
    <3> QED
      BY <3>1, <3>2
  <2> QED
    BY <1>1, <1>2, <1>3, <1>4, <2>1 DEF AttachedUpToDate
<1>22. RequestIsCurrent'
  BY <1>1, Requests DEF RequestIsCurrent
<1>23. LinkInPhase'
  BY <1>1, <1>4, <1>17 DEF LinkInPhase, Awaits
<1> QED
  BY <1>18, <1>19, <1>20, <1>21, <1>22, <1>23 DEF IInv

(***************************************************************************)
(* The connection breaks: what is lost is a tail of what was on its way,   *)
(* so no hole opens between what still arrives.                            *)
(***************************************************************************)
LEMMA BreakKeepsIInv ==
  ASSUME IInv, LinkBreaks
  PROVE  IInv'
<1>1. /\ UNCHANGED <<phase, sessionID, sequence, gapPending, recent, readySince, backoff, connected,
                     accounted, pauses, joined, happened, session, started, log, base>>
      /\ inbox \in Seq(Payload) /\ log \in Seq(Nat)
      /\ request' = Nothing
  BY DEF LinkBreaks, clientVars, historyVars, IInv, TypeOK
<1>2. broken' = TRUE /\ attached' = FALSE /\ ~broken /\ phase = "read"
  BY DEF LinkBreaks
<1>3. PICK n \in 0..Len(inbox) : inbox' = SubSeq(inbox, 1, n)
  BY DEF LinkBreaks
<1>4. /\ inbox' \in Seq(Payload) /\ Len(inbox') = n
      /\ \A i \in 1..n : i \in 1..Len(inbox) /\ inbox'[i] = inbox[i]
  BY <1>1, <1>3
<1>5. \A i \in Dispatches' : i \in 1..n /\ i \in Dispatches /\ inbox'[i] = inbox[i]
  BY <1>4 DEF Dispatches
<1>6. ASSUME NEW i \in Dispatches', NEW k \in Dispatches, k < i
      PROVE  k \in Dispatches'
  <2>1. k \in 1..Len(inbox) /\ inbox[k].op \in {"READY", "EVENT"} /\ i \in 1..n
    BY <1>5 DEF Dispatches
  <2>2. k \in 1..n
    BY <1>3, <1>6, <2>1
  <2> QED
    BY <1>4, <2>1, <2>2 DEF Dispatches
<1>7. TypeOK'
  <2>1. faults' \in 0..MaxFaults
    <3>1. Fault /\ faults \in 0..MaxFaults
      BY DEF LinkBreaks, IInv, TypeOK
    <3> QED
      BY <3>1, GatewayAssumption DEF GatewayAssumption, Fault
  <2>2. attached' \in BOOLEAN /\ broken' \in BOOLEAN
    BY <1>2
  <2> QED
    BY <1>1, <1>4, <2>1, <2>2, Requests DEF IInv, TypeOK
<1>8. GapIsOwed' /\ ServerKeepsAll' /\ ClientFollows'
  BY <1>1 DEF IInv, GapIsOwed, ServerKeepsAll, ClientFollows
<1>9. DispatchesInOrder'
  <2>1. Len(log) \in Nat /\ Len(log) <= Len(log)
    BY <1>1
  <2>2. Dispatches' \subseteq Dispatches
    BY <1>5
  <2> QED
    BY <1>1, <1>5, <1>6, <2>1, <2>2, OrderKept DEF IInv
<1>10. AttachedUpToDate'
  BY <1>2 DEF AttachedUpToDate
<1>11. RequestIsCurrent'
  BY <1>1, Requests DEF RequestIsCurrent
<1>12. LinkInPhase'
  <2>1. \A i \in 1..Len(inbox') : inbox'[i].op = "HELLO" => i = 1
    BY <1>4 DEF IInv, LinkInPhase
  <2>2. Awaits("HELLO")' => Dispatches' = {}
    <3>1. Awaits("HELLO")' => Awaits("HELLO")
      BY <1>4 DEF Awaits
    <3> QED
      BY <1>5, <3>1 DEF IInv, LinkInPhase
  <2>3. ~Awaits("CLOSE4004")'
    <3>1. ~Awaits("CLOSE4004")
      BY <1>2 DEF IInv, LinkInPhase
    <3> QED
      BY <1>4, <3>1 DEF Awaits
  <2> QED
    BY <1>1, <1>2, <2>1, <2>2, <2>3 DEF LinkInPhase
<1> QED
  BY <1>7, <1>8, <1>9, <1>10, <1>11, <1>12 DEF IInv

-----------------------------------------------------------------------------
(***************************************************************************)
(* Reading a payload keeps the others in order.  A dispatch that is read   *)
(* is the very next one of its session.                                    *)
(***************************************************************************)
LEMMA NextDispatch ==
  ASSUME IInv, inbox # <<>>, Head(inbox).op \in {"READY", "EVENT"}
  PROVE  /\ 1 \in Dispatches /\ Head(inbox) = inbox[1] /\ Head(inbox) \in Payload
         /\ Head(inbox).s \in Nat /\ Head(inbox).s = sequence + 1
         /\ sessionID \in {NoSession, started}
         /\ Head(inbox).op = "READY" =>
              /\ sequence = 0 /\ sessionID = NoSession
              /\ Head(inbox).session = started /\ Head(inbox).base = base
         /\ Head(inbox).op = "EVENT" =>
              /\ sessionID = started /\ sessionID # NoSession
              /\ Head(inbox).event = base + sequence
              /\ Head(inbox).event = accounted + 1
<1>1. inbox \in Seq(Payload) /\ sequence \in Nat /\ base \in Nat /\ accounted \in Nat
  BY DEF IInv, TypeOK
<1>2. 1 \in Dispatches /\ Head(inbox) = inbox[1] /\ Head(inbox) \in Payload
  <2>1. 1 \in 1..Len(inbox) /\ Head(inbox) = inbox[1] /\ Head(inbox) \in Payload
    BY <1>1
  <2> QED
    BY <2>1 DEF Dispatches
<1>3. inbox[1].s \in Nat
  BY <1>1, <1>2, DispatchNumber
<1>4. \A k \in Dispatches : ~(k < 1)
  BY <1>1, DispatchNumber
<1>5. inbox[1].s = sequence + 1 /\ sessionID \in {NoSession, started}
  BY <1>2, <1>4 DEF IInv, DispatchesInOrder
<1>6. ASSUME inbox[1].op = "READY"
      PROVE  /\ sequence = 0 /\ sessionID = NoSession
             /\ inbox[1].session = started /\ inbox[1].base = base
  <2>1. inbox[1].s = 1
    BY <1>2, <1>6, PayloadFields
  <2>2. sequence = 0
    BY <1>1, <1>5, <2>1
  <2> QED
    BY <1>2, <1>6, <2>2 DEF IInv, ClientFollows, DispatchesInOrder
<1>7. ASSUME inbox[1].op = "EVENT"
      PROVE  /\ sessionID = started /\ sessionID # NoSession
             /\ inbox[1].event = base + sequence
             /\ inbox[1].event = accounted + 1
  <2>1. inbox[1].s > 1 /\ inbox[1].event = base + inbox[1].s - 1
    BY <1>2, <1>7 DEF IInv, DispatchesInOrder
  <2>2. sequence # 0
    BY <1>1, <1>5, <2>1
  <2>3. sessionID # NoSession
    BY <2>2 DEF IInv, ClientFollows
  <2>4. accounted = base + sequence - 1
    BY <1>5, <2>3 DEF IInv, ClientFollows
  <2>5. inbox[1].event = base + sequence
    BY <1>1, <1>5, <2>1
  <2>6. inbox[1].event = accounted + 1
    BY <1>1, <2>4, <2>5
  <2> QED
    BY <1>5, <2>3, <2>5, <2>6
<1> QED
  BY <1>2, <1>3, <1>5, <1>6, <1>7

\* Reading a payload keeps the order of the dispatches behind it, and the client's place in it.
LEMMA ReadKeepsOrder ==
  ASSUME IInv, inbox # <<>>, inbox' = Tail(inbox),
         sequence' = IF Head(inbox).op \in {"READY", "EVENT"} THEN sequence + 1 ELSE sequence,
         Dispatches' # {} => sessionID' \in {NoSession, started},
         UNCHANGED <<session, started, log, base>>
  PROVE  /\ DispatchesInOrder'
         /\ session # NoSession /\ (\/ sequence = Len(log) + 1
                                    \/ \E k \in Dispatches : inbox[k].s = Len(log) + 1) =>
              \/ sequence' = Len(log) + 1
              \/ \E k \in Dispatches' : inbox'[k].s = Len(log) + 1
<1>1. inbox \in Seq(Payload) /\ sequence \in Nat
  BY DEF IInv, TypeOK
<1>2. /\ Head(inbox) = inbox[1] /\ 1 \in 1..Len(inbox)
      /\ \A i \in Dispatches' : i \in Nat /\ i + 1 \in Dispatches /\ inbox'[i] = inbox[i + 1]
      /\ \A i \in Dispatches : i # 1 => /\ i \in Nat /\ i - 1 \in Dispatches'
                                        /\ inbox'[i - 1] = inbox[i]
  BY <1>1, LinkTail
<1>3. 1 \in Dispatches => /\ Head(inbox).op \in {"READY", "EVENT"}
                          /\ inbox[1].s = sequence + 1 /\ sequence' = sequence + 1
  <2> SUFFICES ASSUME 1 \in Dispatches
               PROVE  /\ Head(inbox).op \in {"READY", "EVENT"}
                      /\ inbox[1].s = sequence + 1 /\ sequence' = sequence + 1
    OBVIOUS
  <2>1. Head(inbox).op \in {"READY", "EVENT"}
    BY <1>2 DEF Dispatches
  <2> QED
    BY <1>2, <2>1, NextDispatch
<1>4. 1 \notin Dispatches => sequence' = sequence
  BY <1>2 DEF Dispatches
<1>5. DispatchesInOrder'
  <2> SUFFICES ASSUME NEW i \in Dispatches'
               PROVE  /\ inbox'[i].op = "READY" => inbox'[i].session = started /\ inbox'[i].base = base
                      /\ inbox'[i].op = "EVENT" => inbox'[i].s > 1 /\ inbox'[i].event = base + inbox'[i].s - 1
                      /\ inbox'[i].s > sequence'
                      /\ session # NoSession => inbox'[i].s <= Len(log) + 1
                      /\ \/ inbox'[i].s = sequence' + 1
                         \/ \E k \in Dispatches' : k < i /\ inbox'[k].s = inbox'[i].s - 1
                      /\ \A k \in Dispatches' : k < i => inbox'[k].s < inbox'[i].s
    BY DEF DispatchesInOrder
  <2>1. PICK j \in Dispatches : j = i + 1 /\ i \in Nat /\ inbox'[i] = inbox[j] /\ j # 1
    <3>1. i + 1 \in Dispatches /\ i \in Nat /\ i \in 1..Len(inbox')
      BY <1>2 DEF Dispatches
    <3>2. i + 1 # 1
      BY <3>1
    <3> QED
      BY <1>2, <3>1, <3>2
  <2>2. inbox[j].s \in Nat /\ j \in 1..Len(inbox)
    BY <1>1, DispatchNumber
  <2>3. /\ inbox[j].op = "READY" => inbox[j].session = started /\ inbox[j].base = base
        /\ inbox[j].op = "EVENT" => inbox[j].s > 1 /\ inbox[j].event = base + inbox[j].s - 1
        /\ inbox[j].s > sequence
        /\ session # NoSession => inbox[j].s <= Len(log) + 1
        /\ \/ inbox[j].s = sequence + 1
           \/ \E k \in Dispatches : k < j /\ inbox[k].s = inbox[j].s - 1
        /\ \A k \in Dispatches : k < j => inbox[k].s < inbox[j].s
    BY DEF IInv, DispatchesInOrder
  <2>4. inbox[j].s > sequence'
    <3>1. CASE 1 \in Dispatches
      <4>1. inbox[1].s < inbox[j].s
        BY <2>1, <2>2, <2>3, <3>1
      <4> QED
        BY <1>1, <1>3, <2>2, <3>1, <4>1
    <3> QED
      BY <1>4, <2>3, <3>1
  <2>5. \/ inbox[j].s = sequence' + 1
        \/ \E k \in Dispatches' : k < i /\ inbox'[k].s = inbox[j].s - 1
    <3>1. CASE inbox[j].s = sequence + 1
      <4>1. 1 \notin Dispatches
        BY <1>1, <1>3, <2>2, <2>4, <3>1
      <4> QED
        BY <1>4, <3>1, <4>1
    <3>2. ASSUME NEW k \in Dispatches, k < j, inbox[k].s = inbox[j].s - 1
          PROVE  \/ inbox[j].s = sequence' + 1
                 \/ \E h \in Dispatches' : h < i /\ inbox'[h].s = inbox[j].s - 1
      <4>1. CASE k = 1
        <5>1. sequence' = sequence + 1 /\ inbox[1].s = sequence + 1
          BY <1>3, <4>1
        <5> QED
          BY <1>1, <2>2, <3>2, <4>1, <5>1
      <4>2. CASE k # 1
        <5>1. k \in Nat /\ k - 1 \in Dispatches' /\ inbox'[k - 1] = inbox[k]
          BY <1>2, <4>2
        <5>2. k - 1 < i
          BY <2>1, <3>2, <5>1
        <5> QED
          BY <3>2, <5>1, <5>2
      <4> QED
        BY <4>1, <4>2
    <3> QED
      BY <2>3, <3>1, <3>2
  <2>6. ASSUME NEW k \in Dispatches', k < i
        PROVE  inbox'[k].s < inbox[j].s
    <3>1. k \in Nat /\ k + 1 \in Dispatches /\ inbox'[k] = inbox[k + 1]
      BY <1>2
    <3>2. k + 1 < j
      BY <2>1, <2>6, <3>1
    <3> QED
      BY <2>3, <3>1, <3>2
  <2> QED
    BY <2>1, <2>3, <2>4, <2>5, <2>6
<1>6. ASSUME session # NoSession,
             \/ sequence = Len(log) + 1
             \/ \E k \in Dispatches : inbox[k].s = Len(log) + 1
      PROVE  \/ sequence' = Len(log) + 1
             \/ \E k \in Dispatches' : inbox'[k].s = Len(log) + 1
  <2>1. ASSUME NEW k \in Dispatches, inbox[k].s = Len(log) + 1
        PROVE  \/ sequence' = Len(log) + 1
               \/ \E h \in Dispatches' : inbox'[h].s = Len(log) + 1
    <3>1. CASE k = 1
      BY <1>3, <2>1, <3>1
    <3>2. CASE k # 1
      <4>1. k - 1 \in Dispatches' /\ inbox'[k - 1].s = Len(log) + 1
        BY <1>2, <2>1, <3>2
      <4> QED
        BY <4>1
    <3> QED
      BY <3>1, <3>2
  <2>2. CASE sequence = Len(log) + 1 /\ 1 \notin Dispatches
    BY <1>4, <2>2
  <2>3. CASE sequence = Len(log) + 1 /\ 1 \in Dispatches
    <3>1. inbox[1].s <= Len(log) + 1 /\ inbox[1].s = Len(log) + 2
      BY <1>1, <1>3, <1>6, <2>3 DEF IInv, DispatchesInOrder, TypeOK
    <3>2. Len(log) \in Nat
      BY DEF IInv, TypeOK
    <3> QED
      BY <3>1, <3>2
  <2> QED
    BY <1>6, <2>1, <2>2, <2>3
<1> QED
  BY <1>5, <1>6

(***************************************************************************)
(* HELLO is answered with a request for the session the client holds, or   *)
(* for a new one once the old one is given up with a gap to report.        *)
(***************************************************************************)
LEMMA HelloKeepsIInv ==
  ASSUME IInv, ReceiveHello
  PROVE  IInv'
<1>1. /\ UNCHANGED <<phase, readySince, backoff, connected, session, started, log, attached, base,
                     accounted, pauses, joined, broken, happened, faults>>
      /\ inbox \in Seq(Payload) /\ inbox # <<>> /\ inbox' = Tail(inbox) /\ phase = "read"
      /\ sessionID \in Nat \cup {NoSession} /\ sequence \in Nat
  BY DEF ReceiveHello, Receives, Consume, historyVars, IInv, TypeOK
<1>2. /\ inbox' \in Seq(Payload) /\ 1 \in 1..Len(inbox) /\ inbox[1].op = "HELLO"
      /\ Len(inbox) \in Nat
      /\ \A i \in Dispatches' : i + 1 \in Dispatches
      /\ Awaits("HELLO")' => \E i \in 2..Len(inbox) : inbox[i].op = "HELLO"
      /\ Awaits("CLOSE4004")' => Awaits("CLOSE4004")
  BY <1>1, LinkTail DEF ReceiveHello, Receives
<1>3. /\ Awaits("HELLO") /\ Dispatches = {} /\ ~attached /\ request = Nothing
      /\ ~Awaits("CLOSE4004") /\ \A i \in 1..Len(inbox) : inbox[i].op = "HELLO" => i = 1
  <2>1. Awaits("HELLO")
    BY <1>2 DEF Awaits
  <2> QED
    BY <2>1 DEF IInv, LinkInPhase
<1>4. Dispatches' = {} /\ ~Awaits("HELLO")' /\ ~Awaits("CLOSE4004")'
  <2>1. \A i \in 2..Len(inbox) : i \in 1..Len(inbox) /\ i # 1
    BY <1>2
  <2> QED
    BY <1>2, <1>3, <2>1
<1>5. \/ /\ sessionID # NoSession /\ UNCHANGED <<sessionID, sequence, gapPending>>
         /\ request' = [op |-> "RESUME", session |-> sessionID, seq |-> sequence]
      \/ /\ request' = [op |-> "IDENTIFY"] /\ sessionID' = NoSession
         /\ \/ sequence' = 0 /\ gapPending' = TRUE
            \/ UNCHANGED <<sessionID, sequence, gapPending>>
  BY Zenon DEF ReceiveHello
<1>6. TypeOK'
  <2>1. request' \in Request
    BY <1>1, <1>5, Requests
  <2>2. sessionID' \in Nat \cup {NoSession} /\ sequence' \in Nat
    BY <1>1, <1>5
  <2>3. gapPending' \in BOOLEAN /\ recent' \in BOOLEAN
    BY <1>5, Zenon DEF ReceiveHello, Receives, IInv, TypeOK
  <2> QED
    BY <1>1, <1>2, <2>1, <2>2, <2>3 DEF IInv, TypeOK
<1>7. GapIsOwed'
  BY <1>1, <1>5 DEF IInv, GapIsOwed
<1>8. ServerKeepsAll'
  BY <1>1 DEF IInv, ServerKeepsAll
<1>9. ClientFollows'
  <2>1. CASE UNCHANGED <<sessionID, sequence>>
    BY <1>1, <2>1 DEF IInv, ClientFollows
  <2>2. CASE sessionID' = NoSession /\ sequence' = 0
    <3>1. started \in Nat /\ started # NoSession
      BY GatewayAssumption DEF GatewayAssumption, IInv, TypeOK
    <3> QED
      BY <1>1, <2>2, <3>1 DEF ClientFollows
  <2> QED
    BY <1>5, <2>1, <2>2
<1>10. DispatchesInOrder' /\ AttachedUpToDate'
  BY <1>1, <1>3, <1>4 DEF DispatchesInOrder, AttachedUpToDate
<1>11. RequestIsCurrent'
  <2>1. CASE request' = [op |-> "IDENTIFY"] /\ sessionID' = NoSession
    <3>1. request'.op = "IDENTIFY"
      BY <2>1
    <3> QED
      BY <1>1, <1>3, <1>4, <2>1, <3>1 DEF RequestIsCurrent
  <2>2. CASE /\ sessionID # NoSession /\ UNCHANGED <<sessionID, sequence>>
             /\ request' = [op |-> "RESUME", session |-> sessionID, seq |-> sequence]
    <3>1. request'.op = "RESUME" /\ request'.session = sessionID /\ request'.seq = sequence
      BY <2>2
    <3> QED
      BY <1>1, <1>3, <1>4, <2>2, <3>1 DEF RequestIsCurrent
  <2> QED
    BY <1>5, <2>1, <2>2
<1>12. LinkInPhase'
  <2>1. \A i \in 1..Len(inbox') : inbox'[i].op # "HELLO"
    BY <1>4 DEF Awaits
  <2> QED
    BY <1>1, <1>4, <2>1 DEF LinkInPhase
<1> QED
  BY <1>6, <1>7, <1>8, <1>9, <1>10, <1>11, <1>12 DEF IInv

(***************************************************************************)
(* READY, RESUMED and the other dispatches: what reading one says of the   *)
(* link, which holds whatever the client notes of it.                      *)
(***************************************************************************)
LEMMA ReadKeepsLink ==
  ASSUME IInv, ReceiveReady \/ ReceiveResumed \/ ReceiveEvent
  PROVE  /\ DispatchesInOrder' /\ AttachedUpToDate' /\ RequestIsCurrent' /\ LinkInPhase'
         /\ inbox' \in Seq(Payload) /\ ServerKeepsAll'
<1>1. /\ UNCHANGED <<phase, session, started, log, base, happened, request, attached, broken>>
      /\ inbox \in Seq(Payload) /\ inbox # <<>> /\ inbox' = Tail(inbox) /\ phase = "read"
      /\ started \in Nat /\ sequence \in Nat /\ started # NoSession
  BY GatewayAssumption
     DEF GatewayAssumption, ReceiveReady, ReceiveResumed, ReceiveEvent, Receives, Consume, serverVars,
         IInv, TypeOK
<1>2. /\ inbox' \in Seq(Payload) /\ 1 \in 1..Len(inbox) /\ Head(inbox) = inbox[1]
      /\ Len(inbox) \in Nat
      /\ \A i \in 1..Len(inbox') : i + 1 \in 1..Len(inbox) /\ inbox'[i] = inbox[i + 1]
      /\ \A i \in Dispatches' : i + 1 \in Dispatches
      /\ Awaits("HELLO")' => \E i \in 2..Len(inbox) : inbox[i].op = "HELLO"
      /\ Awaits("CLOSE4004")' => Awaits("CLOSE4004")
  BY <1>1, LinkTail
<1>3. Awaits("HELLO")' => Awaits("HELLO")
  <2>1. \A i \in 2..Len(inbox) : i \in 1..Len(inbox)
    BY <1>2
  <2> QED
    BY <1>2, <2>1 DEF Awaits
<1>4. sequence' = IF Head(inbox).op \in {"READY", "EVENT"} THEN sequence + 1 ELSE sequence
  <2>1. CASE ReceiveResumed
    BY <2>1 DEF ReceiveResumed, Receives
  <2>2. CASE ReceiveReady \/ ReceiveEvent
    <3>1. Head(inbox).op \in {"READY", "EVENT"} /\ NoteSequence
      BY <2>2 DEF ReceiveReady, ReceiveEvent, Receives
    <3>2. Head(inbox).s = sequence + 1
      BY <1>1, <3>1, NextDispatch
    <3>3. sequence' = sequence + 1
      BY <1>1, <3>1, <3>2 DEF NoteSequence
    <3> QED
      BY <3>1, <3>3
  <2> QED
    BY <2>1, <2>2
<1>5. Dispatches # {} => sessionID' \in {NoSession, started}
  <2> SUFFICES ASSUME Dispatches # {}
               PROVE  sessionID' \in {NoSession, started}
    OBVIOUS
  <2>1. sessionID \in {NoSession, started}
    BY DEF IInv, DispatchesInOrder
  <2>2. CASE ReceiveReady
    <3>1. Head(inbox).op = "READY" /\ sessionID' = Head(inbox).session
      BY <2>2 DEF ReceiveReady, Receives
    <3> QED
      BY <1>1, <3>1, NextDispatch
  <2>3. CASE ReceiveResumed \/ ReceiveEvent
    BY <2>1, <2>3 DEF ReceiveResumed, ReceiveEvent
  <2> QED
    BY <2>2, <2>3
<1>6. Dispatches' # {} => sessionID' \in {NoSession, started}
  BY <1>2, <1>5
<1>7. /\ DispatchesInOrder'
      /\ session # NoSession /\ (\/ sequence = Len(log) + 1
                                 \/ \E k \in Dispatches : inbox[k].s = Len(log) + 1) =>
           \/ sequence' = Len(log) + 1
           \/ \E k \in Dispatches' : inbox'[k].s = Len(log) + 1
  BY <1>1, <1>4, <1>6, ReadKeepsOrder
<1>8. AttachedUpToDate'
  <2> SUFFICES ASSUME attached
               PROVE  AttachedUpToDate'
    BY <1>1 DEF AttachedUpToDate
  <2>1. /\ session # NoSession /\ session = started /\ sessionID \in {NoSession, session}
        /\ request = Nothing /\ ~broken
        /\ sequence = Len(log) + 1 \/ \E k \in Dispatches : inbox[k].s = Len(log) + 1
    BY DEF IInv, AttachedUpToDate, ServerKeepsAll
  <2>2. sessionID' \in {NoSession, session}
    <3>1. CASE ReceiveReady
      <4>1. Head(inbox).op = "READY" /\ sessionID' = Head(inbox).session
        BY <3>1 DEF ReceiveReady, Receives
      <4> QED
        BY <1>1, <2>1, <4>1, NextDispatch
    <3>2. CASE ReceiveResumed \/ ReceiveEvent
      BY <2>1, <3>2 DEF ReceiveResumed, ReceiveEvent
    <3> QED
      BY <3>1, <3>2
  <2> QED
    BY <1>1, <1>7, <2>1, <2>2 DEF AttachedUpToDate
<1>9. RequestIsCurrent'
  <2>1. CASE request = Nothing
    BY <1>1, <2>1, Requests DEF RequestIsCurrent
  <2>2. CASE request # Nothing
    <3>1. Dispatches = {} /\ ~attached /\ ~Awaits("HELLO")
      BY <2>2 DEF IInv, RequestIsCurrent
    <3>2. ReceiveResumed
      BY <1>2, <3>1 DEF ReceiveReady, ReceiveEvent, Receives, Dispatches
    <3>3. UNCHANGED <<sessionID, sequence>> /\ Dispatches' = {} /\ ~Awaits("HELLO")'
      BY <1>2, <1>3, <3>1, <3>2 DEF ReceiveResumed
    <3> QED
      BY <1>1, <3>1, <3>3 DEF IInv, RequestIsCurrent
  <2> QED
    BY <2>1, <2>2
<1>10. LinkInPhase'
  <2>1. ~Awaits("HELLO")
    <3>1. inbox[1].op # "HELLO"
      BY <1>2 DEF ReceiveReady, ReceiveResumed, ReceiveEvent, Receives
    <3> QED
      BY <3>1 DEF IInv, LinkInPhase, Awaits
  <2>2. ~Awaits("HELLO")'
    BY <1>3, <2>1
  <2>3. \A i \in 1..Len(inbox') : inbox'[i].op # "HELLO"
    BY <2>2 DEF Awaits
  <2>4. Awaits("CLOSE4004")' => broken' /\ request' = Nothing
    BY <1>1, <1>2 DEF IInv, LinkInPhase
  <2> QED
    BY <1>1, <2>2, <2>3, <2>4 DEF LinkInPhase
<1>11. ServerKeepsAll'
  BY <1>1 DEF IInv, ServerKeepsAll
<1> QED
  BY <1>2, <1>7, <1>8, <1>9, <1>10, <1>11

(***************************************************************************)
(* READY comes to a client that holds no session, so a gap is reported     *)
(* unless it is the first READY of all, and the client's place is the      *)
(* start of the session.                                                   *)
(***************************************************************************)
LEMMA ReadyKeepsIInv ==
  ASSUME IInv, ReceiveReady
  PROVE  IInv'
<1>1. /\ UNCHANGED <<phase, backoff, request, session, started, log, attached, base, broken,
                     happened, faults>>
      /\ inbox # <<>> /\ Head(inbox).op = "READY" /\ NoteSequence
      /\ sessionID' = Head(inbox).session
      /\ base \in Nat /\ started \in Nat /\ started # NoSession /\ log \in Seq(Nat)
  BY GatewayAssumption DEF GatewayAssumption, ReceiveReady, Receives, serverVars, IInv, TypeOK
<1>2. /\ sequence = 0 /\ sessionID = NoSession /\ sessionID' = started
      /\ Head(inbox).base = base /\ Head(inbox).s = 1
  BY <1>1, NextDispatch
<1>3. sequence' = 1
  BY <1>1, <1>2 DEF NoteSequence
<1>4. gapPending' = FALSE /\ joined' = TRUE /\ readySince' = TRUE /\ connected' = TRUE
      /\ recent' = TRUE
  BY DEF ReceiveReady, Receives
<1>5. accounted' = base
  <2>1. joined => gapPending
    BY <1>2 DEF IInv, GapIsOwed
  <2> QED
    BY <1>2, <2>1, Zenon DEF ReceiveReady, ReportsGap
<1>6. TypeOK'
  <2>1. pauses' \in Nat
    BY DEF ReceiveReady
  <2>2. gapPending' \in BOOLEAN /\ joined' \in BOOLEAN /\ readySince' \in BOOLEAN
        /\ connected' \in BOOLEAN /\ recent' \in BOOLEAN
    BY <1>4
  <2>3. inbox' \in Seq(Payload)
    BY ReadKeepsLink
  <2>4. sessionID' \in Nat \cup {NoSession} /\ sequence' \in Nat /\ accounted' \in Nat
    BY <1>1, <1>2, <1>3, <1>5
  <2> QED
    BY <1>1, <2>1, <2>2, <2>3, <2>4 DEF IInv, TypeOK
<1>7. GapIsOwed'
  BY <1>1, <1>2 DEF GapIsOwed
<1>8. ClientFollows'
  <2>1. accounted' = base + sequence' - 1 /\ sequence' # 0
    BY <1>1, <1>3, <1>5
  <2>2. sequence' <= Len(log) + 1
    BY <1>1, <1>3
  <2> QED
    BY <1>1, <1>2, <2>1, <2>2 DEF ClientFollows
<1> QED
  BY <1>6, <1>7, <1>8, ReadKeepsLink DEF IInv

(***************************************************************************)
(* Any other dispatch is the event after the last one accounted for.       *)
(***************************************************************************)
LEMMA EventKeepsIInv ==
  ASSUME IInv, ReceiveEvent
  PROVE  IInv'
<1>1. /\ UNCHANGED <<phase, sessionID, gapPending, readySince, backoff, pauses, joined, request,
                     session, started, log, attached, base, broken, happened, faults>>
      /\ inbox # <<>> /\ Head(inbox).op = "EVENT" /\ NoteSequence
      /\ accounted' = Head(inbox).event
      /\ base \in Nat /\ sequence \in Nat /\ log \in Seq(Nat)
  BY DEF ReceiveEvent, Receives, serverVars, IInv, TypeOK
<1>2. /\ Head(inbox).s = sequence + 1 /\ Head(inbox).event = base + sequence
      /\ sessionID = started /\ sessionID # NoSession
  BY <1>1, NextDispatch
<1>3. sequence' = sequence + 1
  BY <1>1, <1>2 DEF NoteSequence
<1>4. TypeOK'
  <2>1. connected' \in BOOLEAN /\ recent' \in BOOLEAN
    BY DEF ReceiveEvent, Receives
  <2>2. sequence' \in Nat /\ accounted' \in Nat
    BY <1>1, <1>2, <1>3
  <2>3. inbox' \in Seq(Payload)
    BY ReadKeepsLink
  <2> QED
    BY <1>1, <2>1, <2>2, <2>3 DEF IInv, TypeOK
<1>5. GapIsOwed'
  BY <1>1 DEF IInv, GapIsOwed
<1>6. ClientFollows'
  <2>1. accounted' = base + sequence' - 1 /\ sequence' # 0
    BY <1>1, <1>2, <1>3
  <2>2. session # NoSession => sequence' <= Len(log) + 1
    <3>1. 1 \in Dispatches /\ inbox[1] = Head(inbox)
      BY <1>1, NextDispatch
    <3> QED
      BY <1>2, <1>3, <3>1 DEF IInv, DispatchesInOrder
  <2>3. sessionID <= started
    BY <1>2 DEF IInv, ClientFollows
  <2> QED
    BY <1>1, <1>2, <2>1, <2>2, <2>3 DEF ClientFollows
<1> QED
  BY <1>4, <1>5, <1>6, ReadKeepsLink DEF IInv

\* A RESUMED keeps the invariant: it changes nothing but that the client takes itself for connected.
LEMMA ResumedKeepsIInv ==
  ASSUME IInv, ReceiveResumed
  PROVE  IInv'
<1>1. UNCHANGED <<phase, sessionID, sequence, gapPending, readySince, backoff, request, session,
                  started, log, attached, base, accounted, pauses, joined, broken, happened, faults>>
  BY DEF ReceiveResumed, serverVars, historyVars
<1>2. TypeOK'
  <2>1. connected' \in BOOLEAN /\ recent' \in BOOLEAN
    BY DEF ReceiveResumed, Receives
  <2>2. inbox' \in Seq(Payload)
    BY ReadKeepsLink
  <2> QED
    BY <1>1, <2>1, <2>2 DEF IInv, TypeOK
<1>3. GapIsOwed' /\ ClientFollows'
  BY <1>1 DEF IInv, GapIsOwed, ClientFollows
<1> QED
  BY <1>2, <1>3, ReadKeepsLink DEF IInv

(***************************************************************************)
(* Close code 4004 ends Run: nothing follows it.                           *)
(***************************************************************************)
LEMMA CloseKeepsIInv ==
  ASSUME IInv, ReceiveClose4004
  PROVE  IInv'
<1>1. /\ UNCHANGED <<sessionID, sequence, gapPending, recent, request, session, started, log,
                     attached, base, accounted, pauses, joined, happened, faults>>
      /\ inbox' = <<>> /\ phase' = "fatal"
  BY DEF ReceiveClose4004, serverVars, historyVars
<1>2. request = Nothing /\ ~attached
  <2>1. Awaits("CLOSE4004")
    <3>1. inbox \in Seq(Payload) /\ inbox # <<>> /\ Head(inbox).op = "CLOSE4004"
      BY DEF ReceiveClose4004, IInv, TypeOK
    <3>2. Head(inbox) = inbox[1] /\ 1 \in 1..Len(inbox)
      BY <3>1
    <3> QED
      BY <3>1, <3>2 DEF Awaits
  <2> QED
    BY <2>1 DEF IInv, LinkInPhase, AttachedUpToDate
<1>3. DispatchesInOrder' /\ AttachedUpToDate' /\ RequestIsCurrent' /\ LinkInPhase'
  <2>1. attached' = FALSE
    BY <1>1, <1>2, Zenon DEF IInv, TypeOK
  <2>2. (inbox = <<>> /\ request = Nothing /\ attached = FALSE)'
    BY <1>1, <1>2, <2>1
  <2> QED
    BY <2>2, EmptyLink, PTL
<1>4. TypeOK'
  <2>1. backoff' \in 1..BackoffCap
    BY BackoffType DEF ReceiveClose4004, IInv, TypeOK
  <2>2. readySince' \in BOOLEAN /\ connected' \in BOOLEAN /\ broken' \in BOOLEAN
    BY DEF ReceiveClose4004
  <2> QED
    BY <1>1, <2>1, <2>2 DEF IInv, TypeOK, Phases
<1>5. GapIsOwed' /\ ServerKeepsAll' /\ ClientFollows'
  BY <1>1 DEF IInv, GapIsOwed, ServerKeepsAll, ClientFollows
<1> QED
  BY <1>3, <1>4, <1>5 DEF IInv

(***************************************************************************)
(* Every way the connection is given up is one of Leave.                   *)
(***************************************************************************)
LEMMA GivingUpKeepsIInv ==
  ASSUME IInv, DialFails \/ HelloWriteFails \/ ReceiveReconnect \/ ReceiveInvalid \/ ReadFails
  PROVE  IInv'
<1>1. Leave /\ UNCHANGED <<session, started, log, base, accounted, joined, happened>>
  BY DEF DialFails, HelloWriteFails, ReceiveReconnect, ReceiveInvalid, ReadFails
<1>2. \/ UNCHANGED <<sessionID, sequence, gapPending>>
      \/ sessionID' = NoSession /\ sequence' = 0 /\ gapPending' = TRUE
  BY DEF DialFails, HelloWriteFails, ReceiveReconnect, ReceiveInvalid, ReadFails
<1>3. recent' = recent \/ recent' = TRUE
  BY DEF DialFails, HelloWriteFails, ReceiveReconnect, ReceiveInvalid, ReadFails, Receives
<1>4. recent' \in BOOLEAN
  BY <1>3, Zenon DEF IInv, TypeOK
<1>5. faults' \in 0..MaxFaults
  <2>1. faults' = faults \/ Fault
    BY DEF DialFails, HelloWriteFails, ReceiveReconnect, ReceiveInvalid, ReadFails
  <2>2. faults \in 0..MaxFaults
    BY DEF IInv, TypeOK
  <2> QED
    BY <2>1, <2>2, GatewayAssumption DEF GatewayAssumption, Fault
<1> QED
  BY <1>1, <1>2, <1>4, <1>5, LeaveKeepsIInv

\* Every step keeps the invariant.
LEMMA StepKeepsIInv == IInv /\ [Next]_gatewayVars => IInv'
<1> SUFFICES ASSUME IInv, [Next]_gatewayVars PROVE IInv'
  OBVIOUS
<1>1. CASE UNCHANGED gatewayVars
  <2>1. UNCHANGED <<phase, sessionID, sequence, gapPending, recent, readySince, backoff, connected,
                    inbox, broken, request, session, started, log, attached, base,
                    happened, faults, accounted, pauses, joined>>
    BY <1>1 DEF gatewayVars, clientVars, serverVars, linkVars, historyVars
  <2>2. UNCHANGED Dispatches /\ \A op : UNCHANGED Awaits(op)
    BY <2>1 DEF Dispatches, Awaits
  <2> QED
    BY <2>1, <2>2 DEF IInv, TypeOK, GapIsOwed, ServerKeepsAll, ClientFollows, DispatchesInOrder,
                      AttachedUpToDate, RequestIsCurrent, LinkInPhase
<1> QED
  BY <1>1, LinkUntouched, QuietSendKeepsIInv, EventHappensKeepsIInv, IdentifyKeepsIInv,
     ResumeKeepsIInv, BreakKeepsIInv, HelloKeepsIInv, ReadyKeepsIInv, EventKeepsIInv,
     ResumedKeepsIInv, CloseKeepsIInv, GivingUpKeepsIInv
     DEF Next, Client, Server, Faults

(***************************************************************************)
(* Every behaviour stays in the inductive invariant.                       *)
(***************************************************************************)
THEOREM Invariance == Spec => []IInv
<1>1. Init => IInv
  <2> SUFFICES ASSUME Init PROVE IInv
    OBVIOUS
  <2>1. TypeOK
    <3>1. /\ gapPending \in BOOLEAN /\ recent \in BOOLEAN /\ readySince \in BOOLEAN
          /\ connected \in BOOLEAN /\ broken \in BOOLEAN /\ attached \in BOOLEAN /\ joined \in BOOLEAN
      BY DEF Init
    <3>2. backoff \in 1..BackoffCap /\ faults \in 0..MaxFaults
      BY GatewayAssumption, BackoffType DEF GatewayAssumption, Init
    <3>3. inbox \in Seq(Payload) /\ log \in Seq(Nat) /\ request \in Request
      BY Requests DEF Init
    <3> QED
      BY <3>1, <3>2, <3>3 DEF Init, TypeOK, Phases
  <2>2. DispatchesInOrder /\ AttachedUpToDate /\ RequestIsCurrent /\ LinkInPhase
    BY EmptyLink DEF Init
  <2>3. ServerKeepsAll /\ ClientFollows /\ GapIsOwed
    BY GatewayAssumption DEF GatewayAssumption, Init, ServerKeepsAll, ClientFollows, GapIsOwed
  <2> QED
    BY <2>1, <2>2, <2>3 DEF IInv
<1> QED
  BY <1>1, StepKeepsIInv, PTL DEF Spec

(***************************************************************************)
(* Every variable of the session keeps its type in every behaviour.        *)
(***************************************************************************)
THEOREM TypeCorrect == Spec => []TypeOK
BY Invariance, PTL DEF IInv

(***************************************************************************)
(* Over any number of broken connections the client remembers that it owes *)
(* its readers a gap (Gateway.gapPending).                                 *)
(***************************************************************************)
THEOREM GapStaysOwed == Spec => []GapIsOwed
BY Invariance, PTL DEF IInv

(***************************************************************************)
(* A RESUME always names the last dispatch of that very session that was   *)
(* handed on (Gateway.sequence and sessionID).                             *)
(***************************************************************************)
THEOREM ResumesWhereItStopped == Spec => []ResumePoint
<1>1. IInv => ResumePoint
  <2> SUFFICES ASSUME IInv, sessionID # NoSession, sessionID = session
               PROVE  /\ sequence \in 1..(Len(log) + 1)
                      /\ accounted = IF sequence = 1 THEN base ELSE log[sequence - 1]
    BY DEF ResumePoint
  <2>1. /\ sequence \in Nat /\ base \in Nat /\ accounted \in Nat /\ log \in Seq(Nat)
        /\ sequence # 0 /\ sequence <= Len(log) + 1 /\ sessionID = started
        /\ accounted = base + sequence - 1
        /\ \A i \in 1..Len(log) : log[i] = base + i
    BY DEF IInv, TypeOK, ClientFollows, ServerKeepsAll
  <2>2. CASE sequence = 1
    BY <2>1, <2>2
  <2>3. CASE sequence # 1
    <3>1. PICK k \in 1..Len(log) : k = sequence - 1
      BY <2>1, <2>3
    <3>2. log[k] = base + k /\ base + k = base + sequence - 1
      BY <2>1, <3>1
    <3> QED
      BY <2>1, <2>3, <3>1, <3>2
  <2> QED
    BY <2>2, <2>3
<1> QED
  BY <1>1, Invariance, PTL

(***************************************************************************)
(* Events are handed on in the order they happened, each once, and none is *)
(* skipped without a gap, over any faults of the server and the link.      *)
(***************************************************************************)
THEOREM NoneLostSilently == Spec => NoSilentLoss
<1>1. IInv /\ [Next]_gatewayVars =>
        [\A e \in 1..MaxEvents :
           ReceiveEvent /\ Head(inbox).event = e => e = accounted + 1]_gatewayVars
  <2> SUFFICES ASSUME IInv, ReceiveEvent
               PROVE  Head(inbox).event = accounted + 1
    OBVIOUS
  <2>1. inbox # <<>> /\ Head(inbox).op = "EVENT"
    BY DEF ReceiveEvent, Receives
  <2> QED
    BY <2>1, NextDispatch
<1> QED
  BY <1>1, Invariance, PTL DEF Spec, NoSilentLoss

-----------------------------------------------------------------------------
\* Payloads that were on their way stay sound while nothing is handed on, and
\* a new one may join them that is sound itself.
LEMMA OnTheirWay ==
  ASSUME IInv, OnlyWhatHappened, UNCHANGED accounted,
         happened' \in Nat, happened <= happened', happened' <= MaxEvents,
         \A i \in 1..Len(inbox') :
           \/ \E j \in 1..Len(inbox) : inbox'[i] = inbox[j]
           \/ /\ inbox'[i].op = "EVENT" => inbox'[i].event <= happened'
              /\ inbox'[i].op = "READY" => accounted <= inbox'[i].base
  PROVE  OnlyWhatHappened'
<1>1. accounted \in Nat /\ happened \in Nat /\ inbox \in Seq(Payload)
  BY DEF IInv, TypeOK
<1>2. MaxEvents \in Nat
  BY GatewayAssumption
<1>3. accounted' <= happened' /\ happened' <= MaxEvents
  BY <1>1 DEF OnlyWhatHappened
<1>4. ASSUME NEW i \in 1..Len(inbox'), NEW j \in 1..Len(inbox), inbox'[i] = inbox[j]
      PROVE  /\ inbox'[i].op = "EVENT" => inbox'[i].event <= happened'
             /\ inbox'[i].op = "READY" => accounted' <= inbox'[i].base
  <2>1. inbox[j] \in Payload
    BY <1>1
  <2>2. /\ inbox[j].op = "EVENT" => inbox[j].event <= happened
        /\ inbox[j].op = "READY" => accounted <= inbox[j].base
    BY DEF OnlyWhatHappened
  <2> QED
    BY <1>1, <1>4, <2>1, <2>2, PayloadFields
<1> QED
  BY <1>3, <1>4 DEF OnlyWhatHappened

\* One payload is sent, and whatever it is, it is sound.
LEMMA OneMore ==
  ASSUME IInv, OnlyWhatHappened, UNCHANGED accounted,
         happened' \in Nat, happened <= happened', happened' <= MaxEvents,
         NEW p, inbox' = Append(inbox, p),
         p.op = "EVENT" => p.event <= happened',
         p.op = "READY" => accounted <= p.base
  PROVE  OnlyWhatHappened'
<1>1. PICK n \in Nat : n = Len(inbox)
  BY DEF IInv, TypeOK
<1>2. inbox \in Seq(Payload)
  BY DEF IInv, TypeOK
<1>3. /\ Len(inbox') = n + 1
      /\ \A i \in 1..n : inbox'[i] = inbox[i]
      /\ inbox'[n + 1] = p
  BY <1>1, <1>2
<1>4. \A i \in 1..(n + 1) : i \in 1..n \/ i = n + 1
  OBVIOUS
<1> QED
  BY <1>1, <1>3, <1>4, OnTheirWay

\* Nothing new is sent.
LEMMA NoneSent ==
  ASSUME IInv, OnlyWhatHappened, UNCHANGED <<accounted, happened>>,
         \A i \in 1..Len(inbox') : \E j \in 1..Len(inbox) : inbox'[i] = inbox[j]
  PROVE  OnlyWhatHappened'
<1>1. happened \in Nat
  BY DEF IInv, TypeOK
<1> QED
  BY <1>1, OnTheirWay DEF OnlyWhatHappened

(***************************************************************************)
(* Nothing that is handed on was made up or had been accounted for.        *)
(***************************************************************************)
THEOREM NothingMadeUp == Spec => []OnlyWhatHappened
<1>1. Init => OnlyWhatHappened
  BY GatewayAssumption DEF GatewayAssumption, Init, OnlyWhatHappened
<1>2. IInv /\ IInv' /\ OnlyWhatHappened /\ [Next]_gatewayVars => OnlyWhatHappened'
  <2> SUFFICES ASSUME IInv, IInv', OnlyWhatHappened, [Next]_gatewayVars
               PROVE  OnlyWhatHappened'
    OBVIOUS
  <2>1. inbox \in Seq(Payload) /\ accounted \in Nat /\ happened \in Nat /\ base \in Nat
    BY DEF IInv, TypeOK
  <2>2. CASE UNCHANGED gatewayVars \/ Retry \/ WindowExpires \/ ServerForgets
    <3>1. UNCHANGED <<accounted, happened, inbox>>
      BY <2>2 DEF gatewayVars, clientVars, serverVars, linkVars, historyVars, Retry,
                  WindowExpires, ServerForgets
    <3> QED
      BY <3>1, NoneSent
  <2>3. CASE DialFails \/ HelloWriteFails \/ ReceiveReconnect \/ ReceiveInvalid
             \/ ReadFails \/ ReceiveClose4004
    <3>1. UNCHANGED <<accounted, happened>> /\ inbox' = <<>>
      BY <2>3 DEF DialFails, HelloWriteFails, ReceiveReconnect, ReceiveInvalid, ReadFails,
                  ReceiveClose4004, Leave, historyVars
    <3> QED
      BY <3>1, NoneSent
  <2>4. CASE LinkBreaks
    <3>1. UNCHANGED <<accounted, happened>> /\ \E n \in 0..Len(inbox) : inbox' = SubSeq(inbox, 1, n)
      BY <2>4 DEF LinkBreaks, historyVars
    <3>2. \A i \in 1..Len(inbox') : i \in 1..Len(inbox) /\ inbox'[i] = inbox[i]
      BY <2>1, <3>1
    <3> QED
      BY <3>1, <3>2, NoneSent
  <2>5. CASE ReceiveHello \/ ReceiveResumed
    <3>1. UNCHANGED <<accounted, happened>> /\ inbox' = Tail(inbox) /\ inbox # <<>>
      BY <2>5 DEF ReceiveHello, ReceiveResumed, Receives, Consume, historyVars
    <3>2. \A i \in 1..Len(inbox') : i + 1 \in 1..Len(inbox) /\ inbox'[i] = inbox[i + 1]
      BY <2>1, <3>1, LinkTail
    <3> QED
      BY <3>1, <3>2, NoneSent
  <2>6. CASE \/ DialSucceeds \/ (\E resumable \in BOOLEAN : ServerInvalidates(resumable))
             \/ ServerAsksReconnect \/ ServerRefusesToken
    <3>1. UNCHANGED <<accounted, happened>>
          /\ \E p : inbox' = Append(inbox, p) /\ p.op \notin {"EVENT", "READY"}
      <4>1. CASE DialSucceeds
        BY <4>1 DEF DialSucceeds, Send, historyVars
      <4>2. CASE \E resumable \in BOOLEAN : ServerInvalidates(resumable)
        BY <4>2 DEF ServerInvalidates, Send, historyVars
      <4>3. CASE ServerAsksReconnect
        BY <4>3 DEF ServerAsksReconnect, Send, historyVars
      <4>4. CASE ServerRefusesToken
        BY <4>4 DEF ServerRefusesToken, Send, historyVars
      <4> QED
        BY <2>6, <4>1, <4>2, <4>3, <4>4
    <3>2. happened' \in Nat /\ happened <= happened' /\ happened' <= MaxEvents
      BY <2>1, <3>1 DEF OnlyWhatHappened
    <3> QED
      BY <3>1, <3>2, OneMore
  <2>7. CASE EventHappens
    <3>1. UNCHANGED accounted /\ happened' = happened + 1 /\ happened < MaxEvents
      BY <2>7 DEF EventHappens, historyVars
    <3>2. MaxEvents \in Nat
      BY GatewayAssumption DEF GatewayAssumption
    <3>3. happened' \in Nat /\ happened <= happened' /\ happened' <= MaxEvents
      BY <2>1, <3>1, <3>2
    <3>4. CASE UNCHANGED inbox
      BY <3>1, <3>3, <3>4, OnTheirWay
    <3>5. CASE inbox' = Append(inbox, [op |-> "EVENT", s |-> Len(log) + 2, event |-> happened + 1])
      <4>1. PICK p : p = [op |-> "EVENT", s |-> Len(log) + 2, event |-> happened + 1]
        OBVIOUS
      <4>2. inbox' = Append(inbox, p) /\ p.op = "EVENT" /\ p.event = happened + 1
        BY <3>5, <4>1
      <4>3. p.event <= happened'
        BY <2>1, <3>1, <4>2
      <4> QED
        BY <3>1, <3>3, <4>2, <4>3, OneMore
    <3> QED
      BY <2>7, <3>4, <3>5, Zenon DEF EventHappens, Send
  <2>8. CASE ServerIdentify
    <3>1. UNCHANGED <<accounted, happened>>
          /\ \E p : inbox' = Append(inbox, p) /\ p.op = "READY" /\ p.base = happened
      BY <2>8 DEF ServerIdentify, Send, historyVars
    <3>2. happened' \in Nat /\ happened <= happened' /\ happened' <= MaxEvents
          /\ accounted <= happened
      BY <2>1, <3>1 DEF OnlyWhatHappened
    <3> QED
      BY <3>1, <3>2, OneMore
  <2>9. CASE ServerResume
    <3>1. UNCHANGED <<accounted, happened, sequence, session, base, log, sessionID>>
      BY <2>9 DEF ServerResume, historyVars, clientVars
    <3>2. session # NoSession /\ sequence \in Nat /\ sequence # 0
      BY <2>9, Requests DEF ServerResume, IInv, RequestIsCurrent, ClientFollows, TypeOK
    <3>3. base \in Nat /\ Len(log) = happened - base
      BY <2>1, <3>2 DEF IInv, ServerKeepsAll
    <3>4. ASSUME NEW i \in 1..Len(inbox'), inbox'[i].op \in {"READY", "EVENT"}
          PROVE  inbox'[i].op = "EVENT" /\ inbox'[i].event <= happened
      <4>1. i \in Dispatches' /\ inbox'[i] \in Payload /\ inbox'[i].s \in Nat
        <5>1. (inbox \in Seq(Payload))' /\ i \in Dispatches'
          BY <3>4 DEF Dispatches, IInv, TypeOK
        <5> QED
          BY <5>1, <3>4, PayloadFields
      <4>2. /\ inbox'[i].op = "EVENT" => inbox'[i].event = base + inbox'[i].s - 1
            /\ inbox'[i].s > sequence
            /\ inbox'[i].s <= Len(log) + 1
        BY <3>1, <3>2, <4>1 DEF IInv, DispatchesInOrder
      <4>3. inbox'[i].op = "READY" => inbox'[i].s = 1
        BY <4>1, PayloadFields
      <4> QED
        BY <2>1, <3>2, <3>3, <3>4, <4>1, <4>2, <4>3
    <3> QED
      BY <3>1, <3>4 DEF OnlyWhatHappened
  <2>10. ASSUME ReceiveReady \/ ReceiveEvent,
                accounted' \in Nat, accounted' <= happened,
                \A i \in 1..Len(inbox') : inbox'[i].op # "READY"
         PROVE  OnlyWhatHappened'
    <3>1. UNCHANGED happened /\ inbox # <<>> /\ inbox' = Tail(inbox)
      BY <2>10 DEF ReceiveReady, ReceiveEvent, Receives, Consume
    <3>2. \A i \in 1..Len(inbox') : i + 1 \in 1..Len(inbox) /\ inbox'[i] = inbox[i + 1]
      BY <2>1, <3>1, LinkTail
    <3> QED
      BY <2>10, <3>1, <3>2 DEF OnlyWhatHappened
  <2>11. ASSUME ReceiveReady \/ ReceiveEvent, NEW i \in 1..Len(inbox')
         PROVE  inbox'[i].op # "READY"
    <3>1. /\ inbox # <<>> /\ inbox' = Tail(inbox)
          /\ Head(inbox).op \in {"READY", "EVENT"}
      BY <2>11 DEF ReceiveReady, ReceiveEvent, Receives, Consume
    <3>2. 1 \in Dispatches /\ Head(inbox) = inbox[1] /\ inbox[1].s \in Nat
          /\ inbox[1].s = sequence + 1 /\ sequence \in Nat
      BY <3>1, NextDispatch DEF IInv, TypeOK
    <3>3. i + 1 \in 1..Len(inbox) /\ inbox'[i] = inbox[i + 1] /\ 1 < i + 1
      BY <2>1, <3>1, LinkTail
    <3>4. SUFFICES ASSUME inbox[i + 1].op = "READY" PROVE FALSE
      BY <3>3
    <3>5. i + 1 \in Dispatches /\ inbox[i + 1].s = 1
      BY <2>1, <3>3, <3>4, PayloadFields DEF Dispatches
    <3>6. inbox[1].s < inbox[i + 1].s
      BY <3>2, <3>3, <3>5 DEF IInv, DispatchesInOrder
    <3> QED
      BY <3>2, <3>5, <3>6
  <2>12. CASE ReceiveReady
    <3>1. Head(inbox).op = "READY" /\ inbox # <<>>
          /\ accounted' \in {accounted, Head(inbox).base}
      BY <2>12 DEF ReceiveReady, Receives
    <3>2. Head(inbox).base = base
      BY <3>1, NextDispatch
    <3>3. accounted <= happened /\ base <= happened
      BY DEF OnlyWhatHappened, IInv, ServerKeepsAll
    <3>4. accounted' \in Nat /\ accounted' <= happened
      BY <2>1, <3>1, <3>2, <3>3
    <3> QED
      BY <2>10, <2>11, <2>12, <3>4
  <2>13. CASE ReceiveEvent
    <3>1. /\ inbox # <<>> /\ Head(inbox) = inbox[1] /\ 1 \in 1..Len(inbox)
          /\ Head(inbox).op = "EVENT" /\ Head(inbox) \in Payload
          /\ accounted' = Head(inbox).event
      BY <2>1, <2>13 DEF ReceiveEvent, Receives
    <3>2. accounted' \in Nat /\ accounted' <= happened
      BY <3>1, PayloadFields DEF OnlyWhatHappened
    <3> QED
      BY <2>10, <2>11, <2>13, <3>2
  <2> QED
    BY <2>2, <2>3, <2>4, <2>5, <2>6, <2>7, <2>8, <2>9, <2>12, <2>13
       DEF Next, Client, Server, Faults
<1> QED
  BY <1>1, <1>2, Invariance, PTL DEF Spec

-----------------------------------------------------------------------------
(***************************************************************************)
(* The pauses.  A function that is defined by recursion is what its        *)
(* defining equation says only if there is such a function: that, and that *)
(* it holds for every number, is shown from the least element of a set.    *)
(***************************************************************************)
\* A set of naturals that is not empty has a least element...
LEMMA Least ==
  ASSUME NEW I, I \subseteq Nat, I # {}
  PROVE  \E n \in I : \A m \in I : n <= m
<1> DEFINE R == {pair \in Nat \X Nat : pair[1] < pair[2]}
<1>1. IsWellFoundedOn(R, Nat)
  BY NatLessThanWellFounded, Zenon DEF OpToRel
<1>2. \E x \in I : \A y \in I : ~ (<<y, x>> \in R)
  BY <1>1, WFMin
<1>3. \A x, y \in I : <<y, x>> \notin R => x <= y
  OBVIOUS
<1> QED
  BY <1>2, <1>3, Zenon

\* ... so one that has 0, and with a number the next, has every number.
LEMMA Induction ==
  ASSUME NEW I, I \subseteq Nat, 0 \in I, \A n \in I : n + 1 \in I
  PROVE  I = Nat
<1> SUFFICES ASSUME Nat \ I # {} PROVE FALSE
  OBVIOUS
<1>1. PICK n \in Nat \ I : \A m \in Nat \ I : n <= m
  BY Least
<1>2. n - 1 \in Nat
  BY <1>1
<1>3. n - 1 \in I
  BY <1>1, <1>2
<1> QED
  BY <1>1, <1>3

\* The first numbers of 1, 2, 4...
Doubles(g, n) == g \in [0..n -> Nat] /\ g[0] = 1 /\ \A k \in 1..n : g[k] = 2 * g[k - 1]

LEMMA DoublesExist == \A n \in Nat : \E g : Doubles(g, n)
<1> DEFINE I == {n \in Nat : \E g : Doubles(g, n)}
<1>1. 0 \in I
  <2> DEFINE g == [k \in 0..0 |-> 1]
  <2>1. g \in [0..0 -> Nat] /\ g[0] = 1 /\ 1..0 = {}
    OBVIOUS
  <2>2. Doubles(g, 0)
    BY <2>1 DEF Doubles
  <2> QED
    BY <2>2
<1>2. ASSUME NEW n \in I PROVE n + 1 \in I
  <2>1. PICK g : Doubles(g, n)
    OBVIOUS
  <2> DEFINE h == [k \in 0..(n + 1) |-> IF k = n + 1 THEN 2 * g[n] ELSE g[k]]
  <2>2. n \in Nat /\ g \in [0..n -> Nat] /\ g[0] = 1
    BY <2>1 DEF Doubles
  <2>3. h \in [0..(n + 1) -> Nat] /\ h[0] = 1
    BY <2>2
  <2>4. ASSUME NEW k \in 1..(n + 1) PROVE h[k] = 2 * h[k - 1]
    <3>1. CASE k = n + 1
      BY <2>2, <3>1
    <3>2. CASE k # n + 1
      <4>1. k \in 1..n /\ k - 1 \in 0..n /\ k \in 0..(n + 1) /\ k - 1 \in 0..(n + 1) /\ k - 1 # n + 1
        BY <2>2, <3>2
      <4>2. h[k] = g[k] /\ h[k - 1] = g[k - 1]
        BY <3>2, <4>1
      <4> QED
        BY <2>1, <4>1, <4>2 DEF Doubles
    <3> QED
      BY <3>1, <3>2
  <2>5. Doubles(h, n + 1)
    BY <2>3, <2>4 DEF Doubles
  <2> QED
    BY <2>2, <2>5
<1>3. I = Nat
  BY <1>1, <1>2, Induction
<1> QED
  BY <1>3

LEMMA DoublesAgree ==
  ASSUME NEW m \in Nat, NEW n \in Nat, NEW g, NEW h, Doubles(g, m), Doubles(h, n)
  PROVE  \A k \in 0..m \cap 0..n : g[k] = h[k]
<1> DEFINE D == {k \in 0..m \cap 0..n : g[k] # h[k]}
<1> SUFFICES ASSUME D # {} PROVE FALSE
  OBVIOUS
<1>1. PICK k \in D : \A j \in D : k <= j
  <2>1. D \subseteq Nat
    OBVIOUS
  <2> QED
    BY <2>1, Least
<1>2. k # 0
  BY DEF Doubles
<1>3. k - 1 \in 0..m \cap 0..n /\ k \in 1..m /\ k \in 1..n /\ k - 1 \notin D
  BY <1>1, <1>2
<1>4. g[k - 1] = h[k - 1]
  BY <1>3
<1> QED
  BY <1>3, <1>4 DEF Doubles

\* Doubled is 1, 2, 4...
LEMMA DoubledOf ==
  /\ Doubled[0] = 1
  /\ \A n \in Nat : Doubled[n] \in Nat /\ Doubled[n + 1] = 2 * Doubled[n]
<1> DEFINE G(n) == CHOOSE g : Doubles(g, n)
           f == [n \in Nat |-> G(n)[n]]
           Rule(g) == g = [n \in Nat |-> IF n = 0 THEN 1 ELSE 2 * g[n - 1]]
<1>1. \A n \in Nat : Doubles(G(n), n)
  BY DoublesExist
<1> HIDE DEF G
<1>2. f[0] = 1
  BY <1>1 DEF Doubles
<1>3. ASSUME NEW n \in Nat, n # 0 PROVE f[n] = 2 * f[n - 1]
  <2>1. n - 1 \in Nat /\ n \in 1..n /\ n - 1 \in 0..n \cap 0..(n - 1)
    BY <1>3
  <2>2. Doubles(G(n), n) /\ Doubles(G(n - 1), n - 1)
    BY <1>1, <2>1
  <2>3. G(n)[n] = 2 * G(n)[n - 1]
    BY <2>1, <2>2 DEF Doubles
  <2>4. G(n)[n - 1] = G(n - 1)[n - 1]
    BY <2>1, <2>2, DoublesAgree
  <2> QED
    BY <2>1, <2>3, <2>4
<1>4. \A n \in Nat : f[n] \in Nat
  BY <1>1 DEF Doubles
<1>5. Rule(f)
  <2> HIDE DEF f
  <2>1. \A n \in Nat : f[n] = IF n = 0 THEN 1 ELSE 2 * f[n - 1]
    BY <1>2, <1>3
  <2>2. f = [n \in Nat |-> f[n]]
    BY DEF f
  <2> QED
    BY <2>1, <2>2
<1>6. Rule(Doubled)
  <2>1. \E g : Rule(g)
    BY <1>5
  <2>2. Doubled = CHOOSE g : Rule(g)
    BY Zenon DEF Doubled
  <2> HIDE DEF Rule
  <2> QED
    BY <2>1, <2>2, Zenon
<1>7. \A n \in Nat : Doubled[n] = IF n = 0 THEN 1 ELSE 2 * Doubled[n - 1]
  BY <1>6
<1> DEFINE I == {n \in Nat : Doubled[n] \in Nat}
<1>8. \A n \in Nat : Doubled[n + 1] = 2 * Doubled[n]
  BY <1>7
<1>9. I = Nat
  <2>1. 0 \in I
    BY <1>7
  <2>2. \A n \in I : n + 1 \in I
    BY <1>8
  <2> QED
    BY <2>1, <2>2, Induction
<1> QED
  BY <1>7, <1>8, <1>9

\* It grows faster than its argument.
LEMMA DoubledGrows == \A n \in Nat : Doubled[n] >= n + 1
<1> DEFINE I == {n \in Nat : Doubled[n] >= n + 1}
<1>1. 0 \in I
  BY DoubledOf
<1>2. ASSUME NEW n \in I PROVE n + 1 \in I
  <2>1. Doubled[n] \in Nat /\ Doubled[n] >= n + 1 /\ Doubled[n + 1] = 2 * Doubled[n] /\ n \in Nat
    BY DoubledOf
  <2>2. PICK d \in Nat : d = Doubled[n]
    BY <2>1
  <2> QED
    BY <2>1, <2>2
<1>3. I = Nat
  BY <1>1, <1>2, Induction
<1> QED
  BY <1>3

\* What Run makes of a pause is the next one, and past the cap all are equal.
LEMMA PauseOf ==
  /\ Pause(0) = 1
  /\ \A n \in Nat : /\ Pause(n + 1) = IF 2 * Pause(n) > BackoffCap THEN BackoffCap ELSE 2 * Pause(n)
                    /\ n >= BackoffCap => Pause(n) = BackoffCap
<1>1. BackoffCap \in Nat \ {0}
  BY GatewayAssumption DEF GatewayAssumption
<1>2. Pause(0) = 1
  BY <1>1, DoubledOf DEF Pause
<1>3. ASSUME NEW n \in Nat
      PROVE  /\ Pause(n + 1) = IF 2 * Pause(n) > BackoffCap THEN BackoffCap ELSE 2 * Pause(n)
             /\ n >= BackoffCap => Pause(n) = BackoffCap
  <2>1. Doubled[n] \in Nat /\ Doubled[n] >= n + 1 /\ Doubled[n + 1] = 2 * Doubled[n]
    BY DoubledOf, DoubledGrows
  <2>2. PICK d \in Nat : d = Doubled[n]
    BY <2>1
  <2> QED
    BY <1>1, <2>1, <2>2 DEF Pause
<1> QED
  BY <1>2, <1>3

\* A connection that is given up is paused after as the code should.
LEMMA LeaveKeepsPause ==
  ASSUME TypeOK, NextPause, phase \in {"dial", "read"}, Leave
  PROVE  NextPause'
<1>1. /\ phase' = "pause" /\ readySince' = FALSE
      /\ backoff' = IF readySince THEN 1 ELSE backoff
      /\ pauses' = IF pauses > BackoffCap THEN pauses ELSE pauses + 1
      /\ pauses \in Nat /\ BackoffCap \in Nat \ {0}
  BY GatewayAssumption DEF GatewayAssumption, TypeOK, Leave, CountPause
<1>2. pauses' # 0
  BY <1>1
<1>3. CASE readySince
  <2>1. pauses = 0 /\ pauses' - 1 = 0
    BY <1>1, <1>3 DEF NextPause
  <2> QED
    BY <1>1, <1>2, <1>3, <2>1, PauseOf DEF NextPause, Pause
<1>4. CASE ~readySince
  <2>1. backoff = Pause(pauses)
    BY <1>4 DEF NextPause
  <2>2. Pause(pauses' - 1) = Pause(pauses)
    <3>1. CASE pauses > BackoffCap
      <4>1. pauses - 1 \in Nat /\ pauses - 1 >= BackoffCap /\ pauses >= BackoffCap /\ pauses' = pauses
        BY <1>1, <3>1
      <4> QED
        BY <1>1, <4>1, PauseOf
    <3>2. CASE ~(pauses > BackoffCap)
      <4>1. pauses' - 1 = pauses
        BY <1>1, <3>2
      <4> QED
        BY <4>1
    <3> QED
      BY <3>1, <3>2
  <2> QED
    BY <1>1, <1>2, <1>4, <2>1, <2>2 DEF NextPause, Pause
<1> QED
  BY <1>3, <1>4

\* Every step keeps the rule of the pauses.
LEMMA StepKeepsPause == TypeOK /\ NextPause /\ [Next]_gatewayVars => NextPause'
<1> SUFFICES ASSUME TypeOK, NextPause, [Next]_gatewayVars PROVE NextPause'
  OBVIOUS
<1>1. ASSUME UNCHANGED <<phase, readySince, backoff, pauses>> PROVE NextPause'
  BY <1>1 DEF NextPause, Pause
<1>2. CASE UNCHANGED gatewayVars
  BY <1>1, <1>2 DEF gatewayVars, clientVars, historyVars
<1>3. CASE DialSucceeds
  BY <1>3 DEF DialSucceeds, historyVars, NextPause, Pause
<1>4. CASE Retry
  <2>1. /\ phase = "pause" /\ phase' = "dial" /\ UNCHANGED <<readySince, pauses>>
        /\ backoff' = IF 2 * backoff > BackoffCap THEN BackoffCap ELSE 2 * backoff
    BY <1>4 DEF Retry, historyVars
  <2>2. ~readySince /\ pauses \in Nat /\ pauses - 1 \in Nat /\ (pauses - 1) + 1 = pauses
        /\ backoff = Pause(pauses - 1)
    BY <2>1 DEF NextPause, TypeOK
  <2>3. backoff' = Pause(pauses)
    BY <2>1, <2>2, PauseOf
  <2> QED
    BY <2>1, <2>2, <2>3 DEF NextPause, Pause
<1>5. CASE ReceiveReady
  BY <1>5 DEF ReceiveReady, Receives, NextPause
<1>6. CASE ReceiveClose4004
  BY <1>6 DEF ReceiveClose4004, NextPause
<1>7. CASE ReceiveHello \/ ReceiveResumed \/ ReceiveEvent
  BY <1>1, <1>7 DEF ReceiveHello, ReceiveResumed, ReceiveEvent, Receives, historyVars
<1>8. CASE HelloWriteFails \/ ReceiveReconnect \/ ReceiveInvalid \/ ReadFails \/ DialFails
  <2>1. Leave /\ phase \in {"dial", "read"}
    BY <1>8 DEF HelloWriteFails, ReceiveReconnect, ReceiveInvalid, ReadFails, DialFails, Receives
  <2> QED
    BY <2>1, LeaveKeepsPause
<1>9. CASE Server
  BY <1>1, <1>9 DEF Server, ServerIdentify, ServerResume, ServerInvalidates, clientVars, historyVars
<1>10. CASE EventHappens \/ WindowExpires \/ Faults
  BY <1>1, <1>10 DEF EventHappens, WindowExpires, Faults, ServerForgets, ServerAsksReconnect,
                     ServerRefusesToken, LinkBreaks, clientVars, historyVars
<1> QED
  BY <1>2, <1>3, <1>4, <1>5, <1>6, <1>7, <1>8, <1>9, <1>10 DEF Next, Client

(***************************************************************************)
(* However often connections fail, and wherever in connect, Run pauses 1,  *)
(* 2, 4... seconds up to the cap since the last READY.                     *)
(***************************************************************************)
THEOREM PausesGrowHolds == Spec => []PausesGrow
<1>1. Init => NextPause
  BY PauseOf DEF Init, NextPause, Pause
<1>2. Spec => [](TypeOK /\ NextPause)
  BY <1>1, StepKeepsPause, TypeCorrect, PTL DEF Spec
<1>3. NextPause => PausesGrow
  BY DEF NextPause, PausesGrow
<1> QED
  BY <1>2, <1>3, PTL
=============================================================================
