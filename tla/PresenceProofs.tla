--------------------------- MODULE PresenceProofs ---------------------------
(***************************************************************************)
(* Proofs about Presence: an idle connection shows the newest presence the *)
(* gateway was given, and the server is never sent back to an older one,   *)
(* for any writers, fields and bounds.                                     *)
(***************************************************************************)
EXTENDS Presence, TLAPS

\* What is no presence is not newer than anything.
LEMMA Ages ==
  /\ Unset \notin Message /\ Resume \notin Message
  /\ \A p, q : p \notin Message \/ q \notin Message => NotNewer(p, q)
  /\ \A p : NotNewer(p, p)
<1>1. Unset \notin Message
  BY PresenceAssumption DEF Message
<1>2. Resume \notin Message
  <2>1. ASSUME Resume \in Message PROVE FALSE
    <3>1. DOMAIN Resume = {"op"}
      BY DEF Resume
    <3>2. DOMAIN Resume = {"turn", "shows"}
      BY <2>1 DEF Message
    <3> QED
      BY <3>1, <3>2
  <2> QED
    BY <2>1
<1>3. \A p : NotNewer(p, p)
  <2>1. \A p \in Message : p.turn \in Nat
    BY DEF Message
  <2> QED
    BY <2>1 DEF NotNewer
<1> QED
  BY <1>1, <1>2, <1>3 DEF NotNewer

\* What the gateway was given last is a presence that can be sent.
LEMMA CurrentType == TypeOK => Current \in Message
BY DEF TypeOK, Current, Message

\* A presence that is set is newer than all before it.
LEMMA SetIsNewest ==
  ASSUME TypeOK, NEW f \in Fields, NEW v \in Nat, SetField(f, v)
  PROVE  /\ presence' \in [Fields -> Nat] /\ turn' \in Nat /\ Current' \in Message
         /\ Current' = [turn |-> turn', shows |-> presence']
         /\ \A p : NotNewer(p, Current) => NotNewer(p, Current')
<1>1. presence' \in [Fields -> Nat] /\ turn' \in Nat /\ turn' = turn + 1 /\ turn \in Nat
  BY DEF TypeOK, SetField
<1>2. Current' = [turn |-> turn', shows |-> presence']
  BY DEF Current
<1>3. Current' \in Message
  BY <1>1, <1>2 DEF Message
<1>4. Current.turn = turn /\ Current \in Message
  BY CurrentType DEF Current
<1>5. Current'.turn = turn'
  BY <1>2
<1>6. ASSUME NEW p, NotNewer(p, Current), p \in Message
      PROVE  p.turn <= Current'.turn
  <2>1. p.turn \in Nat
    BY <1>6 DEF Message
  <2>2. p.turn <= turn
    BY <1>4, <1>6 DEF NotNewer
  <2> QED
    BY <1>1, <1>5, <2>1, <2>2
<1> QED
  BY <1>1, <1>2, <1>3, <1>6 DEF NotNewer

-----------------------------------------------------------------------------
\* Every step keeps the types.
LEMMA TypeStep ==
  TypeOK /\ (phase = "identify" => identity # Unset) /\ [Next]_vars => TypeOK'
<1> SUFFICES ASSUME TypeOK, phase = "identify" => identity # Unset, [Next]_vars
             PROVE  TypeOK'
  OBVIOUS
<1> USE DEF gatewayVars, connVars, writerVars
<1>1. MaxWrites \in Nat /\ MaxFaults \in Nat
  BY PresenceAssumption
<1>2. ASSUME NEW w \in Writers, NEW f \in Fields, CloseBegin(w, f)
      PROVE  TypeOK'
  <2>1. writes' \in 0..MaxWrites /\ writes + 1 \in 0..MaxWrites
    BY <1>1, <1>2 DEF CloseBegin, TypeOK
  <2>2. /\ pc' \in [Writers -> {"idle", "patch", "answer"}] /\ file' \in [Writers -> Fields]
        /\ value' \in [Writers -> 0..MaxWrites]
    BY <1>2, <2>1 DEF CloseBegin, Goto, TypeOK
  <2> QED
    BY <1>2, <2>1, <2>2 DEF CloseBegin, TypeOK
<1>3. ASSUME NEW w \in Writers, ClosePatches(w)
      PROVE  TypeOK'
  <2>1. file[w] \in Fields /\ value[w] \in Nat
    BY <1>1 DEF TypeOK
  <2>2. setting' \in [Fields -> Nat] /\ pc' \in [Writers -> {"idle", "patch", "answer"}]
    BY <1>3, <2>1 DEF ClosePatches, Goto, TypeOK
  <2> QED
    BY <1>3, <2>2 DEF ClosePatches, TypeOK
<1>4. ASSUME NEW w \in Writers, CloseFails(w)
      PROVE  TypeOK'
  <2>1. faults' \in 0..MaxFaults
    BY <1>1, <1>4 DEF CloseFails, TypeOK
  <2>2. pc' \in [Writers -> {"idle", "patch", "answer"}]
    BY <1>4 DEF CloseFails, Goto, TypeOK
  <2> QED
    BY <1>4, <2>1, <2>2 DEF CloseFails, TypeOK
<1>5. ASSUME NEW w \in Writers, CloseSetsLive(w)
      PROVE  TypeOK'
  <2>1. file[w] \in Fields /\ value[w] \in Nat
    BY <1>1 DEF TypeOK
  <2>2. /\ presence' \in [Fields -> Nat] /\ turn' \in Nat
        /\ Current' \in Message /\ Current' = [turn |-> turn', shows |-> presence']
    BY <1>5, <2>1, SetIsNewest DEF CloseSetsLive
  <2>3. updates' \in Seq(Message) /\ Len(updates') <= 1
    <3>1. updates' = <<Current'>> \/ updates' = updates
      BY <1>5, <2>2 DEF CloseSetsLive, SetField, Queue
    <3>2. <<Current'>> \in Seq(Message) /\ Len(<<Current'>>) = 1
      BY <2>2
    <3>3. updates \in Seq(Message) /\ Len(updates) <= 1
      BY DEF TypeOK
    <3>4. CASE updates' = <<Current'>>
      BY <3>2, <3>4
    <3> QED
      BY <3>1, <3>3, <3>4
  <2>4. pc' \in [Writers -> {"idle", "patch", "answer"}]
    BY <1>5 DEF CloseSetsLive, Goto, TypeOK
  <2> QED
    BY <1>5, <2>2, <2>3, <2>4 DEF CloseSetsLive, SetField, TypeOK
<1>6. CASE Dial
  <2>1. /\ <<>> \in Seq(Message) /\ <<>> \in Seq(Message \cup {Resume})
        /\ Len(<<>>) <= 1
    OBVIOUS
  <2>2. updates' \in Seq(Message) /\ Len(updates') <= 1 /\ wire' \in Seq(Message \cup {Resume})
    BY <1>6, <2>1 DEF Dial
  <2>3. alive' \in BOOLEAN /\ welcomed' \in BOOLEAN
    BY <1>6 DEF Dial
  <2>4. sending' \in Message \cup {Unset} /\ phase' \in {"down", "hello", "identify", "auth", "ready"}
    BY <1>6 DEF Dial
  <2> QED
    BY <1>6, <2>2, <2>3, <2>4 DEF Dial, TypeOK
<1>7. CASE HelloResume
  <2>1. wire' \in Seq(Message \cup {Resume})
    BY <1>7 DEF HelloResume, TypeOK
  <2> QED
    BY <1>7, <2>1 DEF HelloResume, TypeOK
<1>8. CASE HelloIdentify
  BY <1>8, CurrentType DEF HelloIdentify, TypeOK
<1>9. CASE ReceiveReady
  <2>1. updates' \in Seq(Message) /\ Len(updates') <= 1
    BY <1>9, CurrentType DEF ReceiveReady
  <2> QED
    BY <1>9, <2>1 DEF ReceiveReady, TypeOK
<1>10. CASE ConnectReturns
  BY <1>10 DEF ConnectReturns, TypeOK
<1>11. CASE SenderTakes
  <2>1. Head(updates) \in Message
    BY <1>11 DEF SenderTakes, TypeOK
  <2> QED
    BY <1>11, <2>1 DEF SenderTakes, TypeOK
<1>12. CASE SenderWrites
  <2>1. wire' \in Seq(Message \cup {Resume})
    BY <1>12 DEF SenderWrites, TypeOK
  <2> QED
    BY <1>12, <2>1 DEF SenderWrites, TypeOK
<1>13. CASE ServerReceives
  <2>1. wire' \in Seq(Message \cup {Resume}) /\ Head(wire) \in Message \cup {Resume}
    BY <1>13 DEF ServerReceives, TypeOK
  <2>2. live' \in Message \cup {Unset}
    BY <1>13, <2>1 DEF ServerReceives, TypeOK
  <2> QED
    BY <1>13, <2>1, <2>2 DEF ServerReceives, TypeOK
<1>14. CASE Break
  <2>1. faults' \in 0..MaxFaults
    BY <1>1, <1>14 DEF Break, TypeOK
  <2>2. alive' \in BOOLEAN /\ welcomed' \in BOOLEAN
    BY <1>14 DEF Break
  <2>3. wire' \in Seq(Message \cup {Resume})
    BY <1>14 DEF Break
  <2> QED
    BY <1>14, <2>1, <2>2, <2>3 DEF Break, TypeOK
<1>15. CASE UNCHANGED vars
  BY <1>15 DEF vars, TypeOK
<1>16. CASE WriteIdentify
  <2>1. wire' \in Seq(Message \cup {Resume})
    BY <1>16 DEF WriteIdentify, TypeOK
  <2> QED
    BY <1>16, <2>1 DEF WriteIdentify, TypeOK
<1> QED
  BY <1>2, <1>3, <1>4, <1>5, <1>6, <1>7, <1>8, <1>9, <1>10, <1>11, <1>12, <1>13, <1>14, <1>15,
     <1>16
     DEF Next, Gateway, Sender, Closing

-----------------------------------------------------------------------------
\* A presence is set: it takes the place in the channel if there is one.
LEMMA SetKeepsIInv ==
  ASSUME IInv, TypeOK', NEW w \in Writers, CloseSetsLive(w)
  PROVE  IInv'
<1>1. /\ UNCHANGED <<linked, sending, phase, alive, identity, wire, live>>
      /\ updates' = IF linked THEN <<Current'>> ELSE updates
      /\ Current' \in Message /\ \A p : NotNewer(p, Current) => NotNewer(p, Current')
  <2>1. file[w] \in Fields /\ value[w] \in Nat /\ TypeOK
    <3>1. /\ file \in [Writers -> Fields] /\ value \in [Writers -> 0..MaxWrites]
          /\ MaxWrites \in Nat /\ TypeOK
      BY PresenceAssumption DEF IInv, TypeOK
    <3> QED
      BY <3>1
  <2>2. SetField(file[w], value[w]) /\ UNCHANGED connVars /\ UNCHANGED live
    BY DEF CloseSetsLive
  <2>3. Current' = [turn |-> turn', shows |-> presence']
    BY <2>1, <2>2, SetIsNewest
  <2> QED
    BY <2>1, <2>2, <2>3, SetIsNewest DEF SetField, Queue, connVars
<1>2. PhasesOK'
  BY <1>1 DEF IInv, PhasesOK
<1>3. WireInOrder' /\ SenderInOrder'
  BY <1>1 DEF IInv, WireInOrder, SenderInOrder
<1>4. QueueInOrder'
  <2>1. CASE linked
    <3>1. updates' = <<Current'>>
      BY <1>1, <2>1
    <3>2. \A i \in 1..Len(updates') : updates'[i] = Current'
      BY <3>1
    <3>3. /\ NotNewer(live, Current') /\ NotNewer(sending, Current')
          /\ NotNewer(Current', Current')
          /\ \A j \in 1..Len(wire) : NotNewer(wire[j], Current')
      BY <1>1, Ages DEF IInv, WireInOrder, SenderInOrder
    <3> QED
      BY <1>1, <3>2, <3>3 DEF QueueInOrder
  <2>2. CASE ~linked
    BY <1>1, <2>2 DEF IInv, QueueInOrder
  <2> QED
    BY <2>1, <2>2
<1>5. LastIsCurrent'
  BY <1>1 DEF IInv, PhasesOK, LastIsCurrent
<1> QED
  BY <1>2, <1>3, <1>4, <1>5 DEF IInv

\* Writers that do not touch the gateway do not matter to it.
LEMMA UntouchedKeepsIInv ==
  ASSUME IInv, TypeOK',
         \/ UNCHANGED vars
         \/ \E w \in Writers : ClosePatches(w) \/ CloseFails(w) \/ \E f \in Fields : CloseBegin(w, f)
  PROVE  IInv'
<1>1. UNCHANGED <<presence, turn, linked, updates, sending, phase, alive, identity, wire, live>>
  BY DEF vars, gatewayVars, connVars, ClosePatches, CloseFails, CloseBegin
<1>2. UNCHANGED Current
  BY <1>1 DEF Current
<1> QED
  BY <1>1, <1>2 DEF IInv, PhasesOK, WireInOrder, SenderInOrder, QueueInOrder, LastIsCurrent, Quiet

\* A connection starts with nothing on its way, and ends with nothing on the wire.
LEMMA ConnectionKeepsIInv ==
  ASSUME IInv, TypeOK', Dial \/ HelloIdentify \/ ConnectReturns \/ Break
  PROVE  IInv'
<1>1. UNCHANGED <<presence, turn, live>> /\ UNCHANGED Current /\ Current \in Message
  BY CurrentType DEF IInv, Dial, HelloIdentify, ConnectReturns, Break, gatewayVars, Current
<1>2. CASE Dial
  <2>1. /\ phase' = "hello" /\ updates' = <<>> /\ sending' = Unset /\ wire' = <<>>
        /\ UNCHANGED linked /\ ~linked
    BY <1>2 DEF Dial, IInv, PhasesOK
  <2>2. NotNewer(live, Current) /\ NotNewer(Unset, Current) /\ NotNewer(live, Unset)
    BY Ages DEF IInv, SenderInOrder
  <2> QED
    BY <1>1, <2>1, <2>2 DEF IInv, PhasesOK, WireInOrder, SenderInOrder, QueueInOrder, LastIsCurrent
<1>3. CASE HelloIdentify
  <2>1. /\ phase = "hello" /\ phase' = "identify" /\ identity' = Current
        /\ UNCHANGED <<linked, updates, sending, alive, wire>>
        /\ wire = <<>> /\ updates = <<>> /\ sending = Unset /\ ~linked
    BY <1>3 DEF HelloIdentify, gatewayVars, IInv, PhasesOK
  <2>2. Current # Unset /\ NotNewer(live, Current) /\ NotNewer(Current, Current)
    BY <1>1, Ages DEF IInv, SenderInOrder
  <2>3. PhasesOK' /\ LastIsCurrent'
    BY <2>1 DEF IInv, PhasesOK, LastIsCurrent
  <2>4. WireInOrder' /\ QueueInOrder'
    BY <1>1, <2>1 DEF IInv, WireInOrder, QueueInOrder
  <2>5. SenderInOrder'
    BY <1>1, <2>1, <2>2 DEF IInv, SenderInOrder
  <2> QED
    BY <2>3, <2>4, <2>5 DEF IInv
<1>4. CASE ConnectReturns
  <2>1. /\ phase' = "down" /\ ~linked' /\ ~alive /\ UNCHANGED <<updates, sending, alive, identity, wire>>
    BY <1>4 DEF ConnectReturns
  <2>2. PhasesOK' /\ LastIsCurrent'
    BY <2>1 DEF IInv, PhasesOK, LastIsCurrent
  <2> QED
    BY <1>1, <2>1, <2>2 DEF IInv, WireInOrder, SenderInOrder, QueueInOrder
<1>5. CASE Break
  <2>1. /\ ~alive' /\ wire' = <<>> /\ UNCHANGED <<linked, updates, sending, phase, identity>>
    BY <1>5 DEF Break, gatewayVars
  <2>2. PhasesOK' /\ LastIsCurrent'
    BY <2>1 DEF IInv, PhasesOK, LastIsCurrent
  <2> QED
    BY <1>1, <2>1, <2>2 DEF IInv, WireInOrder, SenderInOrder, QueueInOrder
<1> QED
  BY <1>2, <1>3, <1>4, <1>5

\* What is written goes behind everything on the wire.
LEMMA WireAppend ==
  ASSUME IInv, NEW m \in Message \cup {Resume}, wire' = Append(wire, m),
         UNCHANGED <<live, presence, turn>>,
         NotNewer(live, m), NotNewer(m, Current),
         \A i \in 1..Len(wire) : NotNewer(wire[i], m)
  PROVE  /\ WireInOrder'
         /\ \A q : NotNewer(m, q) /\ (\A i \in 1..Len(wire) : NotNewer(wire[i], q))
                   => \A i \in 1..Len(wire') : NotNewer(wire'[i], q)
         /\ wire' # <<>> /\ wire'[Len(wire')] = m
<1>1. PICK n \in Nat : n = Len(wire) /\ wire \in Seq(Message \cup {Resume})
  BY DEF IInv, TypeOK
<1>2. /\ Len(wire') = n + 1 /\ wire' # <<>>
      /\ \A i \in 1..n : wire'[i] = wire[i]
      /\ wire'[n + 1] = m
  BY <1>1
<1>3. \A i \in 1..(n + 1) : i \in 1..n \/ i = n + 1
  OBVIOUS
<1>4. UNCHANGED Current
  BY DEF Current
<1>5. /\ \A i \in 1..n : NotNewer(live, wire[i]) /\ NotNewer(wire[i], Current)
      /\ \A i, j \in 1..n : i < j => NotNewer(wire[i], wire[j])
  BY <1>1 DEF IInv, WireInOrder
<1>6. ASSUME NEW i \in 1..(n + 1), NEW j \in 1..(n + 1), i < j
      PROVE  NotNewer(wire'[i], wire'[j])
  <2>1. i \in 1..n
    BY <1>6
  <2>2. CASE j \in 1..n
    BY <1>2, <1>5, <1>6, <2>1, <2>2
  <2>3. CASE j = n + 1
    BY <1>1, <1>2, <2>1, <2>3
  <2> QED
    BY <1>3, <2>2, <2>3
<1>7. WireInOrder'
  BY <1>2, <1>3, <1>4, <1>5, <1>6 DEF WireInOrder
<1>8. ASSUME NEW q, NotNewer(m, q), \A i \in 1..Len(wire) : NotNewer(wire[i], q)
      PROVE  \A i \in 1..Len(wire') : NotNewer(wire'[i], q)
  BY <1>1, <1>2, <1>3, <1>8
<1> QED
  BY <1>2, <1>7, <1>8

\* RESUME and IDENTIFY are alone on the wire.
LEMMA LoginKeepsIInv ==
  ASSUME IInv, TypeOK', HelloResume \/ WriteIdentify
  PROVE  IInv'
<1>1. PICK m \in Message \cup {Resume} :
        /\ wire' = Append(wire, m)
        /\ NotNewer(live, m) /\ NotNewer(m, Current)
  <2>1. CASE HelloResume
    BY <2>1, Ages DEF HelloResume
  <2>2. CASE WriteIdentify
    BY <2>2 DEF WriteIdentify, IInv, TypeOK, SenderInOrder
  <2> QED
    BY <2>1, <2>2
<1>2. /\ UNCHANGED <<presence, turn, linked, updates, live, sending, alive, identity>>
      /\ UNCHANGED Current
      /\ phase \in {"hello", "identify"} /\ phase' = "auth" /\ alive
  BY DEF HelloResume, WriteIdentify, gatewayVars, Current
<1>3. wire = <<>> /\ updates = <<>> /\ sending = Unset /\ ~linked
  BY <1>2 DEF IInv, PhasesOK
<1>4. WireInOrder' /\ \A q : NotNewer(m, q) => \A i \in 1..Len(wire') : NotNewer(wire'[i], q)
  BY <1>1, <1>2, <1>3, WireAppend
<1>5. PhasesOK' /\ LastIsCurrent' /\ QueueInOrder'
  BY <1>2, <1>3 DEF PhasesOK, LastIsCurrent, QueueInOrder
<1>6. SenderInOrder'
  BY <1>2, <1>3, <1>4, Ages DEF IInv, SenderInOrder
<1> QED
  BY <1>4, <1>5, <1>6 DEF IInv

\* READY or RESUMED puts what is current into the channel of the connection.
LEMMA ReadyKeepsIInv ==
  ASSUME IInv, TypeOK', ReceiveReady
  PROVE  IInv'
<1>1. /\ UNCHANGED <<presence, turn, live, sending, alive, identity, wire>> /\ UNCHANGED Current
      /\ phase' = "ready" /\ linked' = TRUE /\ updates' = <<Current>> /\ alive
  BY DEF ReceiveReady, Current
<1>2. PhasesOK'
  BY <1>1 DEF IInv, PhasesOK
<1>3. LastIsCurrent'
  BY <1>1 DEF LastIsCurrent
<1>4. WireInOrder' /\ SenderInOrder'
  BY <1>1 DEF IInv, WireInOrder, SenderInOrder
<1>5. QueueInOrder'
  <2>1. \A i \in 1..Len(updates') : updates'[i] = Current
    BY <1>1
  <2>2. /\ NotNewer(live, Current) /\ NotNewer(sending, Current) /\ NotNewer(Current, Current)
        /\ \A j \in 1..Len(wire) : NotNewer(wire[j], Current)
    BY Ages DEF IInv, WireInOrder, SenderInOrder
  <2> QED
    BY <1>1, <2>1, <2>2 DEF QueueInOrder
<1> QED
  BY <1>2, <1>3, <1>4, <1>5 DEF IInv

\* The presence goroutine: first it receives, then it writes.
LEMMA SenderKeepsIInv ==
  ASSUME IInv, TypeOK', SenderTakes \/ SenderWrites
  PROVE  IInv'
<1>1. UNCHANGED <<presence, turn, linked, live, phase, alive, identity>> /\ UNCHANGED Current
  BY DEF SenderTakes, SenderWrites, gatewayVars, Current
<1>2. CASE SenderTakes
  <2>1. /\ alive /\ sending = Unset /\ updates # <<>> /\ updates' = <<>> /\ UNCHANGED wire
        /\ sending' = updates[1] /\ 1 \in 1..Len(updates) /\ updates[1] \in Message
    BY <1>2 DEF SenderTakes, IInv, TypeOK
  <2>2. phase \notin {"hello", "identify", "auth"}
    BY <2>1 DEF IInv, PhasesOK
  <2>3. PhasesOK'
    BY <1>1, <2>1, <2>2 DEF IInv, PhasesOK
  <2>4. WireInOrder' /\ QueueInOrder'
    BY <1>1, <2>1 DEF IInv, WireInOrder, QueueInOrder
  <2>5. SenderInOrder'
    BY <1>1, <2>1 DEF IInv, SenderInOrder, QueueInOrder
  <2>6. LastIsCurrent'
    BY <1>1, <2>1 DEF IInv, LastIsCurrent, Quiet
  <2> QED
    BY <2>3, <2>4, <2>5, <2>6 DEF IInv
<1>3. CASE SenderWrites
  <2>1. /\ alive /\ sending # Unset /\ sending \in Message /\ sending' = Unset
        /\ UNCHANGED updates /\ wire' = Append(wire, sending)
    BY <1>3 DEF SenderWrites, gatewayVars, IInv, TypeOK
  <2>2. phase \notin {"hello", "identify", "auth"}
    BY <2>1 DEF IInv, PhasesOK
  <2>3. PhasesOK'
    BY <1>1, <2>1, <2>2 DEF IInv, PhasesOK
  <2>4. /\ WireInOrder' /\ wire' # <<>> /\ wire'[Len(wire')] = sending
        /\ \A q : NotNewer(sending, q) /\ (\A i \in 1..Len(wire) : NotNewer(wire[i], q))
                  => \A i \in 1..Len(wire') : NotNewer(wire'[i], q)
    BY <1>1, <2>1, WireAppend DEF IInv, SenderInOrder
  <2>5. SenderInOrder'
    BY <1>1, <2>1, <2>2, Ages DEF IInv, SenderInOrder
  <2>6. QueueInOrder'
    BY <1>1, <2>1, <2>4, Ages DEF IInv, QueueInOrder
  <2>7. LastIsCurrent'
    BY <1>1, <2>1, <2>4 DEF IInv, LastIsCurrent, Quiet
  <2> QED
    BY <2>3, <2>4, <2>5, <2>6, <2>7 DEF IInv
<1> QED
  BY <1>2, <1>3

\* The server takes the oldest payload: it is not older than what it shows.
LEMMA ServerKeepsIInv ==
  ASSUME IInv, TypeOK', ServerReceives
  PROVE  IInv' /\ NotNewer(live, live')
<1>1. PICK n \in Nat : n = Len(wire) - 1 /\ wire \in Seq(Message \cup {Resume}) /\ wire # <<>>
  <2>1. wire \in Seq(Message \cup {Resume}) /\ wire # <<>>
    BY DEF ServerReceives, IInv, TypeOK
  <2>2. Len(wire) \in Nat /\ Len(wire) # 0
    BY <2>1
  <2> QED
    BY <2>1, <2>2
<1>2. /\ Len(wire) = n + 1 /\ Len(wire') = n /\ wire' = Tail(wire) /\ Head(wire) = wire[1]
      /\ \A i \in 1..n : wire'[i] = wire[i + 1]
      /\ \A i \in 1..n : i + 1 \in 1..Len(wire)
      /\ 1 \in 1..Len(wire)
  BY <1>1 DEF ServerReceives
<1>3. /\ UNCHANGED <<presence, turn, linked, updates, sending, phase, alive, identity>>
      /\ UNCHANGED Current /\ Current \in Message
      /\ live' = IF wire[1] = Resume THEN live ELSE wire[1]
  BY <1>2, CurrentType DEF ServerReceives, gatewayVars, Current, IInv
<1>4. alive /\ phase \notin {"hello", "identify"}
  BY <1>1 DEF IInv, PhasesOK
<1>5. /\ NotNewer(live, live') /\ NotNewer(live', Current) /\ NotNewer(live', sending)
      /\ \A i \in 1..n : NotNewer(live', wire[i + 1])
      /\ \A i \in 1..Len(updates) : NotNewer(live', updates[i])
  <2>1. CASE live' = live
    BY <1>2, <2>1, Ages DEF IInv, WireInOrder, SenderInOrder, QueueInOrder
  <2>2. CASE live' = wire[1]
    <3>1. \A i \in 1..n : 1 < i + 1
      OBVIOUS
    <3> QED
      BY <1>2, <2>2, <3>1 DEF IInv, WireInOrder, SenderInOrder, QueueInOrder
  <2> QED
    BY <1>3, <2>1, <2>2
<1>6. PhasesOK'
  BY <1>3, <1>4 DEF IInv, PhasesOK
<1>7. WireInOrder'
  <2>1. \A i, j \in 1..n : i < j => NotNewer(wire[i + 1], wire[j + 1])
    <3>1. \A i, j \in 1..n : i < j => i + 1 < j + 1
      OBVIOUS
    <3> QED
      BY <1>2, <3>1 DEF IInv, WireInOrder
  <2>2. \A i \in 1..n : NotNewer(wire[i + 1], Current)
    BY <1>2 DEF IInv, WireInOrder
  <2> QED
    BY <1>2, <1>3, <1>5, <2>1, <2>2 DEF WireInOrder
<1>8. SenderInOrder'
  BY <1>2, <1>3, <1>4, <1>5 DEF IInv, SenderInOrder
<1>9. QueueInOrder'
  BY <1>2, <1>3, <1>5 DEF IInv, QueueInOrder
<1>10. LastIsCurrent'
  <2>1. SUFFICES ASSUME phase = "ready"
                 PROVE  \/ updates = <<Current>>
                        \/ updates = <<>> /\ sending = Current
                        \/ updates = <<>> /\ sending = Unset /\ wire' # <<>> /\ wire'[n] = Current
                        \/ updates = <<>> /\ sending = Unset /\ wire' = <<>> /\ live' = Current
    BY <1>2, <1>3, <1>4 DEF LastIsCurrent, Quiet
  <2>2. CASE updates = <<>> /\ sending = Unset /\ wire[Len(wire)] = Current
    <3>1. CASE n = 0
      <4>1. wire[1] = Current /\ wire' = <<>>
        BY <1>1, <1>2, <2>2, <3>1
      <4> QED
        BY <1>3, <2>2, <4>1, Ages
    <3>2. CASE n # 0
      <4>1. n \in 1..n
        BY <3>2
      <4>2. wire'[n] = wire[n + 1] /\ n + 1 = Len(wire) /\ Len(wire') = n
        BY <1>1, <1>2, <4>1
      <4>3. wire' # <<>>
        BY <3>2, <4>2
      <4>4. wire'[n] = Current
        BY <2>2, <4>2
      <4> QED
        BY <2>2, <4>3, <4>4
    <3> QED
      BY <3>1, <3>2
  <2> QED
    BY <1>1, <1>4, <2>1, <2>2 DEF IInv, LastIsCurrent, Quiet
<1> QED
  BY <1>5, <1>6, <1>7, <1>8, <1>9, <1>10 DEF IInv

\* Every step keeps the invariant.
LEMMA StepKeepsIInv == IInv /\ [Next]_vars => IInv'
<1> SUFFICES ASSUME IInv, [Next]_vars PROVE IInv'
  OBVIOUS
<1>1. TypeOK'
  BY TypeStep DEF IInv, SenderInOrder
<1> QED
  BY <1>1, SetKeepsIInv, UntouchedKeepsIInv, ConnectionKeepsIInv, LoginKeepsIInv, ReadyKeepsIInv,
     SenderKeepsIInv, ServerKeepsIInv
     DEF Next, Closing, Gateway, Sender

(***************************************************************************)
(* The inductive invariant holds in every behaviour.                       *)
(***************************************************************************)
THEOREM Invariance == Spec => []IInv
<1>1. Init => IInv
  <2> SUFFICES ASSUME Init PROVE IInv
    OBVIOUS
  <2>1. TypeOK
    <3>1. MaxWrites \in Nat /\ MaxFaults \in Nat /\ (CHOOSE f \in Fields : TRUE) \in Fields
      BY PresenceAssumption
    <3>2. /\ linked \in BOOLEAN /\ alive \in BOOLEAN /\ hadSession \in BOOLEAN
          /\ welcomed \in BOOLEAN
      BY DEF Init
    <3>3. /\ updates \in Seq(Message) /\ Len(updates) <= 1 /\ wire \in Seq(Message \cup {Resume})
      BY DEF Init
    <3>4. /\ setting \in [Fields -> Nat] /\ presence \in [Fields -> Nat] /\ turn \in Nat
      BY DEF Init
    <3>5. /\ sending \in Message \cup {Unset} /\ identity \in Message \cup {Unset}
          /\ live \in Message \cup {Unset}
          /\ phase \in {"down", "hello", "identify", "auth", "ready"}
      BY DEF Init
    <3>6. /\ pc \in [Writers -> {"idle", "patch", "answer"}] /\ file \in [Writers -> Fields]
      BY <3>1 DEF Init
    <3>7. /\ value \in [Writers -> 0..MaxWrites]
          /\ writes \in 0..MaxWrites /\ faults \in 0..MaxFaults
      BY <3>1 DEF Init
    <3> QED
      BY <3>2, <3>3, <3>4, <3>5, <3>6, <3>7 DEF TypeOK
  <2>2. PhasesOK /\ LastIsCurrent
    BY DEF Init, PhasesOK, LastIsCurrent
  <2>3. WireInOrder /\ SenderInOrder /\ QueueInOrder
    BY Ages DEF Init, WireInOrder, SenderInOrder, QueueInOrder
  <2> QED
    BY <2>1, <2>2, <2>3 DEF IInv
<1> QED
  BY <1>1, StepKeepsIInv, PTL DEF Spec

(***************************************************************************)
(* Every variable keeps its type; the channel never holds two presences.   *)
(***************************************************************************)
THEOREM TypeCorrect == Spec => []TypeOK
BY Invariance, PTL DEF IInv

(***************************************************************************)
(* An idle connection shows the newest presence the gateway was given.     *)
(***************************************************************************)
THEOREM QuietShowsNewest == Spec => []QuietIsCurrent
<1>1. IInv => QuietIsCurrent
  <2> SUFFICES ASSUME IInv, Quiet PROVE live = Current
    BY DEF QuietIsCurrent
  <2>1. Current # Unset
    BY CurrentType, Ages DEF IInv
  <2> QED
    BY <2>1 DEF IInv, LastIsCurrent, Quiet
<1> QED
  BY <1>1, Invariance, PTL

(***************************************************************************)
(* No step shows an older presence than the one before it.                 *)
(***************************************************************************)
THEOREM NeverGoesBack == Spec => NeverOlder
<1>1. IInv /\ IInv' /\ [Next]_vars => [live # Unset => live'.turn >= live.turn]_vars
  <2> SUFFICES ASSUME IInv, IInv', [Next]_vars, live # Unset
               PROVE  live'.turn >= live.turn
    OBVIOUS
  <2>1. live \in Message /\ live.turn \in Nat
    BY DEF IInv, TypeOK, Message
  <2>2. CASE ServerReceives
    <3>1. NotNewer(live, live') /\ (TypeOK)'
      BY <2>2, ServerKeepsIInv DEF IInv
    <3>2. live' \in Message
      BY <2>1, <2>2, <3>1, Ages DEF ServerReceives, TypeOK
    <3>3. live'.turn \in Nat /\ live.turn <= live'.turn
      BY <2>1, <3>1, <3>2 DEF NotNewer, Message
    <3> QED
      BY <2>1, <3>3
  <2>3. CASE UNCHANGED live
    BY <2>1, <2>3
  <2> QED
    BY <2>2, <2>3 DEF Next, Closing, Gateway, Sender, CloseBegin, ClosePatches, CloseFails,
       CloseSetsLive, Dial, HelloResume, HelloIdentify, WriteIdentify, ReceiveReady, ConnectReturns,
       SenderTakes, SenderWrites, Break, vars
<1> QED
  BY <1>1, Invariance, PTL DEF Spec, NeverOlder
=============================================================================
