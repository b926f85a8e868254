--------------------------- MODULE LiveFileProofs ---------------------------
(***************************************************************************)
(* Proofs about LiveFile, for any number of subscriptions, channels,       *)
(* goroutines and events and for a channel buffer of any size.             *)
(***************************************************************************)
EXTENDS LiveFile, FiniteSetTheorems, WellFoundedInduction, TLAPS

(***************************************************************************)
(* The steps of Publish and GapAll keep the hub's types.                   *)
(***************************************************************************)
LEMMA HubStepType == HubTypeOK /\ HubStep => HubTypeOK'
<1> SUFFICES ASSUME HubTypeOK, HubStep PROVE HubTypeOK'
  OBVIOUS
<1> USE DEF HubTypeOK, Offers
<1>1. ASSUME NEW audience, Begin(audience) PROVE HubTypeOK'
  BY <1>1 DEF Begin
<1>2. ASSUME NEW s \in Subs, Send(s) PROVE HubTypeOK'
  BY <1>2 DEF Send
<1>3. ASSUME NEW s \in Subs, FindFull(s) PROVE HubTypeOK'
  BY <1>3 DEF FindFull
<1>4. ASSUME NEW s \in Subs, CountLoss(s) PROVE HubTypeOK'
  <2>1. dropped[s] + 1 \in Nat /\ missed[s] \cup {posted} \in SUBSET Nat
    OBVIOUS
  <2> QED
    BY <1>4, <2>1 DEF CountLoss
<1>5. ASSUME NEW s \in Subs, NoteOverflow(s) PROVE HubTypeOK'
  BY <1>5 DEF NoteOverflow
<1> QED
  BY <1>1, <1>2, <1>3, <1>4, <1>5 DEF HubStep, Publish, GapAll, OfferStep

(***************************************************************************)
(* Rendering a record keeps what is left of it within a record.            *)
(***************************************************************************)
LEMMA RenderType ==
  ASSUME NEW r, pending \in [Subs -> 0..RecordPieces], Render(r)
  PROVE  pending' \in [Subs -> 0..RecordPieces]
<1>1. RecordPieces \in 0..RecordPieces
  BY LiveFileAssumption
<1> QED
  BY <1>1 DEF Render

(***************************************************************************)
(* One step of anybody keeps every variable in its type.                   *)
(***************************************************************************)
LEMMA TypeStep == TypeOK /\ [Next]_vars => TypeOK'
<1> SUFFICES ASSUME TypeOK, [Next]_vars
             PROVE  TypeOK'
  OBVIOUS
<1> USE HubAssumption, LiveFileAssumption DEF Topics, Steps
<1>1. ASSUME HubStep, UNCHANGED fileVars
      PROVE  TypeOK'
  BY <1>1, HubStepType DEF TypeOK, fileVars
<1>3. ASSUME NEW s \in Subs, NEW t \in Topics, Open(s, t)
      PROVE  TypeOK'
  BY <1>3 DEF Open, Subscribe, TypeOK, HubTypeOK
<1>4. ASSUME NEW s \in Subs, CloseForget(s)
      PROVE  TypeOK'
  BY <1>4 DEF CloseForget, TypeOK, HubTypeOK, hubVars
<1>5. ASSUME NEW s \in Subs, CloseUnsubscribe(s)
      PROVE  TypeOK'
  BY <1>5 DEF CloseUnsubscribe, Unsubscribe, TypeOK, HubTypeOK, fileVars
<1>6. ASSUME NEW r \in Calls, NEW s \in Subs, ReadBegin(r, s)
      PROVE  TypeOK'
  BY <1>6 DEF ReadBegin, Goto, TypeOK, HubTypeOK, hubVars
<1>7. ASSUME NEW r \in Calls, ReadStep(r)
      PROVE  TypeOK'
  <2>1. CASE ReadLock(r)
    BY <2>1 DEF ReadLock, Goto, TypeOK, HubTypeOK, hubVars
  <2>2. CASE ReadPending(r)
    <3>1. PICK n \in 1..pending[at[r]] : pending' = [pending EXCEPT ![at[r]] = @ - n]
      BY <2>2 DEF ReadPending
    <3>2. at[r] \in Subs => pending[at[r]] - n \in 0..RecordPieces
      BY DEF TypeOK
    <3>3. pending' \in [Subs -> 0..RecordPieces]
      BY <3>1, <3>2 DEF TypeOK
    <3> QED
      BY <2>2, <3>3 DEF ReadPending, Return, TypeOK, HubTypeOK, hubVars
  <2>3. CASE ReadGap(r)
    <3>1. at[r] \in Subs => reported[at[r]] + dropped[at[r]] \in Nat
      BY DEF TypeOK, HubTypeOK
    <3>2. HubTypeOK'
      BY <2>3 DEF ReadGap, TakeDropped, TypeOK, HubTypeOK
    <3>3. reported' \in [Subs -> Nat]
      BY <2>3, <3>1 DEF ReadGap, TypeOK
    <3>4. pending' \in [Subs -> 0..RecordPieces]
      BY <2>3, RenderType DEF ReadGap, TypeOK
    <3>5. pc' \in [Calls -> Steps]
      BY <2>3 DEF ReadGap, Render, Goto, TypeOK
    <3> QED
      BY <2>3, <3>2, <3>3, <3>4, <3>5 DEF ReadGap, TypeOK
  <2>4. CASE ReadNoGap(r)
    BY <2>4 DEF ReadNoGap, Goto, TypeOK, HubTypeOK, hubVars
  <2>5. CASE ReadEvent(r)
    <3>1. at[r] \in Subs => Head(queue[at[r]]) \in Nat /\ Tail(queue[at[r]]) \in Seq(Nat)
      BY <2>5 DEF ReadEvent, Receive, TypeOK, HubTypeOK
    <3>2. HubTypeOK'
      BY <2>5, <3>1 DEF ReadEvent, Receive, TypeOK, HubTypeOK
    <3>3. last' \in [Subs -> Nat]
      BY <2>5, <3>1 DEF ReadEvent, TypeOK
    <3>4. pending' \in [Subs -> 0..RecordPieces]
      BY <2>5, RenderType DEF ReadEvent, TypeOK
    <3>5. pc' \in [Calls -> Steps]
      BY <2>5 DEF ReadEvent, Render, Goto, TypeOK
    <3> QED
      BY <2>5, <3>2, <3>3, <3>4, <3>5 DEF ReadEvent, TypeOK
  <2>6. CASE ReadEOF(r)
    BY <2>6 DEF ReadEOF, Return, TypeOK, HubTypeOK, hubVars
  <2> QED
    BY <1>7, <2>1, <2>2, <2>3, <2>4, <2>5, <2>6 DEF ReadStep
<1>8. CASE UNCHANGED vars
  BY <1>8 DEF vars, hubVars, fileVars, TypeOK, HubTypeOK
<1> QED
  BY <1>1, <1>3, <1>4, <1>5, <1>6, <1>7, <1>8 DEF Next

(***************************************************************************)
(* Every variable keeps its type in every behaviour, whatever the sizes.   *)
(***************************************************************************)
THEOREM TypeCorrect == Spec => []TypeOK
<1>1. Init => TypeOK
  BY HubAssumption, LiveFileAssumption
     DEF Init, HubInit, FileInit, TypeOK, HubTypeOK, Steps, Topics, Offers
<1> QED
  BY <1>1, TypeStep, PTL DEF Spec

-----------------------------------------------------------------------------
(***************************************************************************)
(* The parts of the invariant of one subscription or call, as operators of *)
(* the values they speak of: l is last, q the queue, m missed, o the offer *)
(* and p posted.                                                           *)
(***************************************************************************)
Ordered(l, q, o, p) ==
  /\ l <= p /\ (o \in {"due", "full"} => l < p)
  /\ \A i \in 1..Len(q) : l < q[i] /\ q[i] <= p /\ (o \in {"due", "full"} => q[i] < p)
  /\ \A i, j \in 1..Len(q) : i < j => q[i] < q[j]

OwesOne(l, q, m, o) ==
  /\ \A d \in m : l < d
  /\ q = <<>> => \A d, e \in m : d = e
  /\ q = <<>> /\ o = "full" => m = {}
  /\ q # <<>> => \A d, e \in m : d < Head(q) /\ e < Head(q) => d = e

OneBehind(l, m) == \A d, e \in m : d < l /\ e < l => d = e

\* The invariant's parts, said with these operators.
LEMMA PartsOfIInv ==
  /\ QueuesInOrder <=> \A s \in Subs : Ordered(last[s], queue[s], offer[s], posted)
  /\ WaitersOweOne
       <=> \A r \in Calls : pc[r] = "receive"
             => OwesOne(last[at[r]], queue[at[r]], missed[at[r]], offer[at[r]])
  /\ GapIsNext
       <=> \A s \in Subs :
             /\ OneBehind(last[s], missed[s])
             /\ (\E d \in missed[s] : d < last[s])
                  => \A r \in Calls : at[r] = s => pc[r] # "receive"
<1>1. QueuesInOrder <=> \A s \in Subs : Ordered(last[s], queue[s], offer[s], posted)
  BY DEF QueuesInOrder, Ordered, InOffer
<1>2. WaitersOweOne
        <=> \A r \in Calls : pc[r] = "receive"
              => OwesOne(last[at[r]], queue[at[r]], missed[at[r]], offer[at[r]])
  BY DEF WaitersOweOne, OwesOne
<1>3. ASSUME NEW s \in Subs
      PROVE  /\ (\A d, e \in Overtaken(s) : d = e) <=> OneBehind(last[s], missed[s])
             /\ Overtaken(s) # {} <=> \E d \in missed[s] : d < last[s]
  BY DEF Overtaken, OneBehind
<1> QED
  BY <1>1, <1>2, <1>3 DEF GapIsNext

\* The same of the next state.
LEMMA PartsOfIInvNext ==
  /\ QueuesInOrder' <=> \A s \in Subs : Ordered(last'[s], queue'[s], offer'[s], posted')
  /\ WaitersOweOne'
       <=> \A r \in Calls : pc'[r] = "receive"
             => OwesOne(last'[at'[r]], queue'[at'[r]], missed'[at'[r]], offer'[at'[r]])
  /\ GapIsNext'
       <=> \A s \in Subs :
             /\ OneBehind(last'[s], missed'[s])
             /\ (\E d \in missed'[s] : d < last'[s])
                  => \A r \in Calls : at'[r] = s => pc'[r] # "receive"
<1>1. QueuesInOrder' <=> \A s \in Subs : Ordered(last'[s], queue'[s], offer'[s], posted')
  BY DEF QueuesInOrder, Ordered, InOffer
<1>2. WaitersOweOne'
        <=> \A r \in Calls : pc'[r] = "receive"
              => OwesOne(last'[at'[r]], queue'[at'[r]], missed'[at'[r]], offer'[at'[r]])
  BY DEF WaitersOweOne, OwesOne
<1>3. ASSUME NEW s \in Subs
      PROVE  /\ (\A d, e \in Overtaken(s)' : d = e) <=> OneBehind(last'[s], missed'[s])
             /\ Overtaken(s)' # {} <=> \E d \in missed'[s] : d < last'[s]
  BY DEF Overtaken, OneBehind
<1> QED
  BY <1>1, <1>2, <1>3 DEF GapIsNext

\* An event that is sent is newer than all that waits: the order is kept.
LEMMA OrderedAfterSend ==
  ASSUME NEW l \in Nat, NEW p \in Nat, NEW q \in Seq(Nat), Ordered(l, q, "due", p)
  PROVE  Ordered(l, Append(q, p), "none", p)
<1>1. PICK n \in Nat : n = Len(q)
  OBVIOUS
<1>2. /\ Append(q, p) \in Seq(Nat) /\ Len(Append(q, p)) = n + 1
      /\ \A i \in 1..n : Append(q, p)[i] = q[i]
      /\ Append(q, p)[n + 1] = p
  BY <1>1
<1>3. /\ l < p /\ \A i \in 1..n : q[i] \in Nat /\ l < q[i] /\ q[i] < p
      /\ \A i, j \in 1..n : i < j => q[i] < q[j]
  BY <1>1 DEF Ordered
<1>4. PICK u : u = Append(q, p)
  OBVIOUS
<1>5. \A i \in 1..(n + 1) : i \in 1..n \/ i = n + 1
  OBVIOUS
<1>6. \A i \in 1..(n + 1) : l < u[i] /\ u[i] <= p
  BY <1>2, <1>3, <1>4, <1>5
<1>7. ASSUME NEW i \in 1..(n + 1), NEW j \in 1..(n + 1), i < j
      PROVE  u[i] < u[j]
  <2>1. i \in 1..n
    BY <1>7
  <2>2. CASE j \in 1..n
    BY <1>2, <1>3, <1>4, <1>7, <2>1, <2>2
  <2>3. CASE j = n + 1
    BY <1>2, <1>3, <1>4, <2>1, <2>3
  <2> QED
    BY <1>5, <2>2, <2>3
<1> QED
  BY <1>2, <1>3, <1>4, <1>6, <1>7 DEF Ordered

\* The oldest event is received: the others are newer than it.
LEMMA OrderedAfterReceive ==
  ASSUME NEW l \in Nat, NEW p \in Nat, NEW q \in Seq(Nat), q # <<>>, NEW o, Ordered(l, q, o, p)
  PROVE  Ordered(Head(q), Tail(q), o, p)
<1>1. PICK n \in Nat : n = Len(q) - 1
  <2>1. Len(q) \in Nat /\ Len(q) # 0
    OBVIOUS
  <2> QED
    BY <2>1
<1>2. PICK u : u = Tail(q)
  OBVIOUS
<1>3. /\ Len(q) = n + 1 /\ Len(u) = n /\ Head(q) = q[1]
      /\ \A i \in 1..n : u[i] = q[i + 1]
  BY <1>1, <1>2
<1>4. 1 \in 1..(n + 1) /\ \A i \in 1..n : i + 1 \in 1..(n + 1) /\ 1 < i + 1
  OBVIOUS
<1>5. /\ \A i \in 1..(n + 1) : q[i] <= p /\ (o \in {"due", "full"} => q[i] < p)
      /\ \A i, j \in 1..(n + 1) : i < j => q[i] < q[j]
  BY <1>3 DEF Ordered
<1>6. q[1] <= p /\ (o \in {"due", "full"} => q[1] < p)
  BY <1>4, <1>5
<1>7. \A i \in 1..n : q[1] < u[i] /\ u[i] <= p /\ (o \in {"due", "full"} => u[i] < p)
  BY <1>3, <1>4, <1>5
<1>8. ASSUME NEW i \in 1..n, NEW j \in 1..n, i < j PROVE u[i] < u[j]
  <2>1. i + 1 \in 1..(n + 1) /\ j + 1 \in 1..(n + 1) /\ i + 1 < j + 1
    BY <1>8
  <2>2. q[i + 1] < q[j + 1]
    BY <1>5, <2>1
  <2> QED
    BY <1>3, <2>2
<1> QED
  BY <1>2, <1>3, <1>6, <1>7, <1>8 DEF Ordered

\* The head of a channel that holds something does not change with a send.
LEMMA AppendToNonempty ==
  ASSUME NEW q \in Seq(Nat), NEW e \in Nat
  PROVE  /\ Append(q, e) # <<>>
         /\ q # <<>> => Head(Append(q, e)) = Head(q)
         /\ q = <<>> => Head(Append(q, e)) = e
<1>1. Len(q) \in Nat /\ Append(q, e) \in Seq(Nat) /\ Len(Append(q, e)) = Len(q) + 1
  OBVIOUS
<1>2. Append(q, e) # <<>>
  BY <1>1
<1>3. Head(Append(q, e)) = Append(q, e)[1]
  BY <1>1, <1>2
<1>4. ASSUME q # <<>> PROVE Head(Append(q, e)) = Head(q)
  BY <1>1, <1>3, <1>4
<1>5. ASSUME q = <<>> PROVE Head(Append(q, e)) = e
  BY <1>1, <1>3, <1>5
<1> QED
  BY <1>2, <1>4, <1>5

\* The oldest event of a channel is older than the one on offer.
LEMMA HeadIsOld ==
  ASSUME NEW l, NEW p \in Nat, NEW q \in Seq(Nat), q # <<>>, Ordered(l, q, "full", p)
  PROVE  Head(q) \in Nat /\ Head(q) < p
<1>1. Len(q) \in Nat /\ Len(q) >= 1 /\ Head(q) = q[1]
  OBVIOUS
<1>2. 1 \in 1..Len(q)
  BY <1>1
<1> QED
  BY <1>1, <1>2 DEF Ordered


(***************************************************************************)
(* Publish or GapAll takes Hub.mu: every subscription that will be offered *)
(* the event is in the maps, so its channel is open, and the event is      *)
(* newer than all there is.                                                *)
(***************************************************************************)
LEMMA BeginKeepsIInv ==
  ASSUME IInv, TypeOK', NEW audience, audience \subseteq Registered, Begin(audience),
         UNCHANGED fileVars
  PROVE  IInv'
<1>1. /\ TypeOK /\ HubTypeOK /\ posted \in Nat /\ posted' = posted + 1
      /\ UNCHANGED <<topic, closed, queue, dropped, missed>>
      /\ UNCHANGED <<holder, pc, at, last>>
      /\ \A s \in Subs : offer[s] = "none"
      /\ \A s \in Subs : offer'[s] = IF s \in audience THEN "due" ELSE "none"
  BY DEF IInv, TypeOK, HubTypeOK, Begin, HubFree, fileVars
<1>2. NoSendOnClosed'
  BY <1>1 DEF IInv, NoSendOnClosed, Registered, HubTypeOK
<1>3. BoundedQueues' /\ LockDiscipline'
  BY <1>1 DEF IInv, BoundedQueues, LockDiscipline
<1>4. QueuesInOrder'
  <2> SUFFICES ASSUME NEW s \in Subs PROVE Ordered(last[s], queue[s], offer'[s], posted + 1)
    BY <1>1, PartsOfIInvNext
  <2>1. Ordered(last[s], queue[s], "none", posted)
    BY <1>1, PartsOfIInv DEF IInv
  <2>2. last[s] \in Nat /\ \A i \in 1..Len(queue[s]) : queue[s][i] \in Nat
    BY <1>1 DEF TypeOK, HubTypeOK
  <2> QED
    BY <1>1, <2>1, <2>2 DEF Ordered
<1>5. LossesCounted'
  BY <1>1 DEF IInv, LossesCounted, HubTypeOK
<1>6. OneAtATime'
  BY <1>1 DEF OneAtATime
<1>7. WaitersOweOne'
  <2> SUFFICES ASSUME NEW r \in Calls, pc[r] = "receive"
               PROVE  OwesOne(last[at[r]], queue[at[r]], missed[at[r]], offer'[at[r]])
    BY <1>1, PartsOfIInvNext
  <2>1. OwesOne(last[at[r]], queue[at[r]], missed[at[r]], offer[at[r]]) /\ at[r] \in Subs
    BY <1>1, PartsOfIInv DEF IInv, LockDiscipline, TypeOK
  <2> QED
    BY <1>1, <2>1 DEF OwesOne
<1>8. GapIsNext'
  BY <1>1, PartsOfIInv, PartsOfIInvNext DEF IInv
<1> QED
  BY <1>2, <1>3, <1>4, <1>5, <1>6, <1>7, <1>8 DEF IInv

(***************************************************************************)
(* The select sends: there was room, and a call that waits takes the event *)
(* at once if it is the only one.                                          *)
(***************************************************************************)
LEMMA SendKeepsIInv ==
  ASSUME IInv, TypeOK', NEW s \in Subs, Send(s), UNCHANGED fileVars
  PROVE  IInv'
<1>1. /\ TypeOK /\ HubTypeOK /\ posted \in Nat
      /\ UNCHANGED <<topic, closed, dropped, posted, missed>>
      /\ UNCHANGED <<holder, pc, at, last>>
      /\ offer[s] = "due" /\ offer'[s] = "none" /\ ~Full(s)
      /\ queue[s] \in Seq(Nat) /\ queue'[s] = Append(queue[s], posted)
      /\ \A x \in Subs \ {s} : offer'[x] = offer[x] /\ queue'[x] = queue[x]
  BY DEF IInv, TypeOK, HubTypeOK, Send, Turn, fileVars
<1>2. NoSendOnClosed'
  BY <1>1 DEF IInv, NoSendOnClosed, HubTypeOK
<1>3. BoundedQueues'
  <2>1. Len(queue[s]) \in Nat /\ SubscriberBuffer \in Nat /\ Len(queue[s]) < SubscriberBuffer
    BY <1>1, HubAssumption DEF Full
  <2>2. Len(queue'[s]) = Len(queue[s]) + 1
    BY <1>1
  <2>3. Len(queue'[s]) <= SubscriberBuffer
    BY <2>1, <2>2
  <2> QED
    BY <1>1, <2>3 DEF IInv, BoundedQueues
<1>4. LockDiscipline'
  BY <1>1 DEF IInv, LockDiscipline
<1>5. QueuesInOrder'
  <2> SUFFICES ASSUME NEW x \in Subs PROVE Ordered(last[x], queue'[x], offer'[x], posted)
    BY <1>1, PartsOfIInvNext
  <2>1. Ordered(last[x], queue[x], offer[x], posted) /\ last[x] \in Nat
    BY <1>1, PartsOfIInv DEF IInv, TypeOK
  <2> QED
    BY <1>1, <2>1, OrderedAfterSend
<1>6. LossesCounted'
  BY <1>1 DEF IInv, LossesCounted
<1>7. OneAtATime'
  BY <1>1, Zenon DEF IInv, OneAtATime
<1>8. WaitersOweOne'
  <2> SUFFICES ASSUME NEW r \in Calls, pc[r] = "receive"
               PROVE  OwesOne(last[at[r]], queue'[at[r]], missed[at[r]], offer'[at[r]])
    BY <1>1, PartsOfIInvNext
  <2>1. OwesOne(last[at[r]], queue[at[r]], missed[at[r]], offer[at[r]]) /\ at[r] \in Subs
    BY <1>1, PartsOfIInv DEF IInv, LockDiscipline, TypeOK
  <2>2. CASE at[r] = s
    <3>1. /\ Append(queue[s], posted) # <<>>
          /\ queue[s] # <<>> => Head(Append(queue[s], posted)) = Head(queue[s])
      BY <1>1, AppendToNonempty
    <3> QED
      BY <1>1, <2>1, <2>2, <3>1 DEF OwesOne
  <2>3. CASE at[r] # s
    BY <1>1, <2>1, <2>3
  <2> QED
    BY <2>2, <2>3
<1>9. GapIsNext'
  BY <1>1, PartsOfIInv, PartsOfIInvNext DEF IInv
<1> QED
  BY <1>2, <1>3, <1>4, <1>5, <1>6, <1>7, <1>8, <1>9 DEF IInv

(***************************************************************************)
(* The select finds the channel full, so a call that waits for an event of *)
(* it finds one.                                                           *)
(***************************************************************************)
LEMMA FindFullKeepsIInv ==
  ASSUME IInv, TypeOK', NEW s \in Subs, FindFull(s), UNCHANGED fileVars
  PROVE  IInv'
<1>1. /\ TypeOK /\ HubTypeOK
      /\ UNCHANGED <<topic, closed, queue, dropped, posted, missed>>
      /\ UNCHANGED <<holder, pc, at, last>>
      /\ offer[s] = "due" /\ offer'[s] = "full" /\ Full(s)
      /\ \A x \in Subs \ {s} : offer[x] \in {"none", "due"} /\ offer'[x] = offer[x]
  BY DEF IInv, TypeOK, HubTypeOK, FindFull, Turn, fileVars
<1>2. NoSendOnClosed'
  BY <1>1 DEF IInv, NoSendOnClosed, HubTypeOK
<1>3. BoundedQueues' /\ LockDiscipline' /\ LossesCounted'
  BY <1>1 DEF IInv, BoundedQueues, LockDiscipline, LossesCounted
<1>4. QueuesInOrder'
  <2> SUFFICES ASSUME NEW x \in Subs PROVE Ordered(last[x], queue[x], offer'[x], posted)
    BY <1>1, PartsOfIInvNext
  <2>1. Ordered(last[x], queue[x], offer[x], posted)
    BY <1>1, PartsOfIInv DEF IInv
  <2> QED
    BY <1>1, <2>1 DEF Ordered
<1>5. OneAtATime'
  BY <1>1 DEF OneAtATime
<1>6. WaitersOweOne'
  <2> SUFFICES ASSUME NEW r \in Calls, pc[r] = "receive"
               PROVE  OwesOne(last[at[r]], queue[at[r]], missed[at[r]], offer'[at[r]])
    BY <1>1, PartsOfIInvNext
  <2>1. OwesOne(last[at[r]], queue[at[r]], missed[at[r]], offer[at[r]]) /\ at[r] \in Subs
    BY <1>1, PartsOfIInv DEF IInv, LockDiscipline, TypeOK
  <2>2. queue[s] # <<>>
    BY <1>1, HubAssumption DEF Full
  <2> QED
    BY <1>1, <2>1, <2>2 DEF OwesOne
<1>7. GapIsNext'
  BY <1>1, PartsOfIInv, PartsOfIInvNext DEF IInv
<1> QED
  BY <1>2, <1>3, <1>4, <1>5, <1>6, <1>7 DEF IInv

(***************************************************************************)
(* The loss is counted.  A call that waits on the drained channel by now   *)
(* owes this loss alone; for any other it is newer than the event the call *)
(* will take.                                                              *)
(***************************************************************************)
LEMMA CountLossKeepsIInv ==
  ASSUME IInv, TypeOK', NEW s \in Subs, CountLoss(s), UNCHANGED fileVars
  PROVE  IInv'
<1>1. /\ TypeOK /\ HubTypeOK /\ posted \in Nat
      /\ UNCHANGED <<topic, closed, queue, posted>>
      /\ UNCHANGED <<holder, pc, at, last>>
      /\ offer[s] = "full" /\ offer'[s] = "counted"
      /\ dropped[s] \in Nat /\ dropped'[s] = dropped[s] + 1
      /\ missed[s] \in SUBSET Nat /\ missed'[s] = missed[s] \cup {posted}
      /\ \A x \in Subs \ {s} : /\ offer'[x] = offer[x] /\ dropped'[x] = dropped[x]
                               /\ missed'[x] = missed[x]
  BY DEF IInv, TypeOK, HubTypeOK, CountLoss, fileVars
<1>2. NoSendOnClosed'
  BY <1>1 DEF IInv, NoSendOnClosed, HubTypeOK
<1>3. BoundedQueues' /\ LockDiscipline'
  BY <1>1 DEF IInv, BoundedQueues, LockDiscipline
<1>4. QueuesInOrder'
  <2> SUFFICES ASSUME NEW x \in Subs PROVE Ordered(last[x], queue[x], offer'[x], posted)
    BY <1>1, PartsOfIInvNext
  <2>1. Ordered(last[x], queue[x], offer[x], posted)
    BY <1>1, PartsOfIInv DEF IInv
  <2> QED
    BY <1>1, <2>1 DEF Ordered
<1>5. LossesCounted'
  <2> SUFFICES ASSUME NEW x \in Subs
               PROVE  /\ (dropped'[x] = 0) <=> (missed'[x] = {})
                      /\ \A d \in missed'[x] : d <= posted
    BY <1>1 DEF LossesCounted
  <2>1. /\ (dropped[x] = 0) <=> (missed[x] = {})
        /\ \A d \in missed[x] : d <= posted
    BY DEF IInv, LossesCounted
  <2>2. CASE x = s
    <3>1. dropped'[s] # 0 /\ missed'[s] # {}
      BY <1>1
    <3>2. \A d \in missed'[s] : d <= posted
      BY <1>1, <2>1, <2>2
    <3> QED
      BY <2>2, <3>1, <3>2
  <2>3. CASE x # s
    BY <1>1, <2>1, <2>3
  <2> QED
    BY <2>2, <2>3
<1>6. OneAtATime'
  BY <1>1 DEF IInv, OneAtATime
<1>7. last[s] \in Nat /\ last[s] < posted /\ Ordered(last[s], queue[s], "full", posted)
  <2>1. Ordered(last[s], queue[s], "full", posted) /\ last[s] \in Nat
    BY <1>1, PartsOfIInv DEF IInv, TypeOK
  <2> QED
    BY <2>1 DEF Ordered
<1>8. WaitersOweOne'
  <2> SUFFICES ASSUME NEW r \in Calls, pc[r] = "receive"
               PROVE  OwesOne(last[at[r]], queue[at[r]], missed'[at[r]], offer'[at[r]])
    BY <1>1, PartsOfIInvNext
  <2>1. OwesOne(last[at[r]], queue[at[r]], missed[at[r]], offer[at[r]]) /\ at[r] \in Subs
    BY <1>1, PartsOfIInv DEF IInv, LockDiscipline, TypeOK
  <2>2. CASE at[r] = s
    <3>1. \A d \in missed'[s] : last[s] < d
      BY <1>1, <1>7, <2>1, <2>2 DEF OwesOne
    <3>2. CASE queue[s] = <<>>
      <4>1. missed'[s] = {posted}
        BY <1>1, <2>1, <2>2, <3>2 DEF OwesOne
      <4> QED
        BY <1>1, <2>2, <3>1, <3>2, <4>1 DEF OwesOne
    <3>3. CASE queue[s] # <<>>
      <4>1. Head(queue[s]) \in Nat /\ Head(queue[s]) < posted
        <5>1. queue[s] \in Seq(Nat)
          BY <1>1 DEF HubTypeOK
        <5> QED
          BY <1>1, <1>7, <3>3, <5>1, HeadIsOld
      <4>2. \A d \in missed'[s] : d < Head(queue[s]) => d \in missed[s]
        BY <1>1, <4>1
      <4> QED
        BY <1>1, <2>1, <2>2, <3>1, <3>3, <4>2 DEF OwesOne
    <3> QED
      BY <3>2, <3>3
  <2>3. CASE at[r] # s
    BY <1>1, <2>1, <2>3
  <2> QED
    BY <2>2, <2>3
<1>9. GapIsNext'
  <2>1. \A d \in missed'[s] : d < last[s] => d \in missed[s]
    BY <1>1, <1>7
  <2> SUFFICES ASSUME NEW x \in Subs
               PROVE  /\ OneBehind(last[x], missed'[x])
                      /\ (\E d \in missed'[x] : d < last[x])
                           => \A r \in Calls : at[r] = x => pc[r] # "receive"
    BY <1>1, PartsOfIInvNext
  <2>2. /\ OneBehind(last[x], missed[x])
        /\ (\E d \in missed[x] : d < last[x]) => \A r \in Calls : at[r] = x => pc[r] # "receive"
    BY PartsOfIInv DEF IInv
  <2> QED
    BY <1>1, <2>1, <2>2 DEF OneBehind
<1> QED
  BY <1>2, <1>3, <1>4, <1>5, <1>6, <1>8, <1>9 DEF IInv

\* The callback of a counted loss touches nothing that readers look at.
LEMMA NoteOverflowKeepsIInv ==
  ASSUME IInv, TypeOK', NEW s \in Subs, NoteOverflow(s), UNCHANGED fileVars
  PROVE  IInv'
<1>1. /\ TypeOK /\ HubTypeOK
      /\ UNCHANGED <<topic, closed, queue, dropped, posted, missed>>
      /\ UNCHANGED <<holder, pc, at, last>>
      /\ offer[s] = "counted" /\ offer'[s] = "none"
      /\ \A x \in Subs \ {s} : offer'[x] = offer[x]
  BY DEF IInv, TypeOK, HubTypeOK, NoteOverflow, fileVars
<1>2. NoSendOnClosed'
  BY <1>1 DEF IInv, NoSendOnClosed, HubTypeOK
<1>3. BoundedQueues' /\ LockDiscipline' /\ LossesCounted'
  BY <1>1 DEF IInv, BoundedQueues, LockDiscipline, LossesCounted
<1>4. QueuesInOrder'
  <2> SUFFICES ASSUME NEW x \in Subs PROVE Ordered(last[x], queue[x], offer'[x], posted)
    BY <1>1, PartsOfIInvNext
  <2>1. Ordered(last[x], queue[x], offer[x], posted)
    BY <1>1, PartsOfIInv DEF IInv
  <2> QED
    BY <1>1, <2>1 DEF Ordered
<1>5. OneAtATime'
  BY <1>1, Zenon DEF IInv, OneAtATime
<1>6. WaitersOweOne'
  <2> SUFFICES ASSUME NEW r \in Calls, pc[r] = "receive"
               PROVE  OwesOne(last[at[r]], queue[at[r]], missed[at[r]], offer'[at[r]])
    BY <1>1, PartsOfIInvNext
  <2>1. OwesOne(last[at[r]], queue[at[r]], missed[at[r]], offer[at[r]]) /\ at[r] \in Subs
    BY <1>1, PartsOfIInv DEF IInv, LockDiscipline, TypeOK
  <2> QED
    BY <1>1, <2>1 DEF OwesOne
<1>7. GapIsNext'
  BY <1>1, PartsOfIInv, PartsOfIInvNext DEF IInv
<1> QED
  BY <1>2, <1>3, <1>4, <1>5, <1>6, <1>7 DEF IInv

(***************************************************************************)
(* Opening and closing (liveFile.Open and Close) keep the invariant: they  *)
(* touch only the hub's maps, the closed channels and the readers, and     *)
(* find no publish on its way.                                             *)
(***************************************************************************)
LEMMA OpenCloseKeepIInv ==
  ASSUME IInv, TypeOK', NEW s \in Subs,
         (\E t \in Topics : Open(s, t)) \/ CloseForget(s) \/ CloseUnsubscribe(s)
  PROVE  IInv'
<1>1. UNCHANGED <<queue, dropped, posted, offer, missed, holder, pc, at, last>>
  BY DEF Open, Subscribe, CloseForget, CloseUnsubscribe, Unsubscribe, hubVars, fileVars
<1>2. NoSendOnClosed'
  <2> USE DEF IInv, TypeOK, HubTypeOK, NoSendOnClosed
  <2>1. ASSUME NEW t \in Topics, Open(s, t) PROVE NoSendOnClosed'
    BY <2>1 DEF Open, Subscribe
  <2>2. CASE CloseForget(s)
    BY <2>2 DEF CloseForget, hubVars
  <2>3. CASE CloseUnsubscribe(s)
    BY <2>3 DEF CloseUnsubscribe, Unsubscribe, HubFree
  <2> QED
    BY <2>1, <2>2, <2>3
<1> QED
  BY <1>1, <1>2, PartsOfIInv, PartsOfIInvNext
     DEF IInv, BoundedQueues, LockDiscipline, LossesCounted, OneAtATime

(***************************************************************************)
(* The steps of Read that move neither events nor losses.                  *)
(***************************************************************************)
LEMMA QuietReadKeepsIInv ==
  ASSUME IInv, TypeOK', NEW r \in Calls,
         \/ \E s \in Subs : ReadBegin(r, s)
         \/ ReadLock(r) \/ ReadPending(r) \/ ReadNoGap(r) \/ ReadEOF(r)
  PROVE  IInv'
<1>1. UNCHANGED <<topic, closed, queue, dropped, posted, offer, missed, last>>
  BY DEF ReadBegin, ReadLock, ReadPending, ReadNoGap, ReadEOF, hubVars
<1>2. TypeOK /\ LockDiscipline /\ LossesCounted
  BY DEF IInv
<1>3. LockDiscipline'
  <2>1. ASSUME NEW s \in Subs, ReadBegin(r, s)
        PROVE  LockDiscipline'
    BY <1>2, <2>1, LiveFileAssumption DEF ReadBegin, Goto, LockDiscipline, TypeOK, Steps
  <2>2. CASE ReadLock(r)
    BY <1>2, <2>2, LiveFileAssumption DEF ReadLock, Goto, LockDiscipline, TypeOK, Steps
  <2>3. CASE ReadPending(r)
    BY <1>2, <2>3, LiveFileAssumption DEF ReadPending, Return, LockDiscipline, TypeOK, Steps
  <2>4. CASE ReadNoGap(r)
    BY <1>2, <2>4, LiveFileAssumption DEF ReadNoGap, Goto, LockDiscipline, TypeOK, Steps
  <2>5. CASE ReadEOF(r)
    BY <1>2, <2>5, LiveFileAssumption DEF ReadEOF, Return, LockDiscipline, TypeOK, Steps
  <2> QED
    BY <2>1, <2>2, <2>3, <2>4, <2>5
<1>4. ASSUME NEW q \in Calls, pc'[q] = "receive"
      PROVE  at'[q] = at[q] /\ (pc[q] = "receive" \/ (at[q] \in Subs /\ missed[at[q]] = {}))
  <2>1. CASE q # r
    BY <1>2, <1>4, <2>1 DEF TypeOK, ReadBegin, ReadLock, ReadPending, ReadNoGap, ReadEOF, Goto, Return
  <2>2. CASE q = r
    <3>1. ReadNoGap(r)
      BY <1>2, <1>4, <2>2 DEF TypeOK, ReadBegin, ReadLock, ReadPending, ReadEOF, Goto, Return
    <3>2. at[r] \in Subs /\ at'[r] = at[r] /\ dropped[at[r]] = 0
      BY <1>2, <3>1 DEF ReadNoGap, LockDiscipline, TypeOK
    <3> QED
      BY <1>2, <2>2, <3>2 DEF LossesCounted
  <2> QED
    BY <2>1, <2>2
<1>5. WaitersOweOne'
  <2> SUFFICES ASSUME NEW q \in Calls, pc'[q] = "receive"
               PROVE  OwesOne(last[at[q]], queue[at[q]], missed[at[q]], offer[at[q]])
    BY <1>1, <1>4, PartsOfIInvNext
  <2>1. CASE pc[q] = "receive"
    BY <2>1, PartsOfIInv DEF IInv
  <2>2. CASE missed[at[q]] = {}
    BY <2>2 DEF OwesOne
  <2> QED
    BY <1>4, <2>1, <2>2
<1>6. GapIsNext'
  <2>1. ASSUME NEW s \in Subs, NEW d \in missed[s], d < last[s], NEW q \in Calls, at'[q] = s,
               pc'[q] = "receive"
        PROVE  FALSE
    BY <1>4, <2>1, PartsOfIInv DEF IInv
  <2>2. \A s \in Subs : OneBehind(last[s], missed[s])
    BY PartsOfIInv DEF IInv
  <2> QED
    BY <1>1, <2>1, <2>2, PartsOfIInvNext
<1> QED
  BY <1>1, <1>3, <1>5, <1>6, PartsOfIInv, PartsOfIInvNext
     DEF IInv, NoSendOnClosed, BoundedQueues, LossesCounted, OneAtATime

(***************************************************************************)
(* A GAP record goes out: nothing is missed any more.                      *)
(***************************************************************************)
LEMMA GapKeepsIInv ==
  ASSUME IInv, TypeOK', NEW r \in Calls, ReadGap(r)
  PROVE  IInv'
<1>1. TypeOK /\ HubTypeOK /\ at[r] \in Subs
  BY DEF IInv, LockDiscipline, TypeOK, ReadGap
<1>2. PICK s \in Subs : s = at[r]
  BY <1>1
<1>3. /\ UNCHANGED <<topic, closed, queue, overflows, posted, offer, holder, at, last>>
      /\ missed'[s] = {} /\ dropped'[s] = 0
      /\ \A x \in Subs \ {s} : missed'[x] = missed[x] /\ dropped'[x] = dropped[x]
      /\ pc[r] = "check" /\ pc' = pc
  BY <1>1, <1>2 DEF ReadGap, TakeDropped, Render, Goto, TypeOK, HubTypeOK
<1>4. LossesCounted'
  BY <1>3 DEF IInv, LossesCounted
<1>5. WaitersOweOne'
  <2> SUFFICES ASSUME NEW q \in Calls, pc[q] = "receive"
               PROVE  OwesOne(last[at[q]], queue[at[q]], missed'[at[q]], offer[at[q]])
    BY <1>3, PartsOfIInvNext
  <2>1. at[q] \in Subs \ {s}
    BY <1>1, <1>2, <1>3 DEF IInv, LockDiscipline, TypeOK
  <2>2. OwesOne(last[at[q]], queue[at[q]], missed[at[q]], offer[at[q]])
    BY PartsOfIInv DEF IInv
  <2> QED
    BY <1>3, <2>1, <2>2
<1>6. GapIsNext'
  <2>1. OneBehind(last[s], missed'[s]) /\ ~ \E d \in missed'[s] : d < last[s]
    BY <1>3 DEF OneBehind
  <2>2. \A x \in Subs \ {s} :
          /\ OneBehind(last[x], missed'[x])
          /\ (\E d \in missed'[x] : d < last[x]) => \A q \in Calls : at[q] = x => pc[q] # "receive"
    BY <1>3, PartsOfIInv DEF IInv
  <2> QED
    BY <1>3, <2>1, <2>2, PartsOfIInvNext
<1> QED
  BY <1>3, <1>4, <1>5, <1>6, PartsOfIInv, PartsOfIInvNext
     DEF IInv, NoSendOnClosed, BoundedQueues, LockDiscipline, OneAtATime

(***************************************************************************)
(* An event comes out of the channel: it is the oldest, and older than all *)
(* losses but one at most, because the call looked for losses before it    *)
(* began to wait.  No other call of the file waits beside it.              *)
(***************************************************************************)
LEMMA EventKeepsIInv ==
  ASSUME IInv, TypeOK', NEW r \in Calls, ReadEvent(r)
  PROVE  IInv'
<1>1. TypeOK /\ HubTypeOK /\ at[r] \in Subs /\ pc[r] = "receive"
  BY DEF IInv, LockDiscipline, TypeOK, ReadEvent
<1>2. PICK s \in Subs : s = at[r]
  BY <1>1
<1>3. queue[s] \in Seq(Nat) /\ queue[s] # <<>>
  BY <1>2 DEF IInv, TypeOK, HubTypeOK, ReadEvent, Receive
<1>4. /\ UNCHANGED <<topic, closed, dropped, overflows, posted, offer, missed, holder, at>>
      /\ queue'[s] = Tail(queue[s]) /\ last'[s] = Head(queue[s])
      /\ \A x \in Subs \ {s} : queue'[x] = queue[x] /\ last'[x] = last[x]
      /\ pc'[r] = "check"
      /\ \A q \in Calls \ {r} : pc'[q] = pc[q]
  BY <1>1, <1>2 DEF ReadEvent, Receive, Render, Goto, TypeOK, HubTypeOK
<1>5. BoundedQueues'
  <2>1. Len(queue[s]) \in Nat /\ Len(queue[s]) <= SubscriberBuffer /\ SubscriberBuffer \in Nat
    BY <1>3, HubAssumption DEF IInv, BoundedQueues
  <2>2. Len(Tail(queue[s])) = Len(queue[s]) - 1
    BY <1>3
  <2>3. Len(queue'[s]) <= SubscriberBuffer
    BY <1>4, <2>1, <2>2
  <2> QED
    BY <1>4, <2>3 DEF IInv, BoundedQueues
<1>6. LockDiscipline'
  BY <1>1, <1>4 DEF IInv, LockDiscipline
<1>7. QueuesInOrder'
  <2> SUFFICES ASSUME NEW x \in Subs PROVE Ordered(last'[x], queue'[x], offer[x], posted)
    BY <1>4, PartsOfIInvNext
  <2>1. Ordered(last[x], queue[x], offer[x], posted) /\ last[x] \in Nat /\ posted \in Nat
    BY <1>1, PartsOfIInv DEF IInv, TypeOK, HubTypeOK
  <2> QED
    BY <1>3, <1>4, <2>1, OrderedAfterReceive
<1>8. ASSUME NEW q \in Calls, pc'[q] = "receive"
      PROVE  pc[q] = "receive" /\ at[q] \in Subs \ {s}
  <2>1. q # r /\ pc[q] = "receive"
    BY <1>4, <1>8
  <2>2. at[q] \in Subs /\ holder[at[q]] = q /\ holder[s] = r
    BY <1>1, <1>2, <2>1 DEF IInv, LockDiscipline, TypeOK
  <2> QED
    BY <2>1, <2>2
<1>9. WaitersOweOne'
  <2> SUFFICES ASSUME NEW q \in Calls, pc'[q] = "receive"
               PROVE  OwesOne(last'[at[q]], queue'[at[q]], missed[at[q]], offer[at[q]])
    BY <1>4, PartsOfIInvNext
  <2>1. OwesOne(last[at[q]], queue[at[q]], missed[at[q]], offer[at[q]])
    BY <1>8, PartsOfIInv DEF IInv
  <2> QED
    BY <1>4, <1>8, <2>1
<1>10. GapIsNext'
  <2> SUFFICES ASSUME NEW x \in Subs
               PROVE  /\ OneBehind(last'[x], missed[x])
                      /\ (\E d \in missed[x] : d < last'[x])
                           => \A q \in Calls : at[q] = x => pc'[q] # "receive"
    BY <1>4, PartsOfIInvNext
  <2>1. CASE x = s
    <3>1. OwesOne(last[s], queue[s], missed[s], offer[s])
      BY <1>1, <1>2, PartsOfIInv DEF IInv
    <3>2. OneBehind(last'[s], missed[s])
      BY <1>3, <1>4, <3>1 DEF OwesOne, OneBehind
    <3>3. \A q \in Calls : at[q] = s => pc'[q] # "receive"
      BY <1>8
    <3> QED
      BY <2>1, <3>2, <3>3
  <2>2. CASE x # s
    <3>1. /\ OneBehind(last[x], missed[x])
          /\ (\E d \in missed[x] : d < last[x]) => \A q \in Calls : at[q] = x => pc[q] # "receive"
      BY PartsOfIInv DEF IInv
    <3> QED
      BY <1>4, <1>8, <2>2, <3>1
  <2> QED
    BY <2>1, <2>2
<1> QED
  BY <1>4, <1>5, <1>6, <1>7, <1>9, <1>10 DEF IInv, NoSendOnClosed, LossesCounted, OneAtATime

(***************************************************************************)
(* Every behaviour stays in the inductive invariant.                       *)
(***************************************************************************)
THEOREM Invariance == Spec => []IInv
<1>1. Init => IInv
  <2> SUFFICES ASSUME Init PROVE IInv
    OBVIOUS
  <2>1. TypeOK
    BY HubAssumption, LiveFileAssumption
       DEF Init, HubInit, FileInit, TypeOK, HubTypeOK, Steps, Topics, Offers
  <2>2. LockDiscipline
    BY LiveFileAssumption DEF Init, FileInit, LockDiscipline
  <2>3. \A s \in Subs : /\ queue[s] = <<>> /\ missed[s] = {} /\ last[s] = 0 /\ offer[s] = "none"
                        /\ dropped[s] = 0
    BY DEF Init, HubInit, FileInit
  <2>4. posted = 0 /\ closed = {} /\ \A r \in Calls : pc[r] = "idle"
    BY DEF Init, HubInit, FileInit
  <2>5. QueuesInOrder
    BY <2>3, <2>4 DEF QueuesInOrder, InOffer
  <2>6. GapIsNext
    BY <2>3 DEF GapIsNext, Overtaken
  <2>7. BoundedQueues
    BY <2>3, HubAssumption DEF BoundedQueues
  <2> QED
    BY <2>1, <2>2, <2>3, <2>4, <2>5, <2>6, <2>7
       DEF IInv, NoSendOnClosed, LossesCounted, OneAtATime, WaitersOweOne
<1>2. IInv /\ [Next]_vars => IInv'
  <2> SUFFICES ASSUME IInv, [Next]_vars PROVE IInv'
    OBVIOUS
  <2>1. TypeOK'
    BY TypeStep DEF IInv
  <2>2. ASSUME HubStep, UNCHANGED fileVars
        PROVE  IInv'
    <3>1. ASSUME NEW c \in Channels, Publish(c) PROVE IInv'
      <4>1. Audience(c) \subseteq Registered
        BY HubAssumption DEF Audience, Registered
      <4> QED
        BY <2>1, <2>2, <3>1, <4>1, BeginKeepsIInv DEF Publish
    <3>2. CASE GapAll
      BY <2>1, <2>2, <3>2, BeginKeepsIInv DEF GapAll
    <3>3. ASSUME NEW s \in Subs, OfferStep(s) PROVE IInv'
      BY <2>1, <2>2, <3>3, SendKeepsIInv, FindFullKeepsIInv, CountLossKeepsIInv,
         NoteOverflowKeepsIInv DEF OfferStep
    <3> QED
      BY <2>2, <3>1, <3>2, <3>3 DEF HubStep
  <2>4. CASE UNCHANGED vars
    <3>1. UNCHANGED <<topic, closed, queue, dropped, posted, offer, missed>>
          /\ UNCHANGED <<holder, pc, at, last>>
      BY <2>4 DEF vars, hubVars, fileVars
    <3> QED
      BY <2>1, <3>1, PartsOfIInv, PartsOfIInvNext
         DEF IInv, NoSendOnClosed, BoundedQueues, LockDiscipline, LossesCounted, OneAtATime
  <2> QED
    BY <2>1, <2>2, <2>4, OpenCloseKeepIInv, QuietReadKeepsIInv, GapKeepsIInv,
       EventKeepsIInv DEF Next, ReadStep
<1> QED
  BY <1>1, <1>2, PTL DEF Spec

(***************************************************************************)
(* One record at most slips in ahead of the report of one loss at most,    *)
(* and the report comes next (liveFile.Read beside Hub.publish).           *)
(***************************************************************************)
THEOREM GapsComeNext == Spec => []GapIsNext
BY Invariance, PTL DEF IInv

(***************************************************************************)
(* The hub never sends on a closed channel.                                *)
(***************************************************************************)
THEOREM NoPanic == Spec => []NoSendOnClosed
BY Invariance, PTL DEF IInv

-----------------------------------------------------------------------------
\* The numbers of the events that wait in a channel.
Ids(q) == {q[i] : i \in 1..Len(q)}

\* With the event on offer, they are what is on its way to the reader.
OnTheWay(q, o, p) == Ids(q) \cup (IF o \in {"due", "full"} THEN {p} ELSE {})

\* The refinement mapping of what waits, said with these operators.
LEMMA WaitingIsOnTheWay ==
  ASSUME NEW s \in Subs
  PROVE  /\ WaitingIds(s) = OnTheWay(queue[s], offer[s], posted)
         /\ WaitingIds(s)' = OnTheWay(queue'[s], offer'[s], posted')
  BY DEF WaitingIds, InOffer, OnTheWay, Ids

\* A sent event joins the ones that wait.
LEMMA IdsAfterSend ==
  ASSUME NEW q \in Seq(Nat), NEW e \in Nat
  PROVE  Ids(Append(q, e)) = Ids(q) \cup {e}
<1>1. PICK n \in Nat : n = Len(q)
  OBVIOUS
<1>2. /\ Len(Append(q, e)) = n + 1
      /\ \A i \in 1..n : Append(q, e)[i] = q[i]
      /\ Append(q, e)[n + 1] = e
  BY <1>1
<1>3. 1..(n + 1) = (1..n) \cup {n + 1}
  OBVIOUS
<1> QED
  BY <1>1, <1>2, <1>3 DEF Ids

\* A received event is the only one to leave, and the oldest of those on their way.
LEMMA IdsAfterReceive ==
  ASSUME NEW l \in Nat, NEW p \in Nat, NEW q \in Seq(Nat), q # <<>>, NEW o, Ordered(l, q, o, p)
  PROVE  /\ Head(q) \in OnTheWay(q, o, p) /\ l < Head(q)
         /\ \A w \in OnTheWay(q, o, p) : Head(q) <= w
         /\ OnTheWay(Tail(q), o, p) = OnTheWay(q, o, p) \ {Head(q)}
<1>1. PICK n \in Nat : n = Len(q) - 1
  <2>1. Len(q) \in Nat /\ Len(q) # 0
    OBVIOUS
  <2> QED
    BY <2>1
<1>2. /\ Len(q) = n + 1 /\ Len(Tail(q)) = n /\ Head(q) = q[1] /\ Head(q) \in Nat
      /\ \A i \in 1..n : Tail(q)[i] = q[i + 1]
  BY <1>1
<1>3. 1 \in 1..(n + 1) /\ \A i \in 1..n : i + 1 \in 1..(n + 1) /\ 1 < i + 1
  OBVIOUS
<1>4. \A i \in 1..(n + 1) : i = 1 \/ \E k \in 1..n : i = k + 1
  <2>1. \A i \in 1..(n + 1) : i # 1 => i - 1 \in 1..n /\ i = (i - 1) + 1
    OBVIOUS
  <2> QED
    BY <2>1
<1>5. Ids(q) = {Head(q)} \cup Ids(Tail(q))
  <2>1. Ids(q) = {q[i] : i \in 1..(n + 1)} /\ Ids(Tail(q)) = {q[i + 1] : i \in 1..n}
    <3>1. Ids(q) = {q[i] : i \in 1..(n + 1)} /\ Ids(Tail(q)) = {Tail(q)[i] : i \in 1..n}
      BY <1>2, Zenon DEF Ids
    <3>2. {Tail(q)[i] : i \in 1..n} = {q[i + 1] : i \in 1..n}
      BY <1>2, Zenon
    <3> QED
      BY <3>1, <3>2, Zenon
  <2>2. Ids(q) \subseteq {q[1]} \cup Ids(Tail(q))
    BY <1>4, <2>1
  <2>3. {q[1]} \cup Ids(Tail(q)) \subseteq Ids(q)
    BY <1>3, <2>1
  <2> QED
    BY <1>2, <2>2, <2>3
<1>6. /\ l < q[1] /\ (o \in {"due", "full"} => q[1] < p)
      /\ \A i \in 1..n : q[1] < q[i + 1] /\ q[i + 1] \in Nat
  BY <1>2, <1>3 DEF Ordered
<1>7. \A w \in Ids(Tail(q)) : w \in Nat /\ Head(q) < w
  BY <1>2, <1>6 DEF Ids
<1>8. Head(q) \notin Ids(Tail(q)) /\ \A w \in Ids(q) : Head(q) <= w
  BY <1>2, <1>5, <1>7
<1>9. o \in {"due", "full"} => Head(q) < p /\ Head(q) # p
  BY <1>2, <1>6
<1> QED
  BY <1>2, <1>5, <1>6, <1>8, <1>9 DEF OnTheWay

(***************************************************************************)
(* Where Publish or GapAll begins, the event is on its way to all who      *)
(* follow its conversation: a post of the feed.                            *)
(***************************************************************************)
LEMMA BeginPosts ==
  ASSUME IInv, NEW audience, audience \subseteq Subs, Begin(audience), UNCHANGED fileVars
  PROVE  Feed!PostTo(audience)
<1>1. /\ posted' = posted + 1 /\ UNCHANGED <<topic, queue, missed, last>>
      /\ \A s \in Subs : offer[s] = "none"
      /\ \A s \in Subs : offer'[s] = IF s \in audience THEN "due" ELSE "none"
  BY DEF Begin, HubFree, fileVars
<1>2. ASSUME NEW s \in Subs
      PROVE  WaitingIds(s)' = IF s \in audience THEN WaitingIds(s) \cup {posted + 1} ELSE WaitingIds(s)
  BY <1>1, WaitingIsOnTheWay DEF OnTheWay
<1>3. [s \in Subs |-> WaitingIds(s)]'
        = [s \in Subs |-> IF s \in audience
                            THEN [x \in Subs |-> WaitingIds(x)][s] \cup {posted + 1}
                            ELSE [x \in Subs |-> WaitingIds(x)][s]]
  BY <1>2
<1> QED
  BY <1>1, <1>3 DEF Feed!PostTo

(***************************************************************************)
(* Only the count of a loss takes an event from the way: the send and the  *)
(* callback change nothing the feed speaks of, nor does the select that    *)
(* finds the channel full.                                                 *)
(***************************************************************************)
LEMMA OfferSteps ==
  ASSUME IInv, NEW s \in Subs, OfferStep(s), UNCHANGED fileVars
  PROVE  Feed!Lose(s) \/ UNCHANGED Feed!feedVars
<1>1. TypeOK /\ HubTypeOK /\ posted \in Nat
  BY DEF IInv, TypeOK, HubTypeOK
<1>2. CASE Send(s)
  <2>1. /\ UNCHANGED <<topic, posted, missed, last>>
        /\ offer[s] = "due" /\ offer'[s] = "none"
        /\ queue[s] \in Seq(Nat) /\ queue'[s] = Append(queue[s], posted)
        /\ \A x \in Subs \ {s} : offer'[x] = offer[x] /\ queue'[x] = queue[x]
    BY <1>1, <1>2 DEF HubTypeOK, Send, Turn, fileVars
  <2>2. Ids(Append(queue[s], posted)) = Ids(queue[s]) \cup {posted}
    BY <1>1, <2>1, IdsAfterSend
  <2>3. \A x \in Subs : WaitingIds(x)' = WaitingIds(x)
    BY <2>1, <2>2, WaitingIsOnTheWay DEF OnTheWay
  <2> QED
    BY <2>1, <2>3 DEF Feed!feedVars
<1>3. CASE FindFull(s)
  <2>1. /\ UNCHANGED <<topic, queue, posted, missed, last>>
        /\ offer[s] = "due" /\ offer'[s] = "full"
        /\ \A x \in Subs \ {s} : offer'[x] = offer[x]
    BY <1>1, <1>3 DEF HubTypeOK, FindFull, Turn, fileVars
  <2>2. \A x \in Subs : WaitingIds(x)' = WaitingIds(x)
    BY <2>1, WaitingIsOnTheWay DEF OnTheWay
  <2> QED
    BY <2>1, <2>2 DEF Feed!feedVars
<1>4. CASE CountLoss(s)
  <2>1. /\ UNCHANGED <<topic, queue, posted, last>>
        /\ missed' = [missed EXCEPT ![s] = @ \cup {posted}]
        /\ offer[s] = "full" /\ offer'[s] = "counted"
        /\ \A x \in Subs \ {s} : offer'[x] = offer[x]
    BY <1>1, <1>4 DEF HubTypeOK, CountLoss, fileVars
  <2>2. posted \notin Ids(queue[s])
    <3>1. Ordered(last[s], queue[s], "full", posted)
      BY <2>1, PartsOfIInv DEF IInv
    <3>2. \A i \in 1..Len(queue[s]) : queue[s][i] < posted /\ queue[s][i] \in Nat
      BY <1>1, <3>1 DEF Ordered, HubTypeOK
    <3> QED
      BY <1>1, <3>2 DEF Ids
  <2>3. \A x \in Subs : WaitingIds(x)' = IF x = s THEN WaitingIds(s) \ {posted} ELSE WaitingIds(x)
    BY <2>1, <2>2, WaitingIsOnTheWay DEF OnTheWay
  <2>4. posted \in [x \in Subs |-> WaitingIds(x)][s]
    BY <2>1, WaitingIsOnTheWay DEF OnTheWay
  <2>5. [x \in Subs |-> WaitingIds(x)]'
          = [[x \in Subs |-> WaitingIds(x)] EXCEPT ![s] = @ \ {posted}]
    BY <2>3
  <2> QED
    BY <2>1, <2>4, <2>5 DEF Feed!Lose
<1>5. CASE NoteOverflow(s)
  <2>1. /\ UNCHANGED <<topic, queue, posted, missed, last>>
        /\ offer[s] = "counted" /\ offer'[s] = "none"
        /\ \A x \in Subs \ {s} : offer'[x] = offer[x]
    BY <1>1, <1>5 DEF HubTypeOK, NoteOverflow, fileVars
  <2>2. \A x \in Subs : WaitingIds(x)' = WaitingIds(x)
    BY <2>1, WaitingIsOnTheWay DEF OnTheWay
  <2> QED
    BY <2>1, <2>2 DEF Feed!feedVars
<1> QED
  BY <1>2, <1>3, <1>4, <1>5 DEF OfferStep

(***************************************************************************)
(* The receive of liveFile.Read is a delivery of the feed: the oldest      *)
(* event on its way, newer than what was read, after which no loss but one *)
(* is behind.                                                              *)
(***************************************************************************)
LEMMA ReceiveDelivers ==
  ASSUME IInv, NEW r \in Calls, ReadEvent(r)
  PROVE  Feed!Deliver(at[r])
<1>1. TypeOK /\ HubTypeOK /\ at[r] \in Subs /\ posted \in Nat
  BY DEF IInv, LockDiscipline, TypeOK, HubTypeOK, ReadEvent
<1>2. PICK s, q, n :
        s \in Subs /\ q \in Seq(Nat) /\ s = at[r] /\ q = queue[s] /\ n = Head(q)
  BY <1>1 DEF HubTypeOK
<1>3. /\ q # <<>> /\ OwesOne(last[s], q, missed[s], offer[s])
      /\ Ordered(last[s], q, offer[s], posted) /\ last[s] \in Nat
  BY <1>1, <1>2, PartsOfIInv DEF IInv, TypeOK, ReadEvent, Receive
<1>4. /\ n \in OnTheWay(q, offer[s], posted) /\ last[s] < n
      /\ \A w \in OnTheWay(q, offer[s], posted) : n <= w
      /\ OnTheWay(Tail(q), offer[s], posted) = OnTheWay(q, offer[s], posted) \ {n}
  BY <1>1, <1>2, <1>3, IdsAfterReceive
<1>5. /\ \A d \in missed[s] : last[s] < d
      /\ \A d, e \in missed[s] : d < n /\ e < n => d = e
  BY <1>2, <1>3 DEF OwesOne
<1>6. /\ UNCHANGED <<topic, posted, offer, missed>>
      /\ last' = [last EXCEPT ![s] = n]
      /\ \A x \in Subs : queue'[x] = IF x = s THEN Tail(q) ELSE queue[x]
  BY <1>1, <1>2 DEF ReadEvent, Receive, HubTypeOK
<1>7. \A x \in Subs : WaitingIds(x)' = IF x = s THEN WaitingIds(x) \ {n} ELSE WaitingIds(x)
  BY <1>2, <1>4, <1>6, WaitingIsOnTheWay
<1>8. [x \in Subs |-> WaitingIds(x)]'
        = [[x \in Subs |-> WaitingIds(x)] EXCEPT ![s] = @ \ {n}]
  BY <1>7
<1>9. /\ n \in [x \in Subs |-> WaitingIds(x)][s]
      /\ \A w \in [x \in Subs |-> WaitingIds(x)][s] : n <= w
  BY <1>2, <1>4, WaitingIsOnTheWay
<1>10. Feed!Deliver(s)
  BY <1>4, <1>5, <1>6, <1>8, <1>9 DEF Feed!Deliver
<1> QED
  BY <1>2, <1>10

(***************************************************************************)
(* The hub and the live files implement the promise made to a reader:      *)
(* every step of theirs is a post, a loss of the newest post, a join, a    *)
(* leave, a delivery in order or the owning up to losses, or changes       *)
(* nothing the promise speaks of.                                          *)
(***************************************************************************)
THEOREM FeedImplemented == Spec => IsOrderedFeed
<1>1. Init => Feed!Init
  BY DEF Init, HubInit, FileInit, Feed!Init, WaitingIds, InOffer
<1>2. IInv /\ [Next]_vars => [Feed!Next]_(Feed!feedVars)
  <2> SUFFICES ASSUME IInv, [Next]_vars
               PROVE  [Feed!Next]_(Feed!feedVars)
    OBVIOUS
  <2>1. ASSUME UNCHANGED <<topic, queue, posted, offer, missed, last>>
        PROVE  UNCHANGED Feed!feedVars
    BY <2>1 DEF Feed!feedVars, WaitingIds, InOffer
  <2>2. ASSUME NEW c \in Channels, Publish(c), UNCHANGED fileVars
        PROVE  Feed!Next
    <3>1. Audience(c) \subseteq Subs /\ Audience(c) = {s \in Subs : topic[s] \in {c, Global}}
      BY DEF Audience
    <3>2. Feed!PostTo(Audience(c))
      BY <2>2, <3>1, BeginPosts DEF Publish
    <3> QED
      BY <3>1, <3>2 DEF Feed!Next, Feed!Post
  <2>3. ASSUME GapAll, UNCHANGED fileVars
        PROVE  Feed!Next
    <3>1. Registered \subseteq Subs /\ Registered = {s \in Subs : topic[s] # NoTopic}
      BY DEF Registered
    <3>2. Feed!PostTo(Registered)
      BY <2>3, <3>1, BeginPosts DEF GapAll
    <3> QED
      BY <3>1, <3>2 DEF Feed!Next, Feed!PostAll
  <2>4. ASSUME NEW s \in Subs, OfferStep(s), UNCHANGED fileVars
        PROVE  [Feed!Next]_(Feed!feedVars)
    <3>1. Feed!Lose(s) \/ UNCHANGED Feed!feedVars
      BY <2>4, OfferSteps
    <3> QED
      BY <3>1 DEF Feed!Next
  <2>5. ASSUME NEW s \in Subs, NEW t \in Topics, Open(s, t)
        PROVE  Feed!Next
    <3>1. Feed!Join(s, t)
      BY <2>5 DEF Open, Subscribe, Feed!Join, WaitingIds, InOffer
    <3> QED
      BY <3>1 DEF Feed!Next, Topics
  <2>6. ASSUME NEW s \in Subs, CloseUnsubscribe(s)
        PROVE  Feed!Next
    <3>1. Feed!Leave(s)
      BY <2>6 DEF CloseUnsubscribe, Unsubscribe, fileVars, Feed!Leave, WaitingIds, InOffer
    <3> QED
      BY <3>1 DEF Feed!Next
  <2>7. ASSUME NEW s \in Subs, CloseForget(s)
        PROVE  UNCHANGED Feed!feedVars
    BY <2>1, <2>7 DEF CloseForget, hubVars
  <2>8. ASSUME NEW r \in Calls,
               \/ \E s \in Subs : ReadBegin(r, s)
               \/ ReadLock(r) \/ ReadPending(r) \/ ReadNoGap(r) \/ ReadEOF(r)
        PROVE  UNCHANGED Feed!feedVars
    BY <2>1, <2>8 DEF ReadBegin, ReadLock, ReadPending, ReadNoGap, ReadEOF, hubVars
  <2>9. ASSUME NEW r \in Calls, ReadGap(r)
        PROVE  Feed!Next
    <3>1. at[r] \in Subs /\ dropped[at[r]] # 0
      BY <2>9 DEF IInv, TypeOK, HubTypeOK, LockDiscipline, ReadGap
    <3>2. missed[at[r]] # {}
      BY <3>1 DEF IInv, LossesCounted
    <3>3. Feed!OwnUp(at[r])
      BY <2>9, <3>2 DEF ReadGap, TakeDropped, Feed!OwnUp, WaitingIds, InOffer
    <3> QED
      BY <3>1, <3>3 DEF Feed!Next
  <2>10. ASSUME NEW r \in Calls, ReadEvent(r)
         PROVE  Feed!Next
    <3>1. at[r] \in Subs
      BY <2>10 DEF IInv, TypeOK, LockDiscipline, ReadEvent
    <3> QED
      BY <2>10, <3>1, ReceiveDelivers DEF Feed!Next
  <2>11. CASE UNCHANGED vars
    BY <2>1, <2>11 DEF vars, hubVars, fileVars
  <2> QED
    BY <2>2, <2>3, <2>4, <2>5, <2>6, <2>7, <2>8, <2>9, <2>10, <2>11 DEF Next, HubStep, ReadStep
<1> QED
  BY <1>1, <1>2, Invariance, PTL DEF Spec, IsOrderedFeed, Feed!Spec
-----------------------------------------------------------------------------
(***************************************************************************)
(* The sum of a function of finitely many subscriptions, which             *)
(* LossAccounting takes with FoldFunction.  It is defined along the        *)
(* subsets: the sum over a set is that over the set without the element    *)
(* that CHOOSE takes, and the element's own value.                         *)
(***************************************************************************)
Picked(s) == CHOOSE x \in s : TRUE

AreSums(sum, f, S) ==
  sum = [s \in SUBSET S |-> IF s = {} THEN 0 ELSE f[Picked(s)] + sum[s \ {Picked(s)}]]

Sums(f, S) == CHOOSE sum : AreSums(sum, f, S)

\* The fold of the community modules is the sum over the whole domain.
LEMMA FoldIsSum ==
  ASSUME NEW f
  PROVE  Total(f) = Sums(f, DOMAIN f)[DOMAIN f]
  BY Zenon DEF Total, FoldFunction, FoldFunctionOnSet, MapThenFoldSet, Sums, AreSums, Picked

\* A set of naturals that is not empty has a least element.
LEMMA Least ==
  ASSUME NEW I, I \subseteq Nat, I # {}
  PROVE  \E n \in I : \A m \in I : n <= m
<1> DEFINE R == {pair \in Nat \X Nat : pair[1] < pair[2]}
<1>1. IsWellFoundedOn(R, Nat)
  BY NatLessThanWellFounded, Zenon DEF OpToRel
<1>2. \E x \in I : \A y \in I : ~ (<<y, x>> \in R)
  BY <1>1, WFMin
<1>3. \A x, y \in I : <<y, x>> \notin R => x <= y
  OBVIOUS
<1> QED
  BY <1>2, <1>3, Zenon

\* So a set of naturals that has 0, and with a number the next, has every number.
LEMMA Induction ==
  ASSUME NEW I, I \subseteq Nat, 0 \in I, \A n \in I : n + 1 \in I
  PROVE  I = Nat
<1> SUFFICES ASSUME Nat \ I # {} PROVE FALSE
  OBVIOUS
<1>1. PICK n \in Nat \ I : \A m \in Nat \ I : n <= m
  BY Least
<1>2. n - 1 \in Nat
  BY <1>1
<1>3. n - 1 \in I
  BY <1>1, <1>2
<1> QED
  BY <1>1, <1>3

\* A set with an element taken out has one element less.
LEMMA TakenOut ==
  ASSUME NEW s, IsFiniteSet(s), s # {}
  PROVE  /\ Picked(s) \in s /\ IsFiniteSet(s \ {Picked(s)})
         /\ Cardinality(s) \in Nat \ {0} /\ Cardinality(s \ {Picked(s)}) = Cardinality(s) - 1
<1>1. Picked(s) \in s
  BY DEF Picked
<1>2. Cardinality(s) \in Nat /\ Cardinality(s) # 0
  BY FS_CardinalityType, FS_EmptySet
<1> QED
  BY <1>1, <1>2, FS_RemoveElement

\* There are sums of a function of finitely many subscriptions.
LEMMA SumsExist ==
  ASSUME NEW S, IsFiniteSet(S), NEW f \in [S -> Nat]
  PROVE  AreSums(Sums(f, S), f, S)
<1> DEFINE Small(k) == {s \in SUBSET S : Cardinality(s) <= k}
           Value(g, s) == IF s = {} THEN 0 ELSE f[Picked(s)] + g[s \ {Picked(s)}]
           Partial(k) == \E g : g = [s \in Small(k) |-> Value(g, s)]
<1>1. \A s \in SUBSET S : IsFiniteSet(s) /\ Cardinality(s) \in Nat
  BY FS_Subset, FS_CardinalityType
<1>2. Partial(0)
  <2> DEFINE g == [s \in Small(0) |-> 0]
  <2>1. \A s \in Small(0) : s = {}
    BY <1>1, FS_EmptySet
  <2>2. g = [s \in Small(0) |-> Value(g, s)]
    BY <2>1
  <2> QED
    BY <2>2
<1>3. ASSUME NEW k \in Nat, Partial(k) PROVE Partial(k + 1)
  <2>1. PICK g : g = [s \in Small(k) |-> Value(g, s)]
    BY <1>3
  <2> DEFINE h == [s \in Small(k + 1) |-> Value(g, s)]
  <2>2. ASSUME NEW s \in Small(k + 1), s # {} PROVE s \ {Picked(s)} \in Small(k) /\ Picked(s) \in S
    BY <1>1, <2>2, TakenOut
  <2>3. \A s \in Small(k) : s \in Small(k + 1) /\ h[s] = g[s]
    <3>1. \A s \in Small(k) : s \in Small(k + 1)
      BY <1>1
    <3>2. \A s \in Small(k) : g[s] = Value(g, s)
      BY <2>1, Zenon
    <3> QED
      BY <3>1, <3>2, Zenon
  <2>4. \A s \in Small(k + 1) : Value(h, s) = Value(g, s)
    <3> SUFFICES ASSUME NEW s \in Small(k + 1) PROVE Value(h, s) = Value(g, s)
      BY Zenon
    <3> HIDE DEF h, Small
    <3>1. s # {} => h[s \ {Picked(s)}] = g[s \ {Picked(s)}]
      BY <2>2, <2>3
    <3> QED
      BY <3>1, Zenon
  <2>5. h = [s \in Small(k + 1) |-> Value(h, s)]
    BY <2>4, Zenon
  <2> QED
    BY <2>5
<1>4. Partial(Cardinality(S))
  <2> DEFINE I == {k \in Nat : Partial(k)}
  <2> HIDE DEF Partial
  <2>1. I \subseteq Nat /\ 0 \in I /\ \A n \in I : n + 1 \in I
    BY <1>2, <1>3
  <2> HIDE DEF I
  <2>2. I = Nat
    BY <2>1, Induction, Zenon
  <2>3. Cardinality(S) \in I
    BY <2>2, FS_CardinalityType
  <2> QED
    BY <2>3 DEF I
<1>5. Small(Cardinality(S)) = SUBSET S
  BY <1>1, FS_Subset
<1>6. \E g : AreSums(g, f, S)
  BY <1>4, <1>5, Zenon DEF AreSums
<1> QED
  BY <1>6, Zenon DEF Sums

\* What is true of the empty set, and of a set if it is without its element, is true of all.
LEMMA SetInduction ==
  ASSUME NEW S, IsFiniteSet(S), NEW A, A \subseteq SUBSET S, {} \in A,
         \A s \in SUBSET S : s # {} /\ s \ {Picked(s)} \in A => s \in A
  PROVE  A = SUBSET S
<1> DEFINE I == {k \in Nat : \A s \in SUBSET S : Cardinality(s) = k => s \in A}
<1>1. \A s \in SUBSET S : IsFiniteSet(s) /\ Cardinality(s) \in Nat
  BY FS_Subset, FS_CardinalityType
<1>2. 0 \in I
  BY <1>1, FS_EmptySet
<1>3. ASSUME NEW k \in I PROVE k + 1 \in I
  <2> SUFFICES ASSUME NEW s \in SUBSET S, Cardinality(s) = k + 1 PROVE s \in A
    BY <1>3
  <2>1. k \in Nat /\ s # {}
    BY FS_EmptySet
  <2>2. s \ {Picked(s)} \in SUBSET S /\ Cardinality(s \ {Picked(s)}) = k
    BY <1>1, <2>1, TakenOut
  <2> QED
    BY <1>3, <2>1, <2>2
<1>4. I \subseteq Nat
  OBVIOUS
<1> HIDE DEF I
<1>5. I = Nat
  BY <1>2, <1>3, <1>4, Induction, Zenon
<1>6. ASSUME NEW s \in SUBSET S PROVE s \in A
  BY <1>1, <1>5 DEF I
<1> QED
  BY <1>6

\* How a sum is made.
LEMMA SumUnfolds ==
  ASSUME NEW S, IsFiniteSet(S), NEW f \in [S -> Nat], NEW s \in SUBSET S
  PROVE  Sums(f, S)[s] = IF s = {} THEN 0 ELSE f[Picked(s)] + Sums(f, S)[s \ {Picked(s)}]
<1>1. AreSums(Sums(f, S), f, S)
  BY SumsExist
<1> QED
  BY <1>1, Zenon DEF AreSums

\* It is a number, and 0 if there is nothing to add.
LEMMA SumType ==
  ASSUME NEW S, IsFiniteSet(S), NEW f \in [S -> Nat]
  PROVE  \A s \in SUBSET S :
           Sums(f, S)[s] \in Nat /\ ((\A x \in S : f[x] = 0) => Sums(f, S)[s] = 0)
<1> DEFINE sum == Sums(f, S)
           Good(s) == sum[s] \in Nat /\ ((\A x \in S : f[x] = 0) => sum[s] = 0)
           A == {s \in SUBSET S : Good(s)}
<1>1. \A s \in SUBSET S : sum[s] = IF s = {} THEN 0 ELSE f[Picked(s)] + sum[s \ {Picked(s)}]
  BY SumUnfolds
<1> HIDE DEF sum
<1>2. Good({})
  <2>1. sum[{}] = 0
    BY <1>1, Zenon
  <2> QED
    BY <2>1
<1>3. ASSUME NEW s \in SUBSET S, s # {}, Good(s \ {Picked(s)}) PROVE Good(s)
  <2>1. Picked(s) \in S /\ f[Picked(s)] \in Nat
    BY <1>3 DEF Picked
  <2>2. sum[s] = f[Picked(s)] + sum[s \ {Picked(s)}]
    BY <1>1, <1>3, Zenon
  <2> QED
    BY <1>3, <2>1, <2>2
<1> HIDE DEF Good
<1>4. {} \in A /\ A \subseteq SUBSET S
  BY <1>2
<1>5. \A s \in SUBSET S : s # {} /\ s \ {Picked(s)} \in A => s \in A
  BY <1>3
<1> HIDE DEF A
<1>6. A = SUBSET S
  BY <1>4, <1>5, SetInduction, Zenon
<1>7. \A s \in SUBSET S : Good(s)
  BY <1>6 DEF A
<1> QED
  BY <1>7 DEF Good, sum

\* The total of a function of finitely many subscriptions.
LEMMA TotalIsSum ==
  ASSUME NEW S, NEW f \in [S -> Nat]
  PROVE  Total(f) = Sums(f, S)[S]
<1>1. DOMAIN f = S
  OBVIOUS
<1>2. Total(f) = Sums(f, DOMAIN f)[DOMAIN f]
  BY FoldIsSum
<1> QED
  BY <1>1, <1>2

\* Two sums of two, added up.
LEMMA Regroup ==
  ASSUME NEW a \in Nat, NEW b \in Nat, NEW c \in Nat, NEW d \in Nat, NEW n \in Nat,
         NEW e \in Nat, NEW f \in Nat, NEW g \in Nat, NEW h \in Nat, NEW m \in Nat,
         a + b = c + d + n, e + f = g + h + m
  PROVE  (a + e) + (b + f) = (c + g) + (d + h) + (m + n)
  OBVIOUS

(***************************************************************************)
(* If each subscription's two counts gain together what is counted for it, *)
(* the totals gain together what is counted.                               *)
(***************************************************************************)
LEMMA TotalsGain ==
  ASSUME NEW S, IsFiniteSet(S), NEW T \in SUBSET S,
         NEW d \in [S -> Nat], NEW r \in [S -> Nat], NEW e \in [S -> Nat], NEW q \in [S -> Nat],
         \A x \in S : e[x] + q[x] = d[x] + r[x] + (IF x \in T THEN 1 ELSE 0)
  PROVE  Total(e) + Total(q)
           = Total(d) + Total(r) + Cardinality(T)
<1> DEFINE D == Sums(d, S)
           R == Sums(r, S)
           E == Sums(e, S)
           Q == Sums(q, S)
           Good(s) == E[s] + Q[s] = D[s] + R[s] + Cardinality(s \cap T)
           A == {s \in SUBSET S : Good(s)}
<1>1. \A s \in SUBSET S : IsFiniteSet(s) /\ Cardinality(s) \in Nat
  BY FS_Subset, FS_CardinalityType
<1>2. \A s \in SUBSET S : D[s] \in Nat /\ R[s] \in Nat /\ E[s] \in Nat /\ Q[s] \in Nat
  BY SumType
<1>3. \A f \in [S -> Nat] : \A s \in SUBSET S :
        Sums(f, S)[s] = IF s = {} THEN 0 ELSE f[Picked(s)] + Sums(f, S)[s \ {Picked(s)}]
  BY SumUnfolds
<1>4. ASSUME NEW s \in SUBSET S
      PROVE  /\ D[s] = IF s = {} THEN 0 ELSE d[Picked(s)] + D[s \ {Picked(s)}]
             /\ R[s] = IF s = {} THEN 0 ELSE r[Picked(s)] + R[s \ {Picked(s)}]
             /\ E[s] = IF s = {} THEN 0 ELSE e[Picked(s)] + E[s \ {Picked(s)}]
             /\ Q[s] = IF s = {} THEN 0 ELSE q[Picked(s)] + Q[s \ {Picked(s)}]
  BY <1>3, Zenon
<1> HIDE DEF D, R, E, Q
<1>5. Good({})
  <2>1. {} \cap T = {} /\ Cardinality({}) = 0
    BY FS_EmptySet
  <2>2. D[{}] = 0 /\ R[{}] = 0 /\ E[{}] = 0 /\ Q[{}] = 0
    BY <1>4, Zenon
  <2>3. Cardinality({} \cap T) = 0
    BY <2>1, Zenon
  <2> QED
    BY <2>2, <2>3
<1>6. ASSUME NEW s \in SUBSET S, s # {}, Good(s \ {Picked(s)}) PROVE Good(s)
  <2>1. PICK x, t : x = Picked(s) /\ t = s \ {x}
    OBVIOUS
  <2>2. x \in s /\ x \in S /\ t \in SUBSET S
    BY <1>6, <2>1 DEF Picked
  <2>3. Cardinality(s \cap T) = Cardinality(t \cap T) + (IF x \in T THEN 1 ELSE 0)
    <3>1. CASE x \in T
      <4>1. IsFiniteSet(t \cap T) /\ x \notin t \cap T /\ s \cap T = (t \cap T) \cup {x}
        BY <1>1, <2>1, <2>2, <3>1
      <4> QED
        BY <3>1, <4>1, FS_AddElement
    <3>2. CASE x \notin T
      <4>1. s \cap T = t \cap T /\ t \cap T \in SUBSET S
        BY <2>1, <2>2, <3>2
      <4>2. Cardinality(t \cap T) \in Nat
        BY <1>1, <4>1
      <4>3. Cardinality(s \cap T) = Cardinality(t \cap T)
        BY <4>1, Zenon
      <4>4. \A n \in Nat : n + 0 = n
        OBVIOUS
      <4> QED
        BY <3>2, <4>2, <4>3, <4>4, Zenon
    <3> QED
      BY <3>1, <3>2
  <2>4. /\ D[s] = d[x] + D[t] /\ R[s] = r[x] + R[t] /\ E[s] = e[x] + E[t] /\ Q[s] = q[x] + Q[t]
    BY <1>4, <1>6, <2>1, Zenon
  <2>5. /\ D[t] \in Nat /\ R[t] \in Nat /\ E[t] \in Nat /\ Q[t] \in Nat
        /\ d[x] \in Nat /\ r[x] \in Nat /\ e[x] \in Nat /\ q[x] \in Nat
        /\ Cardinality(t \cap T) \in Nat
    <3>1. t \cap T \in SUBSET S
      BY <2>2
    <3> QED
      BY <1>1, <1>2, <2>2, <3>1
  <2>6. e[x] + q[x] = d[x] + r[x] + (IF x \in T THEN 1 ELSE 0)
    BY <2>2
  <2>7. E[t] + Q[t] = D[t] + R[t] + Cardinality(t \cap T)
    BY <1>6, <2>1, Zenon
  <2> DEFINE new == IF x \in T THEN 1 ELSE 0
  <2>8. new \in Nat
    OBVIOUS
  <2>9. /\ Cardinality(s \cap T) = Cardinality(t \cap T) + new
        /\ e[x] + q[x] = d[x] + r[x] + new
    BY <2>3, <2>6, Zenon
  <2> HIDE DEF new
  <2>10. E[s] + Q[s] = D[s] + R[s] + Cardinality(s \cap T)
    <3>1. (e[x] + E[t]) + (q[x] + Q[t]) = (d[x] + D[t]) + (r[x] + R[t]) + (Cardinality(t \cap T) + new)
      <4>1. PICK e1, q1, d1, r1, e2, q2, d2, r2, c :
              /\ e1 = e[x] /\ q1 = q[x] /\ d1 = d[x] /\ r1 = r[x] /\ c = Cardinality(t \cap T)
              /\ e2 = E[t] /\ q2 = Q[t] /\ d2 = D[t] /\ r2 = R[t]
        OBVIOUS
      <4>2. /\ e1 \in Nat /\ q1 \in Nat /\ d1 \in Nat /\ r1 \in Nat /\ c \in Nat
            /\ e2 \in Nat /\ q2 \in Nat /\ d2 \in Nat /\ r2 \in Nat
        BY <2>5, <4>1, Zenon
      <4>3. e1 + q1 = d1 + r1 + new /\ e2 + q2 = d2 + r2 + c
        BY <2>7, <2>9, <4>1, Zenon
      <4>4. (e1 + e2) + (q1 + q2) = (d1 + d2) + (r1 + r2) + (c + new)
        BY <2>8, <4>2, <4>3, Regroup
      <4> QED
        BY <4>1, <4>4, Zenon
    <3> QED
      BY <2>4, <2>9, <3>1, Zenon
  <2> QED
    BY <2>10
<1> HIDE DEF Good
<1>7. {} \in A /\ A \subseteq SUBSET S /\ \A s \in SUBSET S : s # {} /\ s \ {Picked(s)} \in A => s \in A
  BY <1>5, <1>6
<1> HIDE DEF A
<1>8. A = SUBSET S
  BY <1>7, SetInduction, Zenon
<1>9. E[S] + Q[S] = D[S] + R[S] + Cardinality(T)
  <2>1. Good(S) /\ S \cap T = T
    BY <1>8 DEF A
  <2> QED
    BY <2>1, Zenon DEF Good
<1>10. /\ Total(d) = D[S] /\ Total(r) = R[S]
       /\ Total(e) = E[S] /\ Total(q) = Q[S]
  BY TotalIsSum DEF D, R, E, Q
<1> QED
  BY <1>9, <1>10

\* The loss that is counted, and that onOverflow has not been told of.
Unnoted == IF \E s \in Subs : offer[s] = "counted" THEN 1 ELSE 0

\* A step that moves losses from the counters to the reports, or counts one more.
LEMMA CountsKept ==
  ASSUME TypeOK, TypeOK', NEW lost \in SUBSET Subs,
         \A s \in Subs : dropped'[s] + reported'[s]
                           = dropped[s] + reported[s] + (IF s \in lost THEN 1 ELSE 0)
  PROVE  Total(dropped') + Total(reported') = Total(dropped) + Total(reported) + Cardinality(lost)
<1>1. /\ dropped \in [Subs -> Nat] /\ reported \in [Subs -> Nat]
      /\ dropped' \in [Subs -> Nat] /\ reported' \in [Subs -> Nat] /\ IsFiniteSet(Subs)
  BY HubAssumption DEF TypeOK, HubTypeOK
<1> QED
  BY <1>1, TotalsGain

\* The totals of the counters and of the reports are numbers.
LEMMA TotalsType ==
  ASSUME TypeOK
  PROVE  Total(dropped) \in Nat /\ Total(reported) \in Nat /\ overflows \in Nat
<1>1. /\ dropped \in [Subs -> Nat] /\ reported \in [Subs -> Nat] /\ IsFiniteSet(Subs)
      /\ overflows \in Nat
  BY HubAssumption DEF TypeOK, HubTypeOK
<1>2. Total(dropped) = Sums(dropped, Subs)[Subs] /\ Total(reported) = Sums(reported, Subs)[Subs]
  BY <1>1, TotalIsSum
<1>3. Subs \in SUBSET Subs
  OBVIOUS
<1>4. Sums(dropped, Subs)[Subs] \in Nat
  BY <1>1, <1>3, SumType
<1>5. Sums(reported, Subs)[Subs] \in Nat
  BY <1>1, <1>3, SumType
<1> QED
  BY <1>1, <1>2, <1>4, <1>5

(***************************************************************************)
(* The steps of a publish: the count is one ahead of me/status until the   *)
(* callback has returned, and no other loss is counted meanwhile.          *)
(***************************************************************************)
LEMMA HubStepCounts ==
  ASSUME IInv, TypeOK', LossAccounting, HubStep, UNCHANGED fileVars
  PROVE  LossAccounting'
<1>1. TypeOK /\ HubTypeOK /\ OneAtATime
  BY DEF IInv, TypeOK
<1>2. Total(dropped) + Total(reported) = overflows + Unnoted
  BY DEF LossAccounting, Unnoted
<1>3. SUFFICES Total(dropped') + Total(reported') = overflows' + Unnoted'
  BY DEF LossAccounting, Unnoted
<1>4. reported' = reported
  BY DEF fileVars
<1>5. ASSUME NEW audience, Begin(audience)
      PROVE  Total(dropped') + Total(reported') = overflows' + Unnoted'
  <2>1. UNCHANGED <<dropped, overflows>> /\ Unnoted = 0 /\ Unnoted' = 0
    BY <1>5 DEF Begin, HubFree, Unnoted
  <2> QED
    BY <1>2, <1>4, <2>1
<1>6. ASSUME NEW s \in Subs, Send(s) \/ FindFull(s)
      PROVE  Total(dropped') + Total(reported') = overflows' + Unnoted'
  <2>1. UNCHANGED <<dropped, overflows>> /\ Unnoted = 0 /\ Unnoted' = 0
    BY <1>1, <1>6 DEF Send, FindFull, Turn, Unnoted, HubTypeOK
  <2> QED
    BY <1>2, <1>4, <2>1
<1>7. ASSUME NEW s \in Subs, CountLoss(s)
      PROVE  Total(dropped') + Total(reported') = overflows' + Unnoted'
  <2>1. Unnoted = 0 /\ Unnoted' = 1 /\ overflows' = overflows
    BY <1>1, <1>7 DEF CountLoss, OneAtATime, Unnoted, HubTypeOK
  <2>2. \A x \in Subs : dropped[x] \in Nat /\ reported[x] \in Nat
    BY <1>1 DEF TypeOK, HubTypeOK
  <2>3. dropped' = [dropped EXCEPT ![s] = @ + 1] /\ DOMAIN dropped = Subs
    BY <1>1, <1>7 DEF CountLoss, HubTypeOK
  <2>4. \A x \in Subs : dropped'[x] + reported'[x]
                          = dropped[x] + reported[x] + (IF x \in {s} THEN 1 ELSE 0)
    BY <1>4, <2>2, <2>3
  <2>5. Total(dropped') + Total(reported') = Total(dropped) + Total(reported) + Cardinality({s})
    BY <1>1, <2>4, CountsKept
  <2>6. Cardinality({s}) = 1
    BY FS_Singleton
  <2>7. Total(dropped) \in Nat /\ Total(reported) \in Nat /\ overflows \in Nat
    BY <1>1, TotalsType
  <2> QED
    BY <1>2, <2>1, <2>5, <2>6, <2>7
<1>8. ASSUME NEW s \in Subs, NoteOverflow(s)
      PROVE  Total(dropped') + Total(reported') = overflows' + Unnoted'
  <2>1. Unnoted = 1 /\ Unnoted' = 0 /\ overflows' = overflows + 1 /\ dropped' = dropped
    BY <1>1, <1>8 DEF NoteOverflow, OneAtATime, Unnoted, HubTypeOK
  <2>2. overflows \in Nat
    BY <1>1 DEF HubTypeOK
  <2> QED
    BY <1>2, <1>4, <2>1, <2>2
<1> QED
  BY <1>5, <1>6, <1>7, <1>8 DEF HubStep, Publish, GapAll, OfferStep

(***************************************************************************)
(* The overflows that me/status counts, and the one it is about to count,  *)
(* are the losses that are still in the counters and those that the GAP    *)
(* records have told, for any number of subscriptions: no publish beside a *)
(* TakeDropped loses or doubles one.                                       *)
(***************************************************************************)
THEOREM LossesAddUp == Spec => []LossAccounting
<1>1. Init => LossAccounting
  <2> SUFFICES ASSUME Init PROVE LossAccounting
    OBVIOUS
  <2>1. /\ dropped \in [Subs -> Nat] /\ reported \in [Subs -> Nat] /\ IsFiniteSet(Subs)
        /\ \A s \in Subs : dropped[s] = 0 /\ reported[s] = 0 /\ offer[s] = "none"
        /\ overflows = 0
    BY HubAssumption DEF Init, HubInit, FileInit
  <2>2. Sums(dropped, Subs)[Subs] = 0 /\ Sums(reported, Subs)[Subs] = 0
    BY <2>1, SumType
  <2>3. Total(dropped) = 0 /\ Total(reported) = 0
    BY <2>1, <2>2, TotalIsSum
  <2> QED
    BY <2>1, <2>3 DEF LossAccounting
<1>2. IInv /\ LossAccounting /\ [Next]_vars => LossAccounting'
  <2> SUFFICES ASSUME IInv, LossAccounting, [Next]_vars PROVE LossAccounting'
    OBVIOUS
  <2>1. TypeOK /\ TypeOK'
    BY TypeStep DEF IInv
  <2>2. CASE UNCHANGED <<dropped, reported, overflows, offer>>
    BY <2>2 DEF LossAccounting
  <2>3. CASE HubStep /\ UNCHANGED fileVars
    BY <2>1, <2>3, HubStepCounts
  <2>4. ASSUME NEW r \in Calls, ReadGap(r) PROVE LossAccounting'
    <3>1. /\ dropped' = [dropped EXCEPT ![at[r]] = 0]
          /\ reported' = [reported EXCEPT ![at[r]] = @ + dropped[at[r]]]
          /\ overflows' = overflows /\ offer' = offer
      BY <2>4 DEF ReadGap, TakeDropped
    <3>2. \A s \in Subs : dropped[s] \in Nat /\ reported[s] \in Nat
      BY <2>1 DEF TypeOK, HubTypeOK
    <3>3. DOMAIN dropped = Subs /\ DOMAIN reported = Subs
      BY <2>1 DEF TypeOK, HubTypeOK
    <3>4. \A s \in Subs : dropped'[s] + reported'[s]
                            = dropped[s] + reported[s] + (IF s \in {} THEN 1 ELSE 0)
      BY <3>1, <3>2, <3>3
    <3>5. Cardinality({}) = 0 /\ {} \in SUBSET Subs
      BY FS_EmptySet
    <3>6. Total(dropped') + Total(reported') = Total(dropped) + Total(reported) + 0
      BY <2>1, <3>4, <3>5, CountsKept
    <3>7. Total(dropped) \in Nat /\ Total(reported) \in Nat
      BY <2>1, TotalsType
    <3>8. Total(dropped') + Total(reported') = Total(dropped) + Total(reported)
      BY <3>6, <3>7
    <3> QED
      BY <3>1, <3>8 DEF LossAccounting
  <2>5. ASSUME NEW s \in Subs, NEW t \in Topics, Open(s, t)
        PROVE  UNCHANGED <<dropped, reported, overflows, offer>>
    BY <2>5 DEF Open, Subscribe
  <2>6. ASSUME NEW s \in Subs, CloseForget(s) \/ CloseUnsubscribe(s)
        PROVE  UNCHANGED <<dropped, reported, overflows, offer>>
    BY <2>6 DEF CloseForget, CloseUnsubscribe, Unsubscribe, hubVars, fileVars
  <2>7. ASSUME NEW r \in Calls, NEW s \in Subs, ReadBegin(r, s)
        PROVE  UNCHANGED <<dropped, reported, overflows, offer>>
    BY <2>7 DEF ReadBegin, hubVars
  <2>8. ASSUME NEW r \in Calls,
               ReadLock(r) \/ ReadPending(r) \/ ReadNoGap(r) \/ ReadEvent(r) \/ ReadEOF(r)
        PROVE  UNCHANGED <<dropped, reported, overflows, offer>>
    BY <2>8 DEF ReadLock, ReadPending, ReadNoGap, ReadEvent, ReadEOF, Receive, hubVars
  <2>9. CASE UNCHANGED vars
    BY <2>2, <2>9 DEF vars, hubVars, fileVars
  <2> QED
    BY <2>2, <2>3, <2>4, <2>5, <2>6, <2>7, <2>8, <2>9 DEF Next, ReadStep
<1> QED
  BY <1>1, <1>2, Invariance, PTL DEF Spec
=============================================================================
