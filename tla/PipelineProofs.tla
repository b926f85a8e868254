--------------------------- MODULE PipelineProofs ---------------------------
(***************************************************************************)
(* Proofs about Pipeline, on top of those of its parts: the gateway is a   *)
(* GatewaySession and the files are a LiveFile also in each other's        *)
(* company, and no reader loses an event silently between them.            *)
(***************************************************************************)
EXTENDS Pipeline, TLAPS

GP == INSTANCE GatewaySessionProofs

FP == INSTANCE LiveFileProofs

\* The definitions of the parts' own modules are those of their proofs.
LEMMA SameAssumptions == GP!GatewayAssumption /\ FP!HubAssumption /\ FP!LiveFileAssumption
BY PipelineAssumption
   DEF PipelineAssumption, File!IsFiniteSet, FP!IsFiniteSet, Gateway!GatewayAssumption,
       GP!GatewayAssumption, File!HubAssumption, FP!HubAssumption,
       File!LiveFileAssumption, FP!LiveFileAssumption

\* So are their initial states...
LEMMA SameInit == (Gateway!Init => GP!Init) /\ (File!Init => FP!Init)
BY DEF Gateway!Init, GP!Init, Gateway!Nothing, GP!Nothing,
       File!Init, FP!Init, File!HubInit, FP!HubInit, File!FileInit, FP!FileInit

\* ... the two reads of the gateway that hand something on...
LEMMA SameReads ==
  /\ Gateway!ReceiveReady <=> GP!ReceiveReady
  /\ Gateway!ReceiveEvent <=> GP!ReceiveEvent
BY DEF Gateway!ReceiveReady, GP!ReceiveReady, Gateway!ReceiveEvent, GP!ReceiveEvent,
       Gateway!Receives, GP!Receives, Gateway!NoteSequence, GP!NoteSequence,
       Gateway!ReportsGap, GP!ReportsGap, Gateway!Consume, GP!Consume,
       Gateway!serverVars, GP!serverVars

\* ... every other step of the gateway, which hands nothing on...
LEMMA SameGateway ==
  \/ Gateway!DialSucceeds \/ Gateway!Retry
  \/ Gateway!ReceiveHello \/ Gateway!HelloWriteFails \/ Gateway!ReceiveResumed
  \/ Gateway!ReceiveReconnect \/ Gateway!ReceiveInvalid \/ Gateway!ReceiveClose4004
  \/ Gateway!ReadFails
  \/ Gateway!Server \/ Gateway!EventHappens
  \/ Gateway!DialFails \/ Gateway!WindowExpires \/ Gateway!Faults
  => GP!Next /\ UNCHANGED <<accounted, joined>>
<1> USE DEF Gateway!Receives, GP!Receives, Gateway!Consume, GP!Consume,
            Gateway!serverVars, GP!serverVars, Gateway!clientVars, GP!clientVars,
            Gateway!historyVars, GP!historyVars, Gateway!linkVars, GP!linkVars,
            Gateway!Leave, GP!Leave, Gateway!CountPause, GP!CountPause,
            Gateway!Fault, GP!Fault, Gateway!Send, GP!Send, Gateway!Nothing, GP!Nothing
<1>1. Gateway!DialSucceeds => GP!DialSucceeds /\ UNCHANGED <<accounted, joined>>
  BY DEF Gateway!DialSucceeds, GP!DialSucceeds
<1>2. Gateway!Retry => GP!Retry /\ UNCHANGED <<accounted, joined>>
  BY DEF Gateway!Retry, GP!Retry
<1>3. Gateway!ReceiveHello => GP!ReceiveHello /\ UNCHANGED <<accounted, joined>>
  BY DEF Gateway!ReceiveHello, GP!ReceiveHello
<1>4. Gateway!HelloWriteFails => GP!HelloWriteFails /\ UNCHANGED <<accounted, joined>>
  BY DEF Gateway!HelloWriteFails, GP!HelloWriteFails
<1>5. Gateway!ReceiveResumed => GP!ReceiveResumed /\ UNCHANGED <<accounted, joined>>
  BY DEF Gateway!ReceiveResumed, GP!ReceiveResumed
<1>6. Gateway!ReceiveReconnect => GP!ReceiveReconnect /\ UNCHANGED <<accounted, joined>>
  BY DEF Gateway!ReceiveReconnect, GP!ReceiveReconnect
<1>7. Gateway!ReceiveInvalid => GP!ReceiveInvalid /\ UNCHANGED <<accounted, joined>>
  BY DEF Gateway!ReceiveInvalid, GP!ReceiveInvalid
<1>8. Gateway!ReceiveClose4004 => GP!ReceiveClose4004 /\ UNCHANGED <<accounted, joined>>
  BY DEF Gateway!ReceiveClose4004, GP!ReceiveClose4004
<1>9. Gateway!ReadFails => GP!ReadFails /\ UNCHANGED <<accounted, joined>>
  BY DEF Gateway!ReadFails, GP!ReadFails
<1>10. Gateway!Server => GP!Server /\ UNCHANGED <<accounted, joined>>
  BY DEF Gateway!Server, GP!Server, Gateway!ServerResume, GP!ServerResume,
         Gateway!ServerInvalidates, GP!ServerInvalidates, Gateway!ServerIdentify, GP!ServerIdentify
<1>11. Gateway!EventHappens => GP!EventHappens /\ UNCHANGED <<accounted, joined>>
  BY DEF Gateway!EventHappens, GP!EventHappens
<1>12. Gateway!DialFails => GP!DialFails /\ UNCHANGED <<accounted, joined>>
  BY DEF Gateway!DialFails, GP!DialFails
<1>13. Gateway!WindowExpires => GP!WindowExpires /\ UNCHANGED <<accounted, joined>>
  BY DEF Gateway!WindowExpires, GP!WindowExpires
<1>14. Gateway!Faults => GP!Faults /\ UNCHANGED <<accounted, joined>>
  BY DEF Gateway!Faults, GP!Faults, Gateway!ServerForgets, GP!ServerForgets,
         Gateway!ServerAsksReconnect, GP!ServerAsksReconnect,
         Gateway!ServerRefusesToken, GP!ServerRefusesToken, Gateway!LinkBreaks, GP!LinkBreaks
<1> QED
  BY <1>1, <1>2, <1>3, <1>4, <1>5, <1>6, <1>7, <1>8, <1>9, <1>10, <1>11, <1>12, <1>13, <1>14
     DEF GP!Next, GP!Client

\* The same of the hub and the files.
LEMMA SameHub ==
  /\ \A c : File!Publish(c) <=> FP!Publish(c)
  /\ File!GapAll <=> FP!GapAll
  /\ \A s : File!OfferStep(s) <=> FP!OfferStep(s)
<1>1. /\ \A c : File!Publish(c) <=> FP!Publish(c)
      /\ File!GapAll <=> FP!GapAll
  BY DEF File!Publish, FP!Publish, File!GapAll, FP!GapAll, File!Begin, FP!Begin,
         File!HubFree, FP!HubFree, File!Audience, FP!Audience, File!Registered, FP!Registered
<1>2. \A s : File!OfferStep(s) <=> FP!OfferStep(s)
  BY DEF File!OfferStep, FP!OfferStep, File!Send, FP!Send, File!FindFull, FP!FindFull,
         File!CountLoss, FP!CountLoss, File!NoteOverflow, FP!NoteOverflow,
         File!Turn, FP!Turn, File!Full, FP!Full
<1> QED
  BY <1>1, <1>2

\* ... and so are the steps of the files.
LEMMA SameFile ==
  /\ \A s, t : File!Open(s, t) <=> FP!Open(s, t)
  /\ \A s : /\ File!CloseForget(s) <=> FP!CloseForget(s)
            /\ File!CloseUnsubscribe(s) <=> FP!CloseUnsubscribe(s)
            /\ \A r : File!ReadBegin(r, s) <=> FP!ReadBegin(r, s)
  /\ \A r : /\ File!ReadLock(r) <=> FP!ReadLock(r)
            /\ File!ReadPending(r) <=> FP!ReadPending(r)
            /\ File!ReadGap(r) <=> FP!ReadGap(r)
            /\ File!ReadNoGap(r) <=> FP!ReadNoGap(r)
            /\ File!ReadEvent(r) <=> FP!ReadEvent(r)
            /\ File!ReadEOF(r) <=> FP!ReadEOF(r)
<1> USE DEF File!hubVars, FP!hubVars, File!fileVars, FP!fileVars, File!Goto, FP!Goto,
            File!Return, FP!Return, File!Render, FP!Render
<1>1. \A s, t : File!Open(s, t) <=> FP!Open(s, t)
  BY DEF File!Open, FP!Open, File!Subscribe, FP!Subscribe, File!HubFree, FP!HubFree
<1>2. \A s : /\ File!CloseForget(s) <=> FP!CloseForget(s)
             /\ File!CloseUnsubscribe(s) <=> FP!CloseUnsubscribe(s)
  BY DEF File!CloseForget, FP!CloseForget, File!CloseUnsubscribe, FP!CloseUnsubscribe,
         File!Unsubscribe, FP!Unsubscribe, File!HubFree, FP!HubFree
<1>3. \A r, s : File!ReadBegin(r, s) <=> FP!ReadBegin(r, s)
  BY DEF File!ReadBegin, FP!ReadBegin
<1>4. \A r : /\ File!ReadLock(r) <=> FP!ReadLock(r)
             /\ File!ReadPending(r) <=> FP!ReadPending(r)
             /\ File!ReadNoGap(r) <=> FP!ReadNoGap(r)
             /\ File!ReadEOF(r) <=> FP!ReadEOF(r)
  BY DEF File!ReadLock, FP!ReadLock, File!ReadPending, FP!ReadPending, File!ReadNoGap,
         FP!ReadNoGap, File!ReadEOF, FP!ReadEOF, File!Drained, FP!Drained
<1>5. \A r : File!ReadGap(r) <=> FP!ReadGap(r)
  BY DEF File!ReadGap, FP!ReadGap, File!TakeDropped, FP!TakeDropped
<1>6. \A r : File!ReadEvent(r) <=> FP!ReadEvent(r)
  BY DEF File!ReadEvent, FP!ReadEvent, File!Receive, FP!Receive
<1> QED
  BY <1>1, <1>2, <1>3, <1>4, <1>5, <1>6

-----------------------------------------------------------------------------
(***************************************************************************)
(* The gateway of the pipeline is a GatewaySession: what the hub and the   *)
(* files do never disturbs it.                                             *)
(***************************************************************************)
THEOREM GatewayInPipeline == Spec => GP!Spec
<1>1. Init => GP!Init
  BY SameInit DEF Init
<1>2. [Next]_vars => [GP!Next]_(GP!gatewayVars)
  <2> SUFFICES ASSUME [Next]_vars
               PROVE  GP!Next \/ UNCHANGED gatewayVars
    BY DEF gatewayVars, GP!gatewayVars, GP!clientVars, GP!serverVars, GP!linkVars, GP!historyVars
  <2>1. CASE HandOnEvent \/ HandOnReady
    BY <2>1, SameReads DEF HandOnEvent, HandOnReady, GP!Next, GP!Client
  <2>2. CASE ClientOnly \/ ServerOnly
    BY <2>2, SameGateway DEF ClientOnly, ServerOnly
  <2>3. CASE \E s \in Subs, t \in Channels \cup {Global} : OpenFile(s, t)
    BY <2>3 DEF OpenFile
  <2>4. CASE \E r \in Calls : ReadGapRecord(r) \/ ReadEventRecord(r)
    BY <2>4 DEF ReadGapRecord, ReadEventRecord
  <2>5. CASE PublishGoesOn \/ FileOnly \/ UNCHANGED vars
    BY <2>5 DEF PublishGoesOn, FileOnly, vars
  <2> QED
    BY <2>1, <2>2, <2>3, <2>4, <2>5 DEF Next
<1> QED
  BY <1>1, <1>2, PTL DEF Spec, GP!Spec

\* What the session's own proofs say of it.
LEMMA SessionInvariance == Spec => [](GP!IInv /\ GP!OnlyWhatHappened)
<1>1. GP!Spec => []GP!IInv
  BY SameAssumptions, GP!Invariance, Zenon
<1>2. GP!Spec => []GP!OnlyWhatHappened
  BY SameAssumptions, GP!NothingMadeUp, Zenon
<1> QED
  BY <1>1, <1>2, GatewayInPipeline, PTL

\* An event that is handed on is the next one and has a conversation.
LEMMA NextEvent ==
  ASSUME GP!IInv, GP!OnlyWhatHappened, GP!ReceiveEvent
  PROVE  /\ Head(inbox).event = accounted + 1 /\ Head(inbox).event \in Events
         /\ accounted \in Nat /\ accounted' = accounted + 1
<1>1. inbox # <<>> /\ Head(inbox).op = "EVENT" /\ accounted' = Head(inbox).event
  BY DEF GP!ReceiveEvent, GP!Receives
<1>2. inbox \in Seq(GP!Payload) /\ accounted \in Nat /\ happened \in Nat
  BY DEF GP!IInv, GP!TypeOK
<1>3. Head(inbox).event = accounted + 1
  BY <1>1, SameAssumptions, GP!NextDispatch
<1>4. Head(inbox) = inbox[1] /\ 1 \in 1..Len(inbox)
  BY <1>1, <1>2
<1>5. Head(inbox).event <= happened /\ happened <= MaxEvents
  BY <1>1, <1>4 DEF GP!OnlyWhatHappened
<1>6. MaxEvents \in Nat
  BY SameAssumptions DEF GP!GatewayAssumption
<1> QED
  BY <1>1, <1>2, <1>3, <1>5, <1>6 DEF Events

(***************************************************************************)
(* The hub and the live files of the pipeline are a LiveFile: what the     *)
(* gateway hands on is what LiveFile allows to be published.               *)
(***************************************************************************)
THEOREM FilesInPipeline == Spec => FP!Spec
<1>1. Init => FP!Init /\ channel \in [Events -> Channels]
  BY SameInit DEF Init
<1>2. channel \in [Events -> Channels] /\ [Next]_vars => (channel \in [Events -> Channels])'
  BY DEF Next, vars, HandOnEvent, HandOnReady, ClientOnly, ServerOnly, PublishGoesOn, OpenFile,
         ReadGapRecord, ReadEventRecord, FileOnly, pipeVars
<1>3. /\ channel \in [Events -> Channels] /\ GP!IInv /\ GP!OnlyWhatHappened /\ [Next]_vars
      => [FP!Next]_(FP!vars)
  <2> SUFFICES ASSUME channel \in [Events -> Channels], GP!IInv, GP!OnlyWhatHappened, [Next]_vars
               PROVE  FP!Next \/ UNCHANGED <<hubVars, fileVars>>
    BY DEF hubVars, fileVars, FP!vars, FP!hubVars, FP!fileVars
  <2>1. CASE HandOnEvent
    <3>1. PICK e : e = Head(inbox).event
      OBVIOUS
    <3>2. e \in Events /\ channel[e] \in Channels
      BY <2>1, <3>1, SameReads, NextEvent DEF HandOnEvent
    <3>3. FP!Publish(channel[e]) /\ UNCHANGED FP!fileVars
      BY <2>1, <3>1, SameHub DEF HandOnEvent, fileVars, FP!fileVars
    <3> QED
      BY <3>2, <3>3 DEF FP!Next, FP!HubStep
  <2>2. CASE HandOnReady
    <3>1. File!GapAll => FP!GapAll
      BY SameHub
    <3>2. UNCHANGED FP!fileVars
      BY <2>2 DEF HandOnReady, fileVars, FP!fileVars
    <3> QED
      BY <2>2, <3>1, <3>2 DEF HandOnReady, FP!Next, FP!HubStep, fileVars
  <2>3. CASE ClientOnly \/ ServerOnly \/ UNCHANGED vars
    BY <2>3 DEF ClientOnly, ServerOnly, vars
  <2>4. CASE \E s \in Subs, t \in Channels \cup {Global} : OpenFile(s, t)
    BY <2>4, SameFile DEF OpenFile, FP!Next, FP!Topics
  <2>5. CASE \E r \in Calls : ReadGapRecord(r) \/ ReadEventRecord(r)
    BY <2>5, SameFile DEF ReadGapRecord, ReadEventRecord, FP!Next, FP!ReadStep
  <2>6. CASE FileOnly
    BY <2>6, SameFile DEF FileOnly, FP!Next, FP!ReadStep
  <2>7. CASE PublishGoesOn
    BY <2>7, SameHub DEF PublishGoesOn, FP!Next, FP!HubStep, fileVars, FP!fileVars
  <2> QED
    BY <2>1, <2>2, <2>3, <2>4, <2>5, <2>6, <2>7 DEF Next
<1> QED
  BY <1>1, <1>2, <1>3, SessionInvariance, PTL DEF Spec, FP!Spec

\* What the files' own proofs say of them.
LEMMA FileInvariance == Spec => []FP!IInv
<1>1. FP!Spec => []FP!IInv
  BY SameAssumptions, FP!Invariance, Zenon
<1> QED
  BY <1>1, FilesInPipeline, PTL

-----------------------------------------------------------------------------
\* The numbers of the posts that come to a reader.
LEMMA ComingNumbers ==
  ASSUME FP!IInv, LostForGood
  PROVE  /\ posted \in Nat
         /\ \A s \in Subs :
              /\ last[s] \in Nat /\ last[s] <= posted
              /\ \A m \in File!WaitingIds(s) : last[s] < m
              /\ \A m \in Coming(s) : m \in 1..posted
<1>1. /\ posted \in Nat /\ last \in [Subs -> Nat] /\ queue \in [Subs -> Seq(Nat)]
  BY DEF FP!IInv, FP!TypeOK, FP!HubTypeOK
<1>2. SUFFICES ASSUME NEW s \in Subs
               PROVE  /\ last[s] \in Nat /\ last[s] <= posted
                      /\ \A m \in File!WaitingIds(s) : last[s] < m
                      /\ \A m \in Coming(s) : m \in 1..posted
  BY <1>1
<1>3. last[s] \in Nat /\ last[s] <= posted
  BY <1>1 DEF FP!IInv, FP!QueuesInOrder
<1>4. ASSUME NEW m \in File!WaitingIds(s)
      PROVE  last[s] < m /\ m \in 1..posted
  <2>1. ASSUME NEW i \in 1..Len(queue[s]), m = queue[s][i]
        PROVE  m \in Nat /\ last[s] < m /\ m <= posted
    <3>1. queue[s][i] \in Nat
      BY <1>1
    <3>2. last[s] < queue[s][i] /\ queue[s][i] <= posted
      BY DEF FP!IInv, FP!QueuesInOrder
    <3> QED
      BY <2>1, <3>1, <3>2
  <2>2. ASSUME File!InOffer(s), m = posted
        PROVE  m \in Nat /\ last[s] < m /\ m <= posted
    <3>1. FP!InOffer(s)
      BY <2>2 DEF File!InOffer, FP!InOffer
    <3>2. last[s] < posted
      BY <3>1 DEF FP!IInv, FP!QueuesInOrder
    <3> QED
      BY <1>1, <2>2, <3>2
  <2>3. m \in Nat /\ last[s] < m /\ m <= posted
    BY <2>1, <2>2 DEF File!WaitingIds
  <2> QED
    BY <1>1, <1>3, <2>3
<1> QED
  BY <1>3, <1>4 DEF Coming, LostForGood

\* What waits for a reader is the same for the feed that the files are.
LEMMA SameWaiting ==
  ASSUME NEW s \in Subs
  PROVE  /\ [x \in Subs |-> FP!WaitingIds(x)][s] = File!WaitingIds(s)
         /\ [x \in Subs |-> FP!WaitingIds(x)]'[s] = File!WaitingIds(s)'
BY DEF FP!WaitingIds, File!WaitingIds, FP!InOffer, File!InOffer

\* What a post adds for its audience.
LEMMA PostComes ==
  ASSUME NEW S \in SUBSET Subs, FP!Feed!PostTo(S)
  PROVE  /\ posted' = posted + 1 /\ UNCHANGED <<topic, last, missed>>
         /\ \A s \in Subs :
              /\ File!WaitingIds(s)'
                   = File!WaitingIds(s) \cup (IF s \in S THEN {posted + 1} ELSE {})
              /\ Coming(s)' = Coming(s) \cup (IF s \in S THEN {posted + 1} ELSE {})
<1>1. /\ posted' = posted + 1 /\ UNCHANGED <<topic, last, missed>>
      /\ [s \in Subs |-> FP!WaitingIds(s)]' =
           [s \in Subs |-> IF s \in S THEN [x \in Subs |-> FP!WaitingIds(x)][s] \cup {posted + 1}
                                     ELSE [x \in Subs |-> FP!WaitingIds(x)][s]]
  BY DEF FP!Feed!PostTo
<1>2. \A s \in Subs :
        File!WaitingIds(s)' = File!WaitingIds(s) \cup (IF s \in S THEN {posted + 1} ELSE {})
  BY <1>1, SameWaiting
<1> QED
  BY <1>1, <1>2 DEF Coming

\* The loss of a post: it no longer waits, but it still comes, as a GAP record.
LEMMA LossComes ==
  ASSUME NEW s \in Subs, FP!Feed!Lose(s), missed \in [Subs -> SUBSET Nat]
  PROVE  /\ UNCHANGED <<topic, last, posted>>
         /\ posted \in File!WaitingIds(s)
         /\ missed'[s] = missed[s] \cup {posted}
         /\ File!WaitingIds(s)' = File!WaitingIds(s) \ {posted}
         /\ \A x \in Subs \ {s} : /\ File!WaitingIds(x)' = File!WaitingIds(x)
                                   /\ missed'[x] = missed[x]
         /\ \A x \in Subs : Coming(x)' = Coming(x)
<1>1. /\ UNCHANGED <<topic, last, posted>>
      /\ posted \in [x \in Subs |-> FP!WaitingIds(x)][s]
      /\ missed' = [missed EXCEPT ![s] = @ \cup {posted}]
      /\ [x \in Subs |-> FP!WaitingIds(x)]' =
           [[x \in Subs |-> FP!WaitingIds(x)] EXCEPT ![s] = @ \ {posted}]
  BY DEF FP!Feed!Lose
<1>2. posted \in File!WaitingIds(s)
  BY <1>1, SameWaiting
<1>3. ASSUME NEW x \in Subs
      PROVE  File!WaitingIds(x)'
               = IF x = s THEN File!WaitingIds(x) \ {posted} ELSE File!WaitingIds(x)
  <2>1. [y \in Subs |-> FP!WaitingIds(y)]'[x]
          = IF x = s THEN [y \in Subs |-> FP!WaitingIds(y)][x] \ {posted}
                     ELSE [y \in Subs |-> FP!WaitingIds(y)][x]
    BY <1>1
  <2> QED
    BY <2>1, SameWaiting
<1>4. ASSUME NEW x \in Subs
      PROVE  missed'[x] = IF x = s THEN missed[x] \cup {posted} ELSE missed[x]
  BY <1>1
<1>5. \A x \in Subs : Coming(x)' = Coming(x)
  BY <1>2, <1>3, <1>4 DEF Coming
<1> QED
  BY <1>1, <1>2, <1>3, <1>4, <1>5

\* The newest post stands for events newer than those of all posts before it.
LEMMA PostKeepsOrder ==
  ASSUME PipeTypeOK, PostsInOrder, posted \in Nat, accounted \in Nat, accounted' \in Nat,
         accounted <= accounted',
         posted' = posted + 1,
         NEW C \in SUBSET ((accounted + 1)..accounted'), covers' = Append(covers, C)
  PROVE  /\ covers' \in Seq(SUBSET Nat)
         /\ \A n \in 1..posted : covers'[n] = covers[n]
         /\ covers'[posted + 1] = C
         /\ PostsInOrder'
<1>1. covers \in Seq(SUBSET Nat) /\ Len(covers) = posted
  BY DEF PipeTypeOK, PostsInOrder
<1>2. C \in SUBSET Nat
  OBVIOUS
<1>3. /\ covers' \in Seq(SUBSET Nat) /\ Len(covers') = posted + 1
      /\ \A n \in 1..posted : covers'[n] = covers[n]
      /\ covers'[posted + 1] = C
  BY <1>1, <1>2
<1>4. \A n \in 1..(posted + 1) : n \in 1..posted \/ n = posted + 1
  OBVIOUS
<1>5. ASSUME NEW n \in 1..posted, NEW e \in covers[n]
      PROVE  e \in Nat /\ e <= accounted
  <2>1. covers[n] \in SUBSET Nat
    BY <1>1
  <2> QED
    BY <2>1 DEF PostsInOrder
<1>6. ASSUME NEW n \in 1..(posted + 1), NEW e \in covers'[n]
      PROVE  e <= accounted'
  <2>1. CASE n \in 1..posted
    BY <1>3, <1>5, <2>1
  <2>2. CASE n = posted + 1
    <3>1. e \in C
      BY <1>3, <2>2
    <3>2. e \in (accounted + 1)..accounted'
      BY <3>1
    <3> QED
      BY <3>2
  <2> QED
    BY <1>4, <2>1, <2>2
<1>7. ASSUME NEW n \in 1..(posted + 1), NEW m \in 1..(posted + 1), n < m,
             NEW d \in covers'[n], NEW e \in covers'[m]
      PROVE  d < e
  <2>1. n \in 1..posted
    BY <1>7
  <2>2. d \in covers[n] /\ d \in Nat /\ d <= accounted
    BY <1>3, <1>5, <2>1
  <2>3. CASE m \in 1..posted
    BY <1>3, <1>7, <2>1, <2>2, <2>3 DEF PostsInOrder
  <2>4. CASE m = posted + 1
    BY <1>3, <2>2, <2>4
  <2> QED
    BY <1>4, <2>3, <2>4
<1>8. PostsInOrder'
  BY <1>3, <1>6, <1>7 DEF PostsInOrder
<1> QED
  BY <1>3, <1>8

\* When everything accounted for is older than every Open, nobody misses it.
LEMMA NothingWantedYet ==
  ASSUME PipeTypeOK, FP!IInv, LostForGood, PostsInOrder, accounted \in Nat,
         \A s \in Subs : opened[s] = accounted
  PROVE  ReadersServed
<1> SUFFICES ASSUME NEW s \in Subs, NEW k \in Wanted(s)
             PROVE  /\ ~(k <= accounted)
                    /\ \A n \in File!WaitingIds(s) \cup {last[s]} :
                         n # 0 => \A e \in covers[n] : ~(k <= e)
  BY DEF ReadersServed
<1>1. k \in Nat /\ k > accounted
  <2>1. MaxEvents \in Nat
    BY SameAssumptions DEF GP!GatewayAssumption
  <2> QED
    BY <2>1 DEF Wanted, Events
<1>2. ASSUME NEW n \in File!WaitingIds(s) \cup {last[s]}, n # 0, NEW e \in covers[n]
      PROVE  ~(k <= e)
  <2>1. n \in 1..posted
    BY <1>2, ComingNumbers DEF Coming
  <2>2. e \in Nat
    BY <2>1 DEF PipeTypeOK, PostsInOrder
  <2>3. e <= accounted
    BY <2>1 DEF PostsInOrder
  <2> QED
    BY <1>1, <2>2, <2>3
<1> QED
  BY <1>1, <1>2

(***************************************************************************)
(* A post keeps every reader served: those whose conversation it is about  *)
(* have it on its way or lost, and it stands for all that is new.          *)
(***************************************************************************)
LEMMA PostKeepsServed ==
  ASSUME PipeTypeOK, FP!IInv, LostForGood, PostsInOrder, ReadersServed, PostsInOrder', PipeTypeOK',
         posted \in Nat, accounted \in Nat, accounted' \in Nat,
         NEW S \in SUBSET Subs, FP!Feed!PostTo(S),
         NEW C \in SUBSET Nat,
         \A n \in 1..posted : covers'[n] = covers[n], covers'[posted + 1] = C,
         UNCHANGED <<channel, opened, follows, known>>,
         \A s \in S : topic[s] # NoTopic,
         \A s \in Subs : \A k \in Wanted(s) :
           topic[s] # NoTopic /\ accounted < k /\ k <= accounted' => s \in S /\ k \in C
  PROVE  ReadersServed'
<1>1. /\ posted' = posted + 1 /\ UNCHANGED <<topic, last>>
      /\ \A s \in Subs :
           /\ File!WaitingIds(s)' \subseteq
                File!WaitingIds(s) \cup (IF s \in S THEN {posted + 1} ELSE {})
           /\ Coming(s)' = Coming(s) \cup (IF s \in S THEN {posted + 1} ELSE {})
  BY PostComes
<1>2. SUFFICES ASSUME NEW s \in Subs, NEW k \in Wanted(s)
               PROVE  /\ topic[s] # NoTopic /\ k <= accounted' => Served(s, k)'
                      /\ \A n \in File!WaitingIds(s)' \cup {last[s]} :
                           n # 0 => \A e \in covers'[n] : k <= e => Served(s, k)'
  <2>1. \A s \in Subs : Wanted(s)' = Wanted(s)
    BY DEF Wanted
  <2> QED
    BY <1>1, <2>1 DEF ReadersServed
<1>3. k \in Nat
  <2>1. MaxEvents \in Nat
    BY SameAssumptions DEF GP!GatewayAssumption
  <2> QED
    BY <2>1 DEF Wanted, Events
<1>4. Served(s, k) => Served(s, k)'
  <2>1. CASE k \in known[s]
    BY <2>1 DEF Served
  <2>2. ASSUME NEW m \in Coming(s), k \in covers[m]
        PROVE  Served(s, k)'
    <3>1. m \in 1..posted
      BY ComingNumbers
    <3>2. m \in Coming(s)' /\ k \in covers'[m]
      BY <1>1, <2>2, <3>1
    <3> QED
      BY <3>2 DEF Served
  <2> QED
    BY <2>1, <2>2 DEF Served
<1>5. ASSUME topic[s] # NoTopic, k <= accounted'
      PROVE  Served(s, k)'
  <2>1. CASE k <= accounted
    BY <1>4, <1>5, <2>1 DEF ReadersServed
  <2>2. CASE accounted < k
    <3>1. s \in S /\ k \in C
      BY <1>5, <2>2
    <3>2. posted + 1 \in Coming(s)' /\ k \in covers'[posted + 1]
      BY <1>1, <3>1
    <3> QED
      BY <3>2 DEF Served
  <2> QED
    BY <1>3, <2>1, <2>2
<1>6. ASSUME NEW n \in File!WaitingIds(s)' \cup {last[s]}, n # 0, NEW e \in covers'[n], k <= e
      PROVE  Served(s, k)'
  <2>1. CASE n \in File!WaitingIds(s) \cup {last[s]}
    <3>1. n \in 1..posted
      BY <1>6, <2>1, ComingNumbers DEF Coming
    <3>2. covers'[n] = covers[n]
      BY <3>1
    <3> QED
      BY <1>4, <1>6, <2>1, <3>2 DEF ReadersServed
  <2>2. CASE n = posted + 1 /\ s \in S
    <3>1. n \in 1..posted'
      BY <1>1, <2>2
    <3>2. e <= accounted' /\ e \in Nat
      <4>1. e <= accounted'
        BY <3>1 DEF PostsInOrder
      <4> QED
        BY <2>2, <4>1
    <3>3. topic[s] # NoTopic /\ k <= accounted'
      BY <1>3, <1>6, <2>2, <3>2
    <3> QED
      BY <1>5, <3>3
  <2> QED
    BY <1>1, <1>6, <2>1, <2>2
<1> QED
  BY <1>5, <1>6

\* Which subscriptions a post reaches does not change what they are.
LEMMA PostKeepsSubscriptions ==
  ASSUME FP!IInv, SubscribedOnce, LostForGood, NEW S \in SUBSET Subs, FP!Feed!PostTo(S),
         \A s \in S : topic[s] # NoTopic, UNCHANGED <<closed, follows>>
  PROVE  SubscribedOnce' /\ LostForGood'
<1>1. /\ UNCHANGED <<topic, last>>
      /\ \A s \in Subs : s \notin S => Coming(s)' = Coming(s)
  BY PostComes
<1>2. SubscribedOnce'
  BY <1>1 DEF SubscribedOnce
<1>3. ASSUME NEW s \in Subs
      PROVE  /\ missed'[s] \subseteq 1..posted'
             /\ missed'[s] \cap (File!WaitingIds(s)' \cup {last'[s]}) = {}
  <2>1. /\ posted' = posted + 1 /\ missed'[s] = missed[s] /\ last'[s] = last[s]
        /\ File!WaitingIds(s)' \subseteq File!WaitingIds(s) \cup {posted + 1}
    BY PostComes
  <2>2. /\ missed[s] \subseteq 1..posted /\ posted \in Nat
        /\ missed[s] \cap (File!WaitingIds(s) \cup {last[s]}) = {}
    BY ComingNumbers DEF LostForGood
  <2>3. posted + 1 \notin missed[s] /\ 1..posted \subseteq 1..(posted + 1)
    BY <2>2
  <2> QED
    BY <2>1, <2>2, <2>3
<1> QED
  BY <1>2, <1>3 DEF LostForGood

(***************************************************************************)
(* As long as nothing is posted or opened, a reader stays served if it is  *)
(* told of every post that no longer comes.                                *)
(***************************************************************************)
LEMMA TellKeepsServed ==
  ASSUME ReadersServed, UNCHANGED <<accounted, covers, channel, opened, follows>>,
         \A s \in Subs :
           /\ topic'[s] # NoTopic => topic[s] # NoTopic
           /\ known[s] \subseteq known'[s]
           /\ \A m \in Coming(s) : m \in Coming(s)' \/ covers[m] \subseteq known'[s]
           /\ File!WaitingIds(s)' \cup {last'[s]} \subseteq File!WaitingIds(s) \cup {last[s]}
  PROVE  ReadersServed'
<1>1. ASSUME NEW s \in Subs, NEW k, Served(s, k)
      PROVE  Served(s, k)'
  <2>1. CASE k \in known[s]
    BY <2>1 DEF Served
  <2>2. ASSUME NEW m \in Coming(s), k \in covers[m]
        PROVE  Served(s, k)'
    <3>1. k \in known'[s] \/ (m \in Coming(s)' /\ k \in covers'[m])
      BY <2>2
    <3> QED
      BY <3>1 DEF Served
  <2> QED
    BY <1>1, <2>1, <2>2 DEF Served
<1>2. \A s \in Subs : Wanted(s)' = Wanted(s)
  BY DEF Wanted
<1>3. ASSUME NEW s \in Subs, NEW k \in Wanted(s)
      PROVE  /\ topic'[s] # NoTopic /\ k <= accounted => Served(s, k)'
             /\ \A n \in File!WaitingIds(s)' \cup {last'[s]} :
                  n # 0 => \A e \in covers[n] : k <= e => Served(s, k)'
  <2>1. topic'[s] # NoTopic /\ k <= accounted => Served(s, k)'
    BY <1>1 DEF ReadersServed
  <2>2. ASSUME NEW n \in File!WaitingIds(s)' \cup {last'[s]}, n # 0, NEW e \in covers[n], k <= e
        PROVE  Served(s, k)'
    <3>1. n \in File!WaitingIds(s) \cup {last[s]}
      BY <2>2
    <3>2. Served(s, k)
      BY <2>2, <3>1 DEF ReadersServed
    <3> QED
      BY <1>1, <3>2
  <2> QED
    BY <2>1, <2>2
<1> QED
  BY <1>2, <1>3 DEF ReadersServed

\* The same for what a subscription is: it may end, and what came to it may go.
LEMMA TellKeepsSubscriptions ==
  ASSUME SubscribedOnce, UNCHANGED follows,
         \A s \in Subs :
           /\ \/ topic'[s] = topic[s] /\ (s \in closed' <=> s \in closed)
              \/ topic'[s] = NoTopic /\ s \in closed'
           /\ topic[s] = NoTopic /\ s \notin closed => UNCHANGED <<Coming(s), last[s]>>
  PROVE  SubscribedOnce'
BY DEF SubscribedOnce

\* And for the losses, as long as there are no new ones.
LEMMA TellKeepsLosses ==
  ASSUME LostForGood, UNCHANGED posted,
         \A s \in Subs :
           /\ missed'[s] \subseteq missed[s]
           /\ File!WaitingIds(s)' \cup {last'[s]} \subseteq File!WaitingIds(s) \cup {last[s]}
  PROVE  LostForGood'
BY DEF LostForGood

\* A step that takes nothing from the hub's channels and counters.
LEMMA QuietKeepsInv ==
  ASSUME PipeInv, FP!IInv, UNCHANGED <<posted, queue, offer, missed, last, pipeVars, accounted>>,
         \/ UNCHANGED <<topic, closed>>
         \/ \E s \in Subs : File!Unsubscribe(s) /\ topic[s] # NoTopic
  PROVE  PipeInv'
<1>1. \A s \in Subs : UNCHANGED <<File!WaitingIds(s), Coming(s)>>
  BY DEF File!WaitingIds, File!InOffer, Coming
<1>2. UNCHANGED <<channel, covers, opened, follows, known, last>>
  BY DEF pipeVars
<1>3. \A s \in Subs :
        \/ topic'[s] = topic[s] /\ (s \in closed' <=> s \in closed)
        \/ topic'[s] = NoTopic /\ s \in closed'
  <2>1. ASSUME NEW x \in Subs, File!Unsubscribe(x), topic[x] # NoTopic, NEW s \in Subs
        PROVE  \/ topic'[s] = topic[s] /\ (s \in closed' <=> s \in closed)
               \/ topic'[s] = NoTopic /\ s \in closed'
    <3>1. topic' = [topic EXCEPT ![x] = NoTopic] /\ closed' = closed \cup {x}
      BY <2>1 DEF File!Unsubscribe
    <3>2. DOMAIN topic = Subs
      BY DEF FP!IInv, FP!TypeOK, FP!HubTypeOK
    <3>3. CASE s = x
      BY <3>1, <3>2, <3>3
    <3>4. CASE s # x
      BY <3>1, <3>2, <3>4
    <3> QED
      BY <3>3, <3>4
  <2> QED
    BY <2>1
<1>4. PipeTypeOK' /\ PostsInOrder'
  BY <1>2 DEF PipeInv, PipeTypeOK, PostsInOrder
<1>5. ReadersServed'
  BY <1>1, <1>2, <1>3, TellKeepsServed DEF PipeInv
<1>6. SubscribedOnce'
  BY <1>1, <1>2, <1>3, TellKeepsSubscriptions DEF PipeInv
<1>7. LostForGood'
  BY <1>1, <1>2, TellKeepsLosses DEF PipeInv
<1> QED
  BY <1>4, <1>5, <1>6, <1>7 DEF PipeInv

\* A publish that goes on sends what was on its way already, or loses it for good.
LEMMA OfferKeepsInv ==
  ASSUME PipeInv, FP!IInv, PublishGoesOn
  PROVE  PipeInv'
<1>1. PICK s \in Subs : FP!OfferStep(s)
  BY SameHub DEF PublishGoesOn
<1>2. UNCHANGED <<accounted, channel, covers, opened, follows, known, closed>>
  BY <1>1 DEF PublishGoesOn, gatewayVars, pipeVars, FP!OfferStep, FP!Send, FP!FindFull,
              FP!CountLoss, FP!NoteOverflow
<1>3. UNCHANGED FP!fileVars
  BY DEF PublishGoesOn, fileVars, FP!fileVars
<1>4. FP!Feed!Lose(s) \/ UNCHANGED FP!Feed!feedVars
  BY <1>1, <1>3, SameAssumptions, FP!OfferSteps
<1>5. missed \in [Subs -> SUBSET Nat]
  BY DEF FP!IInv, FP!TypeOK, FP!HubTypeOK
<1>6. /\ UNCHANGED <<topic, last, posted>>
      /\ \A x \in Subs : /\ Coming(x)' = Coming(x)
                        /\ File!WaitingIds(x)' \subseteq File!WaitingIds(x)
  <2>1. CASE FP!Feed!Lose(s)
    BY <1>5, <2>1, LossComes
  <2>2. CASE UNCHANGED FP!Feed!feedVars
    <3>1. /\ UNCHANGED <<topic, last, posted, missed>>
          /\ UNCHANGED [x \in Subs |-> FP!WaitingIds(x)]
      BY <2>2 DEF FP!Feed!feedVars
    <3>2. \A x \in Subs : File!WaitingIds(x)' = File!WaitingIds(x)
      BY <3>1, SameWaiting
    <3> QED
      BY <3>1, <3>2 DEF Coming
  <2> QED
    BY <1>4, <2>1, <2>2
<1>7. PipeTypeOK' /\ PostsInOrder'
  BY <1>2, <1>6 DEF PipeInv, PipeTypeOK, PostsInOrder
<1>8. SubscribedOnce'
  BY <1>2, <1>6 DEF PipeInv, SubscribedOnce
<1>9. ReadersServed'
  BY <1>2, <1>6, TellKeepsServed DEF PipeInv
<1>10. LostForGood'
  <2>1. CASE FP!Feed!Lose(s)
    <3>1. ASSUME NEW x \in Subs
          PROVE  /\ missed'[x] \subseteq 1..posted'
                 /\ missed'[x] \cap (File!WaitingIds(x)' \cup {last'[x]}) = {}
      <4>1. /\ missed[x] \subseteq 1..posted
            /\ missed[x] \cap (File!WaitingIds(x) \cup {last[x]}) = {}
        BY DEF PipeInv, LostForGood
      <4>2. posted \in 1..posted /\ posted # last[s]
        <5>1. posted \in File!WaitingIds(s)
          BY <1>5, <2>1, LossComes
        <5>2. posted \in 1..posted /\ last[s] < posted /\ last[s] \in Nat
          BY <5>1, ComingNumbers DEF PipeInv, Coming
        <5> QED
          BY <5>2
      <4>3. CASE x = s
        BY <1>5, <2>1, <4>1, <4>2, <4>3, LossComes
      <4>4. CASE x # s
        BY <1>5, <2>1, <4>1, <4>4, LossComes
      <4> QED
        BY <4>3, <4>4
    <3> QED
      BY <3>1 DEF LostForGood
  <2>2. CASE UNCHANGED FP!Feed!feedVars
    BY <1>6, <2>2, TellKeepsLosses DEF PipeInv, FP!Feed!feedVars
  <2> QED
    BY <1>4, <2>1, <2>2
<1> QED
  BY <1>7, <1>8, <1>9, <1>10 DEF PipeInv

\* An Open starts with nothing: no post was made for it before.
LEMMA OpenKeepsInv ==
  ASSUME PipeInv, FP!IInv, accounted \in Nat,
         NEW s \in Subs, NEW t \in Channels \cup {Global}, OpenFile(s, t)
  PROVE  PipeInv'
<1>1. /\ topic[s] = NoTopic /\ s \notin closed
      /\ topic' = [topic EXCEPT ![s] = t]
      /\ UNCHANGED <<closed, queue, posted, offer, missed, last, accounted, channel, covers, known>>
      /\ opened' = [opened EXCEPT ![s] = accounted] /\ follows' = [follows EXCEPT ![s] = t]
  BY DEF OpenFile, File!Open, File!Subscribe, gatewayVars
<1>2. t # NoTopic
  BY SameAssumptions DEF FP!HubAssumption
<1>3. \A x \in Subs : UNCHANGED <<File!WaitingIds(x), Coming(x)>>
  BY <1>1 DEF File!WaitingIds, File!InOffer, Coming
<1>4. PipeTypeOK /\ DOMAIN topic = Subs
  BY DEF PipeInv, FP!IInv, FP!TypeOK, FP!HubTypeOK
<1>5. PipeTypeOK'
  BY <1>1, <1>4 DEF PipeTypeOK
<1>6. PostsInOrder'
  BY <1>1 DEF PipeInv, PostsInOrder
<1>7. \A x \in Subs : x # s => UNCHANGED <<topic[x], opened[x], follows[x]>>
  BY <1>1, <1>4 DEF PipeTypeOK
<1>8. topic'[s] = t /\ opened'[s] = accounted /\ follows'[s] = t
  BY <1>1, <1>4 DEF PipeTypeOK
<1>9. SubscribedOnce'
  <2> SUFFICES ASSUME NEW x \in Subs
               PROVE  /\ topic'[x] # NoTopic => follows'[x] = topic'[x]
                      /\ topic'[x] = NoTopic /\ x \notin closed' => Coming(x)' = {} /\ last'[x] = 0
    BY DEF SubscribedOnce
  <2>1. CASE x = s
    BY <1>2, <1>8, <2>1
  <2>2. CASE x # s
    BY <1>1, <1>3, <1>7, <2>2 DEF PipeInv, SubscribedOnce
  <2> QED
    BY <2>1, <2>2
<1>10. ASSUME NEW x \in Subs, x # s
       PROVE  /\ Wanted(x)' = Wanted(x)
              /\ \A k : Served(x, k)' <=> Served(x, k)
  BY <1>1, <1>3, <1>7, <1>10 DEF Wanted, Served
<1>11. ASSUME NEW k \in Wanted(s)'
       PROVE  /\ ~(k <= accounted')
              /\ \A n \in File!WaitingIds(s)' \cup {last'[s]} : n = 0
  <2>1. k \in Events /\ k > accounted
    BY <1>8 DEF Wanted
  <2>2. MaxEvents \in Nat
    BY SameAssumptions DEF GP!GatewayAssumption
  <2>3. ~(k <= accounted')
    BY <1>1, <2>1, <2>2 DEF Events
  <2>4. Coming(s) = {} /\ last[s] = 0
    BY <1>1 DEF PipeInv, SubscribedOnce
  <2> QED
    BY <1>1, <1>3, <2>3, <2>4 DEF Coming
<1>12. ReadersServed'
  <2> SUFFICES ASSUME NEW x \in Subs, NEW k \in Wanted(x)'
               PROVE  /\ topic'[x] # NoTopic /\ k <= accounted' => Served(x, k)'
                      /\ \A n \in File!WaitingIds(x)' \cup {last'[x]} :
                           n # 0 => \A e \in covers'[n] : k <= e => Served(x, k)'
    BY DEF ReadersServed
  <2>1. CASE x = s
    BY <1>11, <2>1
  <2>2. CASE x # s
    BY <1>1, <1>3, <1>7, <1>10, <2>2 DEF PipeInv, ReadersServed
  <2> QED
    BY <2>1, <2>2
<1>13. LostForGood'
  BY <1>1, <1>3, TellKeepsLosses DEF PipeInv
<1> QED
  BY <1>5, <1>6, <1>9, <1>12, <1>13 DEF PipeInv

\* A GAP record tells of everything that was lost so far.
LEMMA GapKeepsInv ==
  ASSUME PipeInv, FP!IInv, NEW r \in Calls, ReadGapRecord(r)
  PROVE  PipeInv'
<1>1. PICK s \in Subs : s = at[r]
  <2>1. FP!ReadGap(r)
    BY SameFile DEF ReadGapRecord
  <2> QED
    BY <2>1 DEF FP!ReadGap, FP!IInv, FP!TypeOK, FP!LockDiscipline
<1>2. /\ missed' = [missed EXCEPT ![s] = {}]
      /\ UNCHANGED <<topic, closed, queue, posted, offer, last>>
      /\ UNCHANGED <<accounted, channel, covers, opened, follows>>
      /\ known' = [known EXCEPT ![s] = @ \cup UNION {covers[n] : n \in missed[s]}]
  BY <1>1 DEF ReadGapRecord, Told, File!ReadGap, File!TakeDropped, gatewayVars
<1>3. /\ PipeTypeOK /\ PostsInOrder /\ missed \in [Subs -> SUBSET Nat] /\ posted \in Nat
      /\ known \in [Subs -> SUBSET Nat] /\ covers \in Seq(SUBSET Nat) /\ Len(covers) = posted
  BY DEF PipeInv, PipeTypeOK, PostsInOrder, FP!IInv, FP!TypeOK, FP!HubTypeOK
<1>4. \A n \in missed[s] : covers[n] \in SUBSET Nat
  <2>1. \A n \in missed[s] : n \in 1..posted
    BY <1>3, ComingNumbers DEF PipeInv, Coming
  <2> QED
    BY <1>3, <2>1
<1>5. known' \in [Subs -> SUBSET Nat]
  <2>1. UNION {covers[n] : n \in missed[s]} \in SUBSET Nat
    BY <1>4
  <2> QED
    BY <1>2, <1>3, <2>1
<1>6. PipeTypeOK' /\ PostsInOrder'
  BY <1>2, <1>3, <1>5 DEF PipeTypeOK, PostsInOrder
<1>7. ASSUME NEW x \in Subs
      PROVE  /\ known[x] \subseteq known'[x]
             /\ \A m \in Coming(x) : m \in Coming(x)' \/ covers[m] \subseteq known'[x]
             /\ File!WaitingIds(x)' = File!WaitingIds(x)
             /\ x # s => Coming(x)' = Coming(x)
             /\ Coming(x)' \subseteq Coming(x)
             /\ missed'[x] \subseteq missed[x]
  <2>1. File!WaitingIds(x)' = File!WaitingIds(x)
    BY <1>2 DEF File!WaitingIds, File!InOffer
  <2>2. CASE x = s
    <3>1. missed'[x] = {} /\ known'[x] = known[x] \cup UNION {covers[n] : n \in missed[x]}
      BY <1>2, <1>3, <2>2
    <3> QED
      BY <2>1, <2>2, <3>1 DEF Coming
  <2>3. CASE x # s
    <3>1. missed'[x] = missed[x] /\ known'[x] = known[x]
      BY <1>2, <1>3, <2>3
    <3> QED
      BY <2>1, <2>3, <3>1 DEF Coming
  <2> QED
    BY <2>2, <2>3
<1>8. ReadersServed'
  BY <1>2, <1>7, TellKeepsServed DEF PipeInv
<1>9. SubscribedOnce'
  BY <1>2, <1>7 DEF PipeInv, SubscribedOnce
<1>10. LostForGood'
  BY <1>2, <1>7, TellKeepsLosses DEF PipeInv
<1> QED
  BY <1>6, <1>8, <1>9, <1>10 DEF PipeInv

\* An event record tells of the one post that it takes from the channel.
LEMMA EventKeepsInv ==
  ASSUME PipeInv, FP!IInv, NEW r \in Calls, ReadEventRecord(r)
  PROVE  PipeInv'
<1>1. FP!ReadEvent(r)
  BY SameFile DEF ReadEventRecord
<1>2. PICK s \in Subs : s = at[r]
  BY <1>1 DEF FP!ReadEvent, FP!IInv, FP!TypeOK, FP!LockDiscipline
<1>3. FP!Feed!Deliver(s)
  BY <1>1, <1>2, SameAssumptions, FP!ReceiveDelivers
<1>4. PICK n \in [x \in Subs |-> FP!WaitingIds(x)][s] :
        /\ [x \in Subs |-> FP!WaitingIds(x)]' =
             [[x \in Subs |-> FP!WaitingIds(x)] EXCEPT ![s] = @ \ {n}]
        /\ last' = [last EXCEPT ![s] = n]
        /\ UNCHANGED <<topic, posted, missed>>
  BY <1>2, <1>3 DEF FP!Feed!Deliver
<1>5. last \in [Subs -> Nat] /\ covers \in Seq(SUBSET Nat) /\ Len(covers) = posted
      /\ known \in [Subs -> SUBSET Nat]
  BY DEF PipeInv, PipeTypeOK, PostsInOrder, FP!IInv, FP!TypeOK
<1>6. Head(queue[s]) = n
  <2>1. last' = [last EXCEPT ![s] = Head(queue[s])]
    BY <1>1, <1>2 DEF FP!ReadEvent
  <2> QED
    BY <1>4, <1>5, <2>1
<1>7. /\ UNCHANGED <<closed, accounted, channel, covers, opened, follows>>
      /\ known' = [known EXCEPT ![s] = @ \cup UNION {covers[m] : m \in {n}}]
  BY <1>1, <1>2, <1>6 DEF ReadEventRecord, Told, FP!ReadEvent, FP!Receive, gatewayVars
<1>8. n \in File!WaitingIds(s)
  BY <1>4, SameWaiting
<1>9. ASSUME NEW x \in Subs
      PROVE  File!WaitingIds(x)' = IF x = s THEN File!WaitingIds(x) \ {n} ELSE File!WaitingIds(x)
  <2>1. [y \in Subs |-> FP!WaitingIds(y)]'[x]
          = IF x = s THEN [y \in Subs |-> FP!WaitingIds(y)][x] \ {n}
                     ELSE [y \in Subs |-> FP!WaitingIds(y)][x]
    BY <1>4
  <2> QED
    BY <2>1, SameWaiting
<1>10. n \in Nat /\ n \in 1..posted
  BY <1>8, ComingNumbers DEF PipeInv, Coming
<1>11. covers[n] \in SUBSET Nat /\ UNION {covers[m] : m \in {n}} = covers[n]
  BY <1>5, <1>10
<1>12. PipeTypeOK' /\ PostsInOrder'
  <2>1. known' \in [Subs -> SUBSET Nat]
    BY <1>5, <1>7, <1>11
  <2> QED
    BY <1>4, <1>7, <2>1 DEF PipeInv, PipeTypeOK, PostsInOrder
<1>13. ASSUME NEW x \in Subs
       PROVE  /\ known[x] \subseteq known'[x]
              /\ \A m \in Coming(x) : m \in Coming(x)' \/ covers[m] \subseteq known'[x]
              /\ File!WaitingIds(x)' \cup {last'[x]} \subseteq File!WaitingIds(x) \cup {last[x]}
              /\ x # s => Coming(x)' = Coming(x) /\ last'[x] = last[x]
  <2>1. CASE x = s
    <3>1. last'[x] = n /\ known'[x] = known[x] \cup covers[n]
      BY <1>4, <1>5, <1>7, <1>11, <2>1
    <3> QED
      BY <1>4, <1>8, <1>9, <1>10, <2>1, <3>1 DEF Coming
  <2>2. CASE x # s
    <3>1. last'[x] = last[x] /\ known'[x] = known[x]
      BY <1>4, <1>5, <1>7, <2>2
    <3> QED
      BY <1>4, <1>9, <2>2, <3>1 DEF Coming
  <2> QED
    BY <2>1, <2>2
<1>14. ReadersServed'
  BY <1>4, <1>7, <1>13, TellKeepsServed DEF PipeInv
<1>15. Coming(s) # {}
  BY <1>8 DEF Coming
<1>16. SubscribedOnce'
  BY <1>4, <1>7, <1>13, <1>15, TellKeepsSubscriptions DEF PipeInv, SubscribedOnce
<1>17. LostForGood'
  BY <1>4, <1>13, TellKeepsLosses DEF PipeInv
<1> QED
  BY <1>12, <1>14, <1>16, <1>17 DEF PipeInv

\* A message event is posted to the readers of its conversation and the inbox.
LEMMA HandOnEventKeepsInv ==
  ASSUME PipeInv, FP!IInv, GP!IInv, GP!OnlyWhatHappened, HandOnEvent
  PROVE  PipeInv'
<1>1. PICK e : e = Head(inbox).event
  OBVIOUS
<1>2. /\ e \in Events /\ accounted \in Nat /\ e = accounted + 1 /\ accounted' = accounted + 1
  BY <1>1, SameReads, NextEvent DEF HandOnEvent
<1>3. /\ FP!Publish(channel[e]) /\ covers' = Append(covers, {e})
      /\ UNCHANGED <<FP!fileVars, channel, opened, follows, known>>
  BY <1>1, SameHub DEF HandOnEvent, fileVars, FP!fileVars
<1>4. PICK S \in SUBSET Subs : S = {s \in Subs : topic[s] \in {channel[e], Global}}
  OBVIOUS
<1>5. FP!Begin(S) /\ UNCHANGED <<topic, closed>>
  BY <1>3, <1>4 DEF FP!Publish, FP!Audience, FP!Begin
<1>6. FP!Feed!PostTo(S)
  BY <1>3, <1>5, SameAssumptions, FP!BeginPosts
<1>7. /\ PipeTypeOK /\ PostsInOrder /\ ReadersServed /\ SubscribedOnce /\ LostForGood
      /\ posted \in Nat
      /\ channel[e] \in Channels
  BY <1>2, ComingNumbers DEF PipeInv, PipeTypeOK
<1>8. \A s \in S : topic[s] # NoTopic
  BY <1>4, <1>7, SameAssumptions DEF FP!HubAssumption
<1>9. PICK C \in SUBSET Nat : C = {e} /\ C \in SUBSET ((accounted + 1)..accounted')
  <2>1. e \in Nat /\ e \in (accounted + 1)..accounted'
    BY <1>2
  <2> QED
    BY <2>1
<1>10. posted' = posted + 1 /\ accounted' \in Nat /\ accounted <= accounted'
  BY <1>2, <1>6, PostComes
<1>11. /\ covers' \in Seq(SUBSET Nat) /\ \A n \in 1..posted : covers'[n] = covers[n]
       /\ covers'[posted + 1] = C /\ PostsInOrder'
  BY <1>2, <1>3, <1>7, <1>9, <1>10, PostKeepsOrder
<1>12. PipeTypeOK'
  BY <1>3, <1>7, <1>11 DEF PipeTypeOK
<1>13. ASSUME NEW s \in Subs, NEW k \in Wanted(s), topic[s] # NoTopic, accounted < k,
              k <= accounted'
       PROVE  s \in S /\ k \in C
  <2>1. k \in Nat
    <3>1. MaxEvents \in Nat
      BY SameAssumptions DEF GP!GatewayAssumption
    <3> QED
      BY <3>1 DEF Wanted, Events
  <2>2. k = e
    BY <1>2, <1>13, <2>1
  <2>3. follows[s] = topic[s] /\ follows[s] \in {channel[e], Global}
    BY <1>7, <1>13, <2>2 DEF SubscribedOnce, Wanted
  <2> QED
    BY <1>4, <1>9, <2>2, <2>3
<1>14. ReadersServed'
  <2>1. UNCHANGED <<channel, opened, follows, known>>
    BY <1>3
  <2> QED
    BY <2>1, <1>2, <1>6, <1>7, <1>8, <1>10, <1>11, <1>12, <1>13, PostKeepsServed
<1>15. SubscribedOnce' /\ LostForGood'
  BY <1>3, <1>5, <1>6, <1>7, <1>8, PostKeepsSubscriptions
<1> QED
  BY <1>11, <1>12, <1>14, <1>15 DEF PipeInv

(***************************************************************************)
(* READY: with a gap to report, the GAP stands for everything since the    *)
(* last event and goes to every reader; without one this is the first      *)
(* session, and nothing before it was promised.                            *)
(***************************************************************************)
LEMMA HandOnReadyKeepsInv ==
  ASSUME PipeInv, FP!IInv, FP!IInv', GP!IInv, GP!OnlyWhatHappened, HandOnReady
  PROVE  PipeInv'
<1>1. /\ inbox # <<>> /\ Head(inbox).op = "READY"
      /\ accounted' = IF gapPending \/ ~joined THEN Head(inbox).base ELSE accounted
      /\ GP!ReceiveReady
  BY SameReads DEF HandOnReady, GP!ReceiveReady, GP!Receives, GP!ReportsGap
<1>2. PICK b \in Nat : b = Head(inbox).base /\ accounted \in Nat /\ accounted <= b
  <2>1. inbox \in Seq(GP!Payload) /\ accounted \in Nat
    BY DEF GP!IInv, GP!TypeOK
  <2>2. Head(inbox) = inbox[1] /\ 1 \in 1..Len(inbox) /\ Head(inbox) \in GP!Payload
    BY <1>1, <2>1
  <2>3. Head(inbox).base \in Nat
    BY <1>1, <2>2, SameAssumptions, GP!PayloadFields
  <2>4. accounted <= Head(inbox).base
    BY <1>1, <2>2 DEF GP!OnlyWhatHappened
  <2> QED
    BY <2>1, <2>3, <2>4
<1>3. gapPending \/ ~joined
  <2>1. sessionID = NoSession
    BY <1>1, SameAssumptions, GP!NextDispatch
  <2> QED
    BY <2>1, Zenon DEF GP!IInv, GP!GapIsOwed
<1>4. accounted' = b
  BY <1>1, <1>2, <1>3
<1>5. /\ UNCHANGED <<FP!fileVars, channel, follows, known>>
      /\ opened' = IF joined THEN opened ELSE [s \in Subs |-> b]
  BY <1>2 DEF HandOnReady, fileVars, FP!fileVars
<1>6. /\ PipeTypeOK /\ PostsInOrder /\ ReadersServed /\ SubscribedOnce /\ LostForGood
      /\ posted \in Nat /\ opened \in [Subs -> Nat]
  BY ComingNumbers DEF PipeInv, PipeTypeOK
<1>7. opened' \in [Subs -> Nat]
  BY <1>5, <1>6
<1>8. CASE gapPending
  <2>1. PICK C \in SUBSET Nat : C = (accounted + 1)..b
    <3>1. (accounted + 1)..b \in SUBSET Nat
      BY <1>2
    <3> QED
      BY <3>1
  <2>2. FP!GapAll /\ covers' = Append(covers, C)
    BY <1>2, <1>8, <2>1, SameHub DEF HandOnReady, Gateway!ReportsGap
  <2>3. PICK S \in SUBSET Subs : S = {s \in Subs : topic[s] # NoTopic}
    OBVIOUS
  <2>4. FP!Begin(S) /\ UNCHANGED <<topic, closed>>
    BY <2>2, <2>3 DEF FP!GapAll, FP!Registered, FP!Begin
  <2>5. FP!Feed!PostTo(S)
    BY <1>5, <2>4, SameAssumptions, FP!BeginPosts
  <2>6. posted' = posted + 1 /\ accounted' \in Nat /\ accounted <= accounted'
        /\ C \in SUBSET ((accounted + 1)..accounted')
    BY <1>2, <1>4, <2>1, <2>5, PostComes
  <2>7. /\ covers' \in Seq(SUBSET Nat) /\ \A n \in 1..posted : covers'[n] = covers[n]
        /\ covers'[posted + 1] = C /\ PostsInOrder'
    BY <1>2, <1>6, <2>2, <2>6, PostKeepsOrder
  <2>8. PipeTypeOK'
    BY <1>5, <1>6, <1>7, <2>7 DEF PipeTypeOK
  <2>9. SubscribedOnce' /\ LostForGood'
    <3>1. \A s \in S : topic[s] # NoTopic
      BY <2>3
    <3>2. UNCHANGED <<closed, follows>>
      BY <1>5, <2>4
    <3> QED
      BY <1>6, <2>5, <3>1, <3>2, PostKeepsSubscriptions
  <2>10. ReadersServed'
    <3>1. CASE joined
      <4>1. UNCHANGED <<channel, opened, follows, known>> /\ \A s \in S : topic[s] # NoTopic
        BY <1>5, <2>3, <3>1
      <4>2. ASSUME NEW s \in Subs, NEW k \in Wanted(s), topic[s] # NoTopic, accounted < k,
                   k <= accounted'
            PROVE  s \in S /\ k \in C
        <5>1. k \in Nat
          <6>1. MaxEvents \in Nat
            BY SameAssumptions DEF GP!GatewayAssumption
          <6> QED
            BY <6>1 DEF Wanted, Events
        <5>2. k \in (accounted + 1)..b
          BY <1>2, <1>4, <4>2, <5>1
        <5> QED
          BY <2>1, <2>3, <4>2, <5>2
      <4>3. \A s \in Subs : \A k \in Wanted(s) :
              topic[s] # NoTopic /\ accounted < k /\ k <= accounted' => s \in S /\ k \in C
        BY <4>2
      <4> QED
        BY <1>2, <1>6, <2>5, <2>6, <2>7, <2>8, <4>1, <4>3, PostKeepsServed, SMTT(30)
    <3>2. CASE ~joined
      <4>1. \A s \in Subs : opened'[s] = accounted'
        BY <1>4, <1>5, <3>2
      <4>2. (/\ PipeTypeOK /\ FP!IInv /\ LostForGood /\ PostsInOrder /\ accounted \in Nat
             /\ \A s \in Subs : opened[s] = accounted)'
        BY <2>6, <2>7, <2>8, <2>9, <4>1
      <4> QED
        BY <4>2, NothingWantedYet, PTL
    <3> QED
      BY <3>1, <3>2
  <2> QED
    BY <2>7, <2>8, <2>9, <2>10 DEF PipeInv
<1>9. CASE ~gapPending
  <2>1. UNCHANGED <<hubVars, fileVars, covers>> /\ ~joined
    BY <1>3, <1>9 DEF HandOnReady, Gateway!ReportsGap
  <2>2. UNCHANGED <<topic, closed, queue, offer, missed, last, posted>>
    BY <2>1 DEF hubVars, fileVars
  <2>3. PipeTypeOK'
    BY <1>5, <1>6, <1>7, <2>1 DEF PipeTypeOK
  <2>4. PostsInOrder'
    <3>1. \A n \in 1..posted : covers[n] \in SUBSET Nat
      BY <1>6 DEF PipeTypeOK, PostsInOrder
    <3>2. UNCHANGED <<covers, posted>>
      BY <2>1, <2>2
    <3>3. ASSUME NEW n \in 1..posted, NEW e \in covers[n] PROVE e <= accounted'
      <4>1. e \in Nat /\ e <= accounted
        BY <1>6, <3>1, <3>3 DEF PostsInOrder
      <4> QED
        BY <1>2, <1>4, <4>1
    <3> QED
      BY <1>6, <3>2, <3>3 DEF PostsInOrder
  <2>5. \A s \in Subs : UNCHANGED <<File!WaitingIds(s), Coming(s)>>
    BY <2>2 DEF File!WaitingIds, File!InOffer, Coming
  <2>6. SubscribedOnce' /\ LostForGood'
    BY <1>5, <1>6, <2>2, <2>5, TellKeepsLosses DEF SubscribedOnce
  <2>7. ReadersServed'
    <3>1. \A s \in Subs : opened'[s] = accounted'
      BY <1>4, <1>5, <2>1
    <3>2. (/\ PipeTypeOK /\ FP!IInv /\ LostForGood /\ PostsInOrder /\ accounted \in Nat
           /\ \A s \in Subs : opened[s] = accounted)'
      BY <1>2, <1>4, <2>3, <2>4, <2>6, <3>1
    <3> QED
      BY <3>2, NothingWantedYet, PTL
  <2> QED
    BY <2>3, <2>4, <2>6, <2>7 DEF PipeInv
<1> QED
  BY <1>8, <1>9

\* What the gateway does without the hub, and the hub without a reader.
LEMMA OtherStepsKeepInv ==
  ASSUME PipeInv, FP!IInv, ClientOnly \/ ServerOnly \/ FileOnly \/ UNCHANGED vars
  PROVE  PipeInv'
<1>1. CASE ClientOnly \/ ServerOnly
  <2>1. UNCHANGED <<hubVars, fileVars, pipeVars, accounted>>
    BY <1>1, SameGateway DEF ClientOnly, ServerOnly
  <2> QED
    BY <2>1, QuietKeepsInv DEF hubVars, fileVars
<1>2. CASE UNCHANGED vars
  BY <1>2, QuietKeepsInv DEF vars, gatewayVars, hubVars, fileVars
<1>3. CASE FileOnly
  <2>1. UNCHANGED <<pipeVars, accounted>>
    BY <1>3 DEF FileOnly, gatewayVars
  <2>2. ASSUME NEW s \in Subs, File!CloseUnsubscribe(s)
        PROVE  PipeInv'
    <3>1. UNCHANGED <<posted, queue, offer, missed, last>> /\ File!Unsubscribe(s) /\ topic[s] # NoTopic
      BY <2>2 DEF File!CloseUnsubscribe, File!Unsubscribe, File!fileVars
    <3> QED
      BY <2>1, <3>1, QuietKeepsInv
  <2>3. ASSUME \/ \E s \in Subs : File!CloseForget(s)
               \/ \E r \in Calls :
                    \/ \E s \in Subs : File!ReadBegin(r, s)
                    \/ File!ReadLock(r) \/ File!ReadPending(r) \/ File!ReadNoGap(r)
                    \/ File!ReadEOF(r)
        PROVE  PipeInv'
    <3>1. UNCHANGED <<posted, queue, offer, missed, last, topic, closed>>
      BY <2>3 DEF File!CloseForget, File!ReadBegin, File!ReadLock, File!ReadPending,
                  File!ReadNoGap, File!ReadEOF, File!hubVars
    <3> QED
      BY <2>1, <3>1, QuietKeepsInv
  <2> QED
    BY <1>3, <2>2, <2>3 DEF FileOnly
<1> QED
  BY <1>1, <1>2, <1>3

(***************************************************************************)
(* The inductive invariant of the whole way from the server to a reader.   *)
(***************************************************************************)
THEOREM PipeInvariance == Spec => []PipeInv
<1>1. Init => PipeInv
  <2> SUFFICES ASSUME Init PROVE PipeInv
    OBVIOUS
  <2>1. FP!Init /\ GP!Init
    BY SameInit DEF Init
  <2>2. /\ posted = 0 /\ accounted = 0 /\ covers = <<>>
        /\ \A s \in Subs : /\ topic[s] = NoTopic /\ queue[s] = <<>> /\ missed[s] = {}
                           /\ last[s] = 0 /\ offer[s] = "none"
    BY <2>1 DEF Init, FP!Init, FP!HubInit, FP!FileInit, GP!Init
  <2>3. \A s \in Subs : File!WaitingIds(s) = {} /\ Coming(s) = {}
    BY <2>2 DEF File!WaitingIds, File!InOffer, Coming
  <2>4. PipeTypeOK
    BY DEF Init, PipeTypeOK
  <2>5. PostsInOrder
    BY <2>2 DEF PostsInOrder
  <2>6. SubscribedOnce
    BY <2>2, <2>3 DEF SubscribedOnce
  <2>7. ReadersServed
    BY <2>2, <2>3 DEF ReadersServed
  <2>8. LostForGood
    BY <2>2 DEF LostForGood
  <2> QED
    BY <2>4, <2>5, <2>6, <2>7, <2>8 DEF PipeInv
<1>2. PipeInv /\ FP!IInv /\ FP!IInv' /\ GP!IInv /\ GP!OnlyWhatHappened /\ [Next]_vars => PipeInv'
  <2> SUFFICES ASSUME PipeInv, FP!IInv, FP!IInv', GP!IInv, GP!OnlyWhatHappened, [Next]_vars
               PROVE  PipeInv'
    OBVIOUS
  <2>1. accounted \in Nat
    BY DEF GP!IInv, GP!TypeOK
  <2> QED
    BY <2>1, HandOnEventKeepsInv, HandOnReadyKeepsInv, OfferKeepsInv, OpenKeepsInv, GapKeepsInv,
       EventKeepsInv, OtherStepsKeepInv DEF Next
<1> QED
  BY <1>1, <1>2, SessionInvariance, FileInvariance, PTL DEF Spec

(***************************************************************************)
(* No reader of an events file or of the inbox loses an event silently,    *)
(* whatever sessions, connections, channels and GAP marks are lost between *)
(* the server and it: older than what it reads is only what it was told    *)
(* of, or the loss that Overtaken allows (gateway.go, hub.go and files.go  *)
(* together).                                                              *)
(***************************************************************************)
THEOREM NoneLostEndToEnd == Spec => []NoSilentLossEndToEnd
<1>1. PipeInv /\ FP!IInv => NoSilentLossEndToEnd
  <2> SUFFICES ASSUME PipeInv, FP!IInv, NEW s \in Subs, last[s] > 0,
                      NEW e \in covers[last[s]], NEW k \in Wanted(s), k <= e
               PROVE  k \in known[s] \/ \E d \in File!Overtaken(s) : k \in covers[d]
    BY DEF NoSilentLossEndToEnd
  <2>1. last[s] \in Nat /\ last[s] \in 1..posted /\ posted \in Nat
    BY ComingNumbers DEF PipeInv
  <2>2. Served(s, k)
    BY <2>1 DEF PipeInv, ReadersServed
  <2>3. ASSUME NEW m \in Coming(s), k \in covers[m]
        PROVE  m \in File!Overtaken(s)
    <3>1. m \in 1..posted
      BY ComingNumbers DEF PipeInv
    <3>2. ~(last[s] < m)
      <4> SUFFICES ASSUME last[s] < m PROVE FALSE
        OBVIOUS
      <4>1. e < k
        BY <2>1, <2>3, <3>1 DEF PipeInv, PostsInOrder
      <4>2. covers[m] \in SUBSET Nat /\ covers[last[s]] \in SUBSET Nat
        <5>1. covers \in Seq(SUBSET Nat) /\ Len(covers) = posted
          BY DEF PipeInv, PipeTypeOK, PostsInOrder
        <5> QED
          BY <2>1, <3>1, <5>1
      <4>3. e \in Nat /\ k \in Nat
        BY <2>3, <4>2
      <4> QED
        BY <4>1, <4>3
    <3>3. m \in missed[s]
      BY <3>2, ComingNumbers DEF PipeInv, Coming
    <3>4. m # last[s]
      BY <3>3 DEF PipeInv, LostForGood
    <3> QED
      BY <2>1, <3>1, <3>2, <3>3, <3>4 DEF File!Overtaken
  <2> QED
    BY <2>2, <2>3 DEF Served
<1> QED
  BY <1>1, PipeInvariance, FileInvariance, PTL

(***************************************************************************)
(* Behind the gateway, too, the hub and its files keep the promise of the  *)
(* abstract feed to every reader.                                          *)
(***************************************************************************)
THEOREM FeedInPipeline == Spec => FP!IsOrderedFeed
<1>1. FP!Spec => FP!IsOrderedFeed
  BY SameAssumptions, FP!FeedImplemented, Zenon
<1> QED
  BY <1>1, FilesInPipeline, PTL
=============================================================================
