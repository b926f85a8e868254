------------------------------ MODULE Pipeline ------------------------------
(***************************************************************************)
(* From the server to the reader of an events file: GatewaySession hands   *)
(* every dispatch to Store.ApplyGateway, which publishes the messages to   *)
(* the hub, and calls Hub.GapAll when a new session leaves a gap           *)
(* (cmd/9flx/main.go wires OnEvent and OnGap); LiveFile renders what the   *)
(* hub queues for each open file.                                          *)
(*                                                                         *)
(* The gateway goroutine runs the callbacks itself: the step that handles  *)
(* a payload begins the publish, and the goroutine handles nothing else    *)
(* before the publish has come to its end.  What READY changes after OnGap *)
(* only that goroutine can see.  Opens, reads and closes, the server and   *)
(* the network go on beside the publish.                                   *)
(***************************************************************************)
EXTENDS Integers, Sequences, FiniteSets

CONSTANTS
  NoSession, BackoffCap, MaxEvents, MaxFaults,            \* GatewaySession
  Subs, Channels, Global, NoTopic,                        \* Hub
  SubscriberBuffer, MaxPosted,
  Calls, NoCall, NoSub, RecordPieces                      \* LiveFile

VARIABLES
  phase, sessionID, sequence, gapPending, recent, readySince, backoff, connected,
  inbox, broken, request, session, started, log, attached, base,
  happened, faults, accounted, pauses, joined,
  topic, closed, queue, dropped, overflows, posted, offer, missed,
  readers, holder, pending, pc, at, last, reported,
  channel,   \* the conversation each event is about, fixed when it happens
  covers,    \* history: covers[n] is the set of events that post n stands for
  opened,    \* history: what was handed on when each subscription was opened
  follows,   \* history: the topic a subscription was opened for
  known      \* history: events whose record, or a gap's, a reader was given

Events == 1..MaxEvents

Gateway == INSTANCE GatewaySession

File == INSTANCE LiveFile

ASSUME PipelineAssumption ==
  Gateway!GatewayAssumption /\ File!HubAssumption /\ File!LiveFileAssumption

gatewayVars == <<phase, sessionID, sequence, gapPending, recent, readySince, backoff, connected,
                 inbox, broken, request, session, started, log, attached, base,
                 happened, faults, accounted, pauses, joined>>
hubVars == <<topic, closed, queue, dropped, overflows, posted, offer, missed>>
fileVars == <<readers, holder, pending, pc, at, last, reported>>
pipeVars == <<channel, covers, opened, follows, known>>
vars == <<gatewayVars, hubVars, fileVars, pipeVars>>

Init ==
  /\ Gateway!Init
  /\ File!Init
  /\ channel \in [Events -> Channels]
  /\ covers = <<>>
  /\ opened = [s \in Subs |-> 0]
  /\ follows = [s \in Subs |-> NoTopic]
  /\ known = [s \in Subs |-> {}]

-----------------------------------------------------------------------------
\* Store.ApplyGateway of a message event: the hub begins to publish it.
HandOnEvent ==
  /\ Gateway!ReceiveEvent
  /\ LET e == Head(inbox).event
     IN  /\ File!Publish(channel[e])
         /\ covers' = Append(covers, {e})
  /\ UNCHANGED <<fileVars, channel, opened, follows, known>>

\* Mutant: main.go leaves Gateway.OnGap unset.
HandOnReadyNoGap ==
  /\ File!HubFree
  /\ Gateway!ReceiveReady
  /\ opened' = IF joined THEN opened ELSE [s \in Subs |-> Head(inbox).base]
  /\ UNCHANGED <<hubVars, fileVars, channel, covers, follows, known>>

\* READY: OnGap first if a gap is pending; the READY event itself has no reader.
\* Nobody was promised what happened before the first READY of all.
HandOnReady ==
  /\ File!HubFree
  /\ Gateway!ReceiveReady
  /\ IF Gateway!ReportsGap
       THEN /\ File!GapAll
            /\ covers' = Append(covers, (accounted + 1)..Head(inbox).base)
       ELSE UNCHANGED <<hubVars, covers>>
  /\ opened' = IF joined THEN opened ELSE [s \in Subs |-> Head(inbox).base]
  /\ UNCHANGED <<fileVars, channel, follows, known>>

\* The other steps of the gateway goroutine, which no publish is part of.
ClientOnly ==
  /\ File!HubFree
  /\ \/ Gateway!DialSucceeds \/ Gateway!DialFails \/ Gateway!Retry
     \/ Gateway!ReceiveHello \/ Gateway!HelloWriteFails \/ Gateway!ReceiveResumed
     \/ Gateway!ReceiveReconnect \/ Gateway!ReceiveInvalid \/ Gateway!ReceiveClose4004
     \/ Gateway!ReadFails
  /\ UNCHANGED <<hubVars, fileVars, pipeVars>>

\* The server and the network, whatever the client is doing.
ServerOnly ==
  /\ \/ Gateway!Server \/ Gateway!EventHappens \/ Gateway!WindowExpires \/ Gateway!Faults
  /\ UNCHANGED <<hubVars, fileVars, pipeVars>>

\* The publish goes on: to the next subscription, or with the loss to it.
PublishGoesOn ==
  /\ \E s \in Subs : File!OfferStep(s)
  /\ UNCHANGED <<gatewayVars, fileVars, pipeVars>>

-----------------------------------------------------------------------------
\* The reader is given a record that stands for these posts.
Told(s, posts) ==
  known' = [known EXCEPT ![s] = @ \cup UNION {covers[n] : n \in posts}]

OpenFile(s, t) ==
  /\ File!Open(s, t)
  /\ opened' = [opened EXCEPT ![s] = accounted]
  /\ follows' = [follows EXCEPT ![s] = t]
  /\ UNCHANGED <<gatewayVars, channel, covers, known>>

ReadGapRecord(r) ==
  /\ File!ReadGap(r)
  /\ Told(at[r], missed[at[r]])
  /\ UNCHANGED <<gatewayVars, channel, covers, opened, follows>>

ReadEventRecord(r) ==
  /\ File!ReadEvent(r)
  /\ Told(at[r], {Head(queue[at[r]])})
  /\ UNCHANGED <<gatewayVars, channel, covers, opened, follows>>

FileOnly ==
  /\ \/ \E s \in Subs : File!CloseForget(s) \/ File!CloseUnsubscribe(s)
     \/ \E r \in Calls :
          \/ \E s \in Subs : File!ReadBegin(r, s)
          \/ File!ReadLock(r) \/ File!ReadPending(r) \/ File!ReadNoGap(r) \/ File!ReadEOF(r)
  /\ UNCHANGED <<gatewayVars, pipeVars>>

Next ==
  \/ HandOnEvent \/ HandOnReady \/ ClientOnly \/ ServerOnly \/ PublishGoesOn
  \/ \E s \in Subs, t \in Channels \cup {Global} : OpenFile(s, t)
  \/ \E r \in Calls : ReadGapRecord(r) \/ ReadEventRecord(r)
  \/ FileOnly

Spec == Init /\ [][Next]_vars

-----------------------------------------------------------------------------
\* Events of a subscription's conversations after its Open and the first READY.
Wanted(s) == {e \in Events : e > opened[s] /\ follows[s] \in {channel[e], Global}}

(***************************************************************************)
(* A reader that takes an event from its queue has been given a record of  *)
(* every earlier event of its conversation since it opened the file, or a  *)
(* GAP record in its place, perhaps ahead of events still queued, or gets  *)
(* the GAP record next, for the one loss that an event can overtake:       *)
(* whatever forgotten sessions, broken connections, full channels and lost *)
(* GAP marks came between (gateway.go, hub.go and files.go together).      *)
(***************************************************************************)
NoSilentLossEndToEnd ==
  \A s \in Subs :
    last[s] > 0 =>
      \A e \in covers[last[s]] : \A k \in Wanted(s) :
        k <= e => k \in known[s] \/ \E d \in File!Overtaken(s) : k \in covers[d]
-----------------------------------------------------------------------------
(***************************************************************************)
(* What, besides the invariants of the gateway session and of the live     *)
(* files, is inductive and keeps losses from being silent.                 *)
(***************************************************************************)
PipeTypeOK ==
  /\ channel \in [Events -> Channels]
  /\ covers \in Seq(SUBSET Nat)
  /\ opened \in [Subs -> Nat]
  /\ follows \in [Subs -> Channels \cup {Global, NoTopic}]
  /\ known \in [Subs -> SUBSET Nat]

\* Posts a reader will still be told of: they wait for it, are on offer to it,
\* or were lost to it.
Coming(s) == File!WaitingIds(s) \cup missed[s]

\* A reader was told of the event, or will be.
Served(s, k) == k \in known[s] \/ \E m \in Coming(s) : k \in covers[m]

\* The posts stand for the events in the order in which they happened.
PostsInOrder ==
  /\ Len(covers) = posted
  /\ \A n \in 1..posted : \A e \in covers[n] : e <= accounted
  /\ \A n, m \in 1..posted : n < m => \A d \in covers[n], e \in covers[m] : d < e

\* A subscription has only what was posted since its one Open, for its topic.
SubscribedOnce ==
  \A s \in Subs :
    /\ topic[s] # NoTopic => follows[s] = topic[s]
    /\ topic[s] = NoTopic /\ s \notin closed => Coming(s) = {} /\ last[s] = 0

\* A post that was lost to a reader waits for it no longer, and it has not read it.
LostForGood ==
  \A s \in Subs :
    /\ missed[s] \subseteq 1..posted
    /\ missed[s] \cap (File!WaitingIds(s) \cup {last[s]}) = {}

\* While a subscription lasts its reader is served all that was accounted for;
\* afterwards, all that is older than anything it has read or will read.
ReadersServed ==
  \A s \in Subs : \A k \in Wanted(s) :
    /\ topic[s] # NoTopic /\ k <= accounted => Served(s, k)
    /\ \A n \in File!WaitingIds(s) \cup {last[s]} :
         n # 0 => \A e \in covers[n] : k <= e => Served(s, k)

PipeInv ==
  /\ PipeTypeOK
  /\ PostsInOrder
  /\ SubscribedOnce
  /\ LostForGood
  /\ ReadersServed
=============================================================================
