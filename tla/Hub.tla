-------------------------------- MODULE Hub --------------------------------
(***************************************************************************)
(* The event hub of internal/core/hub.go: it copies every gateway event    *)
(* into the bounded Go channel of each subscription that asked for it and  *)
(* counts, per subscription, the events that found the channel full.       *)
(*                                                                         *)
(* The module holds the hub's state and its steps; LiveFile and Pipeline   *)
(* compose them into next-state relations.  Publish and GapAll hold Hub.mu *)
(* from beginning to end, which keeps other methods of the hub out, but    *)
(* not the readers: receiving from a subscription's channel and swapping   *)
(* its dropped counter need no lock.  So one publish is many steps: for    *)
(* each subscription a send, or a send that finds the channel full, then   *)
(* the count of the loss, then the callback.                               *)
(***************************************************************************)
EXTENDS Integers, Sequences, FiniteSets

CONSTANTS
  Subs,              \* the Subscription values, each used by one Open only
  Channels,          \* conversation channel IDs (never the empty string)
  Global,            \* the topic of SubscribeAll, the key of Hub.global
  NoTopic,           \* not in any of the hub's maps
  SubscriberBuffer,  \* subscriberBuffer, 1024 in the code
  MaxPosted          \* bound: calls of Publish and GapAll in one behaviour

ASSUME HubAssumption ==
  /\ Global \notin Channels
  /\ NoTopic \notin Channels \cup {Global}
  /\ IsFiniteSet(Subs)
  /\ SubscriberBuffer \in Nat \ {0}
  /\ MaxPosted \in Nat

VARIABLES
  topic,      \* [Subs -> topic]: byChannel and global read backwards
  closed,     \* subscriptions whose Go channel has been closed
  queue,      \* the Go channel of each subscription: numbers of events
  dropped,    \* Subscription.dropped
  overflows,  \* Status.QueueOverflows, bumped by the onOverflow callback
  posted,     \* number of events the hub was given: numbers them
  offer,      \* [Subs -> how far event number posted has come with each]
  missed      \* history: the losses counted and not yet told to the reader

hubVars == <<topic, closed, queue, dropped, overflows, posted, offer, missed>>

Topics == Channels \cup {Global}

(***************************************************************************)
(* What h.publish still has to do for a subscription: nothing, all of it,  *)
(* the two statements of the default branch, or the second of them.        *)
(***************************************************************************)
Offers == {"none", "due", "full", "counted"}

HubTypeOK ==
  /\ topic \in [Subs -> Topics \cup {NoTopic}]
  /\ closed \subseteq Subs
  /\ queue \in [Subs -> Seq(Nat)]
  /\ dropped \in [Subs -> Nat]
  /\ overflows \in Nat
  /\ posted \in Nat
  /\ offer \in [Subs -> Offers]
  /\ missed \in [Subs -> SUBSET Nat]

HubInit ==
  /\ topic = [s \in Subs |-> NoTopic]
  /\ closed = {}
  /\ queue = [s \in Subs |-> <<>>]
  /\ dropped = [s \in Subs |-> 0]
  /\ overflows = 0
  /\ posted = 0
  /\ offer = [s \in Subs |-> "none"]
  /\ missed = [s \in Subs |-> {}]

-----------------------------------------------------------------------------
Registered == {s \in Subs : topic[s] # NoTopic}

\* Publish's two range loops: the channel's subscribers, then the global ones.
Audience(c) == {s \in Subs : topic[s] \in {c, Global}}

Full(s) == Len(queue[s]) >= SubscriberBuffer

\* Hub.mu is held only while Publish or GapAll is on its way.
HubFree == \A s \in Subs : offer[s] = "none"

\* Publish or GapAll takes Hub.mu, with these subscriptions to go through.
Begin(audience) ==
  /\ posted < MaxPosted /\ HubFree
  /\ posted' = posted + 1
  /\ offer' = [s \in Subs |-> IF s \in audience THEN "due" ELSE "none"]
  /\ UNCHANGED <<topic, closed, queue, dropped, overflows, missed>>

\* Hub.Publish of an event with a channel ID; without one it returns at once.
Publish(c) == Begin(Audience(c))

\* Hub.GapAll: every subscription of either map gets one GAP event.
GapAll == Begin(Registered)

\* One at a time, in any order but for the global subscriptions, which are last.
Turn(s) ==
  /\ offer[s] = "due"
  /\ \A x \in Subs \ {s} : offer[x] \in {"none", "due"}
  /\ topic[s] = Global => \A x \in Subs : offer[x] = "due" => topic[x] = Global

\* The select of Hub.publish sends: the buffered channel has room.
Send(s) ==
  /\ Turn(s) /\ ~Full(s)
  /\ queue' = [queue EXCEPT ![s] = Append(@, posted)]
  /\ offer' = [offer EXCEPT ![s] = "none"]
  /\ UNCHANGED <<topic, closed, dropped, overflows, posted, missed>>

\* Mutant: a full channel loses its oldest event, and the newest takes its place.
FindFullEvicts(s) ==
  /\ Turn(s) /\ Full(s)
  /\ queue' = [queue EXCEPT ![s] = Append(Tail(@), posted)]
  /\ offer' = [offer EXCEPT ![s] = "full"]
  /\ UNCHANGED <<topic, closed, dropped, overflows, posted, missed>>

\* The select falls to its default branch: from here on the event is lost.
FindFull(s) ==
  /\ Turn(s) /\ Full(s)
  /\ offer' = [offer EXCEPT ![s] = "full"]
  /\ UNCHANGED <<topic, closed, queue, dropped, overflows, posted, missed>>

\* subscriber.dropped.Add(1), whatever became of the full channel meanwhile.
CountLoss(s) ==
  /\ offer[s] = "full"
  /\ dropped' = [dropped EXCEPT ![s] = @ + 1]
  /\ missed' = [missed EXCEPT ![s] = @ \cup {posted}]
  /\ offer' = [offer EXCEPT ![s] = "counted"]
  /\ UNCHANGED <<topic, closed, queue, overflows, posted>>

\* h.onOverflow, which main.go sets to a method of Status.
NoteOverflow(s) ==
  /\ offer[s] = "counted"
  /\ overflows' = overflows + 1
  /\ offer' = [offer EXCEPT ![s] = "none"]
  /\ UNCHANGED <<topic, closed, queue, dropped, posted, missed>>

OfferStep(s) == Send(s) \/ FindFull(s) \/ CountLoss(s) \/ NoteOverflow(s)

-----------------------------------------------------------------------------
\* Hub.Subscribe and Hub.SubscribeAll, of a Subscription made on the spot.
Subscribe(s, t) ==
  /\ HubFree
  /\ topic[s] = NoTopic /\ s \notin closed
  /\ topic' = [topic EXCEPT ![s] = t]
  /\ UNCHANGED <<closed, queue, dropped, overflows, posted, offer, missed>>

\* Mutant: the subscription stays in the map after its channel is closed.
UnsubscribeKeepsEntry(s) ==
  /\ HubFree
  /\ closed' = IF topic[s] # NoTopic THEN closed \cup {s} ELSE closed
  /\ UNCHANGED <<topic, queue, dropped, overflows, posted, offer, missed>>

\* Mutant: the subscription leaves the map but nobody closes its channel.
UnsubscribeLeavesChannelOpen(s) ==
  /\ HubFree
  /\ topic' = [topic EXCEPT ![s] = NoTopic]
  /\ UNCHANGED <<closed, queue, dropped, overflows, posted, offer, missed>>

\* Hub.Unsubscribe and Hub.UnsubscribeAll: close only what the map still holds.
Unsubscribe(s) ==
  /\ HubFree
  /\ topic' = [topic EXCEPT ![s] = NoTopic]
  /\ closed' = IF topic[s] # NoTopic THEN closed \cup {s} ELSE closed
  /\ UNCHANGED <<queue, dropped, overflows, posted, offer, missed>>

-----------------------------------------------------------------------------
\* Subscription.TakeDropped: an atomic swap with zero.
TakeDropped(s) ==
  /\ dropped' = [dropped EXCEPT ![s] = 0]
  /\ missed' = [missed EXCEPT ![s] = {}]
  /\ UNCHANGED <<topic, closed, queue, overflows, posted, offer>>

\* event, ok := <-sub.C with ok: a closed channel still hands out its buffer.
Receive(s) ==
  /\ queue[s] # <<>>
  /\ queue' = [queue EXCEPT ![s] = Tail(@)]
  /\ UNCHANGED <<topic, closed, dropped, overflows, posted, offer, missed>>

\* event, ok := <-sub.C with ok = FALSE.
Drained(s) == s \in closed /\ queue[s] = <<>>

-----------------------------------------------------------------------------
(***************************************************************************)
(* A send on a closed Go channel panics, and so does closing one twice.    *)
(* Neither what the maps hold nor what a publish still goes through may be *)
(* closed (hub.go: Publish and GapAll against Unsubscribe).                *)
(***************************************************************************)
NoSendOnClosed == \A s \in closed : topic[s] = NoTopic /\ offer[s] = "none"

\* Go bounds a buffered channel; a send to a full one falls to the default.
BoundedQueues == \A s \in Subs : Len(queue[s]) <= SubscriberBuffer
=============================================================================
