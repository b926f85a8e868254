------------------------------ MODULE LiveFile ------------------------------
(***************************************************************************)
(* The events and inbox files (liveFile of internal/p9fs/files.go) over    *)
(* the event hub.  Opening one makes a subscription, a read blocks until   *)
(* the hub has something to say, and closing it ends the subscription and  *)
(* the reads that wait on it.                                              *)
(*                                                                         *)
(* Reads of one open file may run at the same time, on goroutines of their *)
(* own (Calls), while the gateway goroutine publishes and another closes   *)
(* the file.  A Read takes its liveReader from the map under liveFile.mu,  *)
(* then holds liveReader.mu until it returns, also while it waits for an   *)
(* event.                                                                  *)
(***************************************************************************)
EXTENDS Hub, Functions

CONSTANTS
  Calls,         \* goroutines that serve Tread requests
  NoCall,        \* nobody holds the mutex
  NoSub,         \* the call serves no file
  RecordPieces   \* in how many reads a client can at most fetch one record

ASSUME LiveFileAssumption ==
  /\ NoCall \notin Calls
  /\ NoSub \notin Subs
  /\ RecordPieces \in Nat \ {0}

VARIABLES
  readers,   \* subscriptions in liveFile.readers: open for new reads
  holder,    \* [Subs -> Calls]: who holds liveReader.mu
  pending,   \* [Subs -> Nat]: pieces of the rendered record not yet returned
  pc,        \* [Calls -> step of Read]
  at,        \* [Calls -> Subs]: the liveReader a call works on
  last,      \* history: newest event rendered for each subscription
  reported   \* history: sum of the counts in the GAP records rendered

fileVars == <<readers, holder, pending, pc, at, last, reported>>
vars == <<hubVars, fileVars>>

Steps == {"idle", "lock", "check", "receive"}

TypeOK ==
  /\ HubTypeOK
  /\ readers \subseteq Subs
  /\ holder \in [Subs -> Calls \cup {NoCall}]
  /\ pending \in [Subs -> 0..RecordPieces]
  /\ pc \in [Calls -> Steps]
  /\ at \in [Calls -> Subs \cup {NoSub}]
  /\ last \in [Subs -> Nat]
  /\ reported \in [Subs -> Nat]

FileInit ==
  /\ readers = {}
  /\ holder = [s \in Subs |-> NoCall]
  /\ pending = [s \in Subs |-> 0]
  /\ pc = [r \in Calls |-> "idle"]
  /\ at = [r \in Calls |-> NoSub]
  /\ last = [s \in Subs |-> 0]
  /\ reported = [s \in Subs |-> 0]

Init == HubInit /\ FileInit

-----------------------------------------------------------------------------
(***************************************************************************)
(* liveFile.Open: a subscription to the conversation's channel, or to      *)
(* everything for the inbox.  The client learns the fid is open only once  *)
(* Open has returned, so no read falls between its two map updates.        *)
(***************************************************************************)
Open(s, t) ==
  /\ Subscribe(s, t)
  /\ readers' = readers \cup {s}
  /\ UNCHANGED <<holder, pending, pc, at, last, reported>>

\* The first half of liveFile.Close: no later Read finds the reader.
CloseForget(s) ==
  /\ s \in readers
  /\ readers' = readers \ {s}
  /\ UNCHANGED <<hubVars, holder, pending, pc, at, last, reported>>

\* The second half, after liveFile.mu is released: end the subscription.
CloseUnsubscribe(s) ==
  /\ s \notin readers
  /\ topic[s] # NoTopic
  /\ Unsubscribe(s)
  /\ UNCHANGED fileVars

-----------------------------------------------------------------------------
Return(r) ==
  /\ holder' = [holder EXCEPT ![at[r]] = NoCall]
  /\ pc' = [pc EXCEPT ![r] = "idle"]
  /\ at' = [at EXCEPT ![r] = NoSub]

Goto(r, step) == pc' = [pc EXCEPT ![r] = step]

\* Read finds its liveReader; without one it fails and changes nothing.
ReadBegin(r, s) ==
  /\ pc[r] = "idle" /\ s \in readers
  /\ Goto(r, "lock")
  /\ at' = [at EXCEPT ![r] = s]
  /\ UNCHANGED <<hubVars, readers, holder, pending, last, reported>>

ReadLock(r) ==
  /\ pc[r] = "lock" /\ holder[at[r]] = NoCall
  /\ holder' = [holder EXCEPT ![at[r]] = r]
  /\ Goto(r, "check")
  /\ UNCHANGED <<hubVars, readers, pending, at, last, reported>>

\* Mutant: the count the client asks for is not cut to what is left.
ReadPendingOverruns(r) ==
  /\ pc[r] = "check" /\ pending[at[r]] > 0
  /\ \E n \in 1..RecordPieces : pending' = [pending EXCEPT ![at[r]] = @ - n]
  /\ Return(r)
  /\ UNCHANGED <<hubVars, readers, last, reported>>

\* Part or all of what is left of the rendered record is returned.
ReadPending(r) ==
  /\ pc[r] = "check"
  /\ \E n \in 1..pending[at[r]] : pending' = [pending EXCEPT ![at[r]] = @ - n]
  /\ Return(r)
  /\ UNCHANGED <<hubVars, readers, last, reported>>

\* Render one record: the next turn of the loop returns it.
Render(r) ==
  /\ pending' = [pending EXCEPT ![at[r]] = RecordPieces]
  /\ Goto(r, "check")

\* Mutant: the GAP record says that one event is missing, however many are.
ReadGapUncounted(r) ==
  /\ pc[r] = "check" /\ pending[at[r]] = 0 /\ dropped[at[r]] > 0
  /\ TakeDropped(at[r])
  /\ Render(r)
  /\ reported' = [reported EXCEPT ![at[r]] = @ + 1]
  /\ UNCHANGED <<readers, holder, at, last>>

\* dropped := TakeDropped() > 0: a GAP record with the count goes out first.
ReadGap(r) ==
  /\ pc[r] = "check" /\ pending[at[r]] = 0 /\ dropped[at[r]] > 0
  /\ TakeDropped(at[r])
  /\ Render(r)
  /\ reported' = [reported EXCEPT ![at[r]] = @ + dropped[at[r]]]
  /\ UNCHANGED <<readers, holder, at, last>>

\* Mutant: the loop looks for an event before it looks for losses.
ReadNoGapUnchecked(r) ==
  /\ pc[r] = "check" /\ pending[at[r]] = 0
  /\ Goto(r, "receive")
  /\ UNCHANGED <<hubVars, readers, holder, pending, at, last, reported>>

ReadNoGap(r) ==
  /\ pc[r] = "check" /\ pending[at[r]] = 0 /\ dropped[at[r]] = 0
  /\ Goto(r, "receive")
  /\ UNCHANGED <<hubVars, readers, holder, pending, at, last, reported>>

\* The receive of files.go:362 gets an event.
ReadEvent(r) ==
  /\ pc[r] = "receive"
  /\ Receive(at[r])
  /\ Render(r)
  /\ last' = [last EXCEPT ![at[r]] = Head(queue[at[r]])]
  /\ UNCHANGED <<readers, holder, at, reported>>

\* The receive finds the channel closed and empty: Read returns no bytes.
ReadEOF(r) ==
  /\ pc[r] = "receive" /\ Drained(at[r])
  /\ Return(r)
  /\ UNCHANGED <<hubVars, readers, pending, last, reported>>

ReadStep(r) ==
  \/ ReadLock(r) \/ ReadPending(r) \/ ReadGap(r) \/ ReadNoGap(r)
  \/ ReadEvent(r) \/ ReadEOF(r)

-----------------------------------------------------------------------------
HubStep ==
  \/ \E c \in Channels : Publish(c)
  \/ GapAll
  \/ \E s \in Subs : OfferStep(s)

Next ==
  \/ HubStep /\ UNCHANGED fileVars
  \/ \E s \in Subs :
       \/ \E t \in Topics : Open(s, t)
       \/ CloseForget(s)
       \/ CloseUnsubscribe(s)
  \/ \E r \in Calls :
       \/ \E s \in Subs : ReadBegin(r, s)
       \/ ReadStep(r)

Spec == Init /\ [][Next]_vars

(***************************************************************************)
(* Go runs every goroutine that can run: a Read that can take its next     *)
(* step takes it, a publish that has begun goes on, and the Close that has *)
(* forgotten a reader goes on to unsubscribe it.  That one needs Hub.mu,   *)
(* which is free now and then only, and sync.Mutex starves no waiter: its  *)
(* fairness is strong.  Nobody owes the hub events or the file an Open, a  *)
(* Read or a Close.                                                        *)
(***************************************************************************)
Fairness ==
  /\ \A r \in Calls : WF_vars(ReadStep(r))
  /\ \A s \in Subs : WF_vars(OfferStep(s) /\ UNCHANGED fileVars)
  /\ \A s \in Subs : SF_vars(CloseUnsubscribe(s))

FairSpec == Spec /\ Fairness

\* A client that reads a file it has open again and again, as cat does.
KeenClient == \A s \in Subs : WF_vars(\E r \in Calls : ReadBegin(r, s))

KeenSpec == FairSpec /\ KeenClient

-----------------------------------------------------------------------------
(***************************************************************************)
(* What liveFile.Read is written for: it looks at TakeDropped before each  *)
(* receive, so that the GAP record comes before any event newer than the   *)
(* loss.  The code does not keep it: a reader may drain the full channel   *)
(* and find its counter at zero between the two halves of Hub.publish's    *)
(* default, the select (hub.go:93) and the count (hub.go:94); the next     *)
(* event then overtakes the loss.                                          *)
(***************************************************************************)
GapBeforeNewer == \A s \in Subs : \A d \in missed[s] : last[s] < d

\* Losses older than the record that the reader was given last.
Overtaken(s) == {d \in missed[s] : d < last[s]}

(***************************************************************************)
(* How far GapBeforeNewer may fail: one record at most slips in ahead of   *)
(* the report of one loss at most, and the report comes next, as no call   *)
(* then waits for an event (liveFile.Read's loop against Hub.publish,      *)
(* which share no lock).                                                   *)
(***************************************************************************)
GapIsNext ==
  \A s \in Subs :
    /\ \A d, e \in Overtaken(s) : d = e
    /\ Overtaken(s) # {} => \A r \in Calls : at[r] = s => pc[r] # "receive"

\* The counts of all subscriptions together.
Total(count) == FoldFunction(+, 0, count)

(***************************************************************************)
(* Every overflow me/status counts is the loss of one subscription, and    *)
(* either still in its counter or told to its reader: the counts of the    *)
(* GAP records add up, whatever publishes run beside the swap.  They are   *)
(* ahead of me/status by the one loss, if any, that Hub.publish has        *)
(* counted and onOverflow has not.                                         *)
(***************************************************************************)
LossAccounting ==
  Total(dropped) + Total(reported)
    = overflows + (IF \E s \in Subs : offer[s] = "counted" THEN 1 ELSE 0)

(***************************************************************************)
(* liveReader.mu is held by the one call that is between its Lock and its  *)
(* deferred Unlock, so no two calls cut a record in pieces at once.        *)
(***************************************************************************)
LockDiscipline ==
  \A r \in Calls :
    /\ (at[r] = NoSub) <=> (pc[r] = "idle")
    /\ \A s \in Subs : (holder[s] = r) <=> (at[r] = s /\ pc[r] \in {"check", "receive"})

(***************************************************************************)
(* What a call that found no losses and now waits for an event may meet:   *)
(* losses counted since then are newer than the event it will take, but    *)
(* for one at most, whose event found the channel full, and which was      *)
(* counted after the channel had been drained.                             *)
(***************************************************************************)
WaitersOweOne ==
  \A r \in Calls : pc[r] = "receive" =>
    /\ \A d \in missed[at[r]] : last[at[r]] < d
    /\ queue[at[r]] = <<>> => \A d, e \in missed[at[r]] : d = e
    /\ queue[at[r]] = <<>> /\ offer[at[r]] = "full" => missed[at[r]] = {}
    /\ queue[at[r]] # <<>> =>
         \A d, e \in missed[at[r]] :
           d < Head(queue[at[r]]) /\ e < Head(queue[at[r]]) => d = e

\* What the event on offer is newer than: all that was published before it.
InOffer(s) == offer[s] \in {"due", "full"}

\* Events wait in the order they were published, newer than what was read.
QueuesInOrder ==
  \A s \in Subs :
    /\ last[s] <= posted /\ (InOffer(s) => last[s] < posted)
    /\ \A i \in 1..Len(queue[s]) :
         /\ last[s] < queue[s][i] /\ queue[s][i] <= posted
         /\ InOffer(s) => queue[s][i] < posted
    /\ \A i, j \in 1..Len(queue[s]) : i < j => queue[s][i] < queue[s][j]

\* The counter of losses is zero exactly when there are none to report.
LossesCounted ==
  \A s \in Subs :
    /\ (dropped[s] = 0) <=> (missed[s] = {})
    /\ \A d \in missed[s] : d <= posted

\* Publish goes through one subscription at a time.
OneAtATime ==
  \A s, x \in Subs : offer[s] \in {"full", "counted"} /\ x # s => offer[x] \in {"none", "due"}

\* The inductive invariant that the safety proofs rest on.
IInv ==
  /\ TypeOK
  /\ NoSendOnClosed
  /\ BoundedQueues
  /\ LockDiscipline
  /\ QueuesInOrder
  /\ LossesCounted
  /\ OneAtATime
  /\ WaitersOweOne
  /\ GapIsNext

(***************************************************************************)
(* Seen through the events that wait in each channel or are on offer to    *)
(* it, the hub and the file are an OrderedFeed: in order, at most once,    *)
(* and no loss behind the reader's back but for the one slip it allows.    *)
(***************************************************************************)
WaitingIds(s) ==
  {queue[s][i] : i \in 1..Len(queue[s])} \cup (IF InOffer(s) THEN {posted} ELSE {})

Feed == INSTANCE OrderedFeed
          WITH Readers <- Subs, Everything <- Global, Nothing <- NoTopic,
               interest <- topic, waiting <- [s \in Subs |-> WaitingIds(s)]

IsOrderedFeed == Feed!Spec

(***************************************************************************)
(* Closing a file ends the reads that wait on it: the closed Go channel    *)
(* wakes the one that receives, and the mutex passes to the others         *)
(* (liveFile.Close against a blocked liveFile.Read).                       *)
(***************************************************************************)
CloseUnblocks ==
  \A r \in Calls, s \in Subs : at[r] = s /\ s \notin readers ~> at[r] = NoSub

\* A call waits for the next event of a drained channel.
Stranded(s) == queue[s] = <<>> /\ \E r \in Calls : at[r] = s /\ pc[r] = "receive"

(***************************************************************************)
(* A loss is told to a client that keeps reading, or the file gets closed, *)
(* unless the reader waits on a drained channel; and as soon as another    *)
(* event comes for it, that loss too.  (A call that waits already when the *)
(* loss is counted, hub.go:93-94, has looked at the counter before, and    *)
(* learns of it with the next event of its conversation only, if there is  *)
(* one.)                                                                   *)
(***************************************************************************)
LossReportedUnlessStranded ==
  \A s \in Subs :
    missed[s] # {} /\ ~Stranded(s) ~> missed[s] = {} \/ s \notin readers
=============================================================================
