--------------------------- MODULE GatewaySession ---------------------------
(***************************************************************************)
(* The gateway client's session (Gateway.Run and Gateway.connect of        *)
(* internal/fluxer/gateway.go): dial, HELLO, IDENTIFY or RESUME, the       *)
(* dispatches, the server's requests to reconnect or to start over, the    *)
(* pause before the next try, and the end when the token is refused.       *)
(*                                                                         *)
(* One goroutine runs all of this, and nothing else writes the session     *)
(* fields, so a payload is handled in one step.  Presence has a module of  *)
(* its own; a heartbeat that is not answered closes the connection, which  *)
(* is one of the breaks that may happen here at any time.                  *)
(*                                                                         *)
(* The server is not under src/: it is modelled from what the client       *)
(* expects of it, numbers the dispatches of a session from 1 (its READY),  *)
(* keeps them for a RESUME, and may forget a session, close a connection   *)
(* or ask for a new one whenever it likes.                                 *)
(***************************************************************************)
EXTENDS Integers, Sequences

CONSTANTS
  NoSession,   \* sessionID == ""
  BackoffCap,  \* the longest pause in seconds, 60 in the code
  MaxEvents,   \* bound: events that happen in one behaviour
  MaxFaults    \* bound: drops, refusals, expiries and forgotten sessions

ASSUME GatewayAssumption ==
  /\ NoSession \notin Nat
  /\ BackoffCap \in Nat \ {0}
  /\ MaxEvents \in Nat /\ MaxFaults \in Nat

VARIABLES
  phase,       \* where Run is: dialling, reading a connection, pausing, ended
  sessionID,   \* Gateway.sessionID
  sequence,    \* Gateway.sequence
  gapPending,  \* Gateway.gapPending
  recent,      \* Gateway.lastActivity is at most three minutes ago
  readySince,  \* Gateway.readySince is set
  backoff,     \* Run's backoff, in seconds
  connected,   \* Status.GatewayConnected, set through OnState
  inbox,       \* payloads on their way to the client, oldest first
  broken,      \* no more payloads follow those of inbox
  request,     \* the IDENTIFY or RESUME on its way to the server
  session,     \* the session the server keeps, its number
  started,     \* how many sessions the server has started
  log,         \* events of that session: log[i] is dispatch i + 1
  attached,    \* the server sends this session's events to the connection
  happened,    \* events so far, session or not: numbers them
  faults,      \* faults so far
  accounted,   \* history: events up to this one were handed on or reported
  base,        \* history: events when the server's session started
  pauses,      \* history: pauses since the last READY
  joined       \* history: a READY was received once

clientVars == <<phase, sessionID, sequence, gapPending, recent, readySince, backoff, connected>>
serverVars == <<request, session, started, log, attached, base>>
linkVars   == <<inbox, broken>>
historyVars == <<accounted, pauses, joined>>
gatewayVars == <<clientVars, serverVars, linkVars, historyVars, happened, faults>>

Phases == {"dial", "read", "pause", "fatal"}

Payload ==
  [op : {"HELLO", "RESUMED", "RECONNECT", "CLOSE4004"}]
    \cup [op : {"READY"}, s : {1}, session : Nat, base : Nat]
    \cup [op : {"EVENT"}, s : Nat, event : Nat]
    \cup [op : {"INVALID_SESSION"}, resumable : BOOLEAN]

Nothing == [op |-> "none"]

Request ==
  {Nothing} \cup [op : {"IDENTIFY"}] \cup [op : {"RESUME"}, session : Nat, seq : Nat]

TypeOK ==
  /\ phase \in Phases
  /\ sessionID \in Nat \cup {NoSession}
  /\ sequence \in Nat
  /\ gapPending \in BOOLEAN /\ recent \in BOOLEAN /\ readySince \in BOOLEAN
  /\ connected \in BOOLEAN /\ broken \in BOOLEAN /\ attached \in BOOLEAN /\ joined \in BOOLEAN
  /\ backoff \in 1..BackoffCap
  /\ inbox \in Seq(Payload)
  /\ request \in Request
  /\ session \in Nat \cup {NoSession}
  /\ started \in Nat
  /\ log \in Seq(Nat)
  /\ happened \in Nat /\ accounted \in Nat /\ base \in Nat /\ pauses \in Nat
  /\ faults \in 0..MaxFaults

Init ==
  /\ phase = "dial"
  /\ sessionID = NoSession /\ sequence = 0
  /\ gapPending = FALSE /\ recent = FALSE /\ readySince = FALSE
  /\ backoff = 1
  /\ connected = FALSE
  /\ inbox = <<>> /\ broken = FALSE
  /\ request = Nothing
  /\ session = NoSession /\ started = 0 /\ log = <<>> /\ attached = FALSE /\ base = 0
  /\ happened = 0 /\ faults = 0
  /\ accounted = 0 /\ pauses = 0 /\ joined = FALSE

Fault == faults < MaxFaults /\ faults' = faults + 1

-----------------------------------------------------------------------------
\* The server, and the world whose events it passes on.

Send(payload) == inbox' = Append(inbox, payload)

\* A message is sent, edited or deleted somewhere.
EventHappens ==
  /\ happened < MaxEvents
  /\ happened' = happened + 1
  /\ log' = IF session # NoSession THEN Append(log, happened + 1) ELSE log
  /\ IF attached THEN Send([op |-> "EVENT", s |-> Len(log) + 2, event |-> happened + 1])
                 ELSE UNCHANGED inbox
  /\ UNCHANGED <<clientVars, historyVars, request, session, started, attached, base,
                 broken, faults>>

ServerIdentify ==
  /\ request.op = "IDENTIFY" /\ ~broken
  /\ request' = Nothing
  /\ started' = started + 1
  /\ session' = started + 1
  /\ log' = <<>>
  /\ base' = happened
  /\ attached' = TRUE
  /\ Send([op |-> "READY", s |-> 1, session |-> started + 1, base |-> happened])
  /\ UNCHANGED <<clientVars, historyVars, broken, happened, faults>>

\* Replay what follows the sequence number, then RESUMED.
ServerResume ==
  /\ request.op = "RESUME" /\ ~broken /\ request.session = session
  /\ request' = Nothing
  /\ attached' = TRUE
  /\ LET first  == request.seq
         replay == [i \in 1..(IF first > Len(log) THEN 0 ELSE Len(log) - first + 1) |->
                      [op |-> "EVENT", s |-> first + i, event |-> log[first + i - 1]]]
     IN  inbox' = inbox \o replay \o <<[op |-> "RESUMED"]>>
  /\ UNCHANGED <<clientVars, historyVars, session, started, log, base, broken, happened, faults>>

\* The session is gone; or the server is not ready to resume it just now.
ServerInvalidates(resumable) ==
  /\ request.op = "RESUME" /\ ~broken
  /\ IF resumable THEN Fault ELSE request.session # session /\ UNCHANGED faults
  /\ request' = Nothing
  /\ Send([op |-> "INVALID_SESSION", resumable |-> resumable])
  /\ UNCHANGED <<clientVars, historyVars, session, started, log, attached, base, broken, happened>>

ServerForgets ==
  /\ session # NoSession /\ ~attached
  /\ Fault
  /\ session' = NoSession
  /\ log' = <<>>
  /\ UNCHANGED <<clientVars, historyVars, linkVars, request, started, attached, base, happened>>

ServerAsksReconnect ==
  /\ phase = "read" /\ ~broken
  /\ Fault
  /\ Send([op |-> "RECONNECT"])
  /\ attached' = FALSE
  /\ UNCHANGED <<clientVars, historyVars, request, session, started, log, base, broken, happened>>

\* The token was revoked: close code 4004 after what is already on its way.
ServerRefusesToken ==
  /\ phase = "read" /\ ~broken /\ request # Nothing
  /\ Fault
  /\ Send([op |-> "CLOSE4004"])
  /\ broken' = TRUE /\ attached' = FALSE /\ request' = Nothing
  /\ UNCHANGED <<clientVars, historyVars, session, started, log, base, happened>>

\* The connection breaks: any tail of what was on its way never arrives.
LinkBreaks ==
  /\ phase = "read" /\ ~broken
  /\ Fault
  /\ \E n \in 0..Len(inbox) : inbox' = SubSeq(inbox, 1, n)
  /\ broken' = TRUE /\ attached' = FALSE /\ request' = Nothing
  /\ UNCHANGED <<clientVars, historyVars, session, started, log, base, happened>>

Server ==
  \/ ServerIdentify \/ ServerResume
  \/ \E resumable \in BOOLEAN : ServerInvalidates(resumable)

Faults ==
  \/ ServerForgets \/ ServerAsksReconnect \/ ServerRefusesToken \/ LinkBreaks

-----------------------------------------------------------------------------
\* The client: Run's loop around connect, and connect's read loop.

\* Beyond the cap one pause is like another.
CountPause == pauses' = IF pauses > BackoffCap THEN pauses ELSE pauses + 1

\* Mutant: Run forgets to clear readySince once connect has returned.
LeaveStillReady ==
  /\ phase' = "pause"
  /\ backoff' = IF readySince THEN 1 ELSE backoff
  /\ connected' = FALSE
  /\ CountPause
  /\ UNCHANGED readySince
  /\ inbox' = <<>> /\ broken' = FALSE /\ request' = Nothing /\ attached' = FALSE

(***************************************************************************)
(* connect returns an error that is not fatal: the connection is closed,   *)
(* whatever was on its way is lost, and Run pauses.                        *)
(***************************************************************************)
Leave ==
  /\ phase' = "pause"
  /\ backoff' = IF readySince THEN 1 ELSE backoff
  /\ readySince' = FALSE
  /\ connected' = FALSE
  /\ CountPause
  /\ inbox' = <<>> /\ broken' = FALSE /\ request' = Nothing /\ attached' = FALSE

DialSucceeds ==
  /\ phase = "dial"
  /\ phase' = "read"
  /\ Send([op |-> "HELLO"])
  /\ UNCHANGED <<sessionID, sequence, gapPending, recent, readySince, backoff, connected,
                 serverVars, historyVars, broken, happened, faults>>

DialFails ==
  /\ phase = "dial"
  /\ Fault
  /\ Leave
  /\ UNCHANGED <<sessionID, sequence, gapPending, recent, session, started, log, base,
                 accounted, joined, happened>>

\* Mutant: the doubled pause is not held to the cap.
RetryUncapped ==
  /\ phase = "pause"
  /\ phase' = "dial"
  /\ backoff' = IF backoff < BackoffCap THEN 2 * backoff ELSE backoff
  /\ UNCHANGED <<sessionID, sequence, gapPending, recent, readySince, connected,
                 serverVars, historyVars, linkVars, happened, faults>>

\* The timer fires: the next pause would be twice as long, and Run dials.
Retry ==
  /\ phase = "pause"
  /\ phase' = "dial"
  /\ backoff' = IF 2 * backoff > BackoffCap THEN BackoffCap ELSE 2 * backoff
  /\ UNCHANGED <<sessionID, sequence, gapPending, recent, readySince, connected,
                 serverVars, historyVars, linkVars, happened, faults>>

\* Three minutes pass without a payload.
WindowExpires ==
  /\ recent
  /\ phase \in {"pause", "dial"}
  /\ Fault
  /\ recent' = FALSE
  /\ UNCHANGED <<phase, sessionID, sequence, gapPending, readySince, backoff, connected,
                 serverVars, linkVars, historyVars, happened>>

-----------------------------------------------------------------------------
\* ReadJSON returns a payload of this kind.
Receives(op) ==
  /\ phase = "read"
  /\ inbox # <<>> /\ Head(inbox).op = op
  /\ recent' = TRUE

Consume == inbox' = Tail(inbox)

\* Mutant: the session is dropped without a note that events may be missing.
ReceiveHelloNoGap ==
  /\ Receives("HELLO")
  /\ Consume
  /\ IF sessionID # NoSession /\ recent
       THEN /\ request' = [op |-> "RESUME", session |-> sessionID, seq |-> sequence]
            /\ UNCHANGED <<sessionID, sequence>>
       ELSE /\ request' = [op |-> "IDENTIFY"]
            /\ sessionID' = NoSession /\ sequence' = 0
  /\ UNCHANGED <<phase, gapPending, readySince, backoff, connected, session, started, log,
                 attached, base, historyVars, broken, happened, faults>>

(***************************************************************************)
(* HELLO: a session that was active in the last three minutes is resumed;  *)
(* an older one is given up, with a gap to report once there is a new one. *)
(* On a broken connection the write may still seem to succeed.             *)
(***************************************************************************)
ReceiveHello ==
  /\ Receives("HELLO")
  /\ Consume
  /\ IF sessionID # NoSession /\ recent
       THEN /\ request' = [op |-> "RESUME", session |-> sessionID, seq |-> sequence]
            /\ UNCHANGED <<sessionID, sequence, gapPending>>
       ELSE /\ request' = [op |-> "IDENTIFY"]
            /\ IF sessionID # NoSession
                 THEN sessionID' = NoSession /\ sequence' = 0 /\ gapPending' = TRUE
                 ELSE UNCHANGED <<sessionID, sequence, gapPending>>
  /\ UNCHANGED <<phase, readySince, backoff, connected, session, started, log,
                 attached, base, historyVars, broken, happened, faults>>

\* The write of IDENTIFY or RESUME fails on a connection that has broken.
HelloWriteFails ==
  /\ Receives("HELLO") /\ broken
  /\ Leave
  /\ IF sessionID # NoSession /\ ~recent
       THEN sessionID' = NoSession /\ sequence' = 0 /\ gapPending' = TRUE
       ELSE UNCHANGED <<sessionID, sequence, gapPending>>
  /\ UNCHANGED <<session, started, log, base, accounted, joined, happened, faults>>

\* The largest dispatch number seen is kept.
NoteSequence == sequence' = IF Head(inbox).s > sequence THEN Head(inbox).s ELSE sequence

\* Mutant: the pending gap is forgotten instead of reported.
ReportsGapNever == FALSE

\* Whether OnGap is called while READY is handled.
ReportsGap == gapPending

(***************************************************************************)
(* READY: the new session is noted, a gap since the previous one is        *)
(* reported, and the state is "ready".  What happened before the first     *)
(* READY of all was never promised to anybody.                             *)
(***************************************************************************)
ReceiveReady ==
  /\ Receives("READY")
  /\ NoteSequence
  /\ sessionID' = Head(inbox).session
  /\ readySince' = TRUE
  /\ gapPending' = FALSE
  /\ connected' = TRUE
  /\ accounted' = IF ReportsGap \/ ~joined THEN Head(inbox).base ELSE accounted
  /\ pauses' = 0
  /\ joined' = TRUE
  /\ Consume
  /\ UNCHANGED <<phase, backoff, serverVars, broken, happened, faults>>

ReceiveResumed ==
  /\ Receives("RESUMED")
  /\ connected' = TRUE
  /\ Consume
  /\ UNCHANGED <<phase, sessionID, sequence, gapPending, readySince, backoff,
                 serverVars, historyVars, broken, happened, faults>>

\* Any other dispatch: OnEvent hands it on.
ReceiveEvent ==
  /\ Receives("EVENT")
  /\ NoteSequence
  /\ connected' = TRUE
  /\ accounted' = Head(inbox).event
  /\ Consume
  /\ UNCHANGED <<phase, sessionID, gapPending, readySince, backoff, pauses, joined,
                 serverVars, broken, happened, faults>>

ReceiveReconnect ==
  /\ Receives("RECONNECT")
  /\ Leave
  /\ UNCHANGED <<sessionID, sequence, gapPending, session, started, log, base,
                 accounted, joined, happened, faults>>

\* Mutant: the sequence number of the lost session is kept.
ReceiveInvalidKeepsSequence ==
  /\ Receives("INVALID_SESSION")
  /\ IF Head(inbox).resumable
       THEN UNCHANGED <<sessionID, gapPending>>
       ELSE sessionID' = NoSession /\ gapPending' = TRUE
  /\ Leave
  /\ UNCHANGED <<sequence, session, started, log, base, accounted, joined, happened, faults>>

\* Mutant: the lost session is tried again for ever.
ReceiveInvalidKeepsSession ==
  /\ Receives("INVALID_SESSION")
  /\ Leave
  /\ UNCHANGED <<sessionID, sequence, gapPending, session, started, log, base, accounted, joined,
                 happened, faults>>

\* INVALID_SESSION: start over with a new session, unless it may be resumed.
ReceiveInvalid ==
  /\ Receives("INVALID_SESSION")
  /\ IF Head(inbox).resumable
       THEN UNCHANGED <<sessionID, sequence, gapPending>>
       ELSE sessionID' = NoSession /\ sequence' = 0 /\ gapPending' = TRUE
  /\ Leave
  /\ UNCHANGED <<session, started, log, base, accounted, joined, happened, faults>>

\* ReadJSON fails with close code 4004: FatalGatewayError ends Run.
ReceiveClose4004 ==
  /\ phase = "read" /\ inbox # <<>> /\ Head(inbox).op = "CLOSE4004"
  /\ phase' = "fatal"
  /\ readySince' = FALSE
  /\ connected' = FALSE
  /\ backoff' = IF readySince THEN 1 ELSE backoff
  /\ inbox' = <<>> /\ broken' = FALSE
  /\ UNCHANGED <<sessionID, sequence, gapPending, recent, serverVars, historyVars,
                 happened, faults>>

\* ReadJSON fails in any other way: everything that arrived has been read.
ReadFails ==
  /\ phase = "read" /\ broken /\ inbox = <<>>
  /\ Leave
  /\ UNCHANGED <<sessionID, sequence, gapPending, recent, session, started, log, base,
                 accounted, joined, happened, faults>>

Client ==
  \/ DialSucceeds \/ Retry
  \/ ReceiveHello \/ HelloWriteFails \/ ReceiveReady \/ ReceiveResumed \/ ReceiveEvent
  \/ ReceiveReconnect \/ ReceiveInvalid \/ ReceiveClose4004 \/ ReadFails

Next ==
  \/ Client
  \/ Server
  \/ EventHappens
  \/ DialFails \/ WindowExpires \/ Faults

Spec == Init /\ [][Next]_gatewayVars

(***************************************************************************)
(* The read loop and the timer always go on, and a server that is asked    *)
(* answers.  Nothing makes events happen, and faults need not.             *)
(***************************************************************************)
FairSpec == Spec /\ WF_gatewayVars(Client) /\ WF_gatewayVars(Server)

-----------------------------------------------------------------------------
(***************************************************************************)
(* Events are handed on in the order they happened, each at most once, and *)
(* none is skipped unless OnGap was called first: also when the sequence   *)
(* number outlives its session, a replay overlaps what was read, or a      *)
(* connection breaks between an INVALID_SESSION and the next READY         *)
(* (gateway.go: HELLO, DISPATCH and INVALID_SESSION cases).                *)
(***************************************************************************)
NoSilentLoss ==
  [][\A e \in 1..MaxEvents :
       ReceiveEvent /\ Head(inbox).event = e => e = accounted + 1]_gatewayVars

(***************************************************************************)
(* The sequence number a RESUME would send names the last dispatch of that *)
(* very session that was handed on, so the replay starts where it should.  *)
(***************************************************************************)
ResumePoint ==
  sessionID # NoSession /\ sessionID = session =>
    /\ sequence \in 1..(Len(log) + 1)
    /\ accounted = IF sequence = 1 THEN base ELSE log[sequence - 1]

(***************************************************************************)
(* Between losing one session and the READY of the next the client         *)
(* remembers that it owes its readers a gap, over any number of broken     *)
(* connections.                                                            *)
(***************************************************************************)
GapIsOwed == sessionID = NoSession /\ joined => gapPending

\* 1, 2, 4...
Doubled[n \in Nat] == IF n = 0 THEN 1 ELSE 2 * Doubled[n - 1]

\* A pause after so many others, in seconds.
Pause(n) == IF Doubled[n] > BackoffCap THEN BackoffCap ELSE Doubled[n]

(***************************************************************************)
(* The pauses since the last READY grow as 1, 2, 4... seconds up to the    *)
(* cap (Run's backoff against connect's readySince).                       *)
(***************************************************************************)
PausesGrow == phase = "pause" => backoff = Pause(pauses - 1)

(***************************************************************************)
(* Once the faults stop, the client gets to hold the server's session and  *)
(* to have handed on or reported everything that happened, or the token    *)
(* was refused: no INVALID_SESSION or expired window keeps it retrying.    *)
(***************************************************************************)
CaughtUp == connected /\ sessionID = session /\ accounted = happened

CatchesUp == <>[](CaughtUp \/ phase = "fatal")
-----------------------------------------------------------------------------
(***************************************************************************)
(* The inductive invariant that the safety proofs rest on.  A dispatch is  *)
(* a payload with a number of its session: READY, the first, or an event.  *)
(***************************************************************************)
Dispatches == {i \in 1..Len(inbox) : inbox[i].op \in {"READY", "EVENT"}}

Awaits(op) == \E i \in 1..Len(inbox) : inbox[i].op = op

\* What the server keeps of a session: everything since it started.
ServerKeepsAll ==
  /\ session \in {NoSession, started}
  /\ base <= happened
  /\ session # NoSession =>
       /\ Len(log) = happened - base
       /\ \A i \in 1..Len(log) : log[i] = base + i

\* How the client's session and sequence number relate to the server's session.
ClientFollows ==
  /\ (sequence = 0) <=> (sessionID = NoSession)
  /\ sessionID = NoSession \/ sessionID <= started
  /\ sessionID = started => accounted = base + sequence - 1
  /\ sessionID = session /\ session # NoSession => sequence <= Len(log) + 1

\* The dispatches on their way are those of the newest session, without a hole
\* between them or before the first one.
DispatchesInOrder ==
  \A i \in Dispatches :
    /\ sessionID \in {NoSession, started}
    /\ inbox[i].op = "READY" => inbox[i].session = started /\ inbox[i].base = base
    /\ inbox[i].op = "EVENT" => inbox[i].s > 1 /\ inbox[i].event = base + inbox[i].s - 1
    /\ inbox[i].s > sequence
    /\ session # NoSession => inbox[i].s <= Len(log) + 1
    /\ \/ inbox[i].s = sequence + 1
       \/ \E k \in Dispatches : k < i /\ inbox[k].s = inbox[i].s - 1
    /\ \A k \in Dispatches : k < i => inbox[k].s < inbox[i].s

\* The newest dispatch of an attached session is on its way or was received.
AttachedUpToDate ==
  attached =>
    /\ session # NoSession /\ sessionID \in {NoSession, session}
    /\ request = Nothing /\ ~broken
    /\ \/ sequence = Len(log) + 1
       \/ \E k \in Dispatches : inbox[k].s = Len(log) + 1

\* A request asks for what the client holds, and nothing overtakes its answer.
RequestIsCurrent ==
  /\ request # Nothing => Dispatches = {} /\ ~attached /\ ~Awaits("HELLO")
  /\ request.op = "IDENTIFY" => sessionID = NoSession
  /\ request.op = "RESUME" =>
       sessionID # NoSession /\ request.session = sessionID /\ request.seq = sequence

\* HELLO comes first, the refusal of the token last.
LinkInPhase ==
  /\ \A i \in 1..Len(inbox) : inbox[i].op = "HELLO" => i = 1
  /\ Awaits("HELLO") => Dispatches = {} /\ ~attached /\ request = Nothing
  /\ Awaits("CLOSE4004") => broken /\ request = Nothing /\ ~Awaits("HELLO")
  /\ phase # "read" => inbox = <<>> /\ request = Nothing /\ ~attached

IInv ==
  /\ TypeOK
  /\ GapIsOwed
  /\ ServerKeepsAll
  /\ ClientFollows
  /\ DispatchesInOrder
  /\ AttachedUpToDate
  /\ RequestIsCurrent
  /\ LinkInPhase

\* Run doubles what it pauses next once it has paused, and a READY since then
\* makes it start over: inductive beside TypeOK.
NextPause ==
  /\ phase = "pause" => pauses # 0 /\ ~readySince /\ backoff = Pause(pauses - 1)
  /\ phase \in {"dial", "read"} => IF readySince THEN pauses = 0 ELSE backoff = Pause(pauses)

\* Nothing is on its way that has not happened, or was accounted for before the
\* session began: inductive beside IInv.
OnlyWhatHappened ==
  /\ accounted <= happened /\ happened <= MaxEvents
  /\ \A i \in 1..Len(inbox) :
       /\ inbox[i].op = "EVENT" => inbox[i].event <= happened
       /\ inbox[i].op = "READY" => accounted <= inbox[i].base
=============================================================================
