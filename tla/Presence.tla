------------------------------ MODULE Presence ------------------------------
(***************************************************************************)
(* The account's presence: from a write to me/status or me/custom-status   *)
(* (settingFile of internal/p9fs/files.go) over the REST settings and the  *)
(* gateway client's copy (SetPresence, SetCustomStatus and the goroutine   *)
(* of connect in internal/fluxer/gateway.go) to what the server shows.     *)
(*                                                                         *)
(* Closing a file that was written first changes the setting by REST and   *)
(* then tells the gateway.  The gateway sends its copy with an IDENTIFY,   *)
(* and after a READY or RESUMED passes it, whenever it changes, through a  *)
(* channel of one place to a goroutine that writes it to the connection.   *)
(* Closes run on goroutines of their own, beside the gateway's.            *)
(*                                                                         *)
(* A value is the number of the write it comes from.  The server is not    *)
(* under src/: it applies what it receives in the order it receives it.    *)
(***************************************************************************)
EXTENDS Integers, Sequences

CONSTANTS
  Fields,     \* the files: me/status and me/custom-status
  Writers,    \* goroutines that serve the Close of a file that was written
  Unset,      \* no presence
  MaxWrites,  \* bound: writes in one behaviour
  MaxFaults   \* bound: connections that end and requests that fail

ASSUME PresenceAssumption ==
  /\ Fields # {}
  /\ Unset \notin [turn : Nat, shows : [Fields -> Nat]]
  /\ MaxWrites \in Nat /\ MaxFaults \in Nat

VARIABLES
  setting,    \* [Fields -> value]: the server's user settings
  presence,   \* Gateway.presence and Gateway.customStatus
  turn,       \* history: how often either was set
  linked,     \* Gateway.presenceSink is the channel of this connection
  updates,    \* presenceUpdates: a channel of one place
  sending,    \* what the connection's presence goroutine is writing
  phase,      \* where connect is
  alive,      \* the connection is not closed
  identity,   \* the presence of the IDENTIFY under way
  hadSession, \* a session to resume
  wire,       \* what was written to the connection and not received
  welcomed,   \* the server's READY or RESUMED is on its way
  live,       \* the presence the server shows
  pc, file, value,  \* [Writers -> step, file, what is written to it]
  writes, faults

gatewayVars == <<presence, turn, linked, updates>>
connVars == <<sending, phase, alive, identity, hadSession, wire, welcomed>>
writerVars == <<pc, file, value, writes>>
vars == <<setting, gatewayVars, connVars, live, writerVars, faults>>

Message == [turn : Nat, shows : [Fields -> Nat]]
Resume == [op |-> "RESUME"]

\* main.go loads the settings into the gateway before it runs.
Init ==
  /\ setting = [f \in Fields |-> 0]
  /\ presence = [f \in Fields |-> 0] /\ turn = 0
  /\ linked = FALSE /\ updates = <<>> /\ sending = Unset
  /\ phase = "down" /\ alive = FALSE /\ identity = Unset /\ hadSession = FALSE
  /\ wire = <<>> /\ welcomed = FALSE
  /\ live = Unset
  /\ pc = [w \in Writers |-> "idle"]
  /\ file = [w \in Writers |-> CHOOSE f \in Fields : TRUE]
  /\ value = [w \in Writers |-> 0]
  /\ writes = 0 /\ faults = 0

-----------------------------------------------------------------------------
\* Mutant: a full channel keeps what it has.
QueueKeepsOldest(message) ==
  updates' = IF linked /\ updates = <<>> THEN <<message>> ELSE updates

\* Mutant: a presence that waits is not taken out for the new one.
QueueBehindOld(message) == updates' = IF linked THEN Append(updates, message) ELSE updates

(***************************************************************************)
(* queuePresenceLocked: the new presence takes the place of one that still *)
(* waits.  Only holders of Gateway.mu send to the channel, so it does not  *)
(* matter whether the goroutine receives before the selects or between     *)
(* them, and the last select never takes its default branch.               *)
(***************************************************************************)
Queue(message) == updates' = IF linked THEN <<message>> ELSE updates

Current == [turn |-> turn, shows |-> presence]

\* SetPresence and SetCustomStatus, under Gateway.mu.
SetField(f, v) ==
  /\ presence' = [presence EXCEPT ![f] = v]
  /\ turn' = turn + 1
  /\ Queue([turn |-> turn', shows |-> presence'])
  /\ UNCHANGED linked

-----------------------------------------------------------------------------
\* The store functions that settingFile.Close runs.

Goto(w, step) == pc' = [pc EXCEPT ![w] = step]

CloseBegin(w, f) ==
  /\ pc[w] = "idle" /\ writes < MaxWrites
  /\ writes' = writes + 1
  /\ file' = [file EXCEPT ![w] = f]
  /\ value' = [value EXCEPT ![w] = writes + 1]
  /\ Goto(w, "patch")
  /\ UNCHANGED <<setting, gatewayVars, connVars, live, faults>>

\* SetStatus or SetCustomStatus of the REST client: the server's part.
ClosePatches(w) ==
  /\ pc[w] = "patch"
  /\ setting' = [setting EXCEPT ![file[w]] = value[w]]
  /\ Goto(w, "answer")
  /\ UNCHANGED <<gatewayVars, connVars, live, file, value, writes, faults>>

\* The request or its answer fails: Close returns the error.
CloseFails(w) ==
  /\ pc[w] \in {"patch", "answer"} /\ faults < MaxFaults
  /\ faults' = faults + 1
  /\ Goto(w, "idle")
  /\ UNCHANGED <<setting, gatewayVars, connVars, live, file, value, writes>>

\* setLive.
CloseSetsLive(w) ==
  /\ pc[w] = "answer"
  /\ SetField(file[w], value[w])
  /\ Goto(w, "idle")
  /\ UNCHANGED <<setting, connVars, live, file, value, writes, faults>>

-----------------------------------------------------------------------------
\* Gateway.connect.

Dial ==
  /\ phase = "down"
  /\ phase' = "hello" /\ alive' = TRUE
  /\ updates' = <<>> /\ sending' = Unset
  /\ wire' = <<>> /\ welcomed' = FALSE
  /\ UNCHANGED <<setting, presence, turn, linked, identity, hadSession, live, writerVars, faults>>

HelloResume ==
  /\ phase = "hello" /\ alive /\ hadSession
  /\ phase' = "auth"
  /\ wire' = Append(wire, Resume)
  /\ UNCHANGED <<setting, gatewayVars, sending, alive, identity, hadSession, welcomed, live,
                 writerVars, faults>>

\* Mutant: IDENTIFY takes the presence that 9flx was started with.
HelloIdentifyStale ==
  /\ phase = "hello"
  /\ identity' = [turn |-> 0, shows |-> [f \in Fields |-> 0]]
  /\ phase' = "identify"
  /\ UNCHANGED <<setting, gatewayVars, sending, alive, hadSession, wire, welcomed, live,
                 writerVars, faults>>

\* Without a session, or with one that is too old, IDENTIFY takes a copy...
HelloIdentify ==
  /\ phase = "hello"
  /\ identity' = Current
  /\ phase' = "identify"
  /\ UNCHANGED <<setting, gatewayVars, sending, alive, hadSession, wire, welcomed, live,
                 writerVars, faults>>

\* ... and Gateway.mu is free again when it is written.
WriteIdentify ==
  /\ phase = "identify" /\ alive
  /\ wire' = Append(wire, identity)
  /\ phase' = "auth"
  /\ UNCHANGED <<setting, gatewayVars, sending, alive, identity, hadSession, welcomed, live,
                 writerVars, faults>>

\* Mutant: READY only links the channel, for the changes to come.
ReceiveReadyLinksOnly ==
  /\ phase = "auth" /\ alive /\ welcomed
  /\ phase' = "ready" /\ hadSession' = TRUE /\ linked' = TRUE
  /\ UNCHANGED <<setting, presence, turn, updates, sending, alive, identity, wire, welcomed, live,
                 writerVars, faults>>

\* READY or RESUMED: activatePresence.
ReceiveReady ==
  /\ phase = "auth" /\ alive /\ welcomed
  /\ phase' = "ready" /\ hadSession' = TRUE
  /\ linked' = TRUE
  /\ updates' = <<Current>>
  /\ UNCHANGED <<setting, presence, turn, sending, alive, identity, wire, welcomed, live,
                 writerVars, faults>>

\* The presence goroutine receives an update, and then writes it.
SenderTakes ==
  /\ alive /\ sending = Unset /\ updates # <<>>
  /\ sending' = Head(updates) /\ updates' = <<>>
  /\ UNCHANGED <<setting, presence, turn, linked, phase, alive, identity, hadSession, wire,
                 welcomed, live, writerVars, faults>>

SenderWrites ==
  /\ alive /\ sending # Unset
  /\ wire' = Append(wire, sending) /\ sending' = Unset
  /\ UNCHANGED <<setting, gatewayVars, phase, alive, identity, hadSession, welcomed, live,
                 writerVars, faults>>

\* stop(): the network, the server or a failed write ends the connection.
Break ==
  /\ alive /\ faults < MaxFaults
  /\ faults' = faults + 1
  /\ alive' = FALSE /\ wire' = <<>> /\ welcomed' = FALSE
  /\ UNCHANGED <<setting, gatewayVars, sending, phase, identity, hadSession, live, writerVars>>

\* The read loop or an IDENTIFY fails: connect returns through its defer.
ConnectReturns ==
  /\ phase # "down" /\ ~alive
  /\ linked' = FALSE
  /\ phase' = "down"
  /\ UNCHANGED <<setting, presence, turn, updates, sending, alive, identity, hadSession, wire,
                 welcomed, live, writerVars, faults>>

\* The server takes the next payload: a presence replaces the one it shows.
ServerReceives ==
  /\ wire # <<>>
  /\ wire' = Tail(wire)
  /\ live' = IF Head(wire) = Resume THEN live ELSE Head(wire)
  /\ welcomed' = TRUE
  /\ UNCHANGED <<setting, gatewayVars, sending, phase, alive, identity, hadSession, writerVars,
                 faults>>

Gateway ==
  \/ Dial \/ HelloResume \/ HelloIdentify \/ WriteIdentify \/ ReceiveReady \/ ConnectReturns

Sender == SenderTakes \/ SenderWrites

Closing(w) == ClosePatches(w) \/ CloseFails(w) \/ CloseSetsLive(w)

Next ==
  \/ \E w \in Writers : Closing(w) \/ \E f \in Fields : CloseBegin(w, f)
  \/ Gateway \/ Sender \/ ServerReceives \/ Break

Spec == Init /\ [][Next]_vars

\* Goroutines run on, requests end, and the server reads what it is sent.
FairSpec ==
  /\ Spec
  /\ WF_vars(Gateway) /\ WF_vars(Sender) /\ WF_vars(ServerReceives)
  /\ \A w \in Writers : WF_vars(Closing(w))

-----------------------------------------------------------------------------
TypeOK ==
  /\ setting \in [Fields -> Nat] /\ presence \in [Fields -> Nat]
  /\ turn \in Nat
  /\ linked \in BOOLEAN /\ alive \in BOOLEAN /\ hadSession \in BOOLEAN /\ welcomed \in BOOLEAN
  /\ updates \in Seq(Message) /\ Len(updates) <= 1
  /\ sending \in Message \cup {Unset}
  /\ identity \in Message \cup {Unset} /\ live \in Message \cup {Unset}
  /\ phase \in {"down", "hello", "identify", "auth", "ready"}
  /\ wire \in Seq(Message \cup {Resume})
  /\ pc \in [Writers -> {"idle", "patch", "answer"}]
  /\ file \in [Writers -> Fields] /\ value \in [Writers -> 0..MaxWrites]
  /\ writes \in 0..MaxWrites /\ faults \in 0..MaxFaults

\* Nothing is on its way from the gateway's copy to the server.
Quiet == phase = "ready" /\ alive /\ updates = <<>> /\ sending = Unset /\ wire = <<>>

(***************************************************************************)
(* On an idle connection the server shows the newest presence the gateway  *)
(* was given, also when it was set between an IDENTIFY and its READY,      *)
(* while another waited in the channel, or while there was no connection   *)
(* (queuePresenceLocked, activatePresence and the IDENTIFY's copy).        *)
(***************************************************************************)
QuietIsCurrent == Quiet => live = Current

(***************************************************************************)
(* The server is never sent back to an older presence: neither by an       *)
(* IDENTIFY that took its copy early nor by an update that waited.         *)
(***************************************************************************)
NeverOlder ==
  [][live # Unset => live'.turn >= live.turn]_vars

(***************************************************************************)
(* When faults and writes are over, the server comes to show the newest    *)
(* presence the gateway was given, and goes on showing it.                 *)
(***************************************************************************)
PresenceArrives == <>[](live = Current)

(***************************************************************************)
(* README.md: "Read or change your presence with `me/status`".  What a     *)
(* read of the file returns is the setting, so once every write has        *)
(* returned and the connection is idle, it should be what the server       *)
(* shows.                                                                  *)
(***************************************************************************)
FileShowsPresence ==
  Quiet /\ (\A w \in Writers : pc[w] = "idle") => live.shows = setting
-----------------------------------------------------------------------------
(***************************************************************************)
(* The inductive invariant.  What is on its way comes to the server in the *)
(* order wire, sending, updates; an IDENTIFY is alone when it is written.  *)
(***************************************************************************)
\* p was not given to the gateway after q, if both are presences.
NotNewer(p, q) == p \in Message /\ q \in Message => p.turn <= q.turn

\* What the goroutine and the channel of a connection may hold, and when.
PhasesOK ==
  /\ linked <=> phase = "ready"
  /\ alive => phase # "down"
  /\ ~alive => wire = <<>>
  /\ phase \in {"hello", "identify", "auth"} => updates = <<>> /\ sending = Unset
  /\ phase \in {"hello", "identify"} => wire = <<>>

WireInOrder ==
  /\ \A i \in 1..Len(wire) : NotNewer(live, wire[i]) /\ NotNewer(wire[i], Current)
  /\ \A i, j \in 1..Len(wire) : i < j => NotNewer(wire[i], wire[j])

SenderInOrder ==
  /\ NotNewer(live, Current) /\ NotNewer(sending, Current) /\ NotNewer(live, sending)
  /\ \A i \in 1..Len(wire) : NotNewer(wire[i], sending)
  /\ phase = "identify" =>
       identity # Unset /\ NotNewer(live, identity) /\ NotNewer(identity, Current)

QueueInOrder ==
  \A i \in 1..Len(updates) :
    /\ NotNewer(live, updates[i]) /\ NotNewer(sending, updates[i]) /\ NotNewer(updates[i], Current)
    /\ \A j \in 1..Len(wire) : NotNewer(wire[j], updates[i])

\* The last of what is on its way on a connection that is up is what is current.
LastIsCurrent ==
  phase = "ready" /\ alive =>
    \/ updates = <<Current>>
    \/ updates = <<>> /\ sending = Current
    \/ updates = <<>> /\ sending = Unset /\ wire # <<>> /\ wire[Len(wire)] = Current
    \/ Quiet /\ live = Current

IInv ==
  /\ TypeOK
  /\ PhasesOK
  /\ WireInOrder
  /\ SenderInOrder
  /\ QueueInOrder
  /\ LastIsCurrent
=============================================================================
