----------------------------- MODULE Heartbeat -----------------------------
(***************************************************************************)
(* The heartbeats of one gateway connection (connect of                    *)
(* internal/fluxer/gateway.go): a ticker's goroutine writes them, the read *)
(* loop writes one more when the server asks for it and reads the ACKs,    *)
(* and each heartbeat that was written gets a goroutine that waits for its *)
(* timeout.  awaitingACK, heartbeatSent and heartbeatGeneration are shared *)
(* under heartbeatMu; an ACK does not say which heartbeat it answers.      *)
(*                                                                         *)
(* Time passes in units.  A goroutine that can go on does so before the    *)
(* next unit; a write may take time, up to its deadline, and keeps writeMu *)
(* meanwhile, from the read loop and from the presence's goroutine too,    *)
(* which may write as often as it likes.                                   *)
(* What is read back of a clock is only how long ago it was set, so clocks *)
(* are kept as ages and countdowns.                                        *)
(***************************************************************************)
EXTENDS Integers, Sequences, FiniteSets

CONSTANTS
  Delay,          \* period of the ticker: 4/5 of the server's interval
  Timeout,        \* the 15 seconds that an ACK may take
  WriteDeadline,  \* the 10 seconds that a write may take
  MaxInFlight,    \* bound: payloads to be read and heartbeats to be answered
  Nobody          \* no goroutine

ASSUME HeartbeatAssumption ==
  /\ Delay \in Nat \ {0} /\ Timeout \in Nat \ {0} /\ WriteDeadline \in Nat
  /\ MaxInFlight \in Nat \ {0}
  /\ Nobody \notin {"ticker", "reader", "presence"}

VARIABLES
  open,         \* the connection was not stopped
  started,      \* heartbeatStarted
  tick, ticked, \* the ticker: time to its next tick, a tick waits in its channel
  at,           \* [Writers -> what the goroutine is at]
  holder, waiters, awake, late, starving,   \* writeMu, see Mutex
  writing,      \* for how long its holder has been writing
  awaitingACK,
  sinceMark,    \* age of heartbeatSent, as far as the timeout
  timers,       \* goroutines that wait for a timeout; newest: no other heartbeat since
  inbox,        \* payloads to be read
  unanswered,   \* heartbeats that the server has not answered
  outran,       \* history: the newest heartbeat was answered before it was marked as sent
  alarm,        \* history: stopped for a missing ACK
  quiet         \* history: time since the last payload was read

writeMu == INSTANCE Mutex

muVars == <<holder, waiters, awake, late, starving>>
clientVars == <<open, started, ticked, at, muVars, awaitingACK, timers>>
vars == <<clientVars, tick, writing, sinceMark, inbox, unanswered, outran, alarm, quiet>>

Writers == {"ticker", "reader", "presence"}

\* A period of the ticker, five writes, the last of which is the heartbeat's, and the timeout.
Patience == Delay + 5 * WriteDeadline + Timeout

Init ==
  /\ open = TRUE /\ started = FALSE
  /\ tick = Delay /\ ticked = FALSE
  /\ at = [w \in Writers |-> "wait"] /\ writeMu!Init /\ writing = 0
  /\ awaitingACK = FALSE /\ sinceMark = 0 /\ timers = {}
  /\ inbox = <<"hello">> /\ unanswered = 0
  /\ outran = FALSE /\ alarm = FALSE /\ quiet = 0

-----------------------------------------------------------------------------
\* The server.

ServerSends(payload) ==
  /\ open /\ Len(inbox) < MaxInFlight
  /\ inbox' = Append(inbox, payload)
  /\ UNCHANGED <<clientVars, tick, writing, sinceMark, outran, alarm, quiet>>

ServerAnswers ==
  /\ unanswered > 0 /\ unanswered' = unanswered - 1
  /\ ServerSends("ack")

ServerAsks ==
  /\ unanswered + Len(inbox) + Cardinality({w \in Writers : at[w] = "beat"}) < MaxInFlight
  /\ ServerSends("heartbeat") /\ UNCHANGED unanswered

-----------------------------------------------------------------------------
\* Some heartbeat was written whose ACK was not read yet.
Owing == unanswered > 0 \/ \E i \in DOMAIN inbox : inbox[i] = "ack"

Reads(payload) ==
  /\ open /\ at["reader"] = "wait" /\ inbox # <<>> /\ Head(inbox) = payload
  /\ inbox' = Tail(inbox) /\ quiet' = 0
  /\ UNCHANGED <<open, ticked, sinceMark, timers, unanswered, outran, alarm>>

\* The deadline of a write is set when writeMu is had.
Clocked == writing' = IF holder' = holder THEN writing ELSE 0

\* write locks writeMu first.
Writes(w, what) ==
  /\ at' = [at EXCEPT ![w] = what]
  /\ writeMu!Lock(w) /\ Clocked

NoWrite == UNCHANGED <<at, muVars, writing>>

\* Lock goes on, of whoever was woken or spins.
TriesAgain ==
  /\ open /\ writeMu!Tries /\ Clocked
  /\ UNCHANGED <<open, started, tick, ticked, at, awaitingACK, sinceMark, timers, inbox, unanswered,
                 outran, alarm, quiet>>

\* The ticker is started, and the reader identifies or resumes.
ReadHello ==
  /\ Reads("hello")
  /\ started' = TRUE
  /\ tick' = Delay
  /\ Writes("reader", "tell")
  /\ UNCHANGED awaitingACK

ReadHeartbeat ==
  /\ Reads("heartbeat")
  /\ Writes("reader", "beat")
  /\ UNCHANGED <<started, tick, awaitingACK>>

ReadACK ==
  /\ Reads("ack")
  /\ awaitingACK' = FALSE
  /\ NoWrite /\ UNCHANGED <<started, tick>>

PresenceWrites ==
  /\ open /\ started /\ at["presence"] = "wait"
  /\ Writes("presence", "tell")
  /\ UNCHANGED <<open, started, tick, ticked, awaitingACK, sinceMark, timers, inbox, unanswered,
                 outran, alarm, quiet>>

\* stop(): every goroutine of the connection ends.
Stop == open' = FALSE

\* Mutant: the ticker stops for good when it meets a heartbeat that waits for its ACK.
TickerTakesLast ==
  /\ open /\ ticked /\ at["ticker"] = "wait"
  /\ ticked' = FALSE
  /\ IF awaitingACK
       THEN at' = [at EXCEPT !["ticker"] = "ended"] /\ UNCHANGED <<muVars, writing>>
       ELSE Writes("ticker", "beat")
  /\ UNCHANGED <<open, alarm, started, tick, awaitingACK, sinceMark, timers, inbox, unanswered,
                 outran, quiet>>

\* While a heartbeat waits for its ACK the tick is passed over, or the wait has been too long.
TickerTakes ==
  /\ open /\ ticked /\ at["ticker"] = "wait"
  /\ ticked' = FALSE
  /\ IF awaitingACK /\ sinceMark = Timeout
       THEN Stop /\ alarm' = TRUE ELSE UNCHANGED <<open, alarm>>
  /\ IF awaitingACK THEN NoWrite ELSE Writes("ticker", "beat")
  /\ UNCHANGED <<started, tick, awaitingACK, sinceMark, timers, inbox, unanswered, outran, quiet>>

Writing(w) == open /\ holder = w

WriteSucceeds(w) ==
  /\ Writing(w)
  /\ writeMu!Unlock /\ Clocked
  /\ IF at[w] = "beat"
       THEN /\ at' = [at EXCEPT ![w] = "mark"]
            /\ unanswered' = unanswered + 1
       ELSE /\ at' = [at EXCEPT ![w] = "wait"]
            /\ UNCHANGED unanswered
  /\ UNCHANGED <<open, started, tick, ticked, awaitingACK, sinceMark, timers, inbox, outran, alarm,
                 quiet>>

WriteFails(w) ==
  /\ Writing(w)
  /\ Stop
  /\ UNCHANGED <<started, tick, ticked, at, muVars, writing, awaitingACK, sinceMark,
                 timers, inbox, unanswered, outran, alarm, quiet>>

\* Mutant: the timer of an older heartbeat counts as that of the newest.
MarkSameGeneration(w) ==
  /\ open /\ at[w] = "mark"
  /\ awaitingACK' = TRUE /\ sinceMark' = 0
  /\ timers' = timers \cup {[left |-> Timeout, newest |-> TRUE]}
  /\ outran' = ~Owing
  /\ at' = [at EXCEPT ![w] = "wait"]
  /\ UNCHANGED <<open, started, tick, ticked, muVars, writing, inbox, unanswered, alarm,
                 quiet>>

\* markHeartbeatSent, after the write has returned.
Mark(w) ==
  /\ open /\ at[w] = "mark"
  /\ awaitingACK' = TRUE /\ sinceMark' = 0
  /\ timers' = {[left |-> t.left, newest |-> FALSE] : t \in timers}
                 \cup {[left |-> Timeout, newest |-> TRUE]}
  /\ outran' = ~Owing
  /\ at' = [at EXCEPT ![w] = "wait"]
  /\ UNCHANGED <<open, started, tick, ticked, muVars, writing, inbox, unanswered, alarm,
                 quiet>>

\* Mutant: whoever waits for the timeout leaves it to the next tick.
TimerFiresIdle(t) ==
  /\ open /\ t \in timers /\ t.left = 0
  /\ timers' = timers \ {t}
  /\ NoWrite
  /\ UNCHANGED <<open, alarm, started, tick, ticked, awaitingACK, sinceMark, inbox, unanswered,
                 outran, quiet>>

TimerFires(t) ==
  /\ open /\ t \in timers /\ t.left = 0
  /\ timers' = timers \ {t}
  /\ IF awaitingACK /\ t.newest
       THEN Stop /\ alarm' = TRUE ELSE UNCHANGED <<open, alarm>>
  /\ NoWrite
  /\ UNCHANGED <<started, tick, ticked, awaitingACK, sinceMark, inbox, unanswered, outran, quiet>>

-----------------------------------------------------------------------------
\* A unit of time passes when no goroutine can go on without it.
Settled ==
  /\ ~(ticked /\ at["ticker"] = "wait")
  /\ ~(inbox # <<>> /\ at["reader"] = "wait")
  /\ \A w \in Writers : at[w] # "mark"
  /\ holder # Nobody => writing < WriteDeadline
  /\ \A t \in timers : t.left > 0

Older(age, limit) == IF age < limit THEN age + 1 ELSE age

Pass ==
  /\ open /\ Settled
  /\ IF started /\ tick = 1
       THEN tick' = Delay /\ ticked' = TRUE
       ELSE tick' = (IF started THEN tick - 1 ELSE tick) /\ UNCHANGED ticked
  /\ writeMu!Waits
  /\ writing' = IF holder = Nobody THEN 0 ELSE writing + 1
  /\ sinceMark' = Older(sinceMark, Timeout)
  /\ timers' = {[left |-> t.left - 1, newest |-> t.newest] : t \in timers}
  /\ quiet' = Older(quiet, Patience + 1)
  /\ UNCHANGED <<open, started, at, awaitingACK, inbox, unanswered, outran, alarm>>

Next ==
  \/ ServerAnswers \/ ServerAsks
  \/ ReadHello \/ ReadHeartbeat \/ ReadACK
  \/ TickerTakes \/ PresenceWrites \/ TriesAgain
  \/ \E w \in Writers : WriteSucceeds(w) \/ WriteFails(w) \/ Mark(w)
  \/ \E t \in timers : TimerFires(t)
  \/ Pass

Spec == Init /\ [][Next]_vars

-----------------------------------------------------------------------------
TypeOK ==
  /\ open \in BOOLEAN /\ started \in BOOLEAN /\ ticked \in BOOLEAN /\ awaitingACK \in BOOLEAN
  /\ tick \in 1..Delay
  /\ at \in [Writers -> {"wait", "beat", "tell", "mark"}]
  /\ holder \in Writers \cup {Nobody} /\ awake \in Writers \cup {Nobody} /\ starving \in BOOLEAN
  /\ waiters \in Seq(Writers) /\ Len(waiters) <= 2 /\ late \subseteq writeMu!Waiting
  /\ \A w \in Writers :
       at[w] \in {"beat", "tell"} <=> w \in {holder, awake} \cup writeMu!Waiting
  /\ writing \in 0..WriteDeadline
  /\ sinceMark \in 0..Timeout
  /\ timers \subseteq [left : 0..Timeout, newest : BOOLEAN]
  /\ Cardinality({t \in timers : t.newest}) <= 1
  /\ inbox \in Seq({"hello", "ack", "heartbeat"}) /\ Len(inbox) <= MaxInFlight
  /\ unanswered \in 0..MaxInFlight + 1
  /\ outran \in BOOLEAN /\ alarm \in BOOLEAN
  /\ quiet \in Nat

(***************************************************************************)
(* A connection is given up for a missing ACK only when the last heartbeat *)
(* was marked the whole timeout ago, and some heartbeat was not answered   *)
(* (the generation in markHeartbeatSent, which tells the timers apart).    *)
(* The exception is what the code does: a heartbeat is marked after it was *)
(* written, and when its ACK is read in between, the mark waits for an ACK *)
(* that has come already.                                                  *)
(***************************************************************************)
NoFalseAlarm == alarm => sinceMark = Timeout /\ (Owing \/ outran)

(***************************************************************************)
(* A server that has fallen silent is noticed: the connection is stopped a *)
(* period of the ticker, five writes and the timeout after the last        *)
(* payload was read, whichever heartbeats were asked for, written, passed  *)
(* over or answered before, and whoever takes writeMu before a heartbeat   *)
(* that waits for it (the ticker of startHeartbeat and the timer of        *)
(* markHeartbeatSent between them).                                        *)
(***************************************************************************)
SilenceNoticed == open /\ started => quiet <= Patience
=============================================================================
