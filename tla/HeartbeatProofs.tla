-------------------------- MODULE HeartbeatProofs --------------------------
(***************************************************************************)
(* Heartbeat's two properties, for any period, timeout and deadline.       *)
(*                                                                         *)
(* NoFalseAlarm: the invariant relates the newest timer to the mark that   *)
(* it was started with, and the mark to a heartbeat that has no ACK.       *)
(*                                                                         *)
(* SilenceNoticed: the invariant follows what the client waits for, a      *)
(* tick, writeMu or a timeout, and bounds how long nothing will have been  *)
(* read when that comes.                                                   *)
(***************************************************************************)
EXTENDS Heartbeat, FiniteSetTheorems, SequenceTheorems, TLAPS

\* Types of the variables that the argument is about.
Typed ==
  /\ open \in BOOLEAN /\ awaitingACK \in BOOLEAN /\ outran \in BOOLEAN /\ alarm \in BOOLEAN
  /\ sinceMark \in 0..Timeout
  /\ timers \subseteq [left : 0..Timeout, newest : BOOLEAN]
  /\ inbox \in Seq({"hello", "ack", "heartbeat"})
  /\ unanswered \in Nat

\* What is waited for is owed, unless it came before the wait.
WaitIsOwed == awaitingACK => Owing \/ outran

\* The newest timer ends as heartbeatSent becomes Timeout old.
NewestTimesMark == \A t \in timers : t.newest => t.left + sinceMark = Timeout

AlarmInv == Typed /\ WaitIsOwed /\ NewestTimesMark /\ (alarm => ~open) /\ NoFalseAlarm

\* A step of the open connection that raises no alarm.
Quietly == open /\ Typed' /\ alarm' = alarm

\* Such a step keeps the invariant when it keeps its two parts.
LEMMA QuietStep ==
  ASSUME AlarmInv, Quietly, WaitIsOwed', NewestTimesMark'
  PROVE  AlarmInv'
  BY DEF AlarmInv, Quietly, NoFalseAlarm

\* A step that stops the connection, and leaves the clocks and what is owed alone.
LEMMA StopStep ==
  ASSUME AlarmInv, open, open' = FALSE, timers' \subseteq timers,
         UNCHANGED <<awaitingACK, outran, sinceMark, inbox, unanswered>>,
         alarm' = alarm \/ (alarm' = TRUE /\ awaitingACK /\ sinceMark = Timeout)
  PROVE  AlarmInv'
<1>1. WaitIsOwed' /\ NewestTimesMark'
  BY DEF AlarmInv, WaitIsOwed, NewestTimesMark, Owing
<1>2. Typed'
  BY DEF AlarmInv, Typed
<1>3. CASE alarm' = alarm
  BY <1>1, <1>2, <1>3 DEF AlarmInv, NoFalseAlarm
<1>4. CASE alarm' = TRUE /\ awaitingACK /\ sinceMark = Timeout
  BY <1>1, <1>2, <1>4 DEF AlarmInv, NoFalseAlarm, WaitIsOwed
<1> QED
  BY <1>3, <1>4

\* A step that leaves the clocks, the wait and what is owed alone.
LEMMA IdleStep ==
  ASSUME AlarmInv, open, timers' \subseteq timers,
         UNCHANGED <<open, alarm, awaitingACK, outran, sinceMark, inbox, unanswered>>
  PROVE  AlarmInv'
<1>1. WaitIsOwed' /\ NewestTimesMark'
  BY DEF AlarmInv, WaitIsOwed, NewestTimesMark, Owing
<1>2. Quietly
  BY DEF AlarmInv, Typed, Quietly
<1> QED
  BY <1>1, <1>2, QuietStep

\* Init has no wait and no timer.
LEMMA AlarmInit == ASSUME Init PROVE AlarmInv
<1>1. <<"hello">> \in Seq({"hello", "ack", "heartbeat"})
  OBVIOUS
<1>2. 0 \in 0..Timeout
  BY HeartbeatAssumption DEF HeartbeatAssumption
<1>3. Typed
  BY <1>1, <1>2 DEF Init, Typed
<1> QED
  BY <1>3 DEF Init, AlarmInv, WaitIsOwed, NewestTimesMark, NoFalseAlarm

\* A payload that is put into the inbox, an ACK in the place of one that was unanswered.
LEMMA ServerStep == ASSUME AlarmInv, ServerAnswers \/ ServerAsks PROVE AlarmInv'
<1> USE DEF AlarmInv, Typed, ServerSends, clientVars
<1>1. CASE ServerAnswers
  <2>1. inbox' = Append(inbox, "ack") /\ inbox' \in Seq({"hello", "ack", "heartbeat"})
    BY <1>1 DEF ServerAnswers
  <2>2. Len(inbox') \in DOMAIN inbox' /\ inbox'[Len(inbox')] = "ack"
    BY <2>1
  <2>3. Owing'
    BY <2>2 DEF Owing
  <2>4. Quietly
    BY <1>1, <2>1 DEF ServerAnswers, Quietly
  <2> QED
    BY <1>1, <2>3, <2>4, QuietStep DEF ServerAnswers, WaitIsOwed, NewestTimesMark
<1>2. CASE ServerAsks
  <2>1. inbox' = Append(inbox, "heartbeat") /\ inbox' \in Seq({"hello", "ack", "heartbeat"})
    BY <1>2 DEF ServerAsks
  <2>2. \A i \in DOMAIN inbox : i \in DOMAIN inbox' /\ inbox'[i] = inbox[i]
    BY <2>1
  <2>3. Owing => Owing'
    BY <1>2, <2>2 DEF Owing, ServerAsks
  <2>4. Quietly
    BY <1>2, <2>1 DEF ServerAsks, Quietly
  <2> QED
    BY <1>2, <2>3, <2>4, QuietStep DEF ServerAsks, WaitIsOwed, NewestTimesMark
<1> QED
  BY <1>1, <1>2

\* A payload that is read is no ACK, or ends the wait.
LEMMA ReadStep == ASSUME AlarmInv, ReadHello \/ ReadHeartbeat \/ ReadACK PROVE AlarmInv'
<1>1. PICK payload \in {"hello", "heartbeat", "ack"} : Reads(payload)
  BY DEF ReadHello, ReadHeartbeat, ReadACK
<1>2. Quietly /\ NewestTimesMark'
  <2>1. awaitingACK' \in BOOLEAN
    BY DEF AlarmInv, Typed, ReadHello, ReadHeartbeat, ReadACK
  <2>2. Tail(inbox) \in Seq({"hello", "ack", "heartbeat"})
    BY <1>1 DEF AlarmInv, Typed, Reads
  <2> QED
    BY <1>1, <2>1, <2>2 DEF AlarmInv, Typed, Reads, Quietly, NewestTimesMark
<1>3. WaitIsOwed'
  <2>1. CASE ReadACK
    BY <2>1 DEF ReadACK, WaitIsOwed
  <2>2. CASE (ReadHello \/ ReadHeartbeat) /\ unanswered = 0 /\ Owing
    <3>1. PICK i \in DOMAIN inbox : inbox[i] = "ack"
      BY <2>2 DEF Owing
    <3>2. Head(inbox) # "ack" /\ inbox' = Tail(inbox)
      BY <2>2 DEF ReadHello, ReadHeartbeat, Reads
    <3>3. i - 1 \in DOMAIN inbox' /\ inbox'[i - 1] = "ack"
      BY <3>1, <3>2 DEF AlarmInv, Typed
    <3> QED
      BY <3>3 DEF WaitIsOwed, Owing
  <2>3. CASE (ReadHello \/ ReadHeartbeat) /\ ~(unanswered = 0 /\ Owing)
    <3>1. UNCHANGED <<awaitingACK, outran, unanswered>>
      BY <2>3 DEF ReadHello, ReadHeartbeat, Reads
    <3>2. unanswered > 0 \/ ~Owing
      BY <2>3 DEF AlarmInv, Typed, Owing
    <3> QED
      BY <3>1, <3>2 DEF AlarmInv, WaitIsOwed, Owing
  <2> QED
    BY <2>1, <2>2, <2>3
<1> QED
  BY <1>2, <1>3, QuietStep

\* A mark starts a wait and its timer; an older timer is not the newest any more.
LEMMA MarkStep == ASSUME AlarmInv, NEW w \in Writers, Mark(w) PROVE AlarmInv'
<1>1. WaitIsOwed'
  BY DEF Mark, WaitIsOwed, Owing
<1>2. \A t \in timers :
        [left |-> t.left, newest |-> FALSE] \in [left : 0..Timeout, newest : {FALSE}]
  BY DEF AlarmInv, Typed
<1>3. NewestTimesMark'
  BY <1>2, HeartbeatAssumption DEF HeartbeatAssumption, Mark, NewestTimesMark
<1>4. Quietly
  <2>1. [left |-> Timeout, newest |-> TRUE] \in [left : 0..Timeout, newest : BOOLEAN]
    BY HeartbeatAssumption DEF HeartbeatAssumption
  <2>2. timers' \subseteq [left : 0..Timeout, newest : BOOLEAN]
    BY <1>2, <2>1 DEF Mark
  <2>3. sinceMark' \in 0..Timeout
    BY HeartbeatAssumption DEF HeartbeatAssumption, Mark
  <2>4. outran' \in BOOLEAN
    BY DEF Mark, Owing
  <2> QED
    BY <2>2, <2>3, <2>4 DEF AlarmInv, Typed, Mark, Quietly
<1> QED
  BY <1>1, <1>3, <1>4, QuietStep

\* With time the newest timer comes as much nearer as the mark gets older.
LEMMA PassStep == ASSUME AlarmInv, Pass PROVE AlarmInv'
<1>1. \A t \in timers : t.left \in 1..Timeout /\ t.newest \in BOOLEAN
  BY DEF AlarmInv, Typed, Pass, Settled
<1>2. sinceMark' \in 0..Timeout /\ (sinceMark < Timeout => sinceMark' = sinceMark + 1)
  BY HeartbeatAssumption DEF HeartbeatAssumption, AlarmInv, Typed, Pass, Older
<1>3. timers' \subseteq [left : 0..Timeout, newest : BOOLEAN]
  BY <1>1, HeartbeatAssumption DEF HeartbeatAssumption, Pass
<1>4. NewestTimesMark'
  <2> SUFFICES ASSUME NEW t \in timers, t.newest
               PROVE  t.left - 1 + sinceMark' = Timeout
    BY <1>1 DEF Pass, NewestTimesMark
  <2>1. t.left + sinceMark = Timeout
    BY DEF AlarmInv, NewestTimesMark
  <2> QED
    BY <1>1, <1>2, <2>1, HeartbeatAssumption DEF HeartbeatAssumption, AlarmInv, Typed
<1>5. Quietly
  BY <1>2, <1>3 DEF AlarmInv, Typed, Pass, Quietly
<1>6. WaitIsOwed'
  BY DEF AlarmInv, Pass, WaitIsOwed, Owing
<1> QED
  BY <1>4, <1>5, <1>6, QuietStep

\* Every step keeps the invariant.
LEMMA AlarmStep == ASSUME AlarmInv, [Next]_vars PROVE AlarmInv'
<1>1. CASE ServerAnswers \/ ServerAsks
  BY <1>1, ServerStep
<1>2. CASE ReadHello \/ ReadHeartbeat \/ ReadACK
  BY <1>2, ReadStep
<1>3. CASE TickerTakes
  <2>1. CASE awaitingACK /\ sinceMark = Timeout
    BY <1>3, <2>1, StopStep DEF TickerTakes, Stop
  <2>2. CASE ~(awaitingACK /\ sinceMark = Timeout)
    BY <1>3, <2>2, IdleStep DEF TickerTakes
  <2> QED
    BY <2>1, <2>2
<1>4. CASE PresenceWrites \/ TriesAgain
  BY <1>4, IdleStep DEF PresenceWrites, TriesAgain
<1>5. ASSUME NEW w \in Writers, WriteSucceeds(w) PROVE AlarmInv'
  <2>1. unanswered' \in Nat /\ (Owing => Owing')
    BY <1>5 DEF AlarmInv, Typed, WriteSucceeds, Owing
  <2>2. Quietly
    BY <1>5, <2>1 DEF AlarmInv, Typed, WriteSucceeds, Writing, Quietly
  <2> QED
    BY <1>5, <2>1, <2>2, QuietStep DEF AlarmInv, WriteSucceeds, WaitIsOwed, NewestTimesMark
<1>6. ASSUME NEW w \in Writers, WriteFails(w) PROVE AlarmInv'
  BY <1>6, StopStep DEF WriteFails, Writing, Stop
<1>7. ASSUME NEW w \in Writers, Mark(w) PROVE AlarmInv'
  BY <1>7, MarkStep
<1>8. ASSUME NEW t \in timers, TimerFires(t) PROVE AlarmInv'
  <2>1. CASE awaitingACK /\ t.newest
    <3>1. t.left = 0 /\ t.left + sinceMark = Timeout /\ sinceMark \in Nat
      BY <1>8, <2>1, HeartbeatAssumption DEF HeartbeatAssumption, TimerFires, AlarmInv,
          NewestTimesMark, Typed
    <3>2. sinceMark = Timeout
      BY <3>1, HeartbeatAssumption DEF HeartbeatAssumption
    <3> QED
      BY <1>8, <2>1, <3>2, StopStep DEF TimerFires, Stop
  <2>2. CASE ~(awaitingACK /\ t.newest)
    BY <1>8, <2>2, IdleStep DEF TimerFires
  <2> QED
    BY <2>1, <2>2
<1>9. CASE Pass
  BY <1>9, PassStep
<1>10. CASE UNCHANGED vars
  BY <1>10 DEF vars, clientVars, AlarmInv, Typed, WaitIsOwed, NewestTimesMark, NoFalseAlarm, Owing
<1> QED
  BY <1>1, <1>2, <1>3, <1>4, <1>5, <1>6, <1>7, <1>8, <1>9, <1>10 DEF Next

(***************************************************************************)
(* A connection is given up for a missing ACK only a whole timeout after   *)
(* the last mark, and with a heartbeat unanswered or answered before its   *)
(* mark (TickerTakes and TimerFires: gateway.go:270-288 and :237-246).     *)
(***************************************************************************)
THEOREM NoFalseAlarmHolds == Spec => []NoFalseAlarm
<1>1. Init => AlarmInv
  BY AlarmInit
<1>2. AlarmInv /\ [Next]_vars => AlarmInv'
  BY AlarmStep
<1>3. AlarmInv => NoFalseAlarm
  BY DEF AlarmInv
<1> QED
  BY <1>1, <1>2, <1>3, PTL DEF Spec

-----------------------------------------------------------------------------
(***************************************************************************)
(* The queue for writeMu.  Of three writers two wait at most.              *)
(***************************************************************************)
First == IF Len(waiters) < 1 THEN Nobody ELSE waiters[1]

Second == IF Len(waiters) < 2 THEN Nobody ELSE waiters[2]

Lined == waiters \in Seq(Writers) /\ Len(waiters) <= 2

Places ==
  /\ {holder, awake, First, Second} \subseteq Writers \cup {Nobody}
  /\ starving \in BOOLEAN /\ late \subseteq {First, Second} \ {Nobody}
  /\ Second # Nobody => First # Nobody /\ First # Second
  /\ holder # Nobody => holder \notin {awake, First, Second}
  /\ awake \notin {Nobody, First} => First # Nobody /\ Second = Nobody
  /\ holder = Nobody /\ First # Nobody => awake # Nobody
  /\ starving => holder # Nobody /\ awake = Nobody /\ First # Nobody
  /\ Second \in late => First \in late

AtWork ==
  /\ at \in [Writers -> {"wait", "beat", "tell", "mark"}]
  /\ at["presence"] \in {"wait", "tell"} /\ at["ticker"] # "tell"
  /\ \A w \in Writers : at[w] \in {"beat", "tell"} <=> w \in {holder, awake, First, Second}

Queued == Lined /\ Places /\ AtWork

\* The clocks, and a timer for a wait.
Timed ==
  /\ started \in BOOLEAN /\ ticked \in BOOLEAN
  /\ tick \in 1..Delay /\ writing \in 0..WriteDeadline /\ quiet \in Nat
  /\ open /\ awaitingACK => \E t \in timers : t.newest

\* Time to the tick that the ticker's goroutine takes next.
DueIn == IF ticked THEN 0 ELSE tick

\* Time that the write may still take that has writeMu.
Left == IF holder = Nobody THEN 0 ELSE WriteDeadline - writing

\* The other one of the two that write heartbeats.
Other(w) == IF w = "ticker" THEN "reader" ELSE "ticker"

(***************************************************************************)
(* In how much time the write of w has ended, at the latest: w's own write *)
(* and those that may come before it, if the other one does not come anew. *)
(***************************************************************************)
FirstEnds(w) ==
  IF starving THEN Left + WriteDeadline
  ELSE IF awake = w THEN 2 * WriteDeadline
  ELSE IF awake = Other(w) THEN 4 * WriteDeadline
  ELSE IF holder = Other(w) \/ awake = "presence" THEN Left + 3 * WriteDeadline
  ELSE Left + 2 * WriteDeadline

SecondEnds(w) ==
  IF starving THEN Left + 2 * WriteDeadline
  ELSE IF First = "presence"
    THEN IF awake = First THEN 3 * WriteDeadline ELSE Left + 3 * WriteDeadline
    ELSE IF awake = First THEN 4 * WriteDeadline ELSE Left + 4 * WriteDeadline

EarlyEnds(w) ==
  IF First = w
    THEN IF Other(w) \in {holder, awake} THEN 4 * WriteDeadline ELSE 3 * WriteDeadline
    ELSE IF Second = w /\ First = "presence" THEN 4 * WriteDeadline ELSE 5 * WriteDeadline

Ends(w) ==
  IF w = holder THEN Left
  ELSE IF w \notin late THEN EarlyEnds(w)
  ELSE IF First = w THEN FirstEnds(w)
  ELSE SecondEnds(w)

\* The next tick starts a heartbeat, and is due in time.
TickerComes == at["ticker"] = "wait" /\ ~awaitingACK

TickInTime == TickerComes => quiet + DueIn <= Delay

\* A heartbeat is written in time, marked in time, and its timeout ends in time.
BeatInTime ==
  \A w \in {"ticker", "reader"} : at[w] = "beat" => quiet + Ends(w) <= Delay + 5 * WriteDeadline

MarkInTime == \A w \in Writers : at[w] = "mark" => quiet <= Delay + 5 * WriteDeadline

TimeoutInTime == awaitingACK => \E t \in timers : t.newest /\ quiet + t.left <= Patience

InTime == TickInTime /\ BeatInTime /\ MarkInTime /\ TimeoutInTime

SilenceInv == Typed /\ Queued /\ Timed /\ (open /\ started => InTime)

-----------------------------------------------------------------------------
\* A queue with one more at its end, and one without its first.
LEMMA OneMore ==
  ASSUME NEW s \in Seq(Writers), NEW w \in Writers, NEW n \in 0..1, Len(s) = n
  PROVE  /\ Append(s, w) \in Seq(Writers) /\ Len(Append(s, w)) = n + 1 /\ Append(s, w)[n + 1] = w
         /\ n = 1 => Append(s, w)[1] = s[1] /\ s[1] \in Writers
  OBVIOUS

LEMMA OneLess ==
  ASSUME NEW s \in Seq(Writers), NEW n \in 1..2, Len(s) = n
  PROVE  /\ Tail(s) \in Seq(Writers) /\ Len(Tail(s)) = n - 1
         /\ n = 2 => Tail(s)[1] = s[2]
  OBVIOUS

\* What Lined says of the first two.
LEMMA Lining ==
  ASSUME Lined
  PROVE  /\ {First, Second} \subseteq Writers \cup {Nobody} /\ Len(waiters) \in 0..2
         /\ First = Nobody <=> waiters = <<>>
         /\ First # Nobody => Head(waiters) = First
         /\ First # Nobody => (Second = Nobody <=> Tail(waiters) = <<>>)
         /\ writeMu!Waiting = {First, Second} \ {Nobody}
<1>1. Len(waiters) \in 0..2 /\ DOMAIN waiters = 1..Len(waiters)
  <2>1. Len(waiters) \in Nat /\ Len(waiters) <= 2
    BY DEF Lined
  <2>2. DOMAIN waiters = 1..Len(waiters)
    BY DEF Lined
  <2> QED
    BY <2>1, <2>2
<1>2. \A i \in DOMAIN waiters : waiters[i] \in Writers
  BY DEF Lined
<1>3. Nobody \notin Writers
  BY HeartbeatAssumption DEF HeartbeatAssumption, Writers
<1>4. CASE Len(waiters) = 0
  <2>1. First = Nobody /\ Second = Nobody /\ waiters = <<>>
    BY <1>4 DEF First, Second, Lined
  <2>2. writeMu!Waiting = {}
    BY <1>1, <1>4 DEF writeMu!Waiting
  <2> QED
    BY <2>1, <2>2
<1>5. CASE Len(waiters) = 1
  <2>1. 1 \in DOMAIN waiters /\ DOMAIN waiters = {1}
    BY <1>1, <1>5
  <2>2. First = waiters[1] /\ Second = Nobody /\ waiters # <<>>
    BY <1>5 DEF First, Second
  <2>3. Head(waiters) = First /\ Tail(waiters) = <<>>
    <3>1. Tail(waiters) \in Seq(Writers) /\ Len(Tail(waiters)) = 0
      BY <1>5, OneLess DEF Lined
    <3>2. Tail(waiters) = <<>>
      BY <3>1, EmptySeq
    <3> QED
      BY <2>2, <3>2
  <2>4. writeMu!Waiting = {waiters[1]}
    BY <2>1 DEF writeMu!Waiting
  <2> QED
    BY <1>2, <1>3, <2>1, <2>2, <2>3, <2>4
<1>6. CASE Len(waiters) = 2
  <2>1. 1 \in DOMAIN waiters /\ 2 \in DOMAIN waiters /\ DOMAIN waiters = {1, 2}
    BY <1>1, <1>6
  <2>2. First = waiters[1] /\ Second = waiters[2] /\ waiters # <<>>
    BY <1>6 DEF First, Second
  <2>3. Head(waiters) = First /\ Tail(waiters) # <<>>
    BY <1>6, <2>2 DEF Lined
  <2>4. writeMu!Waiting = {waiters[1], waiters[2]}
    BY <2>1 DEF writeMu!Waiting
  <2> QED
    BY <1>2, <1>3, <2>1, <2>2, <2>3, <2>4
<1> QED
  BY <1>1, <1>4, <1>5, <1>6

\* Who comes last takes the first free place.
LEMMA Appended ==
  ASSUME Lined, Second = Nobody, NEW w \in Writers, waiters' = Append(waiters, w)
  PROVE  /\ Lined'
         /\ First = Nobody => First' = w /\ Second' = Nobody
         /\ First # Nobody => First' = First /\ Second' = w
<1>1. Nobody \notin Writers
  BY HeartbeatAssumption DEF HeartbeatAssumption, Writers
<1>2. waiters \in Seq(Writers) /\ Len(waiters) \in 0..2
  BY Lining DEF Lined
<1>3. CASE Len(waiters) = 0
  <2>1. waiters' \in Seq(Writers) /\ Len(waiters') = 1 /\ waiters'[1] = w
    BY <1>2, <1>3, OneMore
  <2> QED
    BY <1>3, <2>1 DEF First, Second, Lined
<1>4. CASE Len(waiters) = 1
  <2>1. /\ waiters' \in Seq(Writers) /\ Len(waiters') = 2 /\ waiters'[2] = w
        /\ waiters'[1] = waiters[1] /\ waiters[1] \in Writers
    BY <1>2, <1>4, OneMore
  <2> QED
    BY <1>1, <1>4, <2>1 DEF First, Second, Lined
<1>5. CASE Len(waiters) = 2
  <2>1. Second = waiters[2] /\ waiters[2] \in Writers
    BY <1>2, <1>5 DEF Second
  <2> QED
    BY <1>1, <2>1
<1> QED
  BY <1>2, <1>3, <1>4, <1>5

\* When the first leaves, the second is the first.
LEMMA Popped ==
  ASSUME Lined, First # Nobody, waiters' = Tail(waiters)
  PROVE  Lined' /\ First' = Second /\ Second' = Nobody
<1>1. waiters \in Seq(Writers) /\ Len(waiters) \in 0..2
  BY Lining DEF Lined
<1>2. CASE Len(waiters) = 0
  BY <1>2 DEF First
<1>3. CASE Len(waiters) = 1
  <2>1. waiters' \in Seq(Writers) /\ Len(waiters') = 0
    BY <1>1, <1>3, OneLess
  <2> QED
    BY <1>3, <2>1 DEF First, Second, Lined
<1>4. CASE Len(waiters) = 2
  <2>1. waiters' \in Seq(Writers) /\ Len(waiters') = 1 /\ waiters'[1] = waiters[2]
    BY <1>1, <1>4, OneLess
  <2> QED
    BY <1>4, <2>1, SMTT(20) DEF First, Second, Lined
<1> QED
  BY <1>1, <1>2, <1>3, <1>4

-----------------------------------------------------------------------------
(***************************************************************************)
(* What the steps of the mutex do to the places.                           *)
(***************************************************************************)
GetsIt(w) ==
  /\ holder = Nobody /\ holder' = w
  /\ UNCHANGED <<First, Second, awake, late, starving>>

\* w takes the first free place, and its flag is down.
Behind(w) ==
  /\ holder # Nobody /\ Second = Nobody
  /\ UNCHANGED <<holder, late, starving>>
  /\ IF First = Nobody THEN First' = w /\ Second' = Nobody ELSE First' = First /\ Second' = w

Queues(w) == Behind(w) /\ awake \in {Nobody, First} /\ awake' = awake

SpunInVain == awake \notin {Nobody, First} /\ Behind(awake) /\ awake' = Nobody

Spins(w) ==
  /\ holder # Nobody /\ First # Nobody /\ Second = Nobody /\ awake = Nobody /\ ~starving
  /\ awake' = w
  /\ UNCHANGED <<holder, First, Second, late, starving>>

FirstSucceeds ==
  /\ awake = First /\ First # Nobody /\ holder = Nobody
  /\ holder' = First /\ awake' = Nobody /\ First' = Second /\ Second' = Nobody
  /\ late' = late \ {First} /\ starving' = starving

SpinnerSucceeds ==
  /\ awake \notin {Nobody, First} /\ holder = Nobody
  /\ holder' = awake /\ awake' = Nobody
  /\ late' = late \ {awake} /\ UNCHANGED <<First, Second, starving>>

WokenInVain ==
  /\ awake = First /\ First # Nobody /\ holder # Nobody
  /\ awake' = Nobody
  /\ \/ starving' = TRUE /\ late' = late \cup {First}
     \/ First \notin late /\ starving' = FALSE /\ late' = late
  /\ UNCHANGED <<holder, First, Second>>

Wakes ==
  /\ ~starving /\ holder' = Nobody
  /\ awake' = IF awake = Nobody THEN First ELSE awake
  /\ UNCHANGED <<First, Second, late, starving>>

HandsOver ==
  /\ starving
  /\ holder' = First /\ First' = Second /\ Second' = Nobody
  /\ late' = late \ {First}
  /\ starving' \in BOOLEAN
  /\ Second = Nobody => ~starving'
  /\ Second # Nobody /\ First \in late => starving'
  /\ awake' = awake

\* Who calls Lock gets it, queues or spins.
LEMMA Locked ==
  ASSUME Queued, NEW w \in Writers, at[w] = "wait", writeMu!Lock(w)
  PROVE  Lined' /\ (GetsIt(w) \/ Queues(w) \/ Spins(w))
<1>1. w \notin {holder, awake, First, Second} /\ w # Nobody
  BY HeartbeatAssumption DEF HeartbeatAssumption, Queued, AtWork, Writers
<1>2. writeMu!Free <=> holder = Nobody
  BY DEF writeMu!Free, Queued, Places
<1>3. CASE writeMu!Takes(w)
  BY <1>2, <1>3 DEF writeMu!Takes, GetsIt, Queued, Lined, First, Second
<1>4. CASE writeMu!Queues(w)
  <2>1. holder # Nobody
    BY <1>2, <1>4 DEF writeMu!Queues
  <2>2. Second = Nobody /\ awake \in {Nobody, First}
    BY <1>1, <2>1, HeartbeatAssumption DEF HeartbeatAssumption, Queued, Places, Writers
  <2>3. waiters' = Append(waiters, w) /\ UNCHANGED <<holder, awake, late, starving>>
    BY <1>4 DEF writeMu!Queues
  <2> QED
    BY <2>1, <2>2, <2>3, Appended DEF Queues, Behind, Queued
<1>5. CASE writeMu!Spins(w)
  <2>1. /\ holder # Nobody /\ waiters # <<>> /\ awake = Nobody /\ ~starving /\ awake' = w
        /\ UNCHANGED <<holder, waiters, late, starving>>
    BY <1>2, <1>5 DEF writeMu!Spins
  <2>2. First # Nobody
    BY <2>1, Lining DEF Queued
  <2>3. Second = Nobody
    BY <1>1, <2>1, <2>2, HeartbeatAssumption DEF HeartbeatAssumption, Queued, Places, Writers
  <2>4. Lined' /\ UNCHANGED <<First, Second>>
    BY <2>1 DEF Queued, Lined, First, Second
  <2> QED
    BY <2>1, <2>2, <2>3, <2>4 DEF Spins
<1> QED
  BY <1>3, <1>4, <1>5 DEF writeMu!Lock

\* Who is awake gets it, or waits again.
LEMMA Tried ==
  ASSUME Queued, writeMu!Tries
  PROVE  Lined' /\ (FirstSucceeds \/ SpinnerSucceeds \/ WokenInVain \/ SpunInVain)
<1>1. writeMu!Waiting = {First, Second} \ {Nobody}
  BY Lining DEF Queued
<1>2. writeMu!Free <=> holder = Nobody
  BY DEF writeMu!Free, Queued, Places
<1>3. awake # Nobody /\ (awake \in writeMu!Waiting <=> awake = First)
  BY <1>1 DEF writeMu!Tries, writeMu!Succeeds, writeMu!WokenInVain, writeMu!SpunInVain,
              Queued, Places
<1>4. CASE writeMu!Succeeds /\ awake = First
  <2>1. /\ holder = Nobody /\ holder' = awake /\ awake' = Nobody /\ waiters' = Tail(waiters)
        /\ late' = late \ {awake} /\ UNCHANGED starving
    BY <1>2, <1>3, <1>4 DEF writeMu!Succeeds
  <2> QED
    BY <1>3, <1>4, <2>1, Popped DEF FirstSucceeds, Queued
<1>5. CASE writeMu!Succeeds /\ awake # First
  <2>1. /\ holder = Nobody /\ holder' = awake /\ awake' = Nobody /\ waiters' = waiters
        /\ late' = late \ {awake} /\ UNCHANGED starving
    BY <1>2, <1>3, <1>5 DEF writeMu!Succeeds
  <2>2. Lined' /\ UNCHANGED <<First, Second>>
    BY <2>1 DEF Queued, Lined, First, Second
  <2> QED
    BY <1>3, <1>5, <2>1, <2>2 DEF SpinnerSucceeds
<1>6. CASE writeMu!WokenInVain
  <2>1. /\ awake = First /\ holder # Nobody /\ awake' = Nobody /\ UNCHANGED <<holder, waiters>>
    BY <1>2, <1>3, <1>6 DEF writeMu!WokenInVain
  <2>2. PICK long \in writeMu!Long(awake) :
          /\ starving' = long
          /\ late' = IF long THEN late \cup {awake} ELSE late
    BY <1>6 DEF writeMu!WokenInVain
  <2>4. long \in BOOLEAN /\ (awake \in late => long)
    BY DEF writeMu!Long
  <2>3. Lined' /\ UNCHANGED <<First, Second>>
    BY <2>1 DEF Queued, Lined, First, Second
  <2> QED
    BY <1>3, <2>1, <2>2, <2>3, <2>4 DEF WokenInVain
<1>7. CASE writeMu!SpunInVain
  <2>1. /\ awake # First /\ holder # Nobody /\ awake' = Nobody /\ waiters' = Append(waiters, awake)
        /\ UNCHANGED <<holder, late, starving>>
    BY <1>2, <1>3, <1>7 DEF writeMu!SpunInVain
  <2>2. Second = Nobody /\ awake \in Writers
    BY <1>3, <2>1 DEF Queued, Places
  <2> QED
    BY <1>3, <2>1, <2>2, Appended DEF SpunInVain, Behind, Queued
<1> QED
  BY <1>4, <1>5, <1>6, <1>7 DEF writeMu!Tries

\* Unlock wakes the first, or hands the mutex over to it.
LEMMA Unlocked ==
  ASSUME Queued, writeMu!Unlock
  PROVE  Lined' /\ (Wakes \/ HandsOver)
<1>1. CASE writeMu!Wakes
  <2>1. /\ ~starving /\ holder' = Nobody /\ UNCHANGED <<waiters, late, starving>>
        /\ awake' = IF awake = Nobody /\ waiters # <<>> THEN Head(waiters) ELSE awake
    BY <1>1 DEF writeMu!Wakes
  <2>2. awake' = IF awake = Nobody THEN First ELSE awake
    BY <2>1, Lining DEF Queued
  <2>3. Lined' /\ UNCHANGED <<First, Second>>
    BY <2>1 DEF Queued, Lined, First, Second
  <2> QED
    BY <2>1, <2>2, <2>3 DEF Wakes
<1>2. CASE writeMu!HandsOver
  <2>1. starving /\ First # Nobody
    BY <1>2 DEF writeMu!HandsOver, Queued, Places
  <2>2. Head(waiters) = First /\ (Second = Nobody <=> Tail(waiters) = <<>>)
    BY <2>1, Lining DEF Queued
  <2>3. /\ holder' = First /\ waiters' = Tail(waiters) /\ late' = late \ {First}
        /\ UNCHANGED awake
    BY <1>2, <2>2 DEF writeMu!HandsOver
  <2>4. PICK long \in writeMu!Long(First) : starving' = (long /\ Tail(waiters) # <<>>)
    BY <1>2, <2>2 DEF writeMu!HandsOver
  <2>5. long \in BOOLEAN /\ (First \in late => long)
    BY DEF writeMu!Long
  <2>6. Lined' /\ First' = Second /\ Second' = Nobody
    BY <2>1, <2>3, Popped DEF Queued
  <2>7. /\ starving' \in BOOLEAN /\ (Second = Nobody => ~starving')
        /\ (Second # Nobody /\ First \in late => starving')
    BY <2>2, <2>4, <2>5
  <2> QED
    BY <2>1, <2>3, <2>6, <2>7 DEF HandsOver
<1> QED
  BY <1>1, <1>2 DEF writeMu!Unlock

-----------------------------------------------------------------------------
\* A writer that calls Lock leaves the queue in shape.
LEMMA Joins ==
  ASSUME Queued, NEW w \in Writers, at[w] = "wait", NEW what \in {"beat", "tell"},
         w = "presence" => what = "tell", w = "ticker" => what = "beat", Writes(w, what)
  PROVE  Queued'
<1> USE HeartbeatAssumption DEF HeartbeatAssumption
<1>1. Lined' /\ (GetsIt(w) \/ Queues(w) \/ Spins(w))
  BY Locked DEF Writes
<1>2. /\ at' \in [Writers -> {"wait", "beat", "tell", "mark"}]
      /\ at'[w] = what /\ \A v \in Writers \ {w} : at'[v] = at[v]
  BY DEF Queued, AtWork, Writes
<1>3. w \notin {holder, awake, First, Second} /\ w # Nobody
  BY DEF Queued, AtWork, Writers
<1>4. Places'
  BY <1>1, <1>3 DEF Queued, Places, GetsIt, Queues, Behind, Spins, Writers
<1>5. /\ at'["presence"] \in {"wait", "tell"} /\ at'["ticker"] # "tell"
      /\ \A v \in Writers : at'[v] \in {"beat", "tell"} <=> v = w \/ at[v] \in {"beat", "tell"}
  BY <1>2 DEF Queued, AtWork, Writers
<1>6. \A v \in Writers : v \in {holder, awake, First, Second}'
        <=> v = w \/ v \in {holder, awake, First, Second}
  BY <1>1, <1>3 DEF Queued, Places, GetsIt, Queues, Behind, Spins, Writers
<1>7. AtWork'
  BY <1>2, <1>5, <1>6 DEF Queued, AtWork
<1> QED
  BY <1>1, <1>4, <1>7 DEF Queued

\* So does a writer that tries again.
LEMMA TriesQueued == ASSUME Queued, TriesAgain PROVE Queued'
<1> USE HeartbeatAssumption DEF HeartbeatAssumption
<1>1. Lined' /\ (FirstSucceeds \/ SpinnerSucceeds \/ WokenInVain \/ SpunInVain)
  BY Tried DEF TriesAgain
<1>2. UNCHANGED <<at, awaitingACK>>
  BY DEF TriesAgain
<1>3. Places'
  <2>1. CASE FirstSucceeds \/ SpinnerSucceeds
    BY <2>1 DEF Queued, Places, FirstSucceeds, SpinnerSucceeds, Writers
  <2>2. CASE WokenInVain
    BY <2>2 DEF Queued, Places, WokenInVain, Writers
  <2>3. CASE SpunInVain
    BY <2>3 DEF Queued, Places, SpunInVain, Behind, Writers
  <2> QED
    BY <1>1, <2>1, <2>2, <2>3
<1>4. \A v \in Writers : v \in {holder, awake, First, Second}'
        <=> v \in {holder, awake, First, Second}
  BY <1>1 DEF Queued, Places, FirstSucceeds, SpinnerSucceeds, WokenInVain, SpunInVain, Behind,
      Writers
<1>5. AtWork'
  BY <1>2, <1>4 DEF Queued, AtWork
<1> QED
  BY <1>1, <1>3, <1>5 DEF Queued

\* So does a writer that unlocks.
LEMMA Leaves ==
  ASSUME Queued, NEW w \in Writers, WriteSucceeds(w)
  PROVE  /\ Queued' /\ (Wakes \/ HandsOver)
         /\ at[w] \in {"beat", "tell"} /\ \A v \in Writers \ {w} : at'[v] = at[v]
         /\ at'[w] = IF at[w] = "beat" THEN "mark" ELSE "wait"
<1> USE HeartbeatAssumption DEF HeartbeatAssumption
<1>1. Lined' /\ (Wakes \/ HandsOver)
  BY Unlocked DEF WriteSucceeds
<1>2. holder = w /\ awaitingACK' = awaitingACK /\ at[w] \in {"beat", "tell"}
  BY DEF WriteSucceeds, Writing, Queued, AtWork
<1>3. /\ at' \in [Writers -> {"wait", "beat", "tell", "mark"}]
      /\ at'[w] = IF at[w] = "beat" THEN "mark" ELSE "wait"
      /\ \A v \in Writers \ {w} : at'[v] = at[v]
  BY DEF Queued, AtWork, WriteSucceeds
<1>4. Places'
  BY <1>1, <1>2 DEF Queued, Places, Wakes, HandsOver, Writers
<1>5. /\ at'["presence"] \in {"wait", "tell"} /\ at'["ticker"] # "tell"
      /\ \A v \in Writers : at'[v] \in {"beat", "tell"} <=> v # w /\ at[v] \in {"beat", "tell"}
  BY <1>2, <1>3 DEF Queued, AtWork, Writers
<1>7. \A v \in Writers : v \in {holder, awake, First, Second}'
        <=> v # w /\ v \in {holder, awake, First, Second}
  BY <1>1, <1>2 DEF Queued, Places, Wakes, HandsOver, Writers
<1>8. AtWork'
  BY <1>3, <1>5, <1>7 DEF Queued, AtWork
<1> QED
  BY <1>1, <1>2, <1>3, <1>4, <1>8 DEF Queued

\* The queue does not depend on the rest.
LEMMA QueuedKept == ASSUME Queued, UNCHANGED <<at, muVars>> PROVE Queued'
<1>1. Lined' /\ UNCHANGED <<First, Second>>
  BY DEF Queued, Lined, First, Second, muVars
<1>2. Places'
  BY <1>1 DEF Queued, Places, muVars
<1>3. AtWork'
  BY <1>1 DEF Queued, AtWork, muVars
<1> QED
  BY <1>1, <1>2, <1>3 DEF Queued

\* Every step keeps the queue in shape.
LEMMA QueuedStep == ASSUME Queued, [Next]_vars PROVE Queued'
<1>1. CASE ReadHello \/ ReadHeartbeat
  BY <1>1, Joins DEF ReadHello, ReadHeartbeat, Reads, Writers
<1>2. CASE TickerTakes
  <2>1. CASE awaitingACK
    BY <1>2, <2>1, QueuedKept DEF TickerTakes, NoWrite
  <2>2. CASE ~awaitingACK
    BY <1>2, <2>2, Joins DEF TickerTakes, Writers
  <2> QED
    BY <2>1, <2>2
<1>3. CASE PresenceWrites
  BY <1>3, Joins DEF PresenceWrites, Writers
<1>4. CASE TriesAgain
  BY <1>4, TriesQueued
<1>5. ASSUME NEW w \in Writers, WriteSucceeds(w) PROVE Queued'
  BY <1>5, Leaves
<1>6. ASSUME NEW w \in Writers, Mark(w) PROVE Queued'
  <2>1. /\ at[w] = "mark" /\ at' = [at EXCEPT ![w] = "wait"] /\ awaitingACK'
        /\ UNCHANGED muVars
    BY <1>6 DEF Mark
  <2>2. Lined' /\ UNCHANGED <<First, Second>>
    BY <2>1 DEF Queued, Lined, First, Second, muVars
  <2>3. Places'
    BY <2>1, <2>2 DEF Queued, Places, muVars
  <2>4. AtWork'
    BY <2>1, <2>2 DEF Queued, AtWork, muVars, Writers
  <2> QED
    BY <2>2, <2>3, <2>4 DEF Queued
<1>7. CASE ServerAnswers \/ ServerAsks \/ UNCHANGED vars
  BY <1>7, QueuedKept DEF ServerAnswers, ServerAsks, ServerSends, vars, clientVars
<1>8. CASE ReadACK
  BY <1>8, QueuedKept DEF ReadACK, Reads, NoWrite
<1>9. ASSUME NEW w \in Writers, WriteFails(w) PROVE Queued'
  BY <1>9, QueuedKept DEF WriteFails
<1>10. ASSUME NEW t \in timers, TimerFires(t) PROVE Queued'
  BY <1>10, QueuedKept DEF TimerFires, NoWrite
<1>11. CASE Pass
  <2>1. /\ late' = {First, Second} \ {Nobody}
        /\ UNCHANGED <<at, holder, waiters, awake, starving, awaitingACK>>
    BY <1>11, Lining DEF Pass, writeMu!Waits, Queued
  <2>2. Lined' /\ UNCHANGED <<First, Second>>
    BY <2>1 DEF Queued, Lined, First, Second
  <2>3. Places'
    BY <2>1, <2>2 DEF Queued, Places
  <2>4. AtWork'
    BY <2>1, <2>2 DEF Queued, AtWork
  <2> QED
    BY <2>2, <2>3, <2>4 DEF Queued
<1> QED
  BY <1>1, <1>2, <1>3, <1>4, <1>5, <1>6, <1>7, <1>8, <1>9, <1>10, <1>11 DEF Next

-----------------------------------------------------------------------------
\* The constants, as far as the arithmetic goes.
LEMMA Sums ==
  /\ Delay \in Nat /\ Delay >= 1 /\ Timeout \in Nat /\ WriteDeadline \in Nat /\ Patience \in Nat
  /\ Patience = Delay + 5 * WriteDeadline + Timeout
  BY HeartbeatAssumption DEF HeartbeatAssumption, Patience

\* Time that is left to who has the mutex.
LEMMA LeftIs ==
  ASSUME writing \in 0..WriteDeadline
  PROVE  Left \in Int /\ 0 <= Left /\ Left <= WriteDeadline
  BY Sums DEF Left

\* A step in which no time passes leaves its holder the time it had, or a new one all of it.
LEMMA LeftAfter ==
  ASSUME writing \in 0..WriteDeadline, Clocked
  PROVE  /\ writing' \in 0..WriteDeadline
         /\ holder' = holder => Left' = Left
         /\ holder' # holder => Left' = IF holder' = Nobody THEN 0 ELSE WriteDeadline
  BY Sums DEF Left, Clocked

\* Of the writers whose end is of interest.
Beater(v) == v \in {"ticker", "reader"} /\ at[v] = "beat"

\* No write ends later than five deadlines from now.
LEMMA EndsSoon ==
  ASSUME Queued, writing \in 0..WriteDeadline, NEW v, Beater(v)
  PROVE  Ends(v) \in Int /\ 0 <= Ends(v) /\ Ends(v) <= 5 * WriteDeadline
<1> USE Sums, LeftIs
<1>1. v = "reader" \/ v = "ticker"
  BY DEF Beater
<1>2. v \in {holder, awake, First, Second} /\ v # Nobody
  BY HeartbeatAssumption DEF HeartbeatAssumption, Beater, Queued, AtWork, Writers
<1>3. CASE v = holder
  BY <1>3 DEF Ends
<1>4. CASE v # holder /\ v \notin late
  BY <1>4 DEF Ends, EarlyEnds
<1>5. CASE v # holder /\ v \in late /\ First = v
  BY <1>1, <1>5 DEF Ends, FirstEnds, Queued, AtWork, Places, Other
<1>6. CASE v # holder /\ v \in late /\ First # v
  <2>1. Ends(v) = SecondEnds(v)
    BY <1>6 DEF Ends
  <2> QED
    BY <2>1 DEF SecondEnds
<1> QED
  BY <1>3, <1>4, <1>5, <1>6

\* No write ends later because the presence's goroutine calls Lock.
LEMMA EndsAsOthersCome ==
  ASSUME Queued, writing \in 0..WriteDeadline, NEW v, Beater(v), Clocked, at["presence"] = "wait",
         GetsIt("presence") \/ Queues("presence") \/ Spins("presence")
  PROVE  Ends(v)' <= Ends(v)
<1> USE Sums, LeftIs, LeftAfter
<1>1. /\ "presence" \notin {holder, awake, First, Second}
      /\ v \in {holder, awake, First, Second} /\ (v = "reader" \/ v = "ticker") /\ v # Nobody
  BY HeartbeatAssumption DEF HeartbeatAssumption, Beater, Queued, AtWork, Writers
<1>2. PICK D \in Nat : D = WriteDeadline
  OBVIOUS
<1> USE <1>1, <1>2, HeartbeatAssumption
    DEF HeartbeatAssumption, Queued, Places, AtWork, Writers, Ends, FirstEnds, SecondEnds,
        EarlyEnds, Other
<1>3. CASE GetsIt("presence")
  BY <1>3 DEF GetsIt
<1>4. CASE Queues("presence")
  BY <1>4 DEF Queues, Behind
<1>5. CASE Spins("presence")
  BY <1>5 DEF Spins
<1> QED
  BY <1>3, <1>4, <1>5

\* Nor because of another one that tries again.
LEMMA EndsAsOthersTry ==
  ASSUME Queued, writing \in 0..WriteDeadline, NEW v, Beater(v), Clocked,
         FirstSucceeds \/ SpinnerSucceeds \/ WokenInVain \/ SpunInVain
  PROVE  Ends(v)' <= Ends(v)
<1> USE Sums, LeftIs, LeftAfter
<1>1. v \in {holder, awake, First, Second} /\ (v = "reader" \/ v = "ticker") /\ v # Nobody
  BY HeartbeatAssumption DEF HeartbeatAssumption, Beater, Queued, AtWork, Writers
<1>2. PICK D \in Nat : D = WriteDeadline
  OBVIOUS
<1> USE <1>1, <1>2, HeartbeatAssumption
    DEF HeartbeatAssumption, Queued, Places, AtWork, Writers, Ends, FirstEnds, SecondEnds,
        EarlyEnds, Other
<1>3. CASE FirstSucceeds
  BY <1>3 DEF FirstSucceeds
<1>4. CASE SpinnerSucceeds
  BY <1>4 DEF SpinnerSucceeds
<1>5. CASE WokenInVain
  BY <1>5 DEF WokenInVain
<1>6. CASE SpunInVain
  BY <1>6 DEF SpunInVain, Behind
<1> QED
  BY <1>3, <1>4, <1>5, <1>6

\* Nor because of another one that unlocks.
LEMMA EndsAsOthersUnlock ==
  ASSUME Queued, writing \in 0..WriteDeadline, NEW v, Beater(v), v # holder, Clocked,
         holder # Nobody, Wakes \/ HandsOver
  PROVE  Ends(v)' <= Ends(v)
<1> USE Sums, LeftIs, LeftAfter
<1>1. v \in {holder, awake, First, Second} /\ (v = "reader" \/ v = "ticker") /\ v # Nobody
  BY HeartbeatAssumption DEF HeartbeatAssumption, Beater, Queued, AtWork, Writers
<1>2. PICK D \in Nat : D = WriteDeadline
  OBVIOUS
<1> USE <1>1, <1>2, HeartbeatAssumption
    DEF HeartbeatAssumption, Queued, Places, AtWork, Writers, Ends, FirstEnds, SecondEnds,
        EarlyEnds, Other
<1>3. CASE Wakes
  BY <1>3 DEF Wakes
<1>4. CASE HandsOver
  BY <1>4 DEF HandsOver
<1> QED
  BY <1>3, <1>4

\* Nor because a heartbeat was marked.
LEMMA EndsAsMarked ==
  ASSUME Queued, writing \in 0..WriteDeadline, NEW v, Beater(v),
         UNCHANGED <<muVars, writing, First, Second, Left>>
  PROVE  Ends(v)' <= Ends(v) /\ Ends(v)' \in Int /\ Ends(v) \in Int
<1> USE Sums, LeftIs
<1>1. Ends(v) \in Int
  BY EndsSoon
<1>2. PICK D \in Nat : D = WriteDeadline
  OBVIOUS
<1> QED
  BY <1>1, <1>2 DEF muVars, Ends, FirstEnds, SecondEnds, EarlyEnds

\* With a unit of time a write ends as much nearer.
LEMMA EndsAsTimePasses ==
  ASSUME Queued, writing \in 0..WriteDeadline, NEW v, Beater(v),
         holder # Nobody =>
                 writing < WriteDeadline, writing' = IF holder = Nobody THEN 0 ELSE writing + 1,
         awake = Nobody, late' = {First, Second} \ {Nobody},
         UNCHANGED <<holder, First, Second, awake, starving>>
  PROVE  Ends(v)' + 1 <= Ends(v)
<1> USE Sums, LeftIs
<1>1. v \in {holder, awake, First, Second} /\ (v = "reader" \/ v = "ticker") /\ v # Nobody
  BY HeartbeatAssumption DEF HeartbeatAssumption, Beater, Queued, AtWork, Writers
<1>2. PICK D \in Nat : D = WriteDeadline
  OBVIOUS
<1>3. holder # Nobody
  BY <1>1 DEF Queued, Places
<1>4. Left' + 1 = Left /\ Left <= D /\ Left' \in Int
  BY <1>2, <1>3 DEF Left
<1> USE <1>1, <1>2, <1>3, <1>4, HeartbeatAssumption
    DEF HeartbeatAssumption, Queued, Places, AtWork, Writers, Ends, FirstEnds, SecondEnds,
        EarlyEnds, Other
<1>5. CASE v = holder
  BY <1>5
<1>6. CASE v = First
  BY <1>6
<1>7. CASE v = Second
  BY <1>7
<1> QED
  BY <1>5, <1>6, <1>7

-----------------------------------------------------------------------------
\* What EndsSoon says of both writers.
Soon ==
  \A v \in {"ticker", "reader"} :
    at[v] = "beat" => Ends(v) \in Int /\ 0 <= Ends(v) /\ Ends(v) <= 5 * WriteDeadline

LEMMA SoonHolds == Queued /\ Timed => Soon
  BY EndsSoon DEF Soon, Beater, Timed

LEMMA SoonAfter == (Queued /\ Timed)' => Soon'
<1>1. Queued /\ Timed => Soon
  BY SoonHolds
<1> QED
  BY <1>1, PTL

\* A payload that was just read leaves time for everything.
LEMMA InTimeAfresh ==
  ASSUME Typed, Queued, Timed, open, quiet = 0
  PROVE  InTime
<1> USE Sums
<1>1. TickInTime
  BY DEF TickInTime, DueIn, Timed
<1>2. BeatInTime
  BY SoonHolds DEF Soon, BeatInTime
<1>3. MarkInTime
  BY DEF MarkInTime
<1>4. TimeoutInTime
  BY DEF TimeoutInTime, Timed, Typed
<1> QED
  BY <1>1, <1>2, <1>3, <1>4 DEF InTime

\* The same of the state after a step.
LEMMA InTimeAfterRead ==
  (Typed /\ Queued /\ Timed /\ open /\ quiet = 0)' => InTime'
<1>1. Typed /\ Queued /\ Timed /\ open /\ quiet = 0 => InTime
  BY InTimeAfresh
<1> QED
  BY <1>1, PTL

\* A step that leaves alone what is waited for.
LEMMA InTimeKept ==
  ASSUME InTime, UNCHANGED <<tick, ticked, writing, at, muVars, quiet, awaitingACK>>,
         TimeoutInTime'
  PROVE  InTime'
<1>1. UNCHANGED <<First, Second, Left, TickerComes>>
  BY DEF First, Second, Left, TickerComes, muVars
<1>2. \A v : Ends(v)' = Ends(v)
  BY <1>1 DEF Ends, FirstEnds, SecondEnds, EarlyEnds, muVars
<1>3. TickInTime' /\ BeatInTime' /\ MarkInTime'
  BY <1>1, <1>2 DEF InTime, TickInTime, DueIn, BeatInTime, MarkInTime
<1> QED
  BY <1>3 DEF InTime

\* A step of the writers that delays no write but one that starts in time.
LEMMA InTimeUndelayed ==
  ASSUME Queued, Timed, Queued', Timed', InTime,
         UNCHANGED <<tick, ticked, quiet, awaitingACK, timers>>,
         TickerComes' => TickerComes,
         \A v \in {"ticker", "reader"} : at'[v] = "beat" =>
           (at[v] = "beat" /\ Ends(v)' <= Ends(v)) \/ quiet <= Delay,
         \A v \in Writers : at'[v] = "mark" =>
           at[v] = "mark" \/ (v \in {"ticker", "reader"} /\ at[v] = "beat")
  PROVE  InTime'
<1> USE Sums
<1>1. quiet \in Nat /\ Soon /\ Soon'
  BY SoonHolds, SoonAfter DEF Timed
<1>2. TickInTime' /\ TimeoutInTime'
  BY DEF InTime, TickInTime, DueIn, TimeoutInTime
<1>3. BeatInTime'
  <2> SUFFICES ASSUME NEW v \in {"ticker", "reader"}, at'[v] = "beat"
               PROVE  quiet + Ends(v)' <= Delay + 5 * WriteDeadline
    BY DEF BeatInTime
  <2>1. Ends(v)' \in Int /\ Ends(v)' <= 5 * WriteDeadline
    BY <1>1 DEF Soon
  <2>2. CASE at[v] = "beat" /\ Ends(v)' <= Ends(v)
    <3>1. Ends(v) \in Int /\ quiet + Ends(v) <= Delay + 5 * WriteDeadline
      BY <1>1, <2>2 DEF InTime, BeatInTime, Soon
    <3> QED
      BY <1>1, <2>1, <2>2, <3>1
  <2>3. CASE quiet <= Delay
    BY <1>1, <2>1, <2>3
  <2> QED
    BY <2>2, <2>3
<1>4. MarkInTime'
  <2>1. ASSUME NEW v \in {"ticker", "reader"}, at[v] = "beat"
        PROVE  quiet <= Delay + 5 * WriteDeadline
    <3>1. Ends(v) \in Int /\ 0 <= Ends(v) /\ quiet + Ends(v) <= Delay + 5 * WriteDeadline
      BY <1>1, <2>1 DEF InTime, BeatInTime, Soon
    <3> QED
      BY <1>1, <3>1
  <2> QED
    BY <2>1 DEF InTime, MarkInTime
<1> QED
  BY <1>2, <1>3, <1>4 DEF InTime

\* The ticker calls Lock in time.
LEMMA TickerJoins ==
  ASSUME Queued, Timed, Queued', Timed', InTime, TickerTakes, ~awaitingACK
  PROVE  InTime'
<1> USE Sums
<1>1. /\ at["ticker"] = "wait" /\ Writes("ticker", "beat") /\ ticked /\ TickerComes
      /\ UNCHANGED <<tick, quiet, awaitingACK, timers>>
  BY DEF TickerTakes, TickerComes
<1>2. /\ at'["ticker"] = "beat" /\ at'["reader"] = at["reader"] /\ at'["presence"] = at["presence"]
  BY <1>1 DEF Writes, Queued, AtWork, Writers
<1>3. quiet <= Delay
  BY <1>1 DEF InTime, TickInTime, DueIn, Timed
<1>4. ~TickerComes'
  BY <1>2 DEF TickerComes
<1>5. TickInTime' /\ TimeoutInTime' /\ MarkInTime'
  BY <1>1, <1>2, <1>4 DEF InTime, TickInTime, TimeoutInTime, MarkInTime, Writers
<1>6. BeatInTime'
  <2> SUFFICES ASSUME NEW v \in {"ticker", "reader"}, at'[v] = "beat"
               PROVE  quiet + Ends(v)' <= Delay + 5 * WriteDeadline
    BY <1>1 DEF BeatInTime
  <2>1. Ends(v)' \in Int /\ Ends(v)' <= 5 * WriteDeadline
    BY SoonAfter DEF Soon
  <2> QED
    BY <1>3, <2>1 DEF Timed
<1> QED
  BY <1>5, <1>6 DEF InTime

\* The presence's goroutine delays no one who waits, whenever it calls Lock.
LEMMA PresenceJoins ==
  ASSUME Queued, Timed, Queued', Timed', InTime, PresenceWrites
  PROVE  InTime'
<1>1. /\ at["presence"] = "wait" /\ Writes("presence", "tell")
      /\ UNCHANGED <<tick, ticked, quiet, awaitingACK, timers>>
  BY DEF PresenceWrites
<1>2. at'["presence"] = "tell" /\ \A v \in Writers \ {"presence"} : at'[v] = at[v]
  BY <1>1 DEF Writes, Queued, AtWork, Writers
<1>3. TickerComes' = TickerComes
  BY <1>1, <1>2 DEF TickerComes, Writers
<1>4. ASSUME NEW v \in {"ticker", "reader"}, at'[v] = "beat"
      PROVE  at[v] = "beat" /\ Ends(v)' <= Ends(v)
  <2>1. GetsIt("presence") \/ Queues("presence") \/ Spins("presence")
    BY <1>1, Locked DEF Writes, Writers
  <2>2. Beater(v) /\ Clocked /\ writing \in 0..WriteDeadline
    BY <1>1, <1>2, <1>4 DEF Beater, Writes, Timed, Writers
  <2> QED
    BY <1>1, <1>3, <2>1, <2>2, EndsAsOthersCome DEF Beater
<1>5. \A v \in Writers : at'[v] = "mark" => at[v] = "mark"
  BY <1>2 DEF Writers
<1> QED
  BY <1>1, <1>3, <1>4, <1>5, InTimeUndelayed

\* Neither does whoever tries again.
LEMMA TriesInTime ==
  ASSUME Queued, Timed, Queued', Timed', InTime, TriesAgain
  PROVE  InTime'
<1>1. Clocked /\ UNCHANGED <<at, tick, ticked, quiet, awaitingACK, timers>>
  BY DEF TriesAgain
<1>2. TickerComes' = TickerComes
  BY <1>1 DEF TickerComes
<1>3. ASSUME NEW v \in {"ticker", "reader"}, at'[v] = "beat"
      PROVE  at[v] = "beat" /\ Ends(v)' <= Ends(v)
  <2>1. FirstSucceeds \/ SpinnerSucceeds \/ WokenInVain \/ SpunInVain
    BY Tried DEF TriesAgain
  <2>2. Beater(v) /\ writing \in 0..WriteDeadline
    BY <1>1, <1>3 DEF Beater, Timed
  <2> QED
    BY <1>1, <1>2, <2>1, <2>2, EndsAsOthersTry DEF Beater
<1> QED
  BY <1>1, <1>2, <1>3, InTimeUndelayed

\* Neither does a write that ends.
LEMMA WriteInTime ==
  ASSUME Queued, Timed, Queued', Timed', InTime, NEW w \in Writers, WriteSucceeds(w)
  PROVE  InTime'
<1>1. Clocked /\ holder = w /\ UNCHANGED <<tick, ticked, quiet, awaitingACK, timers>>
  BY DEF WriteSucceeds, Writing
<1>2. /\ Wakes \/ HandsOver
      /\ at[w] \in {"beat", "tell"} /\ \A v \in Writers \ {w} : at'[v] = at[v]
      /\ at'[w] = IF at[w] = "beat" THEN "mark" ELSE "wait"
  BY Leaves
<1>3. TickerComes' => TickerComes
  BY <1>1, <1>2 DEF TickerComes, Queued, AtWork, Writers
<1>4. ASSUME NEW v \in {"ticker", "reader"}, at'[v] = "beat"
      PROVE  at[v] = "beat" /\ Ends(v)' <= Ends(v)
  <2>1. v # w /\ Beater(v) /\ writing \in 0..WriteDeadline
    BY <1>2, <1>4 DEF Beater, Timed, Writers
  <2>2. holder # Nobody
    BY <1>1, HeartbeatAssumption DEF HeartbeatAssumption, Writers
  <2> QED
    BY <1>1, <1>2, <1>3, <2>1, <2>2, EndsAsOthersUnlock DEF Beater
<1>5. \A v \in Writers : at'[v] = "mark" =>
        at[v] = "mark" \/ (v \in {"ticker", "reader"} /\ at[v] = "beat")
  BY <1>2 DEF Queued, AtWork, Writers
<1> QED
  BY <1>1, <1>3, <1>4, <1>5, InTimeUndelayed

\* A mark made in time starts a timeout that ends in time.
LEMMA MarksInTime ==
  ASSUME Queued, Timed, InTime, NEW w \in Writers, Mark(w)
  PROVE  InTime'
<1> USE Sums
<1>1. /\ at[w] = "mark" /\ at' = [at EXCEPT ![w] = "wait"] /\ awaitingACK'
      /\ UNCHANGED <<tick, ticked, writing, muVars, quiet>>
      /\ [left |-> Timeout, newest |-> TRUE] \in timers'
  BY DEF Mark
<1>2. ~TickerComes' /\ UNCHANGED <<First, Second, Left>>
  BY <1>1 DEF TickerComes, First, Second, Left, muVars
<1>3. quiet <= Delay + 5 * WriteDeadline
  BY <1>1 DEF InTime, MarkInTime
<1>4. TickInTime' /\ MarkInTime'
  BY <1>1, <1>2 DEF InTime, TickInTime, MarkInTime, Queued, AtWork
<1>5. TimeoutInTime'
  <2>1. quiet + Timeout <= Patience
    BY <1>3 DEF Timed
  <2> QED
    BY <1>1, <2>1 DEF TimeoutInTime
<1>6. BeatInTime'
  <2> SUFFICES ASSUME NEW v \in {"ticker", "reader"}, at'[v] = "beat"
               PROVE  quiet + Ends(v)' <= Delay + 5 * WriteDeadline
    BY <1>1 DEF BeatInTime
  <2>1. at[v] = "beat" /\ Beater(v)
    BY <1>1 DEF Beater, Queued, AtWork, Writers
  <2>2. quiet + Ends(v) <= Delay + 5 * WriteDeadline /\ quiet \in Nat
    BY <2>1 DEF InTime, BeatInTime, Timed
  <2>3. Ends(v)' <= Ends(v) /\ Ends(v)' \in Int /\ Ends(v) \in Int
    BY <1>1, <1>2, <2>1, EndsAsMarked DEF Timed
  <2> QED
    BY <2>2, <2>3
<1> QED
  BY <1>4, <1>5, <1>6 DEF InTime

\* What is due a unit sooner, a unit later.
LEMMA Nearer ==
  ASSUME NEW limit \in Nat, NEW age \in Nat, NEW due \in Nat, NEW older \in Nat,
         older <= age + 1, age + due <= limit
  PROVE  older + (due - 1) <= limit
  OBVIOUS

\* With a unit of time the clocks go on.
LEMMA PassTimed ==
  ASSUME Typed, Queued, Timed, Pass
  PROVE  Timed'
<1> USE Sums
<1>1. /\ Settled /\ open /\ UNCHANGED <<open, started, at, holder, awaitingACK>>
      /\ quiet' = Older(quiet, Patience + 1)
      /\ writing' = IF holder = Nobody THEN 0 ELSE writing + 1
      /\ timers' = {[left |-> t.left - 1, newest |-> t.newest] : t \in timers}
  BY DEF Pass, writeMu!Waits
<1>2. quiet' \in Nat
  BY <1>1 DEF Older, Timed
<1>3. writing' \in 0..WriteDeadline
  BY <1>1 DEF Settled, Timed
<1>4. (started /\ tick = 1 => tick' = Delay) /\ (started /\ tick # 1 => tick' = tick - 1)
      /\ (~started => tick' = tick)
  BY DEF Pass
<1>5. tick' \in 1..Delay
  <2>1. tick' = Delay \/ (tick # 1 /\ tick' = tick - 1) \/ tick' = tick
    <3>1. CASE started /\ tick = 1
      BY <1>4, <3>1
    <3>2. CASE started /\ tick # 1
      BY <1>4, <3>2
    <3>3. CASE ~started
      BY <1>4, <3>3
    <3> QED
      BY <3>1, <3>2, <3>3
  <2> QED
    BY <2>1 DEF Timed
<1>6. ticked' \in BOOLEAN
  BY DEF Pass, Timed
<1>7. (open /\ awaitingACK => \E t \in timers : t.newest)'
  <2> SUFFICES ASSUME awaitingACK PROVE \E t \in timers' : t.newest
    BY <1>1
  <2>1. PICK t \in timers : t.newest
    BY <1>1 DEF Timed
  <2>2. [left |-> t.left - 1, newest |-> t.newest] \in timers'
    BY <1>1
  <2> QED
    BY <2>1, <2>2
<1> QED
  BY <1>1, <1>2, <1>3, <1>5, <1>6, <1>7 DEF Timed

\* Everything that is waited for comes as much nearer.
LEMMA PassInTime ==
  ASSUME Typed, Queued, Timed, Queued', Timed', Pass, started, InTime
  PROVE  InTime'
<1> USE Sums
<1>1. /\ Settled /\ open
      /\ UNCHANGED <<open, started, at, holder, waiters, awake, starving, awaitingACK>>
      /\ quiet' = Older(quiet, Patience + 1)
      /\ writing' = IF holder = Nobody THEN 0 ELSE writing + 1
      /\ timers' = {[left |-> t.left - 1, newest |-> t.newest] : t \in timers}
      /\ awake = Nobody /\ late' = writeMu!Waiting
  BY DEF Pass, writeMu!Waits
<1>2. quiet' \in Nat /\ quiet \in Nat /\ quiet' <= quiet + 1
  BY <1>1 DEF Older, Timed
<1>3. UNCHANGED <<First, Second, TickerComes>> /\ late' = {First, Second} \ {Nobody}
  BY <1>1, Lining DEF First, Second, TickerComes, Queued
<1>4. TickInTime'
  <2>1. tick = 1 => tick - 1 = 0
    OBVIOUS
  <2>2. ASSUME ~ticked
        PROVE  DueIn = tick /\ DueIn' = tick - 1
    <3>1. DueIn = tick
      BY <2>2 DEF DueIn
    <3>2. CASE tick = 1
      <4>1. DueIn' = 0
        BY <3>2 DEF Pass, DueIn
      <4> QED
        BY <2>1, <3>1, <3>2, <4>1
    <3>3. CASE tick # 1
      BY <2>2, <3>3 DEF Pass, DueIn
    <3> QED
      BY <3>1, <3>2, <3>3
  <2>3. TickerComes => ~ticked
    BY <1>1 DEF Settled, TickerComes
  <2>4. quiet + tick <= Delay => quiet' + (tick - 1) <= Delay
    <3>1. Delay \in Nat /\ tick \in Nat
      BY DEF Timed
    <3> QED
      BY <1>2, <3>1, Nearer
  <2> QED
    BY <1>3, <2>2, <2>3, <2>4 DEF InTime, TickInTime
<1>5. BeatInTime'
  <2> SUFFICES ASSUME NEW v \in {"ticker", "reader"}, at[v] = "beat"
               PROVE  quiet' + Ends(v)' <= Delay + 5 * WriteDeadline
    BY <1>1 DEF BeatInTime
  <2>1. Ends(v)' + 1 <= Ends(v)
    BY <1>1, <1>3, EndsAsTimePasses DEF Beater, Settled, Timed
  <2>2. Ends(v) \in Int /\ Ends(v)' \in Int /\ quiet + Ends(v) <= Delay + 5 * WriteDeadline
    BY <1>1, SoonHolds, SoonAfter DEF Soon, InTime, BeatInTime
  <2> QED
    BY <1>2, <2>1, <2>2
<1>6. MarkInTime'
  BY <1>1 DEF Settled, MarkInTime
<1>7. TimeoutInTime'
  <2> SUFFICES ASSUME awaitingACK PROVE \E t \in timers' : t.newest /\ quiet' + t.left <= Patience
    BY <1>1 DEF TimeoutInTime
  <2>1. PICK t \in timers : t.newest /\ quiet + t.left <= Patience
    BY DEF InTime, TimeoutInTime
  <2>2. t.left \in Nat /\ [left |-> t.left - 1, newest |-> t.newest] \in timers'
    BY <1>1 DEF Typed
  <2>3. quiet' + (t.left - 1) <= Patience
    BY <1>2, <2>1, <2>2
  <2> QED
    BY <2>1, <2>2, <2>3
<1> QED
  BY <1>4, <1>5, <1>6, <1>7 DEF InTime

-----------------------------------------------------------------------------
\* Init has not been started.
LEMMA SilenceInit == ASSUME Init PROVE SilenceInv
<1>1. Typed
  BY AlarmInit DEF AlarmInv
<1>2. Lined
  BY DEF Init, writeMu!Init, Lined
<1>3. First = Nobody /\ Second = Nobody
  BY DEF Init, writeMu!Init, First, Second
<1>4. Places /\ AtWork
  BY <1>3, HeartbeatAssumption DEF HeartbeatAssumption, Init, writeMu!Init, Places, AtWork, Writers
<1>5. tick \in 1..Delay /\ writing \in 0..WriteDeadline /\ quiet \in Nat
  BY Sums DEF Init
<1>6. Timed
  BY <1>5 DEF Init, Timed
<1> QED
  BY <1>1, <1>2, <1>4, <1>6 DEF SilenceInv, Queued, Init

\* The clocks of a step in which no time passes.
LEMMA TimedStep == ASSUME Typed, Timed, [Next]_vars, ~Pass PROVE Timed'
<1> USE Sums
<1>1. CASE ServerAnswers \/ ServerAsks \/ UNCHANGED vars
  BY <1>1 DEF Timed, ServerAnswers, ServerAsks, ServerSends, vars, clientVars
<1>2. CASE ReadHello
  BY <1>2 DEF Timed, ReadHello, Reads, Writes, Clocked
<1>3. CASE ReadHeartbeat
  BY <1>3 DEF Timed, ReadHeartbeat, Reads, Writes, Clocked
<1>4. CASE ReadACK
  BY <1>4 DEF Timed, ReadACK, Reads, NoWrite
<1>5. CASE TickerTakes
  <2>1. writing' \in 0..WriteDeadline
    BY <1>5 DEF Timed, TickerTakes, Writes, NoWrite, Clocked
  <2>2. open' => open
    BY <1>5 DEF TickerTakes
  <2> QED
    BY <1>5, <2>1, <2>2 DEF Timed, TickerTakes
<1>6. CASE PresenceWrites \/ TriesAgain
  BY <1>6 DEF Timed, PresenceWrites, TriesAgain, Writes, Clocked
<1>7. ASSUME NEW w \in Writers, WriteSucceeds(w) PROVE Timed'
  BY <1>7 DEF Timed, WriteSucceeds, Clocked
<1>8. ASSUME NEW w \in Writers, WriteFails(w) PROVE Timed'
  BY <1>8 DEF Timed, WriteFails, Stop
<1>9. ASSUME NEW w \in Writers, Mark(w) PROVE Timed'
  <2>1. \E t \in timers' : t.newest
    <3>1. [left |-> Timeout, newest |-> TRUE] \in timers'
      BY <1>9 DEF Mark
    <3> QED
      BY <3>1
  <2> QED
    BY <1>9, <2>1 DEF Timed, Mark
<1>10. ASSUME NEW t \in timers, TimerFires(t) PROVE Timed'
  <2>1. (open /\ awaitingACK)' => \E s \in timers' : s.newest
    BY <1>10 DEF Timed, TimerFires, Stop
  <2> QED
    BY <1>10, <2>1 DEF Timed, TimerFires, NoWrite
<1> QED
  BY <1>1, <1>2, <1>3, <1>4, <1>5, <1>6, <1>7, <1>8, <1>9, <1>10 DEF Next

\* Every step keeps the invariant.
LEMMA SilenceStep ==
  ASSUME SilenceInv, Typed', [Next]_vars
  PROVE  SilenceInv'
<1>1. Typed /\ Queued /\ Timed /\ Queued'
  BY QueuedStep DEF SilenceInv
<1>2. CASE Pass
  BY <1>1, <1>2, PassTimed, PassInTime DEF SilenceInv, Pass
<1>3. CASE ~Pass
  <2>1. Timed'
    BY <1>1, <1>3, TimedStep
  <2> SUFFICES ASSUME open', started' PROVE InTime'
    BY <1>1, <2>1 DEF SilenceInv
  <2>2. CASE ReadHello \/ ReadHeartbeat \/ ReadACK
    <3>1. quiet' = 0
      BY <2>2 DEF ReadHello, ReadHeartbeat, ReadACK, Reads
    <3> QED
      BY <1>1, <2>1, <3>1, InTimeAfterRead
  <2>3. CASE ServerAnswers \/ ServerAsks \/ UNCHANGED vars
    <3>1. UNCHANGED <<tick, ticked, writing, at, muVars, quiet, awaitingACK, timers, open, started>>
      BY <2>3 DEF ServerAnswers, ServerAsks, ServerSends, vars, clientVars
    <3>2. InTime /\ TimeoutInTime'
      BY <3>1 DEF SilenceInv, InTime, TimeoutInTime
    <3> QED
      BY <3>1, <3>2, InTimeKept
  <2>4. CASE ~(ReadHello \/ ReadHeartbeat \/ ReadACK \/ ServerAnswers \/ ServerAsks
                 \/ UNCHANGED vars)
    <3>1. open /\ started /\ InTime
      <4>1. open /\ started
        BY <1>3, <2>4 DEF Next, TickerTakes, PresenceWrites, TriesAgain, WriteSucceeds, WriteFails,
                          Writing, Mark, TimerFires, Stop
      <4> QED
        BY <4>1 DEF SilenceInv
    <3>2. CASE TickerTakes
      <4>1. CASE ~awaitingACK
        BY <1>1, <2>1, <3>1, <3>2, <4>1, TickerJoins
      <4>2. CASE awaitingACK
        <5>1. /\ awaitingACK /\ InTime
              /\ UNCHANGED <<tick, writing, at, muVars, quiet, awaitingACK, timers>>
          BY <3>1, <3>2, <4>2 DEF TickerTakes, NoWrite
        <5>2. UNCHANGED <<First, Second, Left, TickerComes>> /\ ~TickerComes'
          BY <5>1 DEF First, Second, Left, TickerComes, muVars
        <5>3. \A v : Ends(v)' = Ends(v)
          BY <5>1, <5>2 DEF Ends, FirstEnds, SecondEnds, EarlyEnds, muVars
        <5> QED
          BY <5>1, <5>2, <5>3 DEF InTime, TickInTime, BeatInTime, MarkInTime, TimeoutInTime
      <4> QED
        BY <4>1, <4>2
    <3>3. CASE PresenceWrites
      BY <1>1, <2>1, <3>1, <3>3, PresenceJoins
    <3>4. CASE TriesAgain
      BY <1>1, <2>1, <3>1, <3>4, TriesInTime
    <3>5. ASSUME NEW w \in Writers, WriteSucceeds(w) PROVE InTime'
      BY <1>1, <2>1, <3>1, <3>5, WriteInTime
    <3>6. ASSUME NEW w \in Writers, WriteFails(w) PROVE InTime'
      BY <3>6 DEF WriteFails, Stop
    <3>7. ASSUME NEW w \in Writers, Mark(w) PROVE InTime'
      BY <1>1, <3>1, <3>7, MarksInTime
    <3>8. ASSUME NEW t \in timers, TimerFires(t) PROVE InTime'
      <4>1. TimeoutInTime'
        BY <3>1, <3>8 DEF TimerFires, Stop, InTime, TimeoutInTime
      <4> QED
        BY <3>1, <3>8, <4>1, InTimeKept DEF TimerFires, NoWrite
    <3> QED
      BY <1>3, <2>4, <3>2, <3>3, <3>4, <3>5, <3>6, <3>7, <3>8 DEF Next
  <2> QED
    BY <2>2, <2>3, <2>4
<1> QED
  BY <1>2, <1>3

\* Whatever is waited for, it comes before the patience ends.
LEMMA InTimeIsNoticed == ASSUME SilenceInv PROVE SilenceNoticed
<1> USE Sums
<1> SUFFICES ASSUME open, started PROVE quiet <= Patience
  BY DEF SilenceNoticed
<1>1. quiet \in Nat /\ tick \in 1..Delay /\ Soon
  BY SoonHolds DEF SilenceInv, Timed
<1>2. CASE awaitingACK
  <2>1. PICK t \in timers : quiet + t.left <= Patience
    BY <1>2 DEF SilenceInv, InTime, TimeoutInTime
  <2>2. t.left \in Nat
    BY DEF SilenceInv, Typed
  <2> QED
    BY <1>1, <2>1, <2>2
<1>3. CASE ~awaitingACK /\ at["ticker"] = "wait"
  <2>1. quiet + DueIn <= Delay
    BY <1>3 DEF SilenceInv, InTime, TickInTime, TickerComes
  <2>2. DueIn \in Nat
    BY <1>1 DEF DueIn
  <2> QED
    BY <1>1, <2>1, <2>2
<1>4. CASE at["ticker"] = "mark"
  <2>1. quiet <= Delay + 5 * WriteDeadline
    BY <1>4 DEF SilenceInv, InTime, MarkInTime, Writers
  <2> QED
    BY <1>1, <2>1
<1>5. CASE at["ticker"] = "beat"
  <2>1. Ends("ticker") \in Int /\ 0 <= Ends("ticker")
    BY <1>1, <1>5 DEF Soon
  <2>2. quiet + Ends("ticker") <= Delay + 5 * WriteDeadline
    BY <1>5 DEF SilenceInv, InTime, BeatInTime
  <2> QED
    BY <1>1, <2>1, <2>2
<1>6. at["ticker"] \in {"wait", "beat", "mark"}
  BY DEF SilenceInv, Queued, AtWork, Writers
<1> QED
  BY <1>2, <1>3, <1>4, <1>5, <1>6

(***************************************************************************)
(* A server that has fallen silent is noticed within a period, five writes *)
(* and the timeout, for any period, timeout and deadline and whoever is    *)
(* faster at writeMu (startHeartbeat, markHeartbeatSent and write).        *)
(***************************************************************************)
THEOREM SilenceNoticedHolds == Spec => []SilenceNoticed
<1>1. Init => AlarmInv /\ SilenceInv
  BY AlarmInit, SilenceInit
<1>2. AlarmInv /\ SilenceInv /\ [Next]_vars => (AlarmInv /\ SilenceInv)'
  <2> SUFFICES ASSUME AlarmInv, SilenceInv, [Next]_vars PROVE AlarmInv' /\ SilenceInv'
    OBVIOUS
  <2>1. AlarmInv' /\ Typed'
    BY AlarmStep DEF AlarmInv
  <2> QED
    BY <2>1, SilenceStep
<1>3. SilenceInv => SilenceNoticed
  BY InTimeIsNoticed
<1> QED
  BY <1>1, <1>2, <1>3, PTL DEF Spec

-----------------------------------------------------------------------------
(***************************************************************************)
(* What is under way at a time: heartbeats that are being written, that    *)
(* wait for the server, and payloads that wait for the reader.  The ticker *)
(* adds one heartbeat to what the server counts, and no second one before  *)
(* an ACK was read (awaitingACK in startHeartbeat).                        *)
(***************************************************************************)
Beat(w) == IF at[w] = "beat" THEN 1 ELSE 0

Extra == IF awaitingACK \/ at["ticker"] # "wait" THEN 1 ELSE 0

Bounded ==
  /\ Len(inbox) <= MaxInFlight
  /\ unanswered + Len(inbox) + Beat("ticker") + Beat("reader") <= MaxInFlight + Extra

\* Two are two.
LEMMA Pair ==
  ASSUME NEW a, NEW b, a # b
  PROVE  IsFiniteSet({a, b}) /\ Cardinality({a, b}) = 2
<1>1. IsFiniteSet({a}) /\ Cardinality({a}) = 1
  BY FS_Singleton
<1>2. b \notin {a} /\ {a, b} = {a} \cup {b}
  OBVIOUS
<1> QED
  BY <1>1, <1>2, FS_AddElement

\* The server counts every heartbeat that is being written.
LEMMA BeatsCounted ==
  ASSUME Queued
  PROVE  Cardinality({w \in Writers : at[w] = "beat"}) = Beat("ticker") + Beat("reader")
<1> DEFINE B == {w \in Writers : at[w] = "beat"}
<1>1. at["presence"] # "beat"
  BY DEF Queued, AtWork
<1>2. CASE at["ticker"] = "beat" /\ at["reader"] = "beat"
  <2>1. B = {"ticker", "reader"}
    BY <1>1, <1>2 DEF Writers
  <2>2. Cardinality(B) = 2
    BY <2>1, Pair
  <2> QED
    BY <1>2, <2>2 DEF Beat
<1>3. CASE at["ticker"] = "beat" /\ at["reader"] # "beat"
  <2>1. B = {"ticker"}
    BY <1>1, <1>3 DEF Writers
  <2> QED
    <3>1. Cardinality({"ticker"}) = 1
      BY FS_Singleton
    <3> QED
      BY <1>3, <2>1, <3>1 DEF Beat
<1>4. CASE at["ticker"] # "beat" /\ at["reader"] = "beat"
  <2>1. B = {"reader"}
    BY <1>1, <1>4 DEF Writers
  <2> QED
    <3>1. Cardinality({"reader"}) = 1
      BY FS_Singleton
    <3> QED
      BY <1>4, <2>1, <3>1 DEF Beat
<1>5. CASE at["ticker"] # "beat" /\ at["reader"] # "beat"
  <2>1. B = {}
    BY <1>1, <1>5 DEF Writers
  <2> QED
    BY <1>5, <2>1, FS_EmptySet DEF Beat
<1> QED
  BY <1>2, <1>3, <1>4, <1>5

\* Every step stays within it.
LEMMA BoundedStep ==
  ASSUME Typed, Queued, Bounded, [Next]_vars
  PROVE  Bounded'
<1> USE HeartbeatAssumption DEF HeartbeatAssumption
<1>1. /\ inbox \in Seq({"hello", "ack", "heartbeat"}) /\ Len(inbox) \in Nat /\ unanswered \in Nat
      /\ at \in [Writers -> {"wait", "beat", "tell", "mark"}]
      /\ at["ticker"] # "tell" /\ at["presence"] # "beat"
  BY DEF Typed, Queued, AtWork
<1>2. CASE UNCHANGED <<inbox, unanswered, at, awaitingACK>>
  BY <1>2 DEF Bounded, Beat, Extra
<1>3. CASE ServerAnswers
  <2>1. /\ Len(inbox') = Len(inbox) + 1 /\ Len(inbox) < MaxInFlight /\ unanswered' = unanswered - 1
        /\ UNCHANGED <<at, awaitingACK>>
    BY <1>1, <1>3 DEF ServerAnswers, ServerSends, clientVars
  <2> QED
    BY <1>1, <2>1 DEF Bounded, Beat, Extra
<1>4. CASE ServerAsks
  <2>1. /\ Len(inbox') = Len(inbox) + 1 /\ Len(inbox) < MaxInFlight
        /\ unanswered + Len(inbox) + Cardinality({w \in Writers : at[w] = "beat"}) < MaxInFlight
        /\ UNCHANGED <<at, awaitingACK, unanswered>>
    BY <1>1, <1>4 DEF ServerAsks, ServerSends, clientVars
  <2>2. unanswered + Len(inbox) + (Beat("ticker") + Beat("reader")) < MaxInFlight
    BY <2>1, BeatsCounted
  <2> QED
    BY <1>1, <2>1, <2>2 DEF Bounded, Beat, Extra
<1>5. ASSUME NEW payload, Reads(payload)
      PROVE  Len(inbox') = Len(inbox) - 1 /\ unanswered' = unanswered /\ at["reader"] = "wait"
  BY <1>1, <1>5 DEF Reads
<1>6. CASE ReadHello
  <2>1. Len(inbox') = Len(inbox) - 1 /\ unanswered' = unanswered /\ at["reader"] = "wait"
    BY <1>5, <1>6 DEF ReadHello
  <2>2. at' = [at EXCEPT !["reader"] = "tell"] /\ awaitingACK' = awaitingACK
    BY <1>6 DEF ReadHello, Writes
  <2> QED
    BY <1>1, <2>1, <2>2 DEF Bounded, Beat, Extra, Writers
<1>7. CASE ReadHeartbeat
  <2>1. Len(inbox') = Len(inbox) - 1 /\ unanswered' = unanswered /\ at["reader"] = "wait"
    BY <1>5, <1>7 DEF ReadHeartbeat
  <2>2. at' = [at EXCEPT !["reader"] = "beat"] /\ awaitingACK' = awaitingACK
    BY <1>7 DEF ReadHeartbeat, Writes
  <2> QED
    BY <1>1, <2>1, <2>2 DEF Bounded, Beat, Extra, Writers
<1>8. CASE ReadACK
  <2>1. Len(inbox') = Len(inbox) - 1 /\ unanswered' = unanswered /\ at["reader"] = "wait"
    BY <1>5, <1>8 DEF ReadACK
  <2>2. at' = at /\ awaitingACK' = FALSE
    BY <1>8 DEF ReadACK, NoWrite
  <2> QED
    BY <1>1, <2>1, <2>2 DEF Bounded, Beat, Extra
<1>9. CASE TickerTakes
  <2>1. UNCHANGED <<inbox, unanswered, awaitingACK>> /\ at["ticker"] = "wait"
    BY <1>9 DEF TickerTakes
  <2>2. CASE awaitingACK
    BY <1>2, <1>9, <2>1, <2>2 DEF TickerTakes, NoWrite
  <2>3. CASE ~awaitingACK
    <3>1. at' = [at EXCEPT !["ticker"] = "beat"]
      BY <1>9, <2>3 DEF TickerTakes, Writes
    <3> QED
      BY <1>1, <2>1, <2>3, <3>1 DEF Bounded, Beat, Extra, Writers
  <2> QED
    BY <2>2, <2>3
<1>10. CASE PresenceWrites
  <2>1. at' = [at EXCEPT !["presence"] = "tell"] /\ UNCHANGED <<inbox, unanswered, awaitingACK>>
    BY <1>10 DEF PresenceWrites, Writes
  <2> QED
    BY <1>1, <2>1 DEF Bounded, Beat, Extra, Writers
<1>11. ASSUME NEW w \in Writers, WriteSucceeds(w) PROVE Bounded'
  <2>1. UNCHANGED <<inbox, awaitingACK>>
    BY <1>11 DEF WriteSucceeds
  <2>2. at[w] \in {"beat", "tell"}
    BY <1>11, Leaves
  <2>3. CASE at[w] = "beat"
    <3>1. /\ at' = [at EXCEPT ![w] = "mark"] /\ unanswered' = unanswered + 1
          /\ w \in {"ticker", "reader"}
      BY <1>1, <1>11, <2>3 DEF WriteSucceeds, Writers
    <3> QED
      BY <1>1, <2>1, <2>3, <3>1 DEF Bounded, Beat, Extra, Writers
  <2>4. CASE at[w] = "tell"
    <3>1. at' = [at EXCEPT ![w] = "wait"] /\ unanswered' = unanswered /\ w # "ticker"
      BY <1>1, <1>11, <2>4 DEF WriteSucceeds
    <3> QED
      BY <1>1, <2>1, <2>4, <3>1 DEF Bounded, Beat, Extra, Writers
  <2> QED
    BY <2>2, <2>3, <2>4
<1>12. ASSUME NEW w \in Writers, Mark(w) PROVE Bounded'
  <2>1. /\ at[w] = "mark" /\ at' = [at EXCEPT ![w] = "wait"] /\ awaitingACK' = TRUE
        /\ UNCHANGED <<inbox, unanswered>>
    BY <1>12 DEF Mark
  <2>2. Beat("ticker")' = Beat("ticker") /\ Beat("reader")' = Beat("reader")
    BY <1>1, <2>1 DEF Beat, Writers
  <2> QED
    BY <1>1, <2>1, <2>2 DEF Bounded, Beat, Extra
<1>13. ASSUME NEW w \in Writers, WriteFails(w) PROVE Bounded'
  BY <1>2, <1>13 DEF WriteFails
<1>14. ASSUME NEW t \in timers, TimerFires(t) PROVE Bounded'
  BY <1>2, <1>14 DEF TimerFires, NoWrite
<1>15. CASE Pass \/ TriesAgain \/ UNCHANGED vars
  BY <1>2, <1>15 DEF Pass, TriesAgain, vars, clientVars
<1> QED
  BY <1>3, <1>4, <1>6, <1>7, <1>8, <1>9, <1>10, <1>11, <1>12, <1>13, <1>14, <1>15 DEF Next

\* The types are what the invariants say between them.
LEMMA InvariantsType ==
  ASSUME AlarmInv, SilenceInv, Bounded
  PROVE  TypeOK
<1> USE HeartbeatAssumption DEF HeartbeatAssumption
<1>1. Typed /\ Queued /\ Timed
  BY DEF SilenceInv
<1>2. writeMu!Waiting = {First, Second} \ {Nobody}
  BY <1>1, Lining DEF Queued
<1>3. Cardinality({t \in timers : t.newest}) <= 1
  <2> DEFINE N == {t \in timers : t.newest}
             only == [left |-> Timeout - sinceMark, newest |-> TRUE]
  <2>1. ASSUME NEW t \in N PROVE t = only
    <3>1. t \in [left : 0..Timeout, newest : BOOLEAN] /\ t.newest /\ t.left + sinceMark = Timeout
      BY <1>1 DEF Typed, AlarmInv, NewestTimesMark
    <3>2. sinceMark \in 0..Timeout /\ t.left \in 0..Timeout
      BY <1>1, <3>1 DEF Typed
    <3>3. t.left = Timeout - sinceMark /\ t.newest = TRUE
      BY <3>1, <3>2
    <3> QED
      BY <3>1, <3>3
  <2>2. N = {} \/ N = {only}
    BY <2>1
  <2> HIDE DEF N, only
  <2>3. Cardinality(N) = 0 \/ Cardinality(N) = 1
    BY <2>2, FS_EmptySet, FS_Singleton
  <2> QED
    BY <2>3 DEF N
<1>4. Len(inbox) <= MaxInFlight /\ unanswered \in 0..MaxInFlight + 1
  BY <1>1 DEF Bounded, Beat, Extra, Typed
<1>5. \A w \in Writers : w \in {holder, awake} \cup writeMu!Waiting
        <=> w \in {holder, awake, First, Second}
  BY <1>2 DEF Writers
<1>6. /\ holder \in Writers \cup {Nobody} /\ awake \in Writers \cup {Nobody} /\ starving \in BOOLEAN
      /\ waiters \in Seq(Writers) /\ Len(waiters) <= 2 /\ late \subseteq writeMu!Waiting
      /\ at \in [Writers -> {"wait", "beat", "tell", "mark"}]
      /\ \A w \in Writers : at[w] \in {"beat", "tell"}
              <=> w \in {holder, awake} \cup writeMu!Waiting
  BY <1>1, <1>2, <1>5 DEF Queued, Lined, Places, AtWork
<1>7. /\ tick \in 1..Delay /\ writing \in 0..WriteDeadline /\ quiet \in Nat
      /\ started \in BOOLEAN /\ ticked \in BOOLEAN
  BY <1>1 DEF Timed
<1> QED
  BY <1>1, <1>3, <1>4, <1>6, <1>7 DEF TypeOK, Typed

(***************************************************************************)
(* Type correctness, with it that exactly the goroutines that write have   *)
(* writeMu or are in its Lock, that only one timer counts, and that the    *)
(* ticker has at most one heartbeat under way beyond those the server      *)
(* asked for, for any period, timeout and bound.                           *)
(***************************************************************************)
THEOREM TypeCorrect == Spec => []TypeOK
<1>1. Init => AlarmInv /\ SilenceInv /\ Bounded
  <2> SUFFICES ASSUME Init PROVE Bounded
    BY AlarmInit, SilenceInit
  <2>1. Len(<<"hello">>) = 1 /\ MaxInFlight \in Nat \ {0}
    BY HeartbeatAssumption DEF HeartbeatAssumption
  <2> QED
    BY <2>1 DEF Init, Bounded, Beat, Extra, Writers
<1>2. AlarmInv /\ SilenceInv /\ Bounded /\ [Next]_vars => (AlarmInv /\ SilenceInv /\ Bounded)'
  <2> SUFFICES ASSUME AlarmInv, SilenceInv, Bounded, [Next]_vars
               PROVE  AlarmInv' /\ SilenceInv' /\ Bounded'
    OBVIOUS
  <2>1. AlarmInv' /\ Typed'
    BY AlarmStep DEF AlarmInv
  <2>2. Bounded'
    BY BoundedStep DEF SilenceInv
  <2> QED
    BY <2>1, <2>2, SilenceStep
<1>3. AlarmInv /\ SilenceInv /\ Bounded => TypeOK
  BY InvariantsType
<1> QED
  BY <1>1, <1>2, <1>3, PTL DEF Spec
=============================================================================
