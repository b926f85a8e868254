------------------------------- MODULE Mutex -------------------------------
(***************************************************************************)
(* Go's sync.Mutex, as the comment on fairness in its source has it.       *)
(* Waiters are queued, but the one that is woken by an Unlock does not own *)
(* the mutex: whoever calls Lock meanwhile may take it first.  A waiter    *)
(* that is woken in vain after more than a millisecond makes the mutex     *)
(* starve, until it is handed over: then newcomers queue, and Unlock hands *)
(* the mutex to the first waiter.  A newcomer may also spin for some       *)
(* microseconds, in which Unlock wakes nobody.                             *)
(*                                                                         *)
(* A unit of time is longer than the millisecond, so that a waiter is      *)
(* certainly late when one has passed, and may be before.                  *)
(***************************************************************************)
EXTENDS Sequences

CONSTANT Nobody

VARIABLES
  holder,    \* who has the mutex, or Nobody
  waiters,   \* those that sleep in Lock, or were woken and have not tried again
  awake,     \* whose the flag mutexWoken is: the first waiter's or a spinning newcomer's
  late,      \* waiters that have waited for more than a millisecond
  starving

mutexVars == <<holder, waiters, awake, late, starving>>

Waiting == {waiters[i] : i \in DOMAIN waiters}

Init ==
  /\ holder = Nobody /\ waiters = <<>> /\ awake = Nobody /\ late = {} /\ starving = FALSE

Free == holder = Nobody /\ ~starving

Takes(w) ==
  /\ Free /\ holder' = w
  /\ UNCHANGED <<waiters, awake, late, starving>>

Queues(w) ==
  /\ ~Free /\ waiters' = Append(waiters, w)
  /\ UNCHANGED <<holder, awake, late, starving>>

Spins(w) ==
  /\ ~Free /\ ~starving /\ waiters # <<>>
  /\ awake = Nobody /\ awake' = w
  /\ UNCHANGED <<holder, waiters, late, starving>>

Lock(w) == Takes(w) \/ Queues(w) \/ Spins(w)

\* Whether w has waited for more than a millisecond.
Long(w) == IF w \in late THEN {TRUE} ELSE BOOLEAN

\* Whoever is awake tries: a newcomer may have been faster.
Succeeds ==
  /\ awake # Nobody /\ Free
  /\ holder' = awake /\ awake' = Nobody
  /\ waiters' = IF awake \in Waiting THEN Tail(waiters) ELSE waiters
  /\ late' = late \ {awake}
  /\ UNCHANGED starving

WokenInVain ==
  /\ awake \in Waiting /\ ~Free
  /\ awake' = Nobody
  /\ \E long \in Long(awake) :
       /\ starving' = long
       /\ late' = IF long THEN late \cup {awake} ELSE late
  /\ UNCHANGED <<holder, waiters>>

SpunInVain ==
  /\ awake # Nobody /\ awake \notin Waiting /\ ~Free
  /\ awake' = Nobody
  /\ waiters' = Append(waiters, awake)
  /\ UNCHANGED <<holder, late, starving>>

Tries == Succeeds \/ WokenInVain \/ SpunInVain

Wakes ==
  /\ ~starving
  /\ holder' = Nobody
  /\ awake' = IF awake = Nobody /\ waiters # <<>> THEN Head(waiters) ELSE awake
  /\ UNCHANGED <<waiters, late, starving>>

\* The last waiter, and one that has not waited for long, ends the starving.
HandsOver ==
  /\ starving
  /\ holder' = Head(waiters) /\ waiters' = Tail(waiters)
  /\ late' = late \ {Head(waiters)}
  /\ \E long \in Long(Head(waiters)) : starving' = (long /\ Tail(waiters) # <<>>)
  /\ UNCHANGED awake

Unlock == Wakes \/ HandsOver

\* A unit of time passes, which those that are awake do not let pass.
Waits ==
  /\ awake = Nobody
  /\ late' = Waiting
  /\ UNCHANGED <<holder, waiters, awake, starving>>
=============================================================================
