---------------------------- MODULE OrderedFeed ----------------------------
(***************************************************************************)
(* What a reader of an events file or of the inbox is promised, without    *)
(* channels, locks, goroutines or rendering.  The posts a reader asked for *)
(* reach it in the order they were made and at most once.  The newest of   *)
(* them may be lost to a reader; it is owned up to before the reader sees  *)
(* anything posted later, except that one post may slip in ahead of the    *)
(* report of one loss.  After such a slip the report comes next.           *)
(***************************************************************************)
EXTENDS Integers

CONSTANTS
  Readers,
  Channels,
  Everything,   \* the interest of a reader that follows every channel
  Nothing       \* the interest of a reader that has not opened or has left

VARIABLES
  interest,   \* [Readers -> what the reader follows]
  posted,     \* how many posts were made: post n is the n-th one
  waiting,    \* [Readers -> posts on their way to the reader]
  missed,     \* [Readers -> posts lost and not yet owned up to]
  last        \* [Readers -> the newest post the reader has seen]

feedVars == <<interest, posted, waiting, missed, last>>

Init ==
  /\ interest = [r \in Readers |-> Nothing]
  /\ posted = 0
  /\ waiting = [r \in Readers |-> {}]
  /\ missed = [r \in Readers |-> {}]
  /\ last = [r \in Readers |-> 0]

Join(r, t) ==
  /\ interest[r] = Nothing
  /\ interest' = [interest EXCEPT ![r] = t]
  /\ UNCHANGED <<posted, waiting, missed, last>>

Leave(r) ==
  /\ interest[r] # Nothing
  /\ interest' = [interest EXCEPT ![r] = Nothing]
  /\ UNCHANGED <<posted, waiting, missed, last>>

PostTo(audience) ==
  /\ posted' = posted + 1
  /\ waiting' = [r \in Readers |-> IF r \in audience
                                     THEN waiting[r] \cup {posted + 1} ELSE waiting[r]]
  /\ UNCHANGED <<interest, missed, last>>

Post(c) == PostTo({r \in Readers : interest[r] \in {c, Everything}})

PostAll == PostTo({r \in Readers : interest[r] # Nothing})

\* Only the newest post of all can be lost, before the next one is made.
Lose(r) ==
  /\ posted \in waiting[r]
  /\ waiting' = [waiting EXCEPT ![r] = @ \ {posted}]
  /\ missed' = [missed EXCEPT ![r] = @ \cup {posted}]
  /\ UNCHANGED <<interest, posted, last>>

\* The oldest post on its way: nothing has slipped in yet, and past one loss at most.
Deliver(r) ==
  \E n \in waiting[r] :
    /\ \A w \in waiting[r] : n <= w
    /\ last[r] < n
    /\ \A d \in missed[r] : last[r] < d
    /\ \A d, e \in missed[r] : d < n /\ e < n => d = e
    /\ waiting' = [waiting EXCEPT ![r] = @ \ {n}]
    /\ last' = [last EXCEPT ![r] = n]
    /\ UNCHANGED <<interest, posted, missed>>

OwnUp(r) ==
  /\ missed[r] # {}
  /\ missed' = [missed EXCEPT ![r] = {}]
  /\ UNCHANGED <<interest, posted, waiting, last>>

Next ==
  \/ \E c \in Channels : Post(c)
  \/ PostAll
  \/ \E r \in Readers :
       \/ \E t \in Channels \cup {Everything} : Join(r, t)
       \/ Leave(r)
       \/ Lose(r)
       \/ Deliver(r)
       \/ OwnUp(r)

Spec == Init /\ [][Next]_feedVars
=============================================================================
