------------------------------ MODULE Download ------------------------------
(***************************************************************************)
(* Reading an attachment (attachmentFile of internal/p9fs/attachments.go): *)
(* each open fid streams the file over HTTP, at the offset the client asks *)
(* for, and a URL that is refused is fetched anew with its message once.   *)
(*                                                                         *)
(* Reads of one fid and its Close run on goroutines of their own.  A Read  *)
(* holds attachmentRead.mu until it returns, also while it waits for the   *)
(* network; Close first cancels the fid's context and then takes the same  *)
(* mutex.  The attachment index (attachmentIndex.update) may replace the   *)
(* file's URL at any time with that of an older copy of the message.       *)
(*                                                                         *)
(* The servers are not under src/: a URL is the number of its issue, and   *)
(* one that was superseded is refused.                                     *)
(***************************************************************************)
EXTENDS Integers

CONSTANTS
  Fids,       \* fids the file is opened with, each once
  Calls,      \* goroutines that serve a Read or a Close
  NoCall,     \* nobody holds the mutex
  NoFid,      \* the call serves no fid
  NoBody,     \* attachmentRead.body == nil
  Length,     \* bytes of the attachment
  MaxReads,   \* bound: Read calls
  MaxFaults   \* bound: URLs that expire or are put back, and lost connections

ASSUME DownloadAssumption ==
  /\ NoCall \notin Calls /\ NoFid \notin Fids
  /\ NoBody \notin [pos : Nat, open : BOOLEAN]
  /\ Length \in Nat /\ MaxReads \in Nat /\ MaxFaults \in Nat

VARIABLES
  fresh,      \* fids not yet opened
  readers,    \* attachmentFile.readers: fids open for Read and Close
  cancelled,  \* fids whose context has ended
  holder,     \* [Fids -> Calls]: who holds attachmentRead.mu
  body,       \* [Fids -> attachmentRead.body]: where it stands, not closed
  offset,     \* [Fids -> attachmentRead.offset]
  url,        \* attachment.URL: 0 for none, otherwise its issue
  issued,     \* issues so far: only the newest is accepted
  exists,     \* the attachment is still part of its message
  streams,    \* history: [Fids -> response bodies that were not closed]
  pc, at, want,   \* [Calls -> step, fid, offset asked for]
  link,       \* [Calls -> the URL taken]
  refreshed,  \* [Calls -> the message was fetched already]
  reads, faults

fileVars == <<fresh, readers, cancelled, url, issued, exists>>
readVars == <<holder, body, offset, streams>>
callVars == <<pc, at, want, link, refreshed>>
vars == <<fileVars, readVars, callVars, reads, faults>>

Body == [pos : 0..Length, open : BOOLEAN]

Init ==
  /\ fresh = Fids /\ readers = {} /\ cancelled = {}
  /\ holder = [f \in Fids |-> NoCall]
  /\ body = [f \in Fids |-> NoBody] /\ offset = [f \in Fids |-> 0]
  /\ streams = [f \in Fids |-> 0]
  /\ url \in {0, 1} /\ issued = 1 /\ exists = TRUE
  /\ pc = [c \in Calls |-> "idle"] /\ at = [c \in Calls |-> NoFid]
  /\ want = [c \in Calls |-> 0] /\ link = [c \in Calls |-> 0]
  /\ refreshed = [c \in Calls |-> FALSE]
  /\ reads = 0 /\ faults = 0

Fault == faults < MaxFaults /\ faults' = faults + 1

Goto(c, step) == pc' = [pc EXCEPT ![c] = step]

-----------------------------------------------------------------------------
Open(f) ==
  /\ f \in fresh
  /\ fresh' = fresh \ {f} /\ readers' = readers \cup {f}
  /\ UNCHANGED <<cancelled, url, issued, exists, readVars, callVars, reads, faults>>

\* Read finds its attachmentRead; without one it fails and changes nothing.
ReadBegin(c, f, o) ==
  /\ pc[c] = "idle" /\ f \in readers /\ reads < MaxReads
  /\ reads' = reads + 1
  /\ at' = [at EXCEPT ![c] = f] /\ want' = [want EXCEPT ![c] = o]
  /\ Goto(c, "lock")
  /\ UNCHANGED <<fileVars, readVars, link, refreshed, faults>>

\* body.Close(), of a body that may have been closed before.
IsOpen(f) == body[f] # NoBody /\ body[f].open

CloseBody(f) ==
  /\ body' = [body EXCEPT ![f] = IF @ = NoBody THEN NoBody ELSE [@ EXCEPT !.open = FALSE]]
  /\ streams' = [streams EXCEPT ![f] = IF IsOpen(f) THEN @ - 1 ELSE @]

\* Mutant: a body that is there is read from, wherever it stands.
ReadLockKeepsBody(c) ==
  /\ pc[c] = "lock" /\ holder[at[c]] = NoCall
  /\ holder' = [holder EXCEPT ![at[c]] = c]
  /\ Goto(c, IF body[at[c]] = NoBody THEN "open" ELSE "read")
  /\ refreshed' = [refreshed EXCEPT ![c] = FALSE]
  /\ UNCHANGED <<fileVars, body, offset, streams, at, want, link, reads, faults>>

\* Mutant: the body is given up for another offset without being closed.
ReadLockLeavesOpen(c) ==
  /\ pc[c] = "lock" /\ holder[at[c]] = NoCall
  /\ holder' = [holder EXCEPT ![at[c]] = c]
  /\ Goto(c, IF body[at[c]] = NoBody \/ offset[at[c]] # want[c] THEN "open" ELSE "read")
  /\ refreshed' = [refreshed EXCEPT ![c] = FALSE]
  /\ UNCHANGED <<fileVars, body, offset, streams, at, want, link, reads, faults>>

\* The body is used again if it stands where the client wants to read.
ReadLock(c) ==
  /\ pc[c] = "lock" /\ holder[at[c]] = NoCall
  /\ holder' = [holder EXCEPT ![at[c]] = c]
  /\ IF body[at[c]] = NoBody \/ offset[at[c]] # want[c]
       THEN CloseBody(at[c]) /\ Goto(c, "open")
       ELSE UNCHANGED <<body, streams>> /\ Goto(c, "read")
  /\ refreshed' = [refreshed EXCEPT ![c] = FALSE]
  /\ UNCHANGED <<fileVars, offset, at, want, link, reads, faults>>

\* Read returns, with or without an error.
Return(c) ==
  /\ holder' = [holder EXCEPT ![at[c]] = NoCall]
  /\ pc' = [pc EXCEPT ![c] = "idle"] /\ at' = [at EXCEPT ![c] = NoFid]

Fail(c) == Return(c) /\ UNCHANGED <<body, offset, streams>>

\* Mutant: the requests do not carry the fid's context.
OpenURLDetached(c) ==
  /\ pc[c] = "open"
  /\ link' = [link EXCEPT ![c] = url]
  /\ IF url # 0 THEN Goto(c, "get") /\ UNCHANGED <<readVars, at>>
     ELSE IF refreshed[c] THEN Fail(c)
     ELSE Goto(c, "refresh") /\ UNCHANGED <<readVars, at>>
  /\ UNCHANGED <<fileVars, want, refreshed, reads, faults>>

\* open: no request starts once the context has ended.
OpenURL(c) ==
  /\ pc[c] = "open"
  /\ link' = [link EXCEPT ![c] = url]
  /\ IF at[c] \in cancelled \/ (url = 0 /\ refreshed[c]) THEN Fail(c)
     ELSE /\ Goto(c, IF url = 0 THEN "refresh" ELSE "get")
          /\ UNCHANGED <<readVars, at>>
  /\ UNCHANGED <<fileVars, want, refreshed, reads, faults>>

\* OpenAttachment succeeds: past the end there is no range to serve.
GetAccepted(c) ==
  /\ pc[c] = "get" /\ link[c] = issued /\ exists
  /\ want[c] = 0 \/ want[c] < Length
  /\ body' = [body EXCEPT ![at[c]] = [pos |-> want[c], open |-> TRUE]]
  /\ offset' = [offset EXCEPT ![at[c]] = want[c]]
  /\ streams' = [streams EXCEPT ![at[c]] = @ + 1]
  /\ Goto(c, "read")
  /\ UNCHANGED <<fileVars, holder, at, want, link, refreshed, reads, faults>>

\* Mutant: a URL that is refused is refreshed as often as it takes.
GetRefusedAgain(c) ==
  /\ pc[c] = "get"
  /\ Goto(c, "refresh")
  /\ UNCHANGED <<fileVars, readVars, at, want, link, refreshed, reads, faults>>

\* 401, 403 or 404, whatever the reason: the first time, refreshAndOpen.
GetRefused(c) ==
  /\ pc[c] = "get"
  /\ IF refreshed[c] THEN Fail(c) ELSE Goto(c, "refresh") /\ UNCHANGED <<readVars, at>>
  /\ UNCHANGED <<fileVars, want, link, refreshed, reads, faults>>

\* The message is fetched, and its URL put into the file if it is there.
RefreshAnswered(c) ==
  /\ pc[c] = "refresh"
  /\ IF exists
       THEN /\ url' = issued
            /\ refreshed' = [refreshed EXCEPT ![c] = TRUE]
            /\ Goto(c, "open") /\ UNCHANGED <<readVars, at>>
       ELSE Fail(c) /\ UNCHANGED <<url, refreshed>>
  /\ UNCHANGED <<fresh, readers, cancelled, issued, exists, want, link, reads, faults>>

\* body.Read returns some bytes, or none at the end.
BodyReads(c) ==
  /\ pc[c] = "read" /\ IsOpen(at[c])
  /\ LET f == at[c]
     IN \E n \in 0..(Length - body[f].pos) :
          /\ n = 0 => body[f].pos = Length
          /\ body' = [body EXCEPT ![f].pos = @ + n]
          /\ offset' = [offset EXCEPT ![f] = @ + n]
  /\ Return(c)
  /\ UNCHANGED <<fileVars, streams, want, link, refreshed, reads, faults>>

(***************************************************************************)
(* A request or body.Read fails: the context has ended, the connection is  *)
(* lost, or the body was closed for another offset whose own body could    *)
(* then not be opened.                                                     *)
(***************************************************************************)
MustFail(c) ==
  /\ pc[c] \in {"get", "refresh", "read"}
  /\ at[c] \in cancelled \/ (pc[c] = "read" /\ ~IsOpen(at[c]))

ReadFails(c) ==
  /\ pc[c] \in {"get", "refresh", "read"}
  /\ IF MustFail(c) THEN UNCHANGED faults ELSE Fault
  /\ Fail(c)
  /\ UNCHANGED <<fileVars, want, link, refreshed, reads>>

-----------------------------------------------------------------------------
\* Close: forget the reader, cancel its context, then close its body.

CloseBegin(c, f) ==
  /\ pc[c] = "idle" /\ f \in readers
  /\ readers' = readers \ {f}
  /\ at' = [at EXCEPT ![c] = f]
  /\ Goto(c, "cancel")
  /\ UNCHANGED <<fresh, cancelled, url, issued, exists, readVars, want, link, refreshed,
                 reads, faults>>

\* Mutant: the context is left to end by itself.
CloseCancelNever(c) ==
  /\ pc[c] = "cancel"
  /\ Goto(c, "close")
  /\ UNCHANGED <<fileVars, readVars, at, want, link, refreshed, reads, faults>>

CloseCancel(c) ==
  /\ pc[c] = "cancel"
  /\ cancelled' = cancelled \cup {at[c]}
  /\ Goto(c, "close")
  /\ UNCHANGED <<fresh, readers, url, issued, exists, readVars, at, want, link, refreshed,
                 reads, faults>>

CloseEnd(c) ==
  /\ pc[c] = "close" /\ holder[at[c]] = NoCall
  /\ CloseBody(at[c])
  /\ pc' = [pc EXCEPT ![c] = "idle"] /\ at' = [at EXCEPT ![c] = NoFid]
  /\ UNCHANGED <<fileVars, holder, offset, want, link, refreshed, reads, faults>>

-----------------------------------------------------------------------------
\* The five minutes that Open gives the context are over.
Expire(f) ==
  /\ f \notin fresh \cup cancelled
  /\ Fault
  /\ cancelled' = cancelled \cup {f}
  /\ UNCHANGED <<fresh, readers, url, issued, exists, readVars, callVars, reads>>

\* The server supersedes its URL.
Reissue ==
  /\ Fault
  /\ issued' = issued + 1
  /\ UNCHANGED <<fresh, readers, cancelled, url, exists, readVars, callVars, reads>>

\* The message loses the attachment.
Delete ==
  /\ exists
  /\ Fault
  /\ exists' = FALSE
  /\ UNCHANGED <<fresh, readers, cancelled, url, issued, readVars, callVars, reads>>

\* attachmentIndex.update, with the copy of the message that a list held.
IndexUpdate ==
  /\ Fault
  /\ url' \in 0..issued
  /\ UNCHANGED <<fresh, readers, cancelled, issued, exists, readVars, callVars, reads>>

\* What a call does without waiting for the network.
Local(c) ==
  \/ ReadLock(c) \/ OpenURL(c)
  \/ CloseCancel(c) \/ CloseEnd(c)
  \/ MustFail(c) /\ ReadFails(c)

Remote(c) == GetAccepted(c) \/ GetRefused(c) \/ RefreshAnswered(c) \/ BodyReads(c)

Next ==
  \/ \E f \in Fids : Open(f) \/ Expire(f)
  \/ \E c \in Calls :
       \/ \E f \in Fids : CloseBegin(c, f) \/ \E o \in 0..Length : ReadBegin(c, f, o)
       \/ ReadLock(c) \/ OpenURL(c) \/ Remote(c) \/ ReadFails(c)
       \/ CloseCancel(c) \/ CloseEnd(c)
  \/ Reissue \/ Delete \/ IndexUpdate

Spec == Init /\ [][Next]_vars

\* Goroutines run on, and a request or a body ends with its context.
FairSpec == Spec /\ \A c \in Calls : WF_vars(Local(c))

-----------------------------------------------------------------------------
TypeOK ==
  /\ fresh \subseteq Fids /\ readers \subseteq Fids /\ cancelled \subseteq Fids
  /\ holder \in [Fids -> Calls \cup {NoCall}]
  /\ body \in [Fids -> Body \cup {NoBody}]
  /\ offset \in [Fids -> 0..Length]
  /\ issued \in Nat \ {0} /\ url \in 0..issued /\ exists \in BOOLEAN
  /\ streams \in [Fids -> {0, 1}]
  /\ pc \in [Calls -> {"idle", "lock", "open", "get", "refresh", "read", "cancel", "close"}]
  /\ at \in [Calls -> Fids \cup {NoFid}]
  /\ want \in [Calls -> 0..Length] /\ link \in [Calls -> 0..issued]
  /\ refreshed \in [Calls -> BOOLEAN]

(***************************************************************************)
(* The bytes a Read returns are those at the offset it was asked for,      *)
(* whatever seeks, failed requests, refreshed URLs and reads of other      *)
(* goroutines came before it (Read's test of reader.offset).               *)
(***************************************************************************)
BytesInPlace ==
  \A c \in Calls : pc[c] = "read" /\ IsOpen(at[c]) => body[at[c]].pos = want[c]

(***************************************************************************)
(* Once a fid is closed and its last Read has returned, no response body   *)
(* is left open: neither by a Read that was waiting for the mutex when     *)
(* Close took it, nor by one that was waiting for the network.             *)
(***************************************************************************)
NoStreamLeft ==
  \A f \in Fids \ (fresh \cup readers) :
    (\A c \in Calls : at[c] # f) => streams[f] = 0

(***************************************************************************)
(* Close returns although a Read holds the mutex and waits for a server    *)
(* that does not answer (Close cancels before it locks).                   *)
(***************************************************************************)
CloseReturns == \A c \in Calls : pc[c] \in {"cancel", "close"} ~> pc[c] = "idle"

(***************************************************************************)
(* If the servers answer, a Read returns: a URL that is refused over and   *)
(* over is refreshed once (the argument "refreshed" of open).              *)
(***************************************************************************)
ReadReturns ==
  (\A c \in Calls : WF_vars(Remote(c)))
    => \A c \in Calls : pc[c] # "idle" ~> pc[c] = "idle"
-----------------------------------------------------------------------------
(***************************************************************************)
(* The inductive invariant: who holds a mutex, what an attachmentRead says *)
(* of its body, and what a fid may still do once its Close is over.        *)
(***************************************************************************)
HasLock(c) == pc[c] \in {"open", "get", "refresh", "read"}

LockOK ==
  /\ \A c \in Calls : pc[c] # "idle" => at[c] \in Fids
  /\ \A c \in Calls : HasLock(c) => holder[at[c]] = c
  /\ \A f \in Fids : holder[f] # NoCall => HasLock(holder[f]) /\ at[holder[f]] = f

\* One body is open at a time, and reader.offset is where it stands.
BodyOK ==
  \A f \in Fids :
    /\ streams[f] = IF IsOpen(f) THEN 1 ELSE 0
    /\ IsOpen(f) => body[f].pos = offset[f]

\* A Read opens a body after the last one was closed, and reads what it asked for.
ReadOK ==
  \A c \in Calls :
    /\ pc[c] \in {"open", "get", "refresh"} => ~IsOpen(at[c])
    /\ pc[c] = "read" => body[at[c]] # NoBody /\ offset[at[c]] = want[c]

BeingClosed(f) == \E c \in Calls : at[c] = f /\ pc[c] \in {"cancel", "close"}

\* After Close a Read that waited for the mutex can only fail.
ClosedOK ==
  /\ \A c \in Calls : pc[c] = "close" => at[c] \in cancelled
  /\ \A f \in Fids \ (fresh \cup readers) :
       \/ BeingClosed(f)
       \/ /\ f \in cancelled /\ ~IsOpen(f)
          /\ \A c \in Calls : at[c] = f => pc[c] \notin {"get", "refresh"}

IInv == TypeOK /\ LockOK /\ BodyOK /\ ReadOK /\ ClosedOK
=============================================================================
