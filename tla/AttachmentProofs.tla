-------------------------- MODULE AttachmentProofs --------------------------
(***************************************************************************)
(* Proofs about attachments.                                               *)
(*                                                                         *)
(* Download: whatever the number of fids, of goroutines and of bytes, and  *)
(* however often a URL is superseded, a Read returns the bytes it was      *)
(* asked for and a Close leaves no response body open.                     *)
(*                                                                         *)
(* Attachments: whatever the number of messages, of Opens and of refreshes,*)
(* and in whatever order answers are applied, the index shows what it      *)
(* should and its paths lead to the attachments they name.                 *)
(***************************************************************************)
EXTENDS Download, Attachments, TLAPS

\* What a body that is there looks like.
LEMMA Bodies ==
  /\ NoBody \notin Body
  /\ \A b \in Body : b.pos \in 0..Length /\ b.open \in BOOLEAN
  /\ \A n \in 0..Length, o \in BOOLEAN : [pos |-> n, open |-> o] \in Body
<1>1. Body \subseteq [pos : Nat, open : BOOLEAN]
  BY DownloadAssumption DEF Body
<1> QED
  BY <1>1, DownloadAssumption DEF Body

\* What closing the body of a fid changes.
LEMMA CloseBodyCloses ==
  ASSUME NEW f \in Fids, TypeOK, BodyOK, CloseBody(f)
  PROVE  /\ body' \in [Fids -> Body \cup {NoBody}]
         /\ streams' \in [Fids -> {0, 1}]
         /\ body'[f] = NoBody <=> body[f] = NoBody
         /\ body'[f] # NoBody => ~body'[f].open
         /\ streams'[f] = 0
         /\ \A g \in Fids \ {f} : body'[g] = body[g] /\ streams'[g] = streams[g]
<1>1. body \in [Fids -> Body \cup {NoBody}] /\ streams \in [Fids -> {0, 1}]
  BY DEF TypeOK
<1>2. CASE body[f] = NoBody
  <2>1. body' = body /\ streams' = streams /\ streams[f] = 0
    BY <1>1, <1>2 DEF CloseBody, IsOpen, BodyOK
  <2> QED
    BY <1>1, <1>2, <2>1
<1>3. CASE body[f] # NoBody
  <2>1. body[f] \in Body
    BY <1>1, <1>3
  <2>2. body'[f] = [body[f] EXCEPT !.open = FALSE]
    BY <1>1, <1>3 DEF CloseBody
  <2>3. body'[f] \in Body /\ ~body'[f].open
    BY <2>1, <2>2 DEF Body
  <2>4. body' \in [Fids -> Body \cup {NoBody}] /\ \A g \in Fids \ {f} : body'[g] = body[g]
    BY <1>1, <2>3 DEF CloseBody
  <2>5. /\ streams' \in [Fids -> {0, 1}] /\ streams'[f] = 0
        /\ \A g \in Fids \ {f} : streams'[g] = streams[g]
    <3>1. CASE IsOpen(f)
      <4>1. streams[f] = 1
        BY <3>1 DEF BodyOK
      <4> QED
        BY <1>1, <3>1, <4>1 DEF CloseBody
    <3>2. CASE ~IsOpen(f)
      <4>1. streams[f] = 0
        BY <3>2 DEF BodyOK
      <4> QED
        BY <1>1, <3>2, <4>1 DEF CloseBody
    <3> QED
      BY <3>1, <3>2
  <2> QED
    BY <1>3, <2>3, <2>4, <2>5, Bodies
<1> QED
  BY <1>2, <1>3

\* The owner of a mutex is the only call at its fid past the lock.
LEMMA OneHolder ==
  ASSUME LockOK, NEW c \in Calls, HasLock(c)
  PROVE  /\ at[c] \in Fids /\ holder[at[c]] = c
         /\ \A d \in Calls \ {c} : at[d] = at[c] => ~HasLock(d)
BY DEF LockOK, HasLock

-----------------------------------------------------------------------------
\* A call gives up the mutex: what follows for the calls and their fids.
LEMMA FailKeepsIInv ==
  ASSUME IInv, NEW c \in Calls, HasLock(c), Fail(c),
         UNCHANGED <<fresh, readers, cancelled, exists, want, refreshed>>,
         issued' = issued, url' = url, link' \in [Calls -> 0..issued]
  PROVE  IInv'
<1>1. /\ at[c] \in Fids /\ holder[at[c]] = c
      /\ \A d \in Calls \ {c} : at[d] = at[c] => ~HasLock(d)
  BY OneHolder DEF IInv
<1>2. /\ pc \in [Calls -> {"idle", "lock", "open", "get", "refresh", "read", "cancel", "close"}]
      /\ at \in [Calls -> Fids \cup {NoFid}]
      /\ holder \in [Fids -> Calls \cup {NoCall}]
  BY DEF IInv, TypeOK
<1>3. /\ pc'[c] = "idle" /\ at'[c] = NoFid /\ holder'[at[c]] = NoCall
      /\ \A d \in Calls \ {c} : pc'[d] = pc[d] /\ at'[d] = at[d]
      /\ \A f \in Fids \ {at[c]} : holder'[f] = holder[f]
      /\ body' = body /\ offset' = offset /\ streams' = streams
  BY <1>1, <1>2 DEF Fail, Return
<1>4. NoFid \notin Fids /\ NoCall \notin Calls
  BY DownloadAssumption
<1>5. TypeOK'
  BY <1>1, <1>2, <1>3 DEF IInv, TypeOK, Fail, Return
<1>6. LockOK'
  BY <1>1, <1>2, <1>3, <1>4 DEF IInv, LockOK, HasLock
<1>7. BodyOK'
  BY <1>3 DEF IInv, BodyOK, IsOpen
<1>8. ReadOK'
  BY <1>3 DEF IInv, ReadOK, IsOpen
<1>9. ClosedOK'
  BY <1>1, <1>3, <1>4 DEF IInv, ClosedOK, IsOpen, BeingClosed, HasLock
<1> QED
  BY <1>5, <1>6, <1>7, <1>8, <1>9 DEF IInv

\* ReadLock closes the body of another offset, or goes on with the one there is.
LEMMA ReadLockKeepsIInv ==
  ASSUME IInv, NEW c \in Calls, ReadLock(c)
  PROVE  IInv'
<1>1. /\ pc[c] = "lock" /\ at[c] \in Fids /\ holder[at[c]] = NoCall
      /\ NoFid \notin Fids /\ NoCall \notin Calls
  BY DownloadAssumption DEF ReadLock, IInv, LockOK
<1>2. /\ pc \in [Calls -> {"idle", "lock", "open", "get", "refresh", "read", "cancel", "close"}]
      /\ at \in [Calls -> Fids \cup {NoFid}]
      /\ holder \in [Fids -> Calls \cup {NoCall}]
  BY DEF IInv, TypeOK
<1>3. /\ pc'[c] \in {"open", "read"} /\ holder'[at[c]] = c /\ at' = at /\ want' = want
      /\ offset' = offset /\ UNCHANGED fileVars
      /\ \A d \in Calls \ {c} : pc'[d] = pc[d]
      /\ \A f \in Fids \ {at[c]} : holder'[f] = holder[f]
      /\ pc' \in [Calls -> {"idle", "lock", "open", "get", "refresh", "read", "cancel", "close"}]
      /\ holder' \in [Fids -> Calls \cup {NoCall}]
  BY <1>1, <1>2 DEF ReadLock, Goto
<1>4. /\ body' \in [Fids -> Body \cup {NoBody}] /\ streams' \in [Fids -> {0, 1}]
      /\ \A g \in Fids \ {at[c]} : body'[g] = body[g] /\ streams'[g] = streams[g]
      /\ \/ /\ body'[at[c]] # NoBody => ~body'[at[c]].open
            /\ streams'[at[c]] = 0 /\ pc'[c] = "open"
         \/ /\ body'[at[c]] = body[at[c]] /\ streams'[at[c]] = streams[at[c]]
            /\ body[at[c]] # NoBody /\ offset[at[c]] = want[c] /\ pc'[c] = "read"
  <2>1. CASE body[at[c]] = NoBody \/ offset[at[c]] # want[c]
    <3>1. CloseBody(at[c]) /\ pc'[c] = "open"
      BY <1>2, <2>1 DEF ReadLock, Goto
    <3> QED
      BY <1>1, <3>1, CloseBodyCloses DEF IInv
  <2>2. CASE ~(body[at[c]] = NoBody \/ offset[at[c]] # want[c])
    <3>1. body' = body /\ streams' = streams /\ pc'[c] = "read"
      BY <1>2, <2>2 DEF ReadLock, Goto
    <3> QED
      BY <2>2, <3>1 DEF IInv, TypeOK
  <2> QED
    BY <2>1, <2>2
<1>5. \A d \in Calls : HasLock(d) => at[d] # at[c]
  BY <1>1 DEF IInv, LockOK
<1>6. TypeOK'
  BY <1>3, <1>4, ZenonT(30) DEF IInv, TypeOK, fileVars, ReadLock
<1>7. LockOK'
  BY <1>1, <1>2, <1>3, <1>5 DEF IInv, LockOK, HasLock
<1>8. BodyOK'
  BY <1>3, <1>4 DEF IInv, BodyOK, IsOpen
<1>9. ReadOK'
  <2> SUFFICES ASSUME NEW d \in Calls
               PROVE  /\ pc'[d] \in {"open", "get", "refresh"} => ~IsOpen(at[d])'
                      /\ pc'[d] = "read" => body'[at[d]] # NoBody /\ offset'[at[d]] = want'[d]
    BY <1>3 DEF ReadOK
  <2>1. CASE d = c
    BY <1>3, <1>4, <2>1 DEF IsOpen
  <2>2. CASE d # c /\ HasLock(d)
    <3>1. at[d] \in Fids \ {at[c]}
      BY <1>5, <2>2 DEF IInv, LockOK, HasLock
    <3> QED
      BY <1>3, <1>4, <2>2, <3>1 DEF IInv, ReadOK, IsOpen
  <2>3. CASE d # c /\ ~HasLock(d)
    BY <1>3, <2>3 DEF HasLock
  <2> QED
    BY <2>1, <2>2, <2>3
<1>10. ClosedOK'
  BY <1>1, <1>3, <1>4 DEF IInv, ClosedOK, IsOpen, BeingClosed, fileVars
<1> QED
  BY <1>6, <1>7, <1>8, <1>9, <1>10 DEF IInv

-----------------------------------------------------------------------------
\* A Read goes on to its next request; a new one starts only before a cancel.
LEMMA RequestsKeepIInv ==
  ASSUME IInv, NEW c \in Calls,
         pc[c] \in {"open", "get", "refresh"},
         pc[c] = "open" => at[c] \notin cancelled,
         NEW step \in {"open", "get", "refresh"}, Goto(c, step),
         UNCHANGED <<readVars, at, want, fresh, readers, cancelled, exists, issued>>,
         url' \in 0..issued, link' \in [Calls -> 0..issued], refreshed' \in [Calls -> BOOLEAN]
  PROVE  IInv'
<1>1. pc \in [Calls -> {"idle", "lock", "open", "get", "refresh", "read", "cancel", "close"}]
  BY DEF IInv, TypeOK
<1>2. /\ pc' \in [Calls -> {"idle", "lock", "open", "get", "refresh", "read", "cancel", "close"}]
      /\ pc'[c] \in {"open", "get", "refresh"}
      /\ \A d \in Calls \ {c} : pc'[d] = pc[d]
      /\ UNCHANGED <<holder, body, offset, streams, at, want, fresh, readers, cancelled>>
  BY <1>1 DEF Goto, readVars
<1>3. at[c] \in Fids /\ HasLock(c)
  BY DEF IInv, LockOK, HasLock
<1>4. TypeOK'
  BY <1>2 DEF IInv, TypeOK
<1>5. LockOK'
  <2>1. \A d \in Calls : (HasLock(d)' <=> HasLock(d)) /\ (pc'[d] = "idle" <=> pc[d] = "idle")
    BY <1>2, <1>3 DEF HasLock
  <2>2. \A f \in Fids : holder[f] # NoCall => holder[f] \in Calls
    BY DEF IInv, TypeOK
  <2> QED
    BY <1>2, <2>1, <2>2 DEF IInv, LockOK
<1>6. BodyOK'
  BY <1>2 DEF IInv, BodyOK, IsOpen
<1>7. ReadOK'
  BY <1>2 DEF IInv, ReadOK, IsOpen
<1>8. ClosedOK'
  BY <1>2, <1>3 DEF IInv, ClosedOK, IsOpen, BeingClosed
<1> QED
  BY <1>4, <1>5, <1>6, <1>7, <1>8 DEF IInv

\* Taking the address the file has now keeps the invariant: a call whose fid was closed gives up.
LEMMA OpenURLKeepsIInv ==
  ASSUME IInv, NEW c \in Calls, OpenURL(c)
  PROVE  IInv'
<1>1. /\ url \in 0..issued /\ link \in [Calls -> 0..issued] /\ refreshed \in [Calls -> BOOLEAN]
      /\ pc[c] = "open" /\ link' = [link EXCEPT ![c] = url]
      /\ UNCHANGED <<fresh, readers, cancelled, exists, want, refreshed, issued, url>>
  BY DEF IInv, TypeOK, OpenURL, fileVars
<1>2. link' \in [Calls -> 0..issued]
  BY <1>1
<1>3. CASE at[c] \in cancelled \/ (url = 0 /\ refreshed[c])
  <2>1. Fail(c)
    BY <1>3 DEF OpenURL
  <2> QED
    BY <1>1, <1>2, <2>1, FailKeepsIInv DEF HasLock
<1>4. CASE ~(at[c] \in cancelled \/ (url = 0 /\ refreshed[c]))
  <2>1. UNCHANGED <<readVars, at>> /\ (Goto(c, "refresh") \/ Goto(c, "get"))
    BY <1>4 DEF OpenURL
  <2>2. CASE Goto(c, "refresh")
    BY <1>1, <1>2, <1>4, <2>1, <2>2, RequestsKeepIInv
  <2>3. CASE Goto(c, "get")
    BY <1>1, <1>2, <1>4, <2>1, <2>3, RequestsKeepIInv
  <2> QED
    BY <2>1, <2>2, <2>3
<1> QED
  BY <1>3, <1>4

\* A GET that is refused keeps the invariant: the call asks for a fresh address, or gives up.
LEMMA GetRefusedKeepsIInv ==
  ASSUME IInv, NEW c \in Calls, GetRefused(c)
  PROVE  IInv'
<1>1. /\ url \in 0..issued /\ link \in [Calls -> 0..issued] /\ refreshed \in [Calls -> BOOLEAN]
      /\ pc[c] = "get"
      /\ UNCHANGED <<fresh, readers, cancelled, exists, want, link, refreshed, issued, url>>
  BY DEF IInv, TypeOK, GetRefused, fileVars
<1>2. CASE refreshed[c]
  <2>1. Fail(c)
    BY <1>2 DEF GetRefused
  <2> QED
    BY <1>1, <2>1, FailKeepsIInv DEF HasLock
<1>3. CASE ~refreshed[c]
  <2>1. UNCHANGED <<readVars, at>> /\ Goto(c, "refresh")
    BY <1>3 DEF GetRefused
  <2> QED
    BY <1>1, <2>1, RequestsKeepIInv
<1> QED
  BY <1>2, <1>3

\* A refresh keeps the invariant: the address it brings is the newest that was issued.
LEMMA RefreshAnsweredKeepsIInv ==
  ASSUME IInv, NEW c \in Calls, RefreshAnswered(c)
  PROVE  IInv'
<1>1. /\ issued \in Nat \ {0} /\ url \in 0..issued /\ link \in [Calls -> 0..issued]
      /\ refreshed \in [Calls -> BOOLEAN] /\ pc[c] = "refresh"
      /\ UNCHANGED <<fresh, readers, cancelled, exists, want, link, issued>>
  BY DEF IInv, TypeOK, RefreshAnswered
<1>2. CASE exists
  <2>1. /\ url' = issued /\ refreshed' = [refreshed EXCEPT ![c] = TRUE]
        /\ UNCHANGED <<readVars, at>> /\ Goto(c, "open")
    BY <1>2 DEF RefreshAnswered
  <2>2. url' \in 0..issued
    BY <1>1, <2>1
  <2>3. refreshed' \in [Calls -> BOOLEAN]
    BY <1>1, <2>1
  <2> QED
    BY <1>1, <2>1, <2>2, <2>3, RequestsKeepIInv
<1>3. CASE ~exists
  <2>1. Fail(c) /\ UNCHANGED <<url, refreshed>>
    BY <1>3 DEF RefreshAnswered
  <2> QED
    BY <1>1, <2>1, FailKeepsIInv DEF HasLock
<1> QED
  BY <1>2, <1>3

\* A Read that fails keeps the invariant: it releases the mutex and leaves the body as it is.
LEMMA ReadFailsKeepsIInv ==
  ASSUME IInv, NEW c \in Calls, ReadFails(c)
  PROVE  IInv'
<1>1. /\ link \in [Calls -> 0..issued]
      /\ UNCHANGED <<fresh, readers, cancelled, exists, want, link, refreshed, issued, url>>
  BY DEF IInv, TypeOK, ReadFails, fileVars
<1> QED
  BY <1>1, FailKeepsIInv DEF ReadFails, HasLock

\* The request succeeds: no body of the fid is open, and this one is where it should be.
LEMMA GetAcceptedKeepsIInv ==
  ASSUME IInv, NEW c \in Calls, GetAccepted(c)
  PROVE  IInv'
<1>1. /\ pc[c] = "get" /\ at[c] \in Fids /\ ~IsOpen(at[c]) /\ want[c] \in 0..Length
      /\ \A d \in Calls \ {c} : at[d] = at[c] => ~HasLock(d)
  BY OneHolder DEF GetAccepted, IInv, TypeOK, ReadOK, HasLock
<1>2. /\ pc \in [Calls -> {"idle", "lock", "open", "get", "refresh", "read", "cancel", "close"}]
      /\ body \in [Fids -> Body \cup {NoBody}] /\ offset \in [Fids -> 0..Length]
      /\ streams \in [Fids -> {0, 1}] /\ streams[at[c]] = 0
  BY <1>1 DEF IInv, TypeOK, BodyOK
<1> DEFINE new == [pos |-> want[c], open |-> TRUE]
<1>3. new \in Body /\ new # NoBody /\ new.pos = want[c] /\ new.open
  BY <1>1, Bodies
<1>4. /\ pc' \in [Calls -> {"idle", "lock", "open", "get", "refresh", "read", "cancel", "close"}]
      /\ pc'[c] = "read" /\ \A d \in Calls \ {c} : pc'[d] = pc[d]
      /\ UNCHANGED <<fileVars, holder, at, want, link, refreshed>>
  BY <1>2 DEF GetAccepted, Goto
<1>5. /\ body' \in [Fids -> Body \cup {NoBody}] /\ body'[at[c]] = new
      /\ \A g \in Fids \ {at[c]} : body'[g] = body[g]
  BY <1>1, <1>2, <1>3 DEF GetAccepted
<1>6. /\ offset' \in [Fids -> 0..Length] /\ offset'[at[c]] = want[c]
      /\ streams' \in [Fids -> {0, 1}] /\ streams'[at[c]] = 1
      /\ \A g \in Fids \ {at[c]} : offset'[g] = offset[g] /\ streams'[g] = streams[g]
  BY <1>1, <1>2 DEF GetAccepted
<1> HIDE DEF new
<1>7. TypeOK'
  BY <1>4, <1>5, <1>6 DEF IInv, TypeOK, fileVars
<1>8. LockOK'
  <2>1. \A d \in Calls : (HasLock(d)' <=> HasLock(d)) /\ (pc'[d] = "idle" <=> pc[d] = "idle")
    BY <1>1, <1>4 DEF HasLock
  <2>2. \A f \in Fids : holder[f] # NoCall => holder[f] \in Calls
    BY DEF IInv, TypeOK
  <2> QED
    BY <1>4, <2>1, <2>2 DEF IInv, LockOK
<1>9. BodyOK'
  BY <1>3, <1>4, <1>5, <1>6 DEF IInv, BodyOK, IsOpen
<1>10. ReadOK'
  <2> SUFFICES ASSUME NEW d \in Calls
               PROVE  /\ pc'[d] \in {"open", "get", "refresh"} => ~IsOpen(at[d])'
                      /\ pc'[d] = "read" => body'[at[d]] # NoBody /\ offset'[at[d]] = want'[d]
    BY <1>4 DEF ReadOK
  <2>1. CASE d = c
    BY <1>3, <1>4, <1>5, <1>6, <2>1
  <2>2. CASE d # c /\ HasLock(d)
    <3>1. at[d] \in Fids \ {at[c]}
      BY <1>1, <2>2 DEF IInv, LockOK, HasLock
    <3> QED
      BY <1>4, <1>5, <1>6, <2>2, <3>1 DEF IInv, ReadOK, IsOpen
  <2>3. CASE d # c /\ ~HasLock(d)
    BY <1>4, <2>3 DEF HasLock
  <2> QED
    BY <2>1, <2>2, <2>3
<1>11. ClosedOK'
  BY <1>1, <1>4, <1>5 DEF IInv, ClosedOK, IsOpen, BeingClosed, fileVars
<1> QED
  BY <1>7, <1>8, <1>9, <1>10, <1>11 DEF IInv

\* Bytes are read: the body and reader.offset move on together.
LEMMA BodyReadsKeepsIInv ==
  ASSUME IInv, NEW c \in Calls, BodyReads(c)
  PROVE  IInv'
<1>1. /\ pc[c] = "read" /\ at[c] \in Fids /\ IsOpen(at[c])
      /\ \A d \in Calls \ {c} : at[d] = at[c] => ~HasLock(d)
  BY OneHolder DEF BodyReads, IInv, HasLock
<1>2. /\ pc \in [Calls -> {"idle", "lock", "open", "get", "refresh", "read", "cancel", "close"}]
      /\ at \in [Calls -> Fids \cup {NoFid}] /\ holder \in [Fids -> Calls \cup {NoCall}]
      /\ body \in [Fids -> Body \cup {NoBody}] /\ offset \in [Fids -> 0..Length]
      /\ NoFid \notin Fids /\ NoCall \notin Calls /\ Length \in Nat
  BY DownloadAssumption DEF IInv, TypeOK
<1>3. body[at[c]] \in Body /\ offset[at[c]] = body[at[c]].pos
  BY <1>1, <1>2 DEF IInv, BodyOK, IsOpen
<1>4. PICK n \in 0..(Length - body[at[c]].pos) :
        /\ body' = [body EXCEPT ![at[c]].pos = @ + n]
        /\ offset' = [offset EXCEPT ![at[c]] = @ + n]
  BY DEF BodyReads
<1>5. /\ offset' \in [Fids -> 0..Length] /\ offset'[at[c]] = offset[at[c]] + n
      /\ \A g \in Fids \ {at[c]} : offset'[g] = offset[g]
  <2>1. offset[at[c]] + n \in 0..Length
    BY <1>2, <1>3, <1>4, Bodies
  <2> QED
    BY <1>1, <1>2, <1>4, <2>1
<1>6. /\ body' \in [Fids -> Body \cup {NoBody}]
      /\ body'[at[c]] # NoBody /\ body'[at[c]].pos = offset[at[c]] + n
      /\ body'[at[c]].open = body[at[c]].open
      /\ \A g \in Fids \ {at[c]} : body'[g] = body[g]
  <2>1. /\ body'[at[c]] = [body[at[c]] EXCEPT !.pos = @ + n]
        /\ \A g \in Fids \ {at[c]} : body'[g] = body[g]
        /\ body' = [body EXCEPT ![at[c]] = body'[at[c]]]
    BY <1>1, <1>2, <1>4
  <2>2. body[at[c]].pos + n \in 0..Length
    BY <1>2, <1>3, <1>4, Bodies
  <2>3. /\ body'[at[c]] \in Body /\ body'[at[c]].pos = body[at[c]].pos + n
        /\ body'[at[c]].open = body[at[c]].open
    BY <1>3, <2>1, <2>2 DEF Body
  <2> QED
    BY <1>2, <1>3, <2>1, <2>3, Bodies
<1>7. /\ pc'[c] = "idle" /\ at'[c] = NoFid /\ holder'[at[c]] = NoCall
      /\ \A d \in Calls \ {c} : pc'[d] = pc[d] /\ at'[d] = at[d]
      /\ \A f \in Fids \ {at[c]} : holder'[f] = holder[f]
      /\ pc' \in [Calls -> {"idle", "lock", "open", "get", "refresh", "read", "cancel", "close"}]
      /\ at' \in [Calls -> Fids \cup {NoFid}] /\ holder' \in [Fids -> Calls \cup {NoCall}]
      /\ UNCHANGED <<fileVars, streams, want, link, refreshed>>
  BY <1>1, <1>2 DEF BodyReads, Return
<1>8. TypeOK'
  BY <1>5, <1>6, <1>7 DEF IInv, TypeOK, fileVars
<1>9. LockOK'
  BY <1>1, <1>2, <1>7 DEF IInv, LockOK, HasLock
<1>10. BodyOK'
  <2> SUFFICES ASSUME NEW g \in Fids
               PROVE  /\ streams'[g] = IF IsOpen(g)' THEN 1 ELSE 0
                      /\ IsOpen(g)' => body'[g].pos = offset'[g]
    BY DEF BodyOK
  <2>1. IsOpen(g)' <=> IsOpen(g)
    BY <1>1, <1>6 DEF IsOpen
  <2>2. IsOpen(g) => body'[g].pos = offset'[g]
    BY <1>5, <1>6 DEF IInv, BodyOK
  <2> QED
    BY <1>7, <2>1, <2>2 DEF IInv, BodyOK
<1>11. ReadOK'
  <2> SUFFICES ASSUME NEW d \in Calls
               PROVE  /\ pc'[d] \in {"open", "get", "refresh"} => ~IsOpen(at[d])'
                      /\ pc'[d] = "read" => body'[at'[d]] # NoBody /\ offset'[at'[d]] = want'[d]
    BY DEF ReadOK
  <2>1. CASE d = c
    BY <1>7, <2>1
  <2>2. CASE d # c /\ HasLock(d)
    <3>1. at[d] \in Fids \ {at[c]}
      BY <1>1, <2>2 DEF IInv, LockOK, HasLock
    <3> QED
      BY <1>5, <1>6, <1>7, <2>2, <3>1 DEF IInv, ReadOK, IsOpen
  <2>3. CASE d # c /\ ~HasLock(d)
    BY <1>7, <2>3 DEF HasLock
  <2> QED
    BY <2>1, <2>2, <2>3
<1>12. ClosedOK'
  BY <1>1, <1>2, <1>6, <1>7 DEF IInv, ClosedOK, IsOpen, BeingClosed, fileVars
<1> QED
  BY <1>8, <1>9, <1>10, <1>11, <1>12 DEF IInv

-----------------------------------------------------------------------------
\* A call that holds no mutex waits for one, or tells the fid that it closes.
LEMMA ReadBeginKeepsIInv ==
  ASSUME IInv, NEW c \in Calls, NEW f \in Fids, NEW o \in 0..Length, ReadBegin(c, f, o)
  PROVE  IInv'
<1>1. /\ pc \in [Calls -> {"idle", "lock", "open", "get", "refresh", "read", "cancel", "close"}]
      /\ at \in [Calls -> Fids \cup {NoFid}] /\ want \in [Calls -> 0..Length]
      /\ holder \in [Fids -> Calls \cup {NoCall}] /\ NoCall \notin Calls
  BY DownloadAssumption DEF IInv, TypeOK
<1>2. /\ pc[c] = "idle" /\ pc'[c] = "lock" /\ at'[c] = f
      /\ \A d \in Calls \ {c} : pc'[d] = pc[d] /\ at'[d] = at[d] /\ want'[d] = want[d]
      /\ pc' \in [Calls -> {"idle", "lock", "open", "get", "refresh", "read", "cancel", "close"}]
      /\ at' \in [Calls -> Fids \cup {NoFid}] /\ want' \in [Calls -> 0..Length]
      /\ UNCHANGED <<fileVars, readVars, link, refreshed>>
  BY <1>1 DEF ReadBegin, Goto
<1>3. TypeOK'
  BY <1>2 DEF IInv, TypeOK, fileVars, readVars
<1>4. LockOK'
  BY <1>1, <1>2 DEF IInv, LockOK, HasLock, readVars
<1>5. BodyOK'
  BY <1>2 DEF IInv, BodyOK, IsOpen, readVars
<1>6. ReadOK'
  BY <1>2 DEF IInv, ReadOK, IsOpen, readVars
<1>7. ClosedOK'
  BY <1>2 DEF IInv, ClosedOK, IsOpen, BeingClosed, readVars, fileVars
<1> QED
  BY <1>3, <1>4, <1>5, <1>6, <1>7 DEF IInv

\* A Close that begins keeps the invariant: no other Close of its fid is under way.
LEMMA CloseBeginKeepsIInv ==
  ASSUME IInv, NEW c \in Calls, NEW f \in Fids, CloseBegin(c, f)
  PROVE  IInv'
<1>1. /\ pc \in [Calls -> {"idle", "lock", "open", "get", "refresh", "read", "cancel", "close"}]
      /\ at \in [Calls -> Fids \cup {NoFid}]
      /\ holder \in [Fids -> Calls \cup {NoCall}] /\ NoCall \notin Calls
  BY DownloadAssumption DEF IInv, TypeOK
<1>2. /\ pc[c] = "idle" /\ pc'[c] = "cancel" /\ at'[c] = f /\ readers' = readers \ {f}
      /\ \A d \in Calls \ {c} : pc'[d] = pc[d] /\ at'[d] = at[d]
      /\ pc' \in [Calls -> {"idle", "lock", "open", "get", "refresh", "read", "cancel", "close"}]
      /\ at' \in [Calls -> Fids \cup {NoFid}]
      /\ UNCHANGED <<fresh, cancelled, url, issued, exists, readVars, want, link, refreshed>>
  BY <1>1 DEF CloseBegin, Goto
<1>3. TypeOK'
  BY <1>2 DEF IInv, TypeOK, readVars
<1>4. LockOK'
  BY <1>1, <1>2 DEF IInv, LockOK, HasLock, readVars
<1>5. BodyOK'
  BY <1>2 DEF IInv, BodyOK, IsOpen, readVars
<1>6. ReadOK'
  BY <1>2 DEF IInv, ReadOK, IsOpen, readVars
<1>7. ClosedOK'
  BY <1>2 DEF IInv, ClosedOK, IsOpen, BeingClosed, readVars
<1> QED
  BY <1>3, <1>4, <1>5, <1>6, <1>7 DEF IInv

\* A Close that cancels the fid's context keeps the invariant, whoever has the mutex.
LEMMA CloseCancelKeepsIInv ==
  ASSUME IInv, NEW c \in Calls, CloseCancel(c)
  PROVE  IInv'
<1>1. /\ pc \in [Calls -> {"idle", "lock", "open", "get", "refresh", "read", "cancel", "close"}]
      /\ holder \in [Fids -> Calls \cup {NoCall}] /\ NoCall \notin Calls
      /\ pc[c] = "cancel" /\ at[c] \in Fids
  BY DownloadAssumption DEF IInv, TypeOK, LockOK, CloseCancel
<1>2. /\ pc'[c] = "close" /\ cancelled' = cancelled \cup {at[c]}
      /\ \A d \in Calls \ {c} : pc'[d] = pc[d]
      /\ pc' \in [Calls -> {"idle", "lock", "open", "get", "refresh", "read", "cancel", "close"}]
      /\ UNCHANGED <<fresh, readers, url, issued, exists, readVars, at, want, link, refreshed>>
  BY <1>1 DEF CloseCancel, Goto
<1>3. TypeOK'
  BY <1>1, <1>2 DEF IInv, TypeOK, readVars
<1>4. LockOK'
  BY <1>1, <1>2 DEF IInv, LockOK, HasLock, readVars
<1>5. BodyOK'
  BY <1>2 DEF IInv, BodyOK, IsOpen, readVars
<1>6. ReadOK'
  BY <1>2 DEF IInv, ReadOK, IsOpen, readVars
<1>7. ClosedOK'
  BY <1>1, <1>2 DEF IInv, ClosedOK, IsOpen, BeingClosed, readVars
<1> QED
  BY <1>3, <1>4, <1>5, <1>6, <1>7 DEF IInv

\* Close has the mutex, so no Read stands between its request and its body.
LEMMA CloseEndKeepsIInv ==
  ASSUME IInv, NEW c \in Calls, CloseEnd(c)
  PROVE  IInv'
<1>1. /\ pc \in [Calls -> {"idle", "lock", "open", "get", "refresh", "read", "cancel", "close"}]
      /\ at \in [Calls -> Fids \cup {NoFid}]
      /\ holder \in [Fids -> Calls \cup {NoCall}]
      /\ NoCall \notin Calls /\ NoFid \notin Fids
      /\ pc[c] = "close" /\ at[c] \in Fids /\ at[c] \in cancelled /\ holder[at[c]] = NoCall
      /\ \A d \in Calls : HasLock(d) => at[d] # at[c]
  BY DownloadAssumption DEF IInv, TypeOK, LockOK, ClosedOK, CloseEnd
<1>2. /\ pc'[c] = "idle" /\ at'[c] = NoFid
      /\ \A d \in Calls \ {c} : pc'[d] = pc[d] /\ at'[d] = at[d]
      /\ pc' \in [Calls -> {"idle", "lock", "open", "get", "refresh", "read", "cancel", "close"}]
      /\ at' \in [Calls -> Fids \cup {NoFid}]
      /\ UNCHANGED <<fileVars, holder, offset, want, link, refreshed>>
  BY <1>1 DEF CloseEnd
<1>3. /\ body' \in [Fids -> Body \cup {NoBody}] /\ streams' \in [Fids -> {0, 1}]
      /\ body'[at[c]] # NoBody => ~body'[at[c]].open
      /\ streams'[at[c]] = 0
      /\ \A g \in Fids \ {at[c]} : body'[g] = body[g] /\ streams'[g] = streams[g]
  BY <1>1, CloseBodyCloses DEF IInv, CloseEnd
<1>4. TypeOK'
  BY <1>2, <1>3 DEF IInv, TypeOK, fileVars
<1>5. LockOK'
  BY <1>1, <1>2 DEF IInv, LockOK, HasLock
<1>6. BodyOK'
  BY <1>2, <1>3 DEF IInv, BodyOK, IsOpen
<1>7. ReadOK'
  <2> SUFFICES ASSUME NEW d \in Calls
               PROVE  /\ pc'[d] \in {"open", "get", "refresh"} => ~IsOpen(at[d])'
                      /\ pc'[d] = "read" => body'[at'[d]] # NoBody /\ offset'[at'[d]] = want'[d]
    BY DEF ReadOK
  <2>1. CASE d # c /\ HasLock(d)
    <3>1. at[d] \in Fids \ {at[c]}
      BY <1>1, <2>1 DEF IInv, LockOK, HasLock
    <3> QED
      BY <1>2, <1>3, <2>1, <3>1 DEF IInv, ReadOK, IsOpen
  <2>2. CASE d = c \/ ~HasLock(d)
    BY <1>2, <2>2 DEF HasLock
  <2> QED
    BY <2>1, <2>2
<1>8. ClosedOK'
  BY <1>1, <1>2, <1>3 DEF IInv, ClosedOK, IsOpen, BeingClosed, fileVars, HasLock
<1> QED
  BY <1>4, <1>5, <1>6, <1>7, <1>8 DEF IInv

-----------------------------------------------------------------------------
\* What happens to the file or to a context disturbs no call.
LEMMA ServerKeepsIInv ==
  ASSUME IInv,
         \/ \E f \in Fids : Open(f) \/ Expire(f)
         \/ Reissue \/ Delete \/ IndexUpdate \/ UNCHANGED vars
  PROVE  IInv'
<1>1. /\ UNCHANGED <<readVars, callVars>>
      /\ fresh' \cup readers' = fresh \cup readers
      /\ cancelled \subseteq cancelled'
  BY DEF Open, Expire, Reissue, Delete, IndexUpdate, vars, fileVars
<1>2. TypeOK'
  <2>1. fresh' \subseteq Fids /\ readers' \subseteq Fids /\ cancelled' \subseteq Fids
    BY DEF IInv, TypeOK, Open, Expire, Reissue, Delete, IndexUpdate, vars, fileVars
  <2>2. /\ issued' \in Nat \ {0} /\ url' \in 0..issued'
        /\ \A n \in 0..issued : n \in 0..issued'
    BY DEF IInv, TypeOK, Open, Expire, Reissue, Delete, IndexUpdate, vars, fileVars
  <2>3. exists' \in BOOLEAN
    BY DEF IInv, TypeOK, Open, Expire, Reissue, Delete, IndexUpdate, vars, fileVars
  <2>4. link' \in [Calls -> 0..issued']
    BY <1>1, <2>2 DEF IInv, TypeOK, callVars
  <2> QED
    BY <1>1, <2>1, <2>2, <2>3, <2>4 DEF IInv, TypeOK, readVars, callVars
<1>3. LockOK'
  BY <1>1 DEF IInv, LockOK, HasLock, readVars, callVars
<1>4. BodyOK'
  BY <1>1 DEF IInv, BodyOK, IsOpen, readVars
<1>5. ReadOK'
  BY <1>1 DEF IInv, ReadOK, IsOpen, readVars, callVars
<1>6. ClosedOK'
  BY <1>1 DEF IInv, ClosedOK, IsOpen, BeingClosed, readVars, callVars
<1> QED
  BY <1>2, <1>3, <1>4, <1>5, <1>6 DEF IInv

\* Every step keeps the invariant.
LEMMA StepKeepsIInv == IInv /\ [Next]_vars => IInv'
BY ReadLockKeepsIInv, OpenURLKeepsIInv, GetAcceptedKeepsIInv, GetRefusedKeepsIInv,
   RefreshAnsweredKeepsIInv, BodyReadsKeepsIInv, ReadFailsKeepsIInv, ReadBeginKeepsIInv,
   CloseBeginKeepsIInv, CloseCancelKeepsIInv, CloseEndKeepsIInv, ServerKeepsIInv
   DEF Next, Remote

(***************************************************************************)
(* The inductive invariant holds in every behaviour.                       *)
(***************************************************************************)
THEOREM Invariance == Spec => []IInv
<1>1. Init => IInv
  <2> SUFFICES ASSUME Init PROVE IInv
    OBVIOUS
  <2>1. TypeOK
    BY DownloadAssumption DEF Init, TypeOK
  <2>2. LockOK /\ ReadOK
    BY DEF Init, LockOK, ReadOK, HasLock
  <2>3. BodyOK /\ ClosedOK
    BY DEF Init, BodyOK, ClosedOK, IsOpen
  <2> QED
    BY <2>1, <2>2, <2>3 DEF IInv
<1> QED
  BY <1>1, StepKeepsIInv, PTL DEF Spec

(***************************************************************************)
(* Every variable keeps its type: no fid ever has two bodies open.         *)
(***************************************************************************)
THEOREM TypeCorrect == Spec => []TypeOK
BY Invariance, PTL DEF IInv

(***************************************************************************)
(* A Read returns the bytes at the offset it was asked for: Read keeps a   *)
(* body only if reader.offset, which moves with the body, is that offset.  *)
(***************************************************************************)
THEOREM ReadsInPlace == Spec => []BytesInPlace
<1>1. IInv => BytesInPlace
  BY DEF IInv, ReadOK, LockOK, BodyOK, BytesInPlace
<1> QED
  BY <1>1, Invariance, PTL

(***************************************************************************)
(* No response body outlives its fid: after Close has cancelled and taken  *)
(* the mutex, a Read that still waits for it can open none.                *)
(***************************************************************************)
THEOREM CloseLeavesNothing == Spec => []NoStreamLeft
<1>1. IInv => NoStreamLeft
  BY DEF IInv, ClosedOK, BodyOK, BeingClosed, NoStreamLeft
<1> QED
  BY <1>1, Invariance, PTL

-----------------------------------------------------------------------------
\* A list of messages is a map: what it is for some of the messages.
LEMMA ListOf ==
  \A list : list \in Lists <=>
    /\ list = [m \in DOMAIN list |-> list[m]] /\ DOMAIN list \in SUBSET Msgs
    /\ \A m \in DOMAIN list : list[m] \in SUBSET Atts
<1> SUFFICES ASSUME NEW list
             PROVE  list \in Lists <=>
                      /\ list = [m \in DOMAIN list |-> list[m]] /\ DOMAIN list \in SUBSET Msgs
                      /\ \A m \in DOMAIN list : list[m] \in SUBSET Atts
  OBVIOUS
<1>1. ASSUME list \in Lists
      PROVE  /\ list = [m \in DOMAIN list |-> list[m]] /\ DOMAIN list \in SUBSET Msgs
             /\ \A m \in DOMAIN list : list[m] \in SUBSET Atts
  <2>1. PICK S \in SUBSET Msgs : list \in [S -> SUBSET Atts]
    BY <1>1 DEF Lists
  <2> QED
    BY <2>1
<1>2. ASSUME list = [m \in DOMAIN list |-> list[m]], DOMAIN list \in SUBSET Msgs,
             \A m \in DOMAIN list : list[m] \in SUBSET Atts
      PROVE  list \in Lists
  <2>1. list \in [DOMAIN list -> SUBSET Atts]
    BY <1>2
  <2> QED
    BY <1>2, <2>1 DEF Lists
<1> QED
  BY <1>1, <1>2

\* Lists that were combined.
LEMMA CombinedOf ==
  ASSUME NEW lists \in [Sources -> Lists],
         \A s \in Sources : Owned(lists[s]) /\ \A m \in DOMAIN lists[s] : lists[s][m] # {}
  PROVE  /\ Combined(lists) \in Lists /\ Owned(Combined(lists))
         /\ DOMAIN Combined(lists) = DOMAIN lists["pins"] \cup DOMAIN lists["history"]
         /\ \A m \in DOMAIN lists["pins"] : Combined(lists)[m] = lists["pins"][m]
         /\ \A m \in DOMAIN lists["history"] \ DOMAIN lists["pins"] :
              Combined(lists)[m] = lists["history"][m]
         /\ \A m \in DOMAIN Combined(lists) : Combined(lists)[m] # {}
<1>1. lists["pins"] \in Lists /\ lists["history"] \in Lists
  BY DEF Sources
<1>2. /\ Combined(lists) = [m \in DOMAIN Combined(lists) |-> Combined(lists)[m]]
      /\ DOMAIN Combined(lists) = DOMAIN lists["pins"] \cup DOMAIN lists["history"]
      /\ \A m \in DOMAIN lists["pins"] : Combined(lists)[m] = lists["pins"][m]
      /\ \A m \in DOMAIN lists["history"] \ DOMAIN lists["pins"] :
           Combined(lists)[m] = lists["history"][m]
  BY DEF Combined, Over
<1>3. Combined(lists) \in Lists
  BY <1>1, <1>2, ListOf
<1>4. \A m \in DOMAIN Combined(lists) :
        \E s \in Sources : m \in DOMAIN lists[s] /\ Combined(lists)[m] = lists[s][m]
  BY <1>2 DEF Sources
<1> QED
  BY <1>2, <1>3, <1>4 DEF Owned

\* What update keeps of an answer.
LEMMA WithAttachmentsOf ==
  ASSUME NEW list \in Lists, Owned(list)
  PROVE  /\ WithAttachments(list) \in Lists /\ Owned(WithAttachments(list))
         /\ DOMAIN WithAttachments(list) = {m \in DOMAIN list : list[m] # {}}
         /\ \A m \in DOMAIN WithAttachments(list) : WithAttachments(list)[m] = list[m]
<1>1. /\ WithAttachments(list) = [m \in DOMAIN WithAttachments(list) |-> WithAttachments(list)[m]]
      /\ DOMAIN WithAttachments(list) = {m \in DOMAIN list : list[m] # {}}
      /\ \A m \in DOMAIN WithAttachments(list) : WithAttachments(list)[m] = list[m]
  BY DEF WithAttachments
<1>2. WithAttachments(list) \in Lists
  BY <1>1, ListOf
<1> QED
  BY <1>1, <1>2 DEF Owned

\* What the server answers.
LEMMA AnswerType ==
  ASSUME IndexTypeOK, NEW s \in Sources, NEW S \in Pages(s)
  PROVE  /\ Answer(S) \in Lists /\ Owned(Answer(S))
         /\ DOMAIN Answer(S) = S
         /\ \A m \in S : Answer(S)[m] = Copy(m)
<1>1. Existing \subseteq Msgs
  BY AttachmentsAssumption DEF IndexTypeOK, Existing, Msgs
<1>2. pinned \subseteq Msgs /\ Window \subseteq Msgs
  BY <1>1 DEF IndexTypeOK, Window
<1>3. \A m : Copy(m) \in SUBSET Atts /\ \A a \in Copy(m) : MessageOf[a] = m
  BY DEF IndexTypeOK, Copy
<1>4. S \in SUBSET Msgs
  <2>1. CASE s = "pins"
    BY <1>2, <2>1 DEF Pages, PinPages
  <2>2. CASE s # "pins"
    BY <1>2, <2>2 DEF Pages
  <2> QED
    BY <2>1, <2>2
<1>5. /\ Answer(S) = [m \in DOMAIN Answer(S) |-> Answer(S)[m]]
      /\ DOMAIN Answer(S) = S
      /\ \A m \in S : Answer(S)[m] = Copy(m)
  BY DEF Answer
<1>6. Answer(S) \in Lists
  BY <1>3, <1>4, <1>5, ListOf
<1> QED
  BY <1>3, <1>5, <1>6 DEF Owned

\* The attachments of a message have paths of their own, and none takes that of
\* info.json but one of that name.
LEMMA PathsDiffer ==
  ASSUME NEW m, NEW copy \in SUBSET Atts, \A a \in copy : MessageOf[a] = m
  PROVE  /\ \A a \in copy : Path(copy, a) \in Paths
         /\ \A a, b \in copy : Path(copy, a) = Path(copy, b) => a = b
<1>1. \A a \in copy : Path(copy, a) \in Paths
  BY DEF Path, Paths
<1>2. ASSUME NEW a \in copy, NEW b \in copy, Path(copy, a) = Path(copy, b), a # b
      PROVE  FALSE
  <2>1. /\ Base[a] \in Seq(STRING) /\ Base[b] \in Seq(STRING)
        /\ Short[a] \in STRING /\ Short[b] \in STRING
        /\ a \in Atts /\ b \in Atts /\ MessageOf[a] = MessageOf[b]
    BY AttachmentsAssumption
  <2>2. /\ Short[a] # Short[b]
        /\ Append(Base[a], Short[a]) # Base[b] /\ Append(Base[b], Short[b]) # Base[a]
    BY <1>2, <2>1, AttachmentsAssumption
  <2>3. Append(Base[a], Short[a]) # Append(Base[b], Short[b])
    <3>1. \A x, y \in Seq(STRING) : \A s, t \in STRING : Append(x, s) = Append(y, t) => s = t
      <4> SUFFICES ASSUME NEW x \in Seq(STRING), NEW y \in Seq(STRING),
                          NEW s \in STRING, NEW t \in STRING, Append(x, s) = Append(y, t)
                   PROVE  s = t
        OBVIOUS
      <4>1. Len(Append(x, s)) = Len(x) + 1 /\ Len(Append(y, t)) = Len(y) + 1
            /\ Len(x) \in Nat /\ Len(y) \in Nat
        OBVIOUS
      <4>2. \A S : \A q \in Seq(S), e \in S : Append(q, e)[Len(q) + 1] = e
        OBVIOUS
      <4>3. Append(x, s)[Len(x) + 1] = s /\ Append(y, t)[Len(y) + 1] = t
        BY <4>2
      <4>4. Len(x) + 1 = Len(y) + 1
        BY <4>1
      <4> QED
        BY <4>3, <4>4, Zenon
    <3> QED
      BY <2>1, <2>2, <3>1
  <2>4. Base[a] = Base[b] =>
          /\ Path(copy, a) = Append(Base[a], Short[a])
          /\ Path(copy, b) = Append(Base[b], Short[b])
    BY <1>2 DEF Path
  <2>5. \A x \in copy : Path(copy, x) \in {Base[x], Append(Base[x], Short[x])}
    BY DEF Path
  <2> QED
    BY <1>2, <2>2, <2>3, <2>4, <2>5
<1> QED
  BY <1>1, <1>2
-----------------------------------------------------------------------------
\* What a directory is, of these attachments and with this under the name of info.json.
DirectoryIs(d, copy, node, info) ==
  /\ d.info = [a \in copy |-> Path(copy, a)]
  /\ DOMAIN d.children = {Path(copy, a) : a \in copy} \cup {InfoName}
  /\ \A a \in copy : d.children[Path(copy, a)] = [file |-> a, node |-> node[a]]
  /\ InfoName \notin {Path(copy, a) : a \in copy} => d.children[InfoName] = info

\* A directory as reconcileMessage makes it.
LEMMA DirectoryMade ==
  ASSUME NEW m, NEW copy \in SUBSET Atts, \A a \in copy : MessageOf[a] = m,
         NEW node
  PROVE  DirectoryIs(Directory(m, copy, node), copy, node, InfoChild(m))
<1> DEFINE paths == {Path(copy, a) : a \in copy}
           new == [p \in paths |->
                     LET a == CHOOSE b \in copy : Path(copy, b) = p IN [file |-> a, node |-> node[a]]]
           info == [p \in {InfoName} |-> InfoChild(m)]
<1>1. /\ Directory(m, copy, node).info = [a \in copy |-> Path(copy, a)]
      /\ Directory(m, copy, node).children = Over(new, info)
  BY DEF Directory
<1>2. \A a \in copy : new[Path(copy, a)] = [file |-> a, node |-> node[a]]
  <2> SUFFICES ASSUME NEW a \in copy PROVE new[Path(copy, a)] = [file |-> a, node |-> node[a]]
    OBVIOUS
  <2>1. (CHOOSE b \in copy : Path(copy, b) = Path(copy, a)) = a
    BY PathsDiffer
  <2>2. Path(copy, a) \in paths
    OBVIOUS
  <2> QED
    BY <2>1, <2>2
<1> HIDE DEF new
<1>3. DOMAIN new = paths
  BY DEF new
<1>4. /\ DOMAIN Over(new, info) = paths \cup {InfoName}
      /\ \A p \in paths : Over(new, info)[p] = new[p]
      /\ InfoName \notin paths => Over(new, info)[InfoName] = InfoChild(m)
  BY <1>3 DEF Over
<1>5. \A a \in copy : Path(copy, a) \in paths
  OBVIOUS
<1> QED
  BY <1>1, <1>2, <1>4, <1>5 DEF DirectoryIs

\* What TypeOK says, but for what follows from the rest of the invariant.
Typed ==
  /\ posted \in 0..MaxPosts /\ deleted \subseteq Msgs /\ pinned \subseteq Existing
  /\ attached \subseteq Atts /\ current \subseteq Sources
  /\ \A m \in DOMAIN dirs : dirs[m].children[InfoName] \in Child
  /\ \A a \in Listed : made[a] # 0
  /\ shadowed \subseteq DOMAIN dirs /\ renamed \subseteq Listed

\* The types that follow from the rest.
LEMMA TypesFollow ==
  Typed /\ ListsOK /\ DirsOK /\ FilesOK => IndexTypeOK
<1> SUFFICES ASSUME Typed, ListsOK, DirsOK, FilesOK
             PROVE  IndexTypeOK
  OBVIOUS
<1> DEFINE C == Combined(sources)
<1>1. C \in Lists /\ Owned(C) /\ DOMAIN C = DOMAIN dirs
  BY CombinedOf DEF ListsOK, DirsOK
<1> HIDE DEF C
<1>2. DOMAIN C \subseteq Msgs /\ \A m \in DOMAIN C : C[m] \in SUBSET Atts
  BY <1>1, ListOf
<1>3. Listed = UNION {C[m] : m \in DOMAIN C}
  BY DEF Listed, C
<1>4. \A m \in DOMAIN dirs : DirectoryOK(m, C[m])
  BY DEF DirsOK, C
<1>5. \A s \in Sources : /\ DOMAIN sources[s] \subseteq Msgs
                         /\ \A m \in DOMAIN sources[s] : sources[s][m] \in (SUBSET Atts) \ {{}}
  <2> SUFFICES ASSUME NEW s \in Sources
               PROVE  /\ DOMAIN sources[s] \subseteq Msgs
                      /\ \A m \in DOMAIN sources[s] : sources[s][m] \in (SUBSET Atts) \ {{}}
    OBVIOUS
  <2>1. sources[s] \in Lists /\ \A m \in DOMAIN sources[s] : sources[s][m] # {}
    BY DEF ListsOK
  <2>2. DOMAIN sources[s] \in SUBSET Msgs /\ \A m \in DOMAIN sources[s] : sources[s][m] \in SUBSET Atts
    BY <2>1, ListOf
  <2>3. ASSUME NEW m \in DOMAIN sources[s] PROVE sources[s][m] \in (SUBSET Atts) \ {{}}
    BY <2>1, <2>2, Zenon
  <2> QED
    BY <2>2, <2>3
<1>6. Listed \subseteq Atts
  BY <1>2, <1>3
<1>7. \A a \in Listed : files[a].node \in 1..made[a] /\ files[a].name \in Paths
  <2>1. \A a \in Listed : files[a].node = made[a] /\ made[a] \in Nat /\ files[a].name \in Paths
    BY <1>6 DEF FilesOK
  <2>2. \A a \in Listed : made[a] # 0
    BY DEF Typed
  <2> QED
    BY <2>1, <2>2
<1>8. \A m \in DOMAIN dirs :
        /\ DOMAIN dirs[m].info = C[m] /\ \A a \in C[m] : dirs[m].info[a] \in Paths
        /\ DOMAIN dirs[m].children \subseteq Paths
        /\ \A p \in DOMAIN dirs[m].children : dirs[m].children[p] \in Child
  <2> SUFFICES ASSUME NEW m \in DOMAIN dirs
               PROVE  /\ DOMAIN dirs[m].info = C[m] /\ \A a \in C[m] : dirs[m].info[a] \in Paths
                      /\ DOMAIN dirs[m].children \subseteq Paths
                      /\ \A p \in DOMAIN dirs[m].children : dirs[m].children[p] \in Child
    OBVIOUS
  <2>1. C[m] \in SUBSET Atts /\ \A a \in C[m] : MessageOf[a] = m
    BY <1>1, <1>2 DEF Owned
  <2>2. \A a \in C[m] : Path(C[m], a) \in Paths
    BY <2>1, PathsDiffer
  <2>3. /\ dirs[m].info = [a \in C[m] |-> Path(C[m], a)]
        /\ DOMAIN dirs[m].children = {Path(C[m], a) : a \in C[m]} \cup {InfoName}
        /\ \A a \in C[m] : dirs[m].children[Path(C[m], a)] = [file |-> a, node |-> made[a]]
    BY <1>4 DEF DirectoryOK
  <2>4. \A a \in C[m] : made[a] \in Nat \ {0} /\ a \in Atts
    BY <1>1, <1>3, <1>6 DEF FilesOK, Typed
  <2>5. InfoName \in Paths
    BY DEF Paths
  <2>6. ASSUME NEW a \in C[m] PROVE dirs[m].children[Path(C[m], a)] \in Child
    <3>1. made[a] \in Nat \ {0} /\ a \in Atts
      BY <2>4
    <3>2. [file |-> a, node |-> made[a]] \in [file : Atts, node : Nat \ {0}]
      BY <3>1
    <3>3. dirs[m].children[Path(C[m], a)] = [file |-> a, node |-> made[a]]
      BY <2>3
    <3> QED
      BY <3>2, <3>3 DEF Child
  <2>7. dirs[m].children[InfoName] \in Child
    BY DEF Typed
  <2>8. DOMAIN dirs[m].info = C[m] /\ \A a \in C[m] : dirs[m].info[a] \in Paths
    BY <2>2, <2>3
  <2>9. DOMAIN dirs[m].children \subseteq Paths
    BY <2>2, <2>3, <2>5
  <2>10. \A p \in DOMAIN dirs[m].children : dirs[m].children[p] \in Child
    BY <2>3, <2>6, <2>7
  <2> QED
    BY <2>8, <2>9, <2>10
<1>9. DOMAIN files = UNION {DOMAIN dirs[m].info : m \in DOMAIN dirs}
  <2>1. DOMAIN files = Listed
    BY DEF FilesOK
  <2> QED
    BY <1>1, <1>3, <1>8, <2>1
<1>10. /\ \A m \in DOMAIN dirs :
             /\ DOMAIN dirs[m].info \subseteq Atts /\ \A a \in DOMAIN dirs[m].info : dirs[m].info[a] \in Paths
             /\ DOMAIN dirs[m].children \subseteq Paths
             /\ \A p \in DOMAIN dirs[m].children : dirs[m].children[p] \in Child
       /\ \A a \in DOMAIN files : files[a].node \in 1..made[a] /\ files[a].name \in Paths
       /\ shadowed \subseteq DOMAIN dirs /\ renamed \subseteq DOMAIN files /\ DOMAIN dirs \subseteq Msgs
  <2>1. DOMAIN files = Listed
    BY DEF FilesOK
  <2>2. shadowed \subseteq DOMAIN dirs /\ renamed \subseteq Listed
    BY DEF Typed
  <2> QED
    BY <1>1, <1>2, <1>7, <1>8, <2>1, <2>2
<1>11. /\ posted \in 0..MaxPosts /\ deleted \subseteq Msgs /\ pinned \subseteq Existing
       /\ attached \subseteq Atts /\ current \subseteq Sources
  BY DEF Typed
<1> QED
  BY <1>5, <1>9, <1>10, <1>11 DEF IndexTypeOK

-----------------------------------------------------------------------------
\* The index made anew is that of its lists.
LEMMA IndexMade ==
  ASSUME IndexTypeOK, ListsOK, DirsOK, FilesOK,
         ListsOK', Index(Combined(sources'))
  PROVE  /\ DirsOK' /\ FilesOK'
         /\ \A m \in DOMAIN dirs' : dirs'[m].children[InfoName] \in Child
         /\ \A a \in Listed' : made'[a] # 0
         /\ shadowed' \subseteq DOMAIN dirs' /\ renamed' = {}
<1> SUFFICES ASSUME NEW C, C = Combined(sources')
             PROVE  /\ DirsOK' /\ FilesOK'
                    /\ \A m \in DOMAIN dirs' : dirs'[m].children[InfoName] \in Child
                    /\ \A a \in Listed' : made'[a] # 0
                    /\ shadowed' \subseteq DOMAIN dirs' /\ renamed' = {}
  OBVIOUS
<1> DEFINE listed == UNION {C[m] : m \in DOMAIN C}
           node == [a \in Atts |-> IF a \in listed \ DOMAIN files THEN made[a] + 1 ELSE made[a]]
<1>1. C \in Lists /\ Owned(C)
  <2>1. sources' \in [Sources -> Lists]
    BY DEF ListsOK
  <2>2. \A s \in Sources : Owned(sources'[s]) /\ \A m \in DOMAIN sources'[s] : sources'[s][m] # {}
    BY DEF ListsOK
  <2> QED
    BY <2>1, <2>2, CombinedOf
<1>2. /\ made' = node
      /\ dirs' = [m \in DOMAIN C |-> Directory(m, C[m], node)]
      /\ files' = [a \in listed |-> [node |-> node[a], name |-> Path(C[MessageOf[a]], a)]]
      /\ shadowed' = {m \in DOMAIN C : m \in shadowed \/ \E a \in C[m] : Path(C[m], a) = InfoName}
      /\ renamed' = {}
  BY DEF Index
<1>3. Listed' = listed /\ Combined(sources)' = C
  BY DEF Listed
<1>4. /\ DOMAIN C \subseteq Msgs /\ \A m \in DOMAIN C : C[m] \in SUBSET Atts
      /\ \A m \in DOMAIN C : \A a \in C[m] : MessageOf[a] = m
  BY <1>1, ListOf DEF Owned
<1>5. listed \subseteq Atts /\ \A a \in listed : MessageOf[a] \in DOMAIN C /\ a \in C[MessageOf[a]]
  BY <1>4
<1> HIDE DEF listed
<1>6. /\ made' \in [Atts -> Nat] /\ \A a \in listed : made'[a] # 0
  <2>1. made \in [Atts -> Nat] /\ DOMAIN files \subseteq Atts
    BY DEF FilesOK, IndexTypeOK
  <2>2. \A a \in DOMAIN files : made[a] # 0
    <3>1. \A a \in DOMAIN files : files[a].node \in 1..made[a] /\ made[a] \in Nat
      BY <2>1 DEF IndexTypeOK
    <3> QED
      BY <3>1
  <2>3. \A a \in Atts : made'[a] = IF a \in listed \ DOMAIN files THEN made[a] + 1 ELSE made[a]
    BY <1>2
  <2>4. made' \in [Atts -> Nat]
    BY <1>2, <2>1
  <2>5. ASSUME NEW a \in listed PROVE made'[a] # 0
    <3>1. made[a] \in Nat /\ made'[a] = IF a \in listed \ DOMAIN files THEN made[a] + 1 ELSE made[a]
      BY <1>5, <2>1, <2>3
    <3> QED
      BY <2>2, <3>1
  <2> QED
    BY <2>4, <2>5
<1> HIDE DEF node
<1>7. ASSUME NEW m \in DOMAIN C
      PROVE  /\ DirectoryOK(m, C[m])' /\ dirs'[m].children[InfoName] \in Child
  <2>1. C[m] \in SUBSET Atts /\ \A a \in C[m] : MessageOf[a] = m
    BY <1>4
  <2>2. dirs'[m] = Directory(m, C[m], made')
    BY <1>2
  <2>3. /\ dirs'[m].info = [a \in C[m] |-> Path(C[m], a)]
        /\ DOMAIN dirs'[m].children = {Path(C[m], a) : a \in C[m]} \cup {InfoName}
        /\ \A a \in C[m] : dirs'[m].children[Path(C[m], a)] = [file |-> a, node |-> made'[a]]
        /\ InfoName \notin {Path(C[m], a) : a \in C[m]} =>
             dirs'[m].children[InfoName] = InfoChild(m)
    <3>1. DirectoryIs(Directory(m, C[m], made'), C[m], made', InfoChild(m))
      BY <2>1, DirectoryMade
    <3>2. DirectoryIs(dirs'[m], C[m], made', InfoChild(m))
      BY <2>2, <3>1
    <3> QED
      BY <3>2 DEF DirectoryIs
  <2>4. InfoChild(m) \in Child /\ (InfoChild(m) = Info \/ m \in shadowed)
    <3>1. CASE m \in DOMAIN dirs
      BY <3>1 DEF InfoChild, DirsOK, DirectoryOK, IndexTypeOK
    <3>2. CASE m \notin DOMAIN dirs
      BY <3>2 DEF InfoChild, Child
    <3> QED
      BY <3>1, <3>2
  <2>5. dirs'[m].children[InfoName] = Info \/ m \in shadowed'
    BY <1>2, <2>3, <2>4
  <2>6. dirs'[m].children[InfoName] \in Child
    <3>1. CASE InfoName \notin {Path(C[m], a) : a \in C[m]}
      BY <2>3, <2>4, <3>1
    <3>2. ASSUME NEW a \in C[m], InfoName = Path(C[m], a)
          PROVE  dirs'[m].children[InfoName] \in Child
      <4>1. a \in Atts /\ made'[a] \in Nat \ {0}
        BY <1>4, <1>6 DEF listed
      <4>2. [file |-> a, node |-> made'[a]] \in [file : Atts, node : Nat \ {0}]
        BY <4>1
      <4>3. dirs'[m].children[InfoName] = [file |-> a, node |-> made'[a]]
        BY <2>3, <3>2
      <4> QED
        BY <4>2, <4>3 DEF Child
    <3> QED
      BY <3>1, <3>2
  <2> QED
    BY <2>3, <2>5, <2>6 DEF DirectoryOK
<1>8. DOMAIN dirs' = DOMAIN C
  BY <1>2
<1>9. DirsOK'
  BY <1>3, <1>7, <1>8 DEF DirsOK
<1>10. FilesOK'
  <2>1. \A a \in listed : files'[a] = [node |-> made'[a], name |-> Path(C[MessageOf[a]], a)]
    BY <1>2
  <2>2. \A a \in listed : Path(C[MessageOf[a]], a) \in Paths /\ made'[a] \in Nat
    BY <1>4, <1>5, <1>6, PathsDiffer
  <2>3. files' \in [listed -> [node : Nat, name : Paths]]
    BY <1>2, <2>2
  <2> QED
    BY <1>3, <1>6, <2>1, <2>3 DEF FilesOK
<1> QED
  BY <1>2, <1>3, <1>6, <1>7, <1>8, <1>9, <1>10

-----------------------------------------------------------------------------
\* An answer under way is one of three things.
LEMMA OpenKinds ==
  ASSUME OpenOK, NEW c \in Opens
  PROVE  /\ open[c] = Idle
            \/ open[c] \in [step : {"asked"}, source : Sources, same : BOOLEAN]
            \/ open[c] \in [step : {"answered"}, source : Sources, same : BOOLEAN, list : Lists]
         /\ open[c].step = "asked" =>
              open[c] \in [step : {"asked"}, source : Sources, same : BOOLEAN]
         /\ open[c].step = "answered" =>
              /\ open[c] \in [step : {"answered"}, source : Sources, same : BOOLEAN, list : Lists]
              /\ Owned(open[c].list)
              /\ open[c].same => AnsweredNow(open[c].source, open[c].list)
<1>1. \/ open[c] = Idle
      \/ open[c] \in [step : {"asked"}, source : Sources, same : BOOLEAN]
      \/ open[c] \in [step : {"answered"}, source : Sources, same : BOOLEAN, list : Lists]
  BY DEF OpenOK
<1>2. Idle.step = "idle"
  BY DEF Idle
<1> QED
  BY <1>1, <1>2 DEF OpenOK

\* The index, and what was read of it, where neither changes.
LEMMA IndexSame ==
  ASSUME ListsOK, DirsOK, FilesOK, UNCHANGED indexVars
  PROVE  ListsOK' /\ DirsOK' /\ FilesOK'
<1>1. /\ sources' = sources /\ dirs' = dirs /\ files' = files /\ made' = made
      /\ shadowed' = shadowed /\ renamed' = renamed
  BY DEF indexVars
<1>2. ListsOK'
  BY <1>1 DEF ListsOK
<1>3. Combined(sources)' = Combined(sources) /\ Listed' = Listed
  BY <1>1 DEF Listed
<1>4. DirsOK'
  BY <1>1, <1>3 DEF DirsOK, DirectoryOK
<1>5. FilesOK'
  BY <1>1, <1>3 DEF FilesOK
<1> QED
  BY <1>2, <1>4, <1>5

\* What the server has, where that does not change.
LEMMA ServerSame ==
  ASSUME UNCHANGED serverVars
  PROVE  \A s, list : /\ AnsweredNow(s, list)' <=> AnsweredNow(s, list)
                      /\ KeptNow(s, list)' <=> KeptNow(s, list)
<1>1. posted' = posted /\ deleted' = deleted /\ pinned' = pinned /\ attached' = attached
  BY DEF serverVars
<1>2. Existing' = Existing
  BY <1>1 DEF Existing
<1>3. Window' = Window
  BY <1>2 DEF Window
<1>4. PinPages' = PinPages
  BY <1>1 DEF PinPages
<1>5. \A S : Answer(S)' = Answer(S)
  BY <1>1 DEF Answer, Copy
<1>6. \A s : Pages(s)' = Pages(s)
  BY <1>3, <1>4 DEF Pages
<1>7. \A s, list : AnsweredNow(s, list)' <=> AnsweredNow(s, list)
  BY <1>5, <1>6 DEF AnsweredNow
<1>8. \A S : WithAttachments(Answer(S))' = WithAttachments(Answer(S))
  BY <1>5 DEF WithAttachments
<1>9. \A s, list : KeptNow(s, list)' <=> KeptNow(s, list)
  BY <1>6, <1>8 DEF KeptNow
<1> QED
  BY <1>7, <1>9

\* The types, where neither changes.
LEMMA TypesSame ==
  ASSUME IndexTypeOK, UNCHANGED <<serverVars, indexVars, current>>
  PROVE  IndexTypeOK'
<1>1. /\ posted' = posted /\ deleted' = deleted /\ pinned' = pinned /\ attached' = attached
      /\ sources' = sources /\ dirs' = dirs /\ files' = files /\ made' = made
      /\ shadowed' = shadowed /\ renamed' = renamed /\ current' = current
  BY DEF indexVars, serverVars
<1>2. Existing' = Existing
  BY <1>1 DEF Existing
<1> QED
  BY <1>1, <1>2 DEF IndexTypeOK

-----------------------------------------------------------------------------
\* The server changes: no list is current any more.
LEMMA ServerChanges ==
  ASSUME IndexInv, Changed,
         posted' \in 0..MaxPosts /\ deleted' \subseteq Msgs /\ pinned' \subseteq Existing',
         attached' \subseteq Atts
  PROVE  IndexInv'
<1>1. /\ UNCHANGED indexVars /\ read' = read /\ current' = {}
      /\ open' = [c \in Opens |-> IF open[c] = Idle THEN Idle ELSE [open[c] EXCEPT !.same = FALSE]]
  BY DEF Changed
<1>2. ListsOK' /\ DirsOK' /\ FilesOK'
  BY <1>1, IndexSame DEF IndexInv
<1>3. IndexTypeOK'
  BY <1>1 DEF IndexInv, IndexTypeOK, indexVars
<1>4. RefreshOK'
  BY <1>1 DEF IndexInv, RefreshOK
<1>5. CurrentOK'
  BY <1>1 DEF CurrentOK
<1>6. OpenOK'
  <2>1. ASSUME NEW c \in Opens
        PROVE  \/ open'[c] = Idle
               \/ open'[c] \in [step : {"asked"}, source : Sources, same : BOOLEAN]
               \/ /\ open'[c] \in [step : {"answered"}, source : Sources, same : BOOLEAN, list : Lists]
                  /\ Owned(open'[c].list) /\ ~open'[c].same
    <3>1. open'[c] = IF open[c] = Idle THEN Idle ELSE [open[c] EXCEPT !.same = FALSE]
      BY <1>1
    <3>2. CASE open[c] = Idle
      BY <3>1, <3>2
    <3>3. CASE open[c] # Idle /\ open[c] \in [step : {"asked"}, source : Sources, same : BOOLEAN]
      BY <3>1, <3>3, ZenonT(30)
    <3>4. CASE open[c] # Idle /\ open[c] \in [step : {"answered"}, source : Sources, same : BOOLEAN,
                                             list : Lists]
      <4>1. open[c].step = "answered"
        BY <3>4
      <4>2. Owned(open[c].list)
        BY <4>1, OpenKinds DEF IndexInv
      <4> QED
        BY <3>1, <3>4, <4>2
    <3> QED
      BY <3>2, <3>3, <3>4, OpenKinds DEF IndexInv
  <2>2. open' = [c \in Opens |-> open'[c]]
    BY <1>1
  <2>3. Idle.step = "idle"
    BY DEF Idle
  <2> QED
    BY <2>1, <2>2, <2>3 DEF OpenOK
<1> QED
  BY <1>2, <1>3, <1>4, <1>5, <1>6 DEF IndexInv

\* What the server does to its messages.
LEMMA IndexServerKeepsIInv ==
  ASSUME IndexInv,
         \/ Post \/ \E m \in Msgs : Pin(m) \/ Unpin(m) \/ DeleteMessage(m)
         \/ \E a \in Atts : Edit(a)
  PROVE  IndexInv'
<1>1. /\ posted \in 0..MaxPosts /\ deleted \subseteq Msgs /\ pinned \subseteq Existing
      /\ attached \subseteq Atts /\ MaxPosts \in Nat
  BY AttachmentsAssumption DEF IndexInv, IndexTypeOK
<1>2. CASE Post
  <2>1. Changed /\ posted < MaxPosts /\ posted' = posted + 1
        /\ deleted' = deleted /\ pinned' = pinned /\ attached' = attached
    BY <1>2 DEF Post
  <2>2. posted' \in 0..MaxPosts /\ Existing \subseteq Existing'
    BY <1>1, <2>1 DEF Existing
  <2> QED
    BY <1>1, <2>1, <2>2, ServerChanges
<1>3. ASSUME NEW m \in Msgs, Pin(m) PROVE IndexInv'
  <2>1. Changed /\ m \in Existing /\ pinned' = pinned \cup {m}
        /\ posted' = posted /\ deleted' = deleted /\ attached' = attached
    BY <1>3 DEF Pin
  <2>2. Existing' = Existing
    BY <2>1 DEF Existing
  <2> QED
    BY <1>1, <2>1, <2>2, ServerChanges
<1>4. ASSUME NEW m \in Msgs, Unpin(m) PROVE IndexInv'
  <2>1. Changed /\ pinned' = pinned \ {m}
        /\ posted' = posted /\ deleted' = deleted /\ attached' = attached
    BY <1>4 DEF Unpin
  <2>2. Existing' = Existing
    BY <2>1 DEF Existing
  <2> QED
    BY <1>1, <2>1, <2>2, ServerChanges
<1>5. ASSUME NEW m \in Msgs, DeleteMessage(m) PROVE IndexInv'
  <2>1. Changed /\ deleted' = deleted \cup {m} /\ pinned' = pinned \ {m}
        /\ posted' = posted /\ attached' = attached
    BY <1>5 DEF DeleteMessage
  <2>2. Existing' = Existing \ {m}
    BY <2>1 DEF Existing
  <2> QED
    BY <1>1, <2>1, <2>2, ServerChanges
<1>6. ASSUME NEW a \in Atts, Edit(a) PROVE IndexInv'
  <2>1. Changed /\ attached' = attached \ {a}
        /\ posted' = posted /\ deleted' = deleted /\ pinned' = pinned
    BY <1>6 DEF Edit
  <2>2. Existing' = Existing
    BY <2>1 DEF Existing
  <2> QED
    BY <1>1, <2>1, <2>2, ServerChanges
<1> QED
  BY <1>2, <1>3, <1>4, <1>5, <1>6

-----------------------------------------------------------------------------
\* A step of an Open before its update: the index is as it was.
LEMMA OpensKeepIInv ==
  ASSUME IndexInv, NEW c \in Opens,
         (\E s \in Sources : OpenBegin(c, s)) \/ OpenAnswered(c) \/ OpenFails(c)
  PROVE  IndexInv'
<1>1. UNCHANGED <<serverVars, indexVars, read, current>>
  BY DEF OpenBegin, OpenAnswered, OpenFails
<1>2. ListsOK' /\ DirsOK' /\ FilesOK'
  BY <1>1, IndexSame DEF IndexInv
<1>3. \A s, list : /\ AnsweredNow(s, list)' <=> AnsweredNow(s, list)
                   /\ KeptNow(s, list)' <=> KeptNow(s, list)
  BY <1>1, ServerSame
<1>4. IndexTypeOK'
  BY <1>1, TypesSame DEF IndexInv
<1>5. RefreshOK'
  BY <1>1 DEF IndexInv, RefreshOK
<1>6. CurrentOK'
  BY <1>1, <1>3 DEF IndexInv, CurrentOK, indexVars
<1>7. open \in [Opens -> {Idle} \cup [step : {"asked"}, source : Sources, same : BOOLEAN]
                \cup [step : {"answered"}, source : Sources, same : BOOLEAN, list : Lists]]
  BY DEF IndexInv, OpenOK
<1>8. Idle.step = "idle"
  BY DEF Idle
<1>9. ASSUME NEW o, open' = [open EXCEPT ![c] = o],
             \/ o = Idle
             \/ o \in [step : {"asked"}, source : Sources, same : BOOLEAN]
             \/ /\ o \in [step : {"answered"}, source : Sources, same : BOOLEAN, list : Lists]
                /\ Owned(o.list) /\ AnsweredNow(o.source, o.list)
      PROVE  OpenOK'
  <2>1. open' \in [Opens -> {Idle} \cup [step : {"asked"}, source : Sources, same : BOOLEAN]
                   \cup [step : {"answered"}, source : Sources, same : BOOLEAN, list : Lists]]
    BY <1>7, <1>9
  <2>2. ASSUME NEW d \in Opens, open'[d].step = "answered"
        PROVE  /\ Owned(open'[d].list)
               /\ open'[d].same => AnsweredNow(open'[d].source, open'[d].list)
    <3>1. CASE d = c
      <4>1. open'[d] = o
        BY <1>7, <1>9, <3>1
      <4> QED
        BY <1>8, <1>9, <2>2, <4>1
    <3>2. CASE d # c
      <4>1. open'[d] = open[d]
        BY <1>7, <1>9, <3>2
      <4> QED
        BY <2>2, <4>1, OpenKinds DEF IndexInv
    <3> QED
      BY <3>1, <3>2
  <2> QED
    BY <1>3, <2>1, <2>2 DEF OpenOK
<1>10. OpenOK'
  <2>1. CASE \E s \in Sources : OpenBegin(c, s)
    <3>1. PICK s \in Sources : open' = [open EXCEPT ![c] = [step |-> "asked", source |-> s, same |-> TRUE]]
      BY <2>1 DEF OpenBegin
    <3> QED
      BY <1>9, <3>1
  <2>2. CASE OpenAnswered(c)
    <3>1. open[c] \in [step : {"asked"}, source : Sources, same : BOOLEAN]
      BY <2>2, OpenKinds DEF OpenAnswered, IndexInv
    <3>2. PICK S \in Pages(open[c].source) :
            open' = [open EXCEPT ![c] = [step |-> "answered", source |-> @.source, same |-> @.same,
                                         list |-> Answer(S)]]
      BY <2>2 DEF OpenAnswered
    <3>3. PICK l : l = Answer(S)
      OBVIOUS
    <3>4. l \in Lists /\ Owned(l) /\ AnsweredNow(open[c].source, l)
      BY <3>1, <3>3, AnswerType DEF IndexInv, AnsweredNow
    <3> DEFINE o == [step |-> "answered", source |-> open[c].source, same |-> open[c].same,
                     list |-> l]
    <3>5. open' = [open EXCEPT ![c] = o]
      BY <1>7, <3>2, <3>3
    <3>6. /\ o \in [step : {"answered"}, source : Sources, same : BOOLEAN, list : Lists]
          /\ Owned(o.list) /\ AnsweredNow(o.source, o.list)
      BY <3>1, <3>4
    <3> QED
      BY <1>9, <3>5, <3>6
  <2>3. CASE OpenFails(c)
    BY <1>9, <2>3 DEF OpenFails
  <2> QED
    BY <2>1, <2>2, <2>3
<1> QED
  BY <1>2, <1>4, <1>5, <1>6, <1>10 DEF IndexInv

-----------------------------------------------------------------------------
\* The index is made anew: it is that of the new list and of the other source's.
LEMMA UpdateKeepsIInv ==
  ASSUME IndexInv, NEW c \in Opens, Update(c)
  PROVE  IndexInv'
<1> DEFINE s == open[c].source
           list == WithAttachments(open[c].list)
<1>1. /\ open[c].step = "answered"
      /\ sources' = [sources EXCEPT ![s] = list]
      /\ current' = IF open[c].same THEN current \cup {s} ELSE current \ {s}
      /\ Index(Combined(sources'))
      /\ open' = [open EXCEPT ![c] = Idle]
      /\ UNCHANGED <<serverVars, read>>
  BY DEF Update
<1>2. /\ s \in Sources /\ open[c].list \in Lists /\ Owned(open[c].list)
      /\ open[c].same => AnsweredNow(s, open[c].list)
  BY <1>1, OpenKinds DEF IndexInv
<1>3. /\ list \in Lists /\ Owned(list) /\ \A m \in DOMAIN list : list[m] # {}
  <2>1. PICK l : l = open[c].list
    OBVIOUS
  <2>2. l \in Lists /\ Owned(l)
    BY <1>2, <2>1
  <2>3. /\ WithAttachments(l) \in Lists /\ Owned(WithAttachments(l))
        /\ DOMAIN WithAttachments(l) = {m \in DOMAIN l : l[m] # {}}
        /\ \A m \in DOMAIN WithAttachments(l) : WithAttachments(l)[m] = l[m]
    BY <2>2, WithAttachmentsOf
  <2>4. \A m \in DOMAIN WithAttachments(l) : WithAttachments(l)[m] # {}
    BY <2>3
  <2> QED
    BY <2>1, <2>3, <2>4
<1>4. sources \in [Sources -> Lists] /\ current \subseteq Sources
  BY DEF IndexInv, ListsOK, IndexTypeOK
<1>5. open[c].same => KeptNow(s, list)
  BY <1>2 DEF AnsweredNow, KeptNow
<1> HIDE DEF list, s
<1>6. /\ sources' \in [Sources -> Lists] /\ sources'[s] = list
      /\ \A t \in Sources \ {s} : sources'[t] = sources[t]
  BY <1>1, <1>2, <1>3, <1>4
<1>7. ListsOK'
  <2>1. ASSUME NEW t \in Sources
        PROVE  Owned(sources'[t]) /\ \A m \in DOMAIN sources'[t] : sources'[t][m] # {}
    <3>1. CASE t = s
      BY <1>3, <1>6, <3>1
    <3>2. CASE t # s
      <4>1. sources'[t] = sources[t]
        BY <1>6, <3>2
      <4>2. Owned(sources[t]) /\ \A m \in DOMAIN sources[t] : sources[t][m] # {}
        BY DEF IndexInv, ListsOK
      <4> QED
        BY <4>1, <4>2
    <3> QED
      BY <3>1, <3>2
  <2> QED
    BY <1>6, <2>1 DEF ListsOK
<1>8. /\ DirsOK' /\ FilesOK'
      /\ \A m \in DOMAIN dirs' : dirs'[m].children[InfoName] \in Child
      /\ \A a \in Listed' : made'[a] # 0
      /\ shadowed' \subseteq DOMAIN dirs' /\ renamed' = {}
  BY <1>1, <1>7, IndexMade DEF IndexInv
<1>9. current' \subseteq Sources
  BY <1>1, <1>2, <1>4
<1>10. posted' = posted /\ deleted' = deleted /\ pinned' = pinned /\ attached' = attached
       /\ read' = read
  BY <1>1 DEF serverVars
<1>11. Typed'
  <2>1. Existing' = Existing
    BY <1>10 DEF Existing
  <2>2. /\ posted \in 0..MaxPosts /\ deleted \subseteq Msgs /\ pinned \subseteq Existing
        /\ attached \subseteq Atts
    BY DEF IndexInv, IndexTypeOK
  <2> QED
    BY <1>8, <1>9, <1>10, <2>1, <2>2 DEF Typed
<1>12. IndexTypeOK'
  BY <1>7, <1>8, <1>11, TypesFollow, PTL
<1>13. \A x, l : /\ AnsweredNow(x, l)' <=> AnsweredNow(x, l)
                 /\ KeptNow(x, l)' <=> KeptNow(x, l)
  BY <1>1, ServerSame
<1>14. CurrentOK'
  <2>1. ASSUME NEW t \in current' PROVE KeptNow(t, sources'[t])
    <3>1. CASE t = s
      <4>1. open[c].same
        BY <1>1, <2>1, <3>1
      <4> QED
        BY <1>5, <1>6, <3>1, <4>1
    <3>2. CASE t # s
      <4>1. t \in current /\ t \in Sources
        BY <1>1, <1>4, <2>1, <3>2
      <4>2. KeptNow(t, sources[t])
        BY <4>1 DEF IndexInv, CurrentOK
      <4> QED
        BY <1>6, <3>2, <4>1, <4>2
    <3> QED
      BY <3>1, <3>2
  <2> QED
    BY <1>13, <2>1 DEF CurrentOK
<1>15. RefreshOK'
  BY <1>10 DEF IndexInv, RefreshOK
<1>16. OpenOK'
  <2>1. open' \in [Opens -> {Idle} \cup [step : {"asked"}, source : Sources, same : BOOLEAN]
                   \cup [step : {"answered"}, source : Sources, same : BOOLEAN, list : Lists]]
    BY <1>1 DEF IndexInv, OpenOK
  <2>2. ASSUME NEW d \in Opens, open'[d].step = "answered"
        PROVE  /\ Owned(open'[d].list)
               /\ open'[d].same => AnsweredNow(open'[d].source, open'[d].list)
    <3>1. d # c
      BY <1>1, <2>2 DEF IndexInv, OpenOK, Idle
    <3>2. open'[d] = open[d]
      BY <1>1, <3>1
    <3> QED
      BY <2>2, <3>2, OpenKinds DEF IndexInv
  <2> QED
    BY <1>13, <2>1, <2>2 DEF OpenOK
<1> QED
  BY <1>7, <1>8, <1>12, <1>14, <1>15, <1>16 DEF IndexInv

-----------------------------------------------------------------------------
\* A refresh that reads the name of a file.
LEMMA ReadsNameKeepsIInv ==
  ASSUME IndexInv, NEW c \in Reads, NEW a \in Atts, RefreshReadsName(c, a)
  PROVE  IndexInv'
<1>1. /\ UNCHANGED <<serverVars, indexVars, open, current>> /\ a \in DOMAIN files
      /\ read' = [read EXCEPT ![c] = [step |-> "named", file |-> a, node |-> files[a].node,
                                       name |-> files[a].name]]
  BY DEF RefreshReadsName
<1>2. ListsOK' /\ DirsOK' /\ FilesOK'
  BY <1>1, IndexSame DEF IndexInv
<1>3. \A s, list : /\ AnsweredNow(s, list)' <=> AnsweredNow(s, list)
                   /\ KeptNow(s, list)' <=> KeptNow(s, list)
  BY <1>1, ServerSame
<1>4. IndexTypeOK'
  BY <1>1, TypesSame DEF IndexInv
<1>5. CurrentOK'
  BY <1>1, <1>3 DEF IndexInv, CurrentOK, indexVars
<1>6. OpenOK'
  BY <1>1, <1>3 DEF IndexInv, OpenOK
<1>7. RefreshOK'
  <2>1. files[a].node \in Nat /\ files[a].name \in Paths
    BY <1>1 DEF IndexInv, FilesOK
  <2>2. [step |-> "named", file |-> a, node |-> files[a].node, name |-> files[a].name]
          \in [step : {"named"}, file : Atts, node : Nat, name : Paths]
    BY <2>1
  <2> QED
    BY <1>1, <2>2 DEF IndexInv, RefreshOK
<1> QED
  BY <1>2, <1>4, <1>5, <1>6, <1>7 DEF IndexInv

\* The name is written back: it may be the one of before an update.
LEMMA WritesKeepIInv ==
  ASSUME IndexInv, NEW c \in Reads, RefreshWrites(c)
  PROVE  IndexInv'
<1> DEFINE a == read[c].file
<1>1. /\ read[c].step = "named" /\ read' = [read EXCEPT ![c] = Idle]
      /\ IF a \in DOMAIN files /\ files[a].node = read[c].node
           THEN /\ files' = [files EXCEPT ![a].name = read[c].name]
                /\ renamed' = IF files[a].name # read[c].name THEN renamed \cup {a} ELSE renamed
           ELSE UNCHANGED <<files, renamed>>
      /\ UNCHANGED <<serverVars, sources, dirs, made, shadowed, open, current>>
  BY DEF RefreshWrites
<1>2. read[c].name \in Paths
  <2>1. Idle.step = "idle"
    BY DEF Idle
  <2> QED
    BY <1>1, <2>1 DEF IndexInv, RefreshOK
<1>3. files \in [Listed -> [node : Nat, name : Paths]] /\ renamed \subseteq Listed
  BY DEF IndexInv, FilesOK, IndexTypeOK
<1> HIDE DEF a
<1>4. /\ files' \in [Listed -> [node : Nat, name : Paths]]
      /\ \A b \in Listed : /\ files'[b].node = files[b].node
                           /\ files'[b].name = files[b].name \/ b \in renamed'
      /\ renamed \subseteq renamed' /\ renamed' \subseteq Listed
  <2>1. CASE a \in DOMAIN files /\ files[a].node = read[c].node
    <3>1. /\ a \in Listed /\ files' = [files EXCEPT ![a].name = read[c].name]
          /\ renamed' = IF files[a].name # read[c].name THEN renamed \cup {a} ELSE renamed
      BY <1>1, <1>3, <2>1
    <3> QED
      BY <1>2, <1>3, <3>1
  <2>2. CASE ~(a \in DOMAIN files /\ files[a].node = read[c].node)
    BY <1>1, <1>3, <2>2
  <2> QED
    BY <2>1, <2>2
<1>5. /\ posted' = posted /\ deleted' = deleted /\ pinned' = pinned /\ attached' = attached
      /\ sources' = sources /\ dirs' = dirs /\ made' = made /\ shadowed' = shadowed
      /\ open' = open /\ current' = current
  BY <1>1 DEF serverVars
<1>6. ListsOK'
  BY <1>5 DEF IndexInv, ListsOK
<1>7. Combined(sources)' = Combined(sources) /\ Listed' = Listed
  BY <1>5 DEF Listed
<1>8. DirsOK'
  BY <1>5, <1>7 DEF IndexInv, DirsOK, DirectoryOK
<1>9. FilesOK'
  <2>1. made \in [Atts -> Nat]
    BY DEF IndexInv, FilesOK
  <2>2. ASSUME NEW b \in Listed
        PROVE  /\ files'[b].node = made[b]
               /\ files'[b].name = Path(Combined(sources)[MessageOf[b]], b) \/ b \in renamed'
    <3>1. /\ files[b].node = made[b]
          /\ files[b].name = Path(Combined(sources)[MessageOf[b]], b) \/ b \in renamed
      BY DEF IndexInv, FilesOK
    <3>2. /\ files'[b].node = files[b].node
          /\ files'[b].name = files[b].name \/ b \in renamed'
          /\ renamed \subseteq renamed'
      BY <1>4
    <3> QED
      BY <3>1, <3>2
  <2> QED
    BY <1>4, <1>5, <1>7, <2>1, <2>2 DEF FilesOK
<1>10. \A s, list : /\ AnsweredNow(s, list)' <=> AnsweredNow(s, list)
                    /\ KeptNow(s, list)' <=> KeptNow(s, list)
  BY <1>1, ServerSame
<1>11. IndexTypeOK'
  <2>1. Existing' = Existing
    BY <1>5 DEF Existing
  <2>2. /\ DOMAIN files' = DOMAIN files
        /\ \A b \in DOMAIN files : files'[b].node = files[b].node /\ files'[b].name \in Paths
        /\ renamed' \subseteq DOMAIN files
    <3>1. DOMAIN files' = Listed /\ DOMAIN files = Listed
      BY <1>3, <1>4
    <3>2. \A b \in Listed : files'[b].node = files[b].node
      BY <1>4
    <3>3. \A b \in Listed : files'[b].name \in Paths
      <4>1. files' \in [Listed -> [node : Nat, name : Paths]]
        BY <1>4
      <4> QED
        BY <4>1
    <3>4. renamed' \subseteq Listed
      BY <1>4
    <3> QED
      BY <3>1, <3>2, <3>3, <3>4
  <2>3. /\ posted' \in 0..MaxPosts /\ deleted' \subseteq Msgs /\ pinned' \subseteq Existing'
        /\ attached' \subseteq Atts /\ current' \subseteq Sources
    BY <1>5, <2>1 DEF IndexInv, IndexTypeOK
  <2>4. DOMAIN files' = UNION {DOMAIN dirs'[m].info : m \in DOMAIN dirs'}
    BY <1>5, <2>2 DEF IndexInv, IndexTypeOK
  <2>5. \A b \in DOMAIN files' : files'[b].node \in 1..made'[b] /\ files'[b].name \in Paths
    BY <1>5, <2>2 DEF IndexInv, IndexTypeOK
  <2>6. shadowed' \subseteq DOMAIN dirs' /\ renamed' \subseteq DOMAIN files'
    BY <1>5, <2>2 DEF IndexInv, IndexTypeOK
  <2> QED
    BY <1>5, <2>3, <2>4, <2>5, <2>6 DEF IndexInv, IndexTypeOK
<1>12. CurrentOK'
  BY <1>5, <1>10 DEF IndexInv, CurrentOK
<1>13. OpenOK'
  BY <1>5, <1>10 DEF IndexInv, OpenOK
<1>14. RefreshOK'
  BY <1>1 DEF IndexInv, RefreshOK
<1> QED
  BY <1>6, <1>8, <1>9, <1>11, <1>12, <1>13, <1>14 DEF IndexInv

-----------------------------------------------------------------------------
\* At first nothing is posted, asked or indexed.
LEMMA IndexInitIInv ==
  ASSUME IndexInit
  PROVE  IndexInv
<1>1. /\ posted = 0 /\ deleted = {} /\ pinned = {} /\ attached = Atts
      /\ sources = [s \in Sources |-> Empty] /\ dirs = Empty /\ files = Empty
      /\ made = [a \in Atts |-> 0] /\ shadowed = {} /\ renamed = {} /\ current = {}
      /\ open = [c \in Opens |-> Idle] /\ read = [c \in Reads |-> Idle]
  BY DEF IndexInit
<1>2. Empty \in Lists /\ DOMAIN Empty = {} /\ Owned(Empty)
  <2>1. Empty \in [{} -> SUBSET Atts]
    BY DEF Empty
  <2> QED
    BY <2>1 DEF Empty, Lists, Owned
<1>3. ListsOK
  BY <1>1, <1>2 DEF ListsOK
<1>4. DOMAIN Combined(sources) = {} /\ Listed = {}
  BY <1>1, <1>2 DEF Combined, Over, Listed, Sources
<1>5. DirsOK
  BY <1>1, <1>2, <1>4 DEF DirsOK
<1>6. FilesOK
  <2>1. files \in [Listed -> [node : Nat, name : Paths]]
    BY <1>1, <1>4 DEF Empty
  <2> QED
    BY <1>1, <1>4, <2>1 DEF FilesOK
<1>7. Typed
  BY <1>1, <1>2, <1>4, AttachmentsAssumption DEF Typed
<1>8. IndexTypeOK
  BY <1>3, <1>5, <1>6, <1>7, TypesFollow
<1>9. OpenOK /\ RefreshOK /\ CurrentOK
  BY <1>1 DEF OpenOK, RefreshOK, CurrentOK, Idle
<1> QED
  BY <1>3, <1>5, <1>6, <1>8, <1>9 DEF IndexInv

\* Every step keeps the invariant.
LEMMA IndexStepKeepsIInv ==
  ASSUME IndexInv, [IndexNext]_attachmentVars
  PROVE  IndexInv'
<1>1. CASE IndexNext
  BY <1>1, IndexServerKeepsIInv, OpensKeepIInv, UpdateKeepsIInv, ReadsNameKeepsIInv, WritesKeepIInv DEF IndexNext
<1>2. CASE UNCHANGED attachmentVars
  <2>1. UNCHANGED <<serverVars, indexVars, current>> /\ open' = open /\ read' = read
    BY <1>2 DEF attachmentVars
  <2>2. ListsOK' /\ DirsOK' /\ FilesOK' /\ IndexTypeOK'
    BY <2>1, IndexSame, TypesSame DEF IndexInv
  <2>3. \A s, list : /\ AnsweredNow(s, list)' <=> AnsweredNow(s, list)
                     /\ KeptNow(s, list)' <=> KeptNow(s, list)
    BY <2>1, ServerSame
  <2>4. OpenOK' /\ RefreshOK'
    BY <2>1, <2>3 DEF IndexInv, OpenOK, RefreshOK
  <2>5. CurrentOK'
    BY <2>1, <2>3 DEF IndexInv, CurrentOK, indexVars
  <2> QED
    BY <2>2, <2>4, <2>5 DEF IndexInv
<1> QED
  BY <1>1, <1>2

\* The invariant of the index.
THEOREM IndexInvariance ==
  IndexSpec => []IndexInv
<1>1. IndexInit => IndexInv
  BY IndexInitIInv
<1>2. IndexInv /\ [IndexNext]_attachmentVars => IndexInv'
  BY IndexStepKeepsIInv
<1> QED
  BY <1>1, <1>2, PTL DEF IndexSpec

-----------------------------------------------------------------------------
\* What the paths lead to.
LEMMA PathsResolveHere ==
  ASSUME IndexInv
  PROVE  PathsResolve
<1> SUFFICES ASSUME NEW m \in DOMAIN dirs
             PROVE  /\ \A a \in DOMAIN dirs[m].info :
                         /\ dirs[m].info[a] \in DOMAIN dirs[m].children
                         /\ dirs[m].children[dirs[m].info[a]] = [file |-> a, node |-> files[a].node]
                         /\ files[a].name = dirs[m].info[a] \/ a \in renamed
                    /\ dirs[m].children[InfoName] = Info \/ m \in shadowed
  BY DEF PathsResolve
<1>1. PICK C : C = Combined(sources)
  OBVIOUS
<1>2. C \in Lists /\ Owned(C)
  BY <1>1, CombinedOf DEF IndexInv, ListsOK
<1>3. m \in DOMAIN C /\ DirectoryOK(m, C[m])
  BY <1>1 DEF IndexInv, DirsOK
<1>4. \A a \in C[m] : MessageOf[a] = m
  BY <1>2, <1>3 DEF Owned
<1>5. /\ dirs[m].info = [a \in C[m] |-> Path(C[m], a)]
      /\ DOMAIN dirs[m].children = {Path(C[m], a) : a \in C[m]} \cup {InfoName}
      /\ \A a \in C[m] : dirs[m].children[Path(C[m], a)] = [file |-> a, node |-> made[a]]
      /\ dirs[m].children[InfoName] = Info \/ m \in shadowed
  BY <1>3 DEF DirectoryOK
<1>6. ASSUME NEW a \in C[m]
      PROVE  /\ files[a].node = made[a]
             /\ files[a].name = Path(C[m], a) \/ a \in renamed
  <2>1. a \in Listed
    BY <1>1, <1>3 DEF Listed
  <2> QED
    BY <1>1, <1>4, <2>1 DEF IndexInv, FilesOK
<1> QED
  BY <1>5, <1>6

\* What the directory shows.
LEMMA IndexIsCurrentHere ==
  ASSUME IndexInv
  PROVE  IndexIsCurrent
<1>1. PICK C : C = Combined(sources)
  OBVIOUS
<1>2. /\ DOMAIN C = DOMAIN sources["pins"] \cup DOMAIN sources["history"]
      /\ \A m \in DOMAIN sources["pins"] : C[m] = sources["pins"][m]
      /\ \A m \in DOMAIN sources["history"] \ DOMAIN sources["pins"] : C[m] = sources["history"][m]
  BY <1>1, CombinedOf DEF IndexInv, ListsOK
<1>3. DOMAIN dirs = DOMAIN C /\ \A m \in DOMAIN C : DOMAIN dirs[m].info = C[m]
  <2>1. DOMAIN dirs = DOMAIN C /\ \A m \in DOMAIN dirs : DirectoryOK(m, C[m])
    BY <1>1 DEF IndexInv, DirsOK
  <2>2. ASSUME NEW m \in DOMAIN C PROVE DOMAIN dirs[m].info = C[m]
    <3>1. dirs[m].info = [a \in C[m] |-> Path(C[m], a)]
      BY <2>1 DEF DirectoryOK
    <3> QED
      BY <3>1
  <2> QED
    BY <2>1, <2>2
<1>4. ASSUME NEW s \in Sources, s \in current
      PROVE  \E S \in Pages(s) : /\ DOMAIN sources[s] = {m \in S : Copy(m) # {}}
                                 /\ \A m \in DOMAIN sources[s] : sources[s][m] = Copy(m)
  <2>1. PICK S \in Pages(s) : sources[s] = WithAttachments(Answer(S))
    BY <1>4 DEF IndexInv, CurrentOK, KeptNow
  <2>2. /\ Answer(S) \in Lists /\ Owned(Answer(S)) /\ DOMAIN Answer(S) = S
        /\ \A m \in S : Answer(S)[m] = Copy(m)
    BY AnswerType DEF IndexInv
  <2>3. /\ DOMAIN WithAttachments(Answer(S)) = {m \in DOMAIN Answer(S) : Answer(S)[m] # {}}
        /\ \A m \in DOMAIN WithAttachments(Answer(S)) :
             WithAttachments(Answer(S))[m] = Answer(S)[m]
    BY <2>2, WithAttachmentsOf
  <2>4. DOMAIN sources[s] = {m \in S : Copy(m) # {}}
    BY <2>1, <2>2, <2>3
  <2>5. \A m \in DOMAIN sources[s] : sources[s][m] = Copy(m)
    BY <2>1, <2>2, <2>3, <2>4
  <2> QED
    BY <2>4, <2>5
<1>5. "pins" \in Sources /\ "history" \in Sources /\ "history" # "pins"
  BY DEF Sources
<1>6. "history" \in current =>
        /\ DOMAIN sources["history"] = {m \in Window : Copy(m) # {}}
        /\ \A m \in DOMAIN sources["history"] : sources["history"][m] = Copy(m)
  BY <1>4, <1>5 DEF Pages
<1>7. "history" \in current =>
        \A m \in Window : Copy(m) # {} => ShowsNow(m) \/ m \in DOMAIN sources["pins"]
  BY <1>2, <1>3, <1>6 DEF ShowsNow
<1>8. ASSUME "pins" \in current
      PROVE  \E S \in PinPages :
               /\ \A m \in S : Copy(m) # {} => ShowsNow(m)
               /\ "history" \in current => DOMAIN dirs = {m \in Window \cup S : Copy(m) # {}}
  <2>1. PICK S \in PinPages : /\ DOMAIN sources["pins"] = {m \in S : Copy(m) # {}}
                              /\ \A m \in DOMAIN sources["pins"] : sources["pins"][m] = Copy(m)
    BY <1>4, <1>5, <1>8 DEF Pages
  <2>2. \A m \in S : Copy(m) # {} => ShowsNow(m)
    BY <1>2, <1>3, <2>1 DEF ShowsNow
  <2>3. "history" \in current => DOMAIN dirs = {m \in Window \cup S : Copy(m) # {}}
    BY <1>2, <1>3, <1>6, <2>1
  <2> QED
    BY <2>2, <2>3
<1> QED
  BY <1>7, <1>8 DEF IndexIsCurrent

-----------------------------------------------------------------------------
(***************************************************************************)
(* Whatever the messages, the Opens and the refreshes, and in whatever     *)
(* order answers are applied, update makes a well-formed index: every      *)
(* attachment has one directory, a node and a name.                        *)
(***************************************************************************)
THEOREM IndexTypeCorrect ==
  IndexSpec => []IndexTypeOK
<1>1. IndexInv => IndexTypeOK
  BY DEF IndexInv
<1> QED
  BY <1>1, IndexInvariance, PTL

(***************************************************************************)
(* README.md:76, for every number of messages, pins, attachments and       *)
(* Opens: a source is shown as the server has it (of the pins, one page)   *)
(* when the list that was applied last had been asked for after the last   *)
(* change.  Of an older answer that is applied last it says nothing.       *)
(***************************************************************************)
THEOREM IndexShowsTheCurrent ==
  IndexSpec => []IndexIsCurrent
<1>1. IndexInv => IndexIsCurrent
  BY IndexIsCurrentHere
<1> QED
  BY <1>1, IndexInvariance, PTL

(***************************************************************************)
(* The paths that info.json and history give always lead to the nodes of   *)
(* the attachments they are given for.                                     *)
(***************************************************************************)
THEOREM IndexPathsResolve ==
  IndexSpec => []PathsResolve
<1>1. IndexInv => PathsResolve
  BY PathsResolveHere
<1> QED
  BY <1>1, IndexInvariance, PTL
=============================================================================
