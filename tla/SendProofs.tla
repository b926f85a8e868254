----------------------------- MODULE SendProofs -----------------------------
(***************************************************************************)
(* Proofs about Send, for any fids, letters, sizes of pieces and plans.    *)
(*                                                                         *)
(* PostedOnce: the invariant says where a fid stands.  While it has a      *)
(* buffer its Close has not begun, and when something was posted for it    *)
(* its Close has returned.                                                 *)
(*                                                                         *)
(* PostedAsParsed: the invariant follows the bytes, from the pieces to the *)
(* buffer, through the parser to what the Close carries, and in parts to   *)
(* the server.                                                             *)
(*                                                                         *)
(* PostedAsMeant: to that is added what the parsers make of a letter.      *)
(*                                                                         *)
(* IsDelivery: the step in which a Close posts or fails is its moment.     *)
(***************************************************************************)
EXTENDS Send, TLAPS, FiniteSetTheorems, SequenceTheorems, WellFoundedInduction

\* The fields that the argument is about.
Shaped(f) == {"pc", "asleep", "result"} \subseteq DOMAIN call[f]

PostedByDone(f) ==
  /\ Shaped(f)
  /\ buffers[f] # Absent => call[f].pc = "none" /\ ~call[f].asleep
  /\ posts[f] # <<>> => Len(posts[f]) = 1 /\ call[f].pc = "done"
  /\ call[f].result = "ok" => posts[f] # <<>>

PostInv ==
  /\ DOMAIN call = Fids /\ DOMAIN posts = Fids /\ DOMAIN buffers = Fids
  /\ \A f \in Fids : PostedByDone(f)

\* A step of the Close of f.
CloseStep(f) ==
  /\ DOMAIN call' = Fids /\ DOMAIN posts' = Fids /\ DOMAIN buffers' = Fids
  /\ \A g \in Fids \ {f} : call'[g] = call[g] /\ posts'[g] = posts[g] /\ buffers'[g] = buffers[g]
  /\ Shaped(f)' /\ buffers'[f] = Absent

\* Such a step keeps the invariant when it posts nothing and does not succeed.
LEMMA NothingPosted ==
  ASSUME PostInv, NEW f \in Fids, CloseStep(f), posts'[f] = <<>>, call'[f].result # "ok"
  PROVE  PostInv'
  BY DEF PostInv, PostedByDone, Shaped, CloseStep

\* It keeps it too when the Close returns, having posted once.
LEMMA PostedAndDone ==
  ASSUME PostInv, NEW f \in Fids, CloseStep(f), Len(posts'[f]) = 1, posts'[f] # <<>>, call'[f].pc = "done"
  PROVE  PostInv'
  BY DEF PostInv, PostedByDone, Shaped, CloseStep

\* A Close that has begun and not returned has posted nothing, and its buffer is taken away.
LEMMA UnderWay ==
  ASSUME PostInv, NEW f \in Fids, call[f].pc \notin {"none", "done"}
  PROVE  posts[f] = <<>> /\ buffers[f] = Absent /\ call[f].result # "ok"
  BY DEF PostInv, PostedByDone

\* What Ends does to the progress of a Close.
LEMMA EndsCall ==
  ASSUME PostInv, NEW f \in Fids, NEW result, Ends(f, result)
  PROVE  /\ DOMAIN call' = Fids /\ \A g \in Fids \ {f} : call'[g] = call[g]
         /\ Shaped(f)' /\ call'[f].pc = "done" /\ call'[f].result = result
  BY DEF PostInv, PostedByDone, Shaped, Ends

\* What a request before the post does to it.
LEMMA ThenCall ==
  ASSUME PostInv, NEW f \in Fids, NEW answered \in BOOLEAN, NEW next, Then(f, answered, next)
  PROVE  /\ DOMAIN call' = Fids /\ \A g \in Fids \ {f} : call'[g] = call[g]
         /\ Shaped(f)' /\ (call'[f].result = "error" \/ call'[f].result = call[f].result)
<1>1. CASE answered
  BY <1>1 DEF Then, PostInv, PostedByDone, Shaped
<1>2. CASE ~answered
  <2>1. Ends(f, "error")
    BY <1>2 DEF Then
  <2> QED BY <2>1, EndsCall
<1> QED BY <1>1, <1>2

\* No request but the post disturbs the invariant.
LEMMA RequestsKeep ==
  ASSUME PostInv, NEW f \in Fids, UNCHANGED <<posts, buffers>>,
         call[f].pc \notin {"none", "done"},
         DOMAIN call' = Fids, \A g \in Fids \ {f} : call'[g] = call[g], Shaped(f)',
         call'[f].result = "error" \/ call'[f].result = call[f].result
  PROVE  PostInv'
<1>1. posts[f] = <<>> /\ buffers[f] = Absent /\ call[f].result # "ok"
  BY UnderWay
<1>2. CloseStep(f)
  BY <1>1 DEF CloseStep, PostInv
<1> QED BY <1>1, <1>2, NothingPosted

\* The first states satisfy the invariant: no Close has begun.
LEMMA PostInit == Init => PostInv
  BY DEF Init, PostInv, PostedByDone, Shaped, NoCall

\* Every step keeps it.
LEMMA PostStep == PostInv /\ [Next]_vars => PostInv'
<1> SUFFICES ASSUME PostInv, [Next]_vars PROVE PostInv'
  OBVIOUS
<1>1. CASE UNCHANGED vars
  BY <1>1 DEF PostInv, PostedByDone, Shaped, vars
<1>2. ASSUME NEW f \in Fids, Open(f) PROVE PostInv'
  BY <1>2 DEF Open, NoCall, PostInv, PostedByDone, Shaped
<1>3. ASSUME NEW f \in Fids, NEW n \in todo[f], Write(f, n) PROVE PostInv'
  <2>1. UNCHANGED <<call, posts>>
    BY <1>3 DEF Write
  <2>2. DOMAIN buffers' = Fids /\ \A g \in Fids : buffers'[g] # Absent => buffers[g] # Absent
    BY <1>3 DEF Write, PostInv
  <2> QED BY <2>1, <2>2 DEF PostInv, PostedByDone, Shaped
<1>4. ASSUME NEW f \in Fids, Close(f) PROVE PostInv'
  <2>1. call[f].pc = "none" /\ posts[f] = <<>>
    BY <1>4 DEF Close, PostInv, PostedByDone
  <2>2. CloseStep(f) /\ posts'[f] = <<>> /\ call'[f].result # "ok"
    BY <1>4, <2>1 DEF Close, CloseStep, PostInv, PostedByDone, Shaped
  <2> QED BY <2>2, NothingPosted
<1>5. ASSUME NEW f \in Fids, Request(f) PROVE PostInv'
  <2>1. ASSUME NEW answered \in BOOLEAN, Resolves(f, answered) PROVE PostInv'
    BY <2>1, ThenCall, RequestsKeep DEF Resolves, Asks, Idle
  <2>2. ASSUME NEW answered \in BOOLEAN, UploadsWhole(f, answered) PROVE PostInv'
    BY <2>2, ThenCall, RequestsKeep DEF UploadsWhole, Asks, Idle
  <2>3. ASSUME NEW answered \in BOOLEAN, UploadsPart(f, answered) PROVE PostInv'
    <3>1. CASE answered
      BY <2>3, <3>1, RequestsKeep DEF UploadsPart, Asks, Idle, PostInv, PostedByDone, Shaped
    <3>2. CASE ~answered
      BY <2>3, <3>2, EndsCall, RequestsKeep DEF UploadsPart, Asks, Idle
    <3> QED BY <3>1, <3>2
  <2>4. ASSUME NEW answered \in BOOLEAN, Completes(f, answered) PROVE PostInv'
    BY <2>4, ThenCall, RequestsKeep DEF Completes, Asks, Idle
  <2>5. ASSUME NEW answered \in BOOLEAN, Posts(f, answered) PROVE PostInv'
    <3>1. posts[f] = <<>> /\ buffers[f] = Absent
      BY <2>5, UnderWay DEF Posts, Asks
    <3>2. PICK result \in {"ok", "error"} :
            Ends(f, result) /\ (result = "ok" => Posted(f))
      BY <2>5 DEF Posts
    <3>3. /\ DOMAIN call' = Fids /\ \A g \in Fids \ {f} : call'[g] = call[g]
          /\ Shaped(f)' /\ call'[f].pc = "done" /\ call'[f].result = result
      BY <3>2, EndsCall
    <3>4. CASE Posted(f)
      <4>1. CloseStep(f)
        BY <2>5, <3>1, <3>3, <3>4 DEF CloseStep, Posts, Posted, Idle, PostInv
      <4>2. posts'[f] = Append(<<>>, [content |-> call[f].content, data |-> store[f].object])
        BY <3>1, <3>4 DEF Posted, PostInv
      <4>3. Len(posts'[f]) = 1 /\ posts'[f] # <<>>
        BY <4>2
      <4> QED BY <3>3, <4>1, <4>3, PostedAndDone
    <3>5. CASE UNCHANGED posts /\ result = "error"
      BY <2>5, <3>3, <3>5, RequestsKeep DEF Posts, Asks, Idle
    <3> QED BY <2>5, <3>2, <3>4, <3>5 DEF Posts
  <2>6. CASE PlanFails(f)
    BY <2>6, EndsCall, RequestsKeep DEF PlanFails, Asks, Idle
  <2>7. CASE PlanExceeds(f)
    BY <2>7, EndsCall, RequestsKeep DEF PlanExceeds, Asks, Idle
  <2>8. ASSUME NEW parts, NEW size, Planned(f, size, parts) PROVE PostInv'
    BY <2>8, RequestsKeep DEF Planned, Asks, Idle, PostInv, PostedByDone, Shaped
  <2>9. CASE Limited(f)
    BY <2>9, RequestsKeep DEF Limited, Requests, Idle, PostInv, PostedByDone, Shaped
  <2>10. CASE Wakes(f)
    BY <2>10 DEF Wakes, Idle, PostInv, PostedByDone, Shaped
  <2>11. CASE GivesUp(f)
    <3>1. UNCHANGED <<posts, buffers>> /\ buffers[f] = Absent
      BY <2>11 DEF GivesUp, Idle, PostInv, PostedByDone
    <3>2. /\ DOMAIN call' = Fids /\ \A g \in Fids \ {f} : call'[g] = call[g]
          /\ Shaped(f)' /\ call'[f].pc = "done" /\ call'[f].result = "error"
      BY <2>11, EndsCall DEF GivesUp
    <3> QED BY <3>1, <3>2 DEF PostInv, PostedByDone, Shaped
  <2> QED BY <1>5, <2>1, <2>2, <2>3, <2>4, <2>5, <2>6, <2>7, <2>8, <2>9, <2>10, <2>11 DEF Request
<1>6. ASSUME NEW f \in Fids, Expires(f) PROVE PostInv'
  BY <1>6 DEF Expires, Idle, PostInv, PostedByDone, Shaped
<1> QED BY <1>1, <1>2, <1>3, <1>4, <1>5, <1>6 DEF Next

(***************************************************************************)
(* A Close posts at most once, and once when it succeeds (the loop in do   *)
(* of client.go:90 and the order of requests in SendAttachmentMessage).    *)
(***************************************************************************)
THEOREM PostedOnceHolds == Spec => []PostedOnce
<1>1. PostInv => PostedOnce
  <2>1. ASSUME PostInv, NEW f \in Fids
        PROVE  Len(posts[f]) <= 1 /\ (call[f].result = "ok" => Len(posts[f]) = 1)
    <3>1. posts[f] # <<>> => Len(posts[f]) = 1
      BY <2>1 DEF PostInv, PostedByDone
    <3>2. posts[f] = <<>> => Len(posts[f]) = 0 /\ call[f].result # "ok"
      BY <2>1 DEF PostInv, PostedByDone
    <3>3. 0 <= 1 /\ 1 <= 1
      OBVIOUS
    <3>4. Len(posts[f]) <= 1
      BY <3>1, <3>2, <3>3, Zenon
    <3>5. call[f].result = "ok" => Len(posts[f]) = 1
      BY <3>1, <3>2
    <3> QED BY <3>4, <3>5
  <2> QED BY <2>1 DEF PostedOnce
<1> QED BY <1>1, PostInit, PostStep, PTL DEF Spec

-----------------------------------------------------------------------------
(***************************************************************************)
(* The parsers: whatever they are given, they return bytes that were there *)
(* and no more text than a message may have.                               *)
(***************************************************************************)
\* Every set of naturals that is not empty has a least element.
LEMMA Least ==
  ASSUME NEW I, I \subseteq Nat, I # {}
  PROVE  Min(I) \in I
<1> DEFINE R == {pair \in Nat \X Nat : pair[1] < pair[2]}
<1>1. IsWellFoundedOn(R, Nat)
  BY NatLessThanWellFounded, Zenon DEF OpToRel
<1>2. \E x \in I : \A y \in I : ~ (<<y, x>> \in R)
  BY <1>1, WFMin
<1>3. \A x, y \in I : <<y, x>> \notin R => x <= y
  OBVIOUS
<1>4. \E x \in I : \A y \in I : x <= y
  BY <1>2, <1>3, Zenon
<1> QED
  BY <1>4, Zenon DEF Min

\* What SelectInSeq and SelectInSubSeq find, or 0.
LEMMA Found ==
  ASSUME NEW I, NEW n \in Nat, I \subseteq 1..n
  PROVE  (IF I # {} THEN Min(I) ELSE 0) \in 0..n
<1>1. CASE I = {}
  BY <1>1
<1>2. CASE I # {}
  <2>1. I \subseteq Nat
    OBVIOUS
  <2>2. Min(I) \in I
    BY <1>2, <2>1, Least
  <2>3. 1..n \subseteq 0..n
    OBVIOUS
  <2> QED
    BY <1>2, <2>2, <2>3, Zenon
<1> QED
  BY <1>1, <1>2

\* An index is a place in the text, or none.
LEMMA IndexType ==
  ASSUME NEW s \in Seq(Bytes), NEW sep
  PROVE  Index(s, sep) \in 0..Len(s)
<1>1. PICK I : I \subseteq 1..Len(s) /\ Index(s, sep) = IF I # {} THEN Min(I) ELSE 0
  BY Zenon DEF Index, SelectInSubSeq
<1>2. Len(s) \in Nat
  OBVIOUS
<1>3. (IF I # {} THEN Min(I) ELSE 0) \in 0..Len(s)
  BY <1>1, <1>2, Found
<1> QED
  BY <1>1, <1>3, Zenon

\* What is left of a text is a text...
LEMMA DropType ==
  ASSUME NEW s \in Seq(Bytes), NEW n \in Nat
  PROVE  Drop(s, n) \in Seq(Bytes)
<1>1. \A i \in (n + 1)..Len(s) : s[i] \in Bytes
  BY ElementOfSeq
<1> QED
  BY <1>1, SubSeqProperties DEF Drop

\* ... also when spaces are taken off...
LEMMA TrimLeftType ==
  ASSUME NEW s \in Seq(Bytes)
  PROVE  TrimLeft(s) \in Seq(Bytes)
<1> DEFINE I == {i \in 1..Len(s) : \A j \in 1..i : s[j] \in Space}
<1>1. IsFiniteSet(1..Len(s)) /\ I \subseteq 1..Len(s)
  BY FS_Interval, LenProperties
<1>2. Cardinality(I) \in Nat
  BY <1>1, FS_Subset, FS_CardinalityType
<1> QED
  BY <1>2, DropType DEF TrimLeft

\* ... and when its last byte is.
LEMMA FrontType ==
  ASSUME NEW s \in Seq(Bytes), s # <<>>
  PROVE  Front(s) \in Seq(Bytes)
<1>1. \A i \in 1..(Len(s) - 1) : s[i] \in Bytes
  BY ElementOfSeq
<1> QED
  BY <1>1, SubSeqProperties DEF Front

Payloads == [ok : BOOLEAN, content : Seq(Bytes), data : Seq(Bytes)]

\* What a parser answers has the type of its answers: for a refused text...
LEMMA MalformedType == Malformed \in Payloads /\ Len(Malformed.content) <= MaxContent
<1>1. <<>> \in Seq(Bytes) /\ Len(<<>>) = 0
  BY EmptySeq
<1> QED
  BY <1>1, SendAssumption DEF Malformed, Payloads

\* ... for a content that it may have found too long...
LEMMA PayloadType ==
  ASSUME NEW content \in Seq(Bytes), NEW data \in Seq(Bytes)
  PROVE  Payload(content, data) \in Payloads /\ Len(Payload(content, data).content) <= MaxContent
<1>1. CASE Len(content) > MaxContent
  BY <1>1, MalformedType DEF Payload
<1>2. CASE ~(Len(content) > MaxContent)
  <2>1. Len(content) <= MaxContent
    BY <1>2, SendAssumption, LenProperties
  <2> QED
    BY <1>2, <2>1 DEF Payload, Payloads
<1> QED
  BY <1>1, <1>2

\* ... for a framed attachment...
LEMMA ParseFramedType ==
  ASSUME NEW s \in Seq(Bytes)
  PROVE  ParseFramed(s) \in Payloads /\ Len(ParseFramed(s).content) <= MaxContent
<1> DEFINE rest == Drop(s, Index(s, <<"n">>))
           blank == IF IsPrefix(<<"r", "n">>, rest) THEN [at |-> 1, length |-> 2]
                    ELSE IF IsPrefix(<<"n">>, rest) THEN [at |-> 1, length |-> 1]
                    ELSE CaptionEnds(rest)
           caption == SubSeq(rest, 1, blank.at - 1)
           data == Drop(rest, blank.at + blank.length - 1)
<1>1. rest \in Seq(Bytes)
  BY IndexType, DropType
<1>2. blank.at \in 0..(Len(rest) + 1) /\ blank.length \in {1, 2, 4}
  <2>1. CaptionEnds(rest).at \in 0..Len(rest) /\ CaptionEnds(rest).length \in {2, 4}
    BY <1>1, IndexType DEF CaptionEnds
  <2>2. Len(rest) \in Nat
    BY <1>1
  <2> HIDE DEF rest
  <2> QED
    BY <2>1, <2>2
<1> HIDE DEF rest, blank
<1>3. caption \in Seq(Bytes)
  <2>1. \A i \in 1..(blank.at - 1) : rest[i] \in Bytes
    BY <1>1, <1>2, ElementOfSeq
  <2> QED
    BY <1>2, <2>1, SubSeqProperties
<1>4. data \in Seq(Bytes)
  <2>1. blank.at + blank.length - 1 \in Nat
    BY <1>1, <1>2
  <2> QED
    BY <1>1, <2>1, DropType
<1> HIDE DEF caption, data
<1>5. ParseFramed(s) = Malformed \/ ParseFramed(s) = Payload(caption, data)
  BY Zenon DEF ParseFramed, rest, blank, caption, data
<1> QED
  BY <1>3, <1>4, <1>5, PayloadType, MalformedType

\* ... for what is written to send...
LEMMA ParseSendType ==
  ASSUME NEW s \in Seq(Bytes)
  PROVE  ParseSend(s) \in Payloads /\ Len(ParseSend(s).content) <= MaxContent
<1> DEFINE text == IF s # <<>> /\ Last(s) = "n" THEN Front(s) ELSE s
<1>1. text \in Seq(Bytes) /\ <<>> \in Seq(Bytes)
  BY FrontType, EmptySeq
<1> HIDE DEF text
<1>2. \/ ParseSend(s) = ParseFramed(s) \/ ParseSend(s) = Payload(<<>>, s)
      \/ ParseSend(s) = Malformed \/ ParseSend(s) = Payload(text, <<>>)
  BY Zenon DEF ParseSend, text
<1> QED
  BY <1>1, <1>2, ParseFramedType, PayloadType, MalformedType

\* ... where a command is a text...
LEMMA CommandTextType ==
  ASSUME NEW s \in Seq(Bytes)
  PROVE  CommandText(s) \in Seq(Bytes)
<1> DEFINE line == IF s # <<>> /\ Last(s) = "n" THEN Front(s) ELSE s
<1>1. line \in Seq(Bytes) /\ <<>> \in Seq(Bytes)
  BY FrontType, EmptySeq
<1> HIDE DEF line
<1>2. line # <<>> => Front(line) \in Seq(Bytes)
  BY <1>1, FrontType
<1>3. \/ CommandText(s) = <<>> \/ CommandText(s) = line
      \/ line # <<>> /\ CommandText(s) = Front(line)
  BY Zenon DEF CommandText, line
<1> QED
  BY <1>1, <1>2, <1>3

\* ... for a command with a message...
LEMMA ParseMessageType ==
  ASSUME NEW s \in Seq(Bytes)
  PROVE  ParseMessage(s) \in Payloads /\ Len(ParseMessage(s).content) <= MaxContent
<1> DEFINE text == CommandText(s)
           gap == SelectInSeq(text, LAMBDA b : b \in Space)
           content == TrimLeft(Drop(text, gap - 1))
<1>1. text \in Seq(Bytes) /\ <<>> \in Seq(Bytes)
  BY CommandTextType, EmptySeq
<1>2. gap \in 0..Len(text)
  <2>1. PICK I : I \subseteq 1..Len(text) /\ gap = IF I # {} THEN Min(I) ELSE 0
    BY Zenon DEF SelectInSeq
  <2>2. Len(text) \in Nat
    BY <1>1
  <2> HIDE DEF text, gap
  <2> QED
    BY <2>1, <2>2, Found
<1> HIDE DEF text, gap
<1>3. gap # 0 => content \in Seq(Bytes)
  <2>1. gap # 0 => gap - 1 \in Nat
    BY <1>1, <1>2
  <2> QED
    BY <1>1, <2>1, DropType, TrimLeftType
<1> HIDE DEF content
<1>4. ParseMessage(s) = Malformed \/ (gap # 0 /\ ParseMessage(s) = Payload(content, <<>>))
  BY Zenon DEF ParseMessage, text, gap, content
<1> QED
  BY <1>1, <1>3, <1>4, PayloadType, MalformedType

\* ... and so for every file.
LEMMA ParseType ==
  ASSUME NEW file \in Files, NEW s \in Seq(Bytes)
  PROVE  Parse(file, s) \in Payloads /\ Len(Parse(file, s).content) <= MaxContent
<1>1. <<>> \in Seq(Bytes)
  BY EmptySeq
<1>2. ParseID(s) = Malformed \/ ParseID(s) = Payload(<<>>, <<>>)
  BY Zenon DEF ParseID
<1>3. ParseReaction(s) = Malformed \/ ParseReaction(s) = ParseMessage(s)
  BY Zenon DEF ParseReaction
<1>4. \/ Parse(file, s) = ParseSend(s) \/ Parse(file, s) = ParseMessage(s)
      \/ Parse(file, s) = ParseReaction(s) \/ Parse(file, s) = ParseID(s)
      \/ Parse(file, s) = Payload(<<>>, <<>>)
  BY DEF Parse, Files
<1> QED
  BY <1>1, <1>2, <1>3, <1>4, ParseSendType, ParseMessageType, PayloadType, MalformedType, Zenon

-----------------------------------------------------------------------------
(***************************************************************************)
(* The pieces of a letter: every byte is in one, and the buffer has it     *)
(* when that piece was put where it belongs, before or after the others.   *)
(***************************************************************************)
LEMMA Division ==
  ASSUME NEW a \in Nat, NEW p \in Nat \ {0}
  PROVE  a \div p \in Nat /\ (a \div p) * p <= a /\ a < (a \div p) * p + p
  OBVIOUS

\* Facts about a product that the provers do not find among other arithmetic.
LEMMA Product ==
  ASSUME NEW a \in Nat, NEW b \in Nat, NEW p \in Nat
  PROVE  /\ a * p \in Nat /\ (a <= b => a * p <= b * p)
         /\ a >= 1 => (a - 1) * p \in Nat /\ a * p = (a - 1) * p + p
  OBVIOUS

\* What the program writes is a text.
LEMMA FramedType ==
  ASSUME NEW l \in Letter
  PROVE  Framed(l) \in Seq(Bytes)
<1>1. Break(l) \in Seq(Bytes)
  <2>1. "r" \in Bytes /\ "n" \in Bytes
    BY DEF Bytes
  <2>2. <<"r", "n">> \in Seq(Bytes) /\ <<"n">> \in Seq(Bytes)
    BY <2>1
  <2> QED
    BY <2>2 DEF Break
<1>2. l.caption \in Seq(Bytes) /\ l.data \in Seq(Bytes) /\ <<"!">> \in Seq(Bytes)
  <2>1. "!" \in Bytes
    BY DEF Bytes
  <2>2. <<"!">> \in Seq(Bytes)
    BY <2>1
  <2> QED
    BY <2>2 DEF Letter
<1>3. (IF l.caption = <<>> THEN <<>> ELSE l.caption \o Break(l)) \in Seq(Bytes)
  BY <1>1, <1>2, EmptySeq, ConcatProperties
<1> QED
  BY <1>1, <1>2, <1>3, ConcatProperties DEF Framed

\* A piece starts before the end of the letter.
LEMMA PieceBounds ==
  ASSUME NEW l \in Letter, NEW n \in Pieces(l)
  PROVE  /\ n \in Nat \ {0} /\ (n - 1) * PieceSize \in Nat
         /\ (n - 1) * PieceSize < Len(Framed(l)) /\ n * PieceSize = (n - 1) * PieceSize + PieceSize
<1> DEFINE len == Len(Framed(l))
           q == (len + PieceSize - 1) \div PieceSize
<1>1. len \in Nat /\ PieceSize \in Nat \ {0}
  BY FramedType, SendAssumption
<1> HIDE DEF len
<1>2. len + PieceSize - 1 \in Nat
  BY <1>1
<1>3. q \in Nat /\ q * PieceSize <= len + PieceSize - 1
  BY <1>1, <1>2, Division
<1> HIDE DEF q
<1>4. n \in Nat \ {0} /\ n <= q
  BY <1>3 DEF Pieces, len, q
<1>5. n * PieceSize <= q * PieceSize /\ n * PieceSize \in Nat /\ q * PieceSize \in Nat
  BY <1>1, <1>3, <1>4, Product
<1>6. (n - 1) * PieceSize \in Nat /\ n * PieceSize = (n - 1) * PieceSize + PieceSize
  BY <1>1, <1>4, Product
<1>7. (n - 1) * PieceSize < len
  BY <1>1, <1>3, <1>5, <1>6
<1> QED
  BY <1>4, <1>6, <1>7 DEF len

\* Every byte of the letter is in one of its pieces.
LEMMA PieceOfByte ==
  ASSUME NEW l \in Letter, NEW i \in 1..Len(Framed(l))
  PROVE  \E n \in Pieces(l) : (n - 1) * PieceSize < i /\ i <= n * PieceSize
<1> DEFINE len == Len(Framed(l))
           q == (len + PieceSize - 1) \div PieceSize
           m == (i - 1) \div PieceSize
<1>1. len \in Nat /\ PieceSize \in Nat \ {0} /\ i \in 1..len
  BY FramedType, SendAssumption
<1> HIDE DEF len
<1>2. i - 1 \in Nat /\ len + PieceSize - 1 \in Nat
  BY <1>1
<1>3. q \in Nat /\ len + PieceSize - 1 < q * PieceSize + PieceSize
  BY <1>1, <1>2, Division
<1>4. m \in Nat /\ m * PieceSize <= i - 1 /\ i - 1 < m * PieceSize + PieceSize
  BY <1>1, <1>2, Division
<1> HIDE DEF q, m
<1>5. m * PieceSize \in Nat /\ q * PieceSize \in Nat /\ (q <= m => q * PieceSize <= m * PieceSize)
  BY <1>1, <1>3, <1>4, Product
<1>6. m < q
  BY <1>1, <1>3, <1>4, <1>5
<1>7. m + 1 \in Nat /\ m + 1 >= 1 /\ (m + 1) - 1 = m /\ m + 1 \in 1..q
  BY <1>3, <1>4, <1>6
<1>8. (m + 1) * PieceSize = m * PieceSize + PieceSize
  BY <1>1, <1>7, Product
<1>9. ((m + 1) - 1) * PieceSize < i /\ i <= (m + 1) * PieceSize
  BY <1>1, <1>4, <1>5, <1>7, <1>8
<1>10. m + 1 \in Pieces(l)
  BY <1>7 DEF Pieces, len, q
<1> QED
  BY <1>9, <1>10

\* The bytes of s between two offsets.
IsCut(c, s, offset, end) ==
  /\ c \in Seq(Bytes) /\ Len(c) = end - offset
  /\ \A i \in 1..(end - offset) : c[i] = s[offset + i]

\* What of a letter is cut out from an offset on.
LEMMA CutFrom ==
  ASSUME NEW s \in Seq(Bytes), NEW offset \in Nat, NEW n \in Nat, NEW end \in Nat,
         end \in offset..Len(s), Cut(s, offset, n) = SubSeq(s, offset + 1, end)
  PROVE  IsCut(Cut(s, offset, n), s, offset, end)
<1>1. Len(s) \in Nat /\ end \in offset..Len(s)
  OBVIOUS
<1>2. \A i \in (offset + 1)..end : s[i] \in Bytes
  BY <1>1, ElementOfSeq
<1>3. offset + 1 \in Int /\ end \in Int
  BY <1>1
<1>4. /\ SubSeq(s, offset + 1, end) \in Seq(Bytes)
      /\ Len(SubSeq(s, offset + 1, end)) = IF offset + 1 <= end THEN end - (offset + 1) + 1 ELSE 0
      /\ \A i \in 1..(end - (offset + 1) + 1) : SubSeq(s, offset + 1, end)[i] = s[(offset + 1) + i - 1]
  <2>1. PICK m, k : m = offset + 1 /\ k = end
    OBVIOUS
  <2>2. m \in Int /\ k \in Int /\ \A i \in m..k : s[i] \in Bytes
    BY <1>2, <1>3, <2>1
  <2>3. /\ SubSeq(s, m, k) \in Seq(Bytes)
        /\ Len(SubSeq(s, m, k)) = IF m <= k THEN k - m + 1 ELSE 0
        /\ \A i \in 1..(k - m + 1) : SubSeq(s, m, k)[i] = s[m + i - 1]
    BY <2>2, SubSeqProperties
  <2> QED
    BY <2>1, <2>3, Zenon
<1>5. \A i \in 1..(end - offset) : SubSeq(s, offset + 1, end)[i] = s[offset + i]
  BY <1>1, <1>4
<1>6. Len(SubSeq(s, offset + 1, end)) = end - offset
  BY <1>1, <1>4
<1> QED
  BY <1>4, <1>5, <1>6, Zenon DEF IsCut

\* What a Write makes of a buffer: as long as it takes, with the piece in its place, the rest as it was.
LEMMA PutType ==
  ASSUME NEW buffer \in Seq(Bytes), NEW offset \in Nat, NEW piece \in Seq(Bytes), NEW end \in Nat,
         end = offset + Len(piece)
  PROVE  /\ Put(buffer, offset, piece) \in Seq(Bytes)
         /\ Len(Put(buffer, offset, piece)) = IF end > Len(buffer) THEN end ELSE Len(buffer)
         /\ \A i \in 1..Len(Put(buffer, offset, piece)) :
              Put(buffer, offset, piece)[i] =
                IF i > offset /\ i <= end THEN piece[i - offset]
                ELSE IF i <= Len(buffer) THEN buffer[i] ELSE "0"
<1>1. Len(buffer) \in Nat /\ Len(piece) \in Nat /\ end \in Nat
  OBVIOUS
<1>2. PICK n \in Nat : n = IF end > Len(buffer) THEN end ELSE Len(buffer)
  BY <1>1
<1>3. PICK result : result =
        [i \in 1..n |-> IF i > offset /\ i <= end THEN piece[i - offset]
                        ELSE IF i <= Len(buffer) THEN buffer[i] ELSE "0"]
  OBVIOUS
<1>4. \A i \in 1..n : result[i] \in Bytes
  <2> SUFFICES ASSUME NEW i \in 1..n PROVE result[i] \in Bytes
    OBVIOUS
  <2>1. CASE i > offset /\ i <= end
    <3>1. i - offset \in 1..Len(piece)
      BY <1>1, <2>1
    <3> QED
      BY <1>3, <2>1, <3>1, ElementOfSeq
  <2>2. CASE ~(i > offset /\ i <= end)
    <3>1. i <= Len(buffer) => i \in 1..Len(buffer)
      BY <1>1
    <3>2. i <= Len(buffer) => buffer[i] \in Bytes
      BY <3>1, ElementOfSeq
    <3> QED
      BY <1>3, <2>2, <3>2 DEF Bytes
  <2> QED
    BY <2>1, <2>2
<1>5. result \in Seq(Bytes) /\ Len(result) = n
  BY <1>3, <1>4
<1>6. Put(buffer, offset, piece) = result
  BY <1>2, <1>3 DEF Put
<1> QED
  BY <1>2, <1>3, <1>5, <1>6

\* What is cut out of a text is a text.
LEMMA CutType ==
  ASSUME NEW s \in Seq(Bytes), NEW offset \in Nat, NEW n \in Nat
  PROVE  Cut(s, offset, n) \in Seq(Bytes)
<1> DEFINE end == IF offset + n < Len(s) THEN offset + n ELSE Len(s)
<1>1. end \in Int /\ offset + 1 \in Int /\ \A i \in (offset + 1)..end : s[i] \in Bytes
  BY ElementOfSeq
<1>2. SubSeq(s, offset + 1, end) \in Seq(Bytes)
  BY <1>1, SubSeqProperties
<1> QED
  BY <1>2 DEF Cut

\* The parts put together are what was cut, ...
LEMMA PartsJoin ==
  ASSUME NEW s \in Seq(Bytes), NEW a \in Nat, NEW n \in Nat, Cut(s, a, n) # <<>>
  PROVE  Cut(s, 0, a) \o Cut(s, a, n) = Cut(s, 0, a + n)
<1> DEFINE end == IF a + n < Len(s) THEN a + n ELSE Len(s)
<1>1. Len(s) \in Nat
  OBVIOUS
<1>2. a < Len(s)
  <2> SUFFICES ASSUME a >= Len(s) PROVE FALSE
    BY <1>1
  <2>1. Cut(s, a, n) = SubSeq(s, a + 1, Len(s))
    BY <1>1 DEF Cut
  <2>2. SubSeq(s, a + 1, Len(s)) = <<>>
    BY <1>1, SubSeqEmpty
  <2> QED
    BY <2>1, <2>2
<1>3. end \in a..Len(s) /\ a \in 0..Len(s) /\ 1 \in 1..(Len(s) + 1)
  BY <1>1, <1>2
<1>4. Cut(s, 0, a) = SubSeq(s, 1, a) /\ Cut(s, a, n) = SubSeq(s, a + 1, end)
  BY <1>1, <1>2 DEF Cut
<1>5. Cut(s, 0, a + n) = SubSeq(s, 1, end)
  BY <1>1 DEF Cut
<1>6. a \in (1 - 1)..Len(s)
  BY <1>3
<1> HIDE DEF end
<1>7. SubSeq(s, 1, a) \o SubSeq(s, a + 1, end) = SubSeq(s, 1, end)
  BY <1>3, <1>6, ConcatAdjacentSubSeq
<1> QED
  BY <1>4, <1>5, <1>7

\* ... and all of it when they are long enough.
LEMMA PartsSuffice ==
  ASSUME NEW s \in Seq(Bytes), NEW a \in Nat, a >= Len(s)
  PROVE  Cut(s, 0, a) = s
<1>1. Cut(s, 0, a) = SubSeq(s, 1, Len(s))
  <2>1. ~(0 + a < Len(s))
    OBVIOUS
  <2> QED
    BY <2>1 DEF Cut
<1> QED
  BY <1>1, SubSeqFull

-----------------------------------------------------------------------------
(***************************************************************************)
(* What a Close carries from the program to the server.                    *)
(***************************************************************************)
Kept(f) == NotBegun(f) /\ Assembled(f) /\ CarriesParsed(f) /\ Uploaded(f) /\ PostsCarried(f)

\* What is true of a fid stays true while nobody touches what it has.
Untouched(f) ==
  /\ letter'[f] = letter[f] /\ todo'[f] = todo[f] /\ whole'[f] = whole[f]
  /\ buffers'[f] = buffers[f] /\ call'[f] = call[f] /\ store'[f] = store[f] /\ posts'[f] = posts[f]

\* A step of another fid keeps what is known of this one.
LEMMA UntouchedKept ==
  ASSUME NEW f \in Fids, Kept(f), Untouched(f)
  PROVE  Kept(f)'
<1>1. NotBegun(f)' /\ Uploaded(f)' /\ PostsCarried(f)'
  BY DEF Kept, Untouched, NotBegun, Uploaded, PostsCarried, Carries
<1>2. CarriesParsed(f)'
  BY DEF Kept, Untouched, CarriesParsed, Carries
<1>3. \A i : Written(f, i)' <=> Written(f, i)
  BY DEF Untouched, Written
<1>4. Assembled(f)'
  BY <1>3 DEF Kept, Untouched, Assembled
<1> QED
  BY <1>1, <1>2, <1>4 DEF Kept

\* What is posted holds at the start: nothing is open and nothing has been written.
LEMMA SendInit == Init => SendInv
<1> SUFFICES ASSUME Init PROVE SendInv
  OBVIOUS
<1>1. <<>> \in Seq(Bytes) /\ Len(<<>>) = 0 /\ <<>> \in Seq(Message)
  BY EmptySeq
<1>2. letter \in [Fids -> Letter] /\ \A f \in Fids : letter[f] \in Letters[f]
  BY SendAssumption DEF Init
<1>3. \A l \in Letter : Pieces(l) \subseteq Nat
  BY PieceBounds
<1>4. todo \in [Fids -> SUBSET Nat] /\ \A f \in Fids : todo[f] = Pieces(letter[f])
  BY <1>2, <1>3 DEF Init
<1>5. NoCall \in Progress /\ NoStore \in [parts : Seq(Bytes), object : Seq(Bytes)]
  BY <1>1, SendAssumption DEF NoCall, NoStore, Progress, Requests
<1>6. /\ call = [f \in Fids |-> NoCall] /\ store = [f \in Fids |-> NoStore]
      /\ posts = [f \in Fids |-> <<>>] /\ buffers = [f \in Fids |-> Absent]
      /\ whole = [f \in Fids |-> TRUE]
  BY DEF Init
<1>7. /\ NoCall.pc = "none" /\ NoCall.asleep = FALSE /\ NoCall.result = "none"
      /\ NoCall.part = 1 /\ NoCall.content = <<>>
  BY DEF NoCall
<1>8. TypeOK
  <2>1. call \in [Fids -> Progress] /\ store \in [Fids -> [parts : Seq(Bytes), object : Seq(Bytes)]]
    BY <1>5, <1>6
  <2>2. posts \in [Fids -> Seq(Message)] /\ whole \in [Fids -> BOOLEAN]
    BY <1>1, <1>6
  <2>3. buffers \in [Fids -> Seq(Bytes) \cup {Absent}]
    BY <1>6
  <2>4. MaxContent \in Nat
    BY SendAssumption
  <2> QED
    BY <1>1, <1>2, <1>4, <1>6, <1>7, <2>1, <2>2, <2>3, <2>4 DEF TypeOK
<1>9. ASSUME NEW f \in Fids PROVE Kept(f)
  <2>1. call[f] = NoCall /\ call[f].pc = "none" /\ posts[f] = <<>> /\ buffers[f] = Absent
    BY <1>6, <1>7
  <2>2. NotBegun(f) /\ Assembled(f) /\ CarriesParsed(f)
    BY <1>4, <2>1 DEF NotBegun, Assembled, CarriesParsed
  <2>3. Uploaded(f)
    BY <1>6, <1>7, <2>1 DEF Uploaded
  <2>4. PostsCarried(f)
    BY <2>1 DEF PostsCarried
  <2> QED
    BY <2>2, <2>3, <2>4 DEF Kept
<1> QED
  BY <1>8, <1>9 DEF SendInv, Kept

\* Open gives a fid an empty buffer.
LEMMA OpenKeeps ==
  ASSUME SendInv, NEW f \in Fids, Open(f)
  PROVE  SendInv'
<1>1. TypeOK /\ \A g \in Fids : Kept(g)
  BY DEF SendInv, Kept
<1>2. <<>> \in Seq(Bytes) /\ Len(<<>>) = 0 /\ <<>> # Absent /\ MaxBuffer \in Nat
  BY EmptySeq, SendAssumption
<1>3. /\ buffers' = [buffers EXCEPT ![f] = <<>>] /\ UNCHANGED <<letter, todo, whole, call, store, posts>>
      /\ buffers[f] = Absent /\ call[f] = NoCall
  BY DEF Open
<1>4. TypeOK'
  BY <1>1, <1>2, <1>3 DEF TypeOK
<1>5. ASSUME NEW g \in Fids PROVE Kept(g)'
  <2>1. CASE g # f
    <3>1. Untouched(g)
      BY <1>1, <1>3, <2>1 DEF Untouched, TypeOK
    <3> QED
      BY <1>1, <3>1, UntouchedKept
  <2>2. CASE g = f
    <3>1. call'[f].pc = "none" /\ call'[f] = NoCall /\ posts'[f] = <<>>
      BY <1>1, <1>3 DEF NoCall, Kept, NotBegun
    <3>2. NotBegun(f)' /\ CarriesParsed(f)'
      <4>1. buffers'[f] # Absent
        BY <1>1, <1>2, <1>3 DEF TypeOK
      <4> QED
        BY <3>1, <4>1 DEF NotBegun, CarriesParsed
    <3>3. Uploaded(f)' /\ PostsCarried(f)'
      BY <1>1, <1>3 DEF Kept, Uploaded, PostsCarried, Carries
    <3>4. Assembled(f)'
      <4>1. buffers'[f] = <<>> /\ Len(buffers'[f]) = 0 /\ whole'[f] = whole[f] /\ letter'[f] = letter[f]
        BY <1>1, <1>2, <1>3 DEF TypeOK
      <4>2. letter[f] \in Letter
        BY <1>1 DEF TypeOK
      <4>3. Framed(letter[f]) \in Seq(Bytes)
        BY <4>2, FramedType
      <4>4. 0 <= Len(Framed(letter[f]))
        BY <4>3
      <4>5. todo'[f] = Pieces(letter'[f])
        BY <1>1, <1>3 DEF Kept, NotBegun, NoCall
      <4>6. ~ \E i : Written(f, i)'
        BY <4>5 DEF Written
      <4> QED
        BY <4>1, <4>4, <4>6 DEF Assembled
    <3> QED
      BY <2>2, <3>2, <3>3, <3>4 DEF Kept
  <2> QED
    BY <2>1, <2>2
<1> QED
  BY <1>4, <1>5 DEF SendInv, Kept

\* A piece goes to its place in the buffer, if it is taken at all.
LEMMA WriteKeeps ==
  ASSUME SendInv, NEW f \in Fids, NEW n \in todo[f], Write(f, n)
  PROVE  SendInv'
<1> DEFINE s == Framed(letter[f])
           offset == (n - 1) * PieceSize
           piece == Cut(s, offset, PieceSize)
           end == IF offset + PieceSize < Len(s) THEN offset + PieceSize ELSE Len(s)
           refused == buffers[f] = Absent \/ offset + Len(piece) > MaxBuffer
<1>1. TypeOK /\ \A g \in Fids : Kept(g)
  BY DEF SendInv, Kept
<1>2. letter[f] \in Letter /\ n \in Pieces(letter[f]) /\ PieceSize \in Nat
  BY <1>1, SendAssumption DEF TypeOK
<1>3. /\ s \in Seq(Bytes) /\ offset \in Nat /\ offset < Len(s) /\ n * PieceSize = offset + PieceSize
  BY <1>2, FramedType, PieceBounds
<1>4. /\ todo' = [todo EXCEPT ![f] = @ \ {n}]
      /\ UNCHANGED <<letter, call, store, posts>>
      /\ buffers[f] # Absent \/ call[f] # NoCall
      /\ refused => whole' = [whole EXCEPT ![f] = FALSE] /\ UNCHANGED buffers
      /\ ~refused => buffers' = [buffers EXCEPT ![f] = Put(@, offset, piece)] /\ UNCHANGED whole
  BY DEF Write
<1>4a. end = IF offset + PieceSize < Len(s) THEN offset + PieceSize ELSE Len(s)
  OBVIOUS
<1> HIDE DEF s, offset, end
<1>5. /\ piece \in Seq(Bytes) /\ Len(piece) = end - offset /\ end \in offset..Len(s)
      /\ \A i \in 1..(end - offset) : piece[i] = s[offset + i]
  <2>1. s \in Seq(Bytes) /\ offset \in Nat /\ PieceSize \in Nat /\ offset < Len(s)
    BY <1>2, <1>3
  <2>2. end \in Nat /\ end \in offset..Len(s)
    BY <1>4a, <2>1, LenProperties
  <2>3. Cut(s, offset, PieceSize) = SubSeq(s, offset + 1, end)
    BY <1>4a, Zenon DEF Cut
  <2>4. IsCut(Cut(s, offset, PieceSize), s, offset, end)
    BY <2>1, <2>2, <2>3, CutFrom
  <2> QED
    BY <2>2, <2>4 DEF IsCut
<1>6. end \in Nat /\ end = offset + Len(piece)
  BY <1>3, <1>5
<1>7. ASSUME NEW i \in 1..Len(s), i <= offset + PieceSize
      PROVE  i <= end
  BY <1>4a, <1>2, <1>3, <1>7
<1> HIDE DEF piece
<1>8. ASSUME ~refused
      PROVE  /\ buffers[f] \in Seq(Bytes) /\ buffers'[f] \in Seq(Bytes)
             /\ Len(buffers'[f]) = (IF end > Len(buffers[f]) THEN end ELSE Len(buffers[f]))
             /\ \A i \in 1..Len(buffers'[f]) :
                  buffers'[f][i] = IF i > offset /\ i <= end THEN piece[i - offset]
                                   ELSE IF i <= Len(buffers[f]) THEN buffers[f][i] ELSE "0"
  <2>1. buffers[f] \in Seq(Bytes) /\ buffers'[f] = Put(buffers[f], offset, piece)
    BY <1>1, <1>4, <1>8 DEF TypeOK
  <2> QED
    <3>1. /\ Put(buffers[f], offset, piece) \in Seq(Bytes)
          /\ Len(Put(buffers[f], offset, piece)) = IF end > Len(buffers[f]) THEN end ELSE Len(buffers[f])
          /\ \A i \in 1..Len(Put(buffers[f], offset, piece)) :
               Put(buffers[f], offset, piece)[i] =
                 IF i > offset /\ i <= end THEN piece[i - offset]
                 ELSE IF i <= Len(buffers[f]) THEN buffers[f][i] ELSE "0"
      BY <1>3, <1>5, <1>6, <2>1, PutType
    <3> QED
      BY <2>1, <3>1, Zenon
<1>9. TypeOK'
  <2>1. todo' \in [Fids -> SUBSET Nat] /\ whole' \in [Fids -> BOOLEAN]
    BY <1>1, <1>4 DEF TypeOK
  <2>2. buffers' \in [Fids -> Seq(Bytes) \cup {Absent}]
    BY <1>1, <1>4, <1>8 DEF TypeOK
  <2>3. ASSUME NEW g \in Fids, buffers'[g] # Absent PROVE Len(buffers'[g]) <= MaxBuffer
    <3>1. CASE refused \/ g # f
      BY <1>1, <1>4, <2>3, <3>1 DEF TypeOK
    <3>2. CASE ~refused /\ g = f
      <4>1. Len(buffers[f]) \in Nat /\ Len(buffers[f]) <= MaxBuffer
        BY <1>1, <1>8, <3>2 DEF TypeOK
      <4>2. end <= MaxBuffer
        BY <1>6, <3>2, SendAssumption
      <4> QED
        BY <1>8, <3>2, <4>1, <4>2
    <3> QED
      BY <3>1, <3>2
  <2>4. \A g \in Fids : todo'[g] \subseteq todo[g]
    BY <1>1, <1>4 DEF TypeOK
  <2> QED
    BY <1>1, <1>4, <2>1, <2>2, <2>3, <2>4 DEF TypeOK
<1>10. ASSUME NEW g \in Fids PROVE Kept(g)'
  <2>1. CASE g # f
    <3>1. Untouched(g)
      BY <1>1, <1>4, <2>1 DEF Untouched, TypeOK
    <3> QED
      BY <1>1, <3>1, UntouchedKept
  <2>2. CASE g = f
    <3>1. buffers[f] = Absent => call[f].pc # "none" /\ buffers'[f] = Absent
      BY <1>1, <1>4 DEF Kept, NotBegun
    <3>2. buffers[f] # Absent => call[f].pc = "none" /\ buffers'[f] # Absent
      BY <1>1, <1>4, <1>8, SendAssumption DEF Kept, NotBegun
    <3>3. NotBegun(f)' /\ Uploaded(f)' /\ PostsCarried(f)'
      BY <1>1, <1>4, <3>1, <3>2 DEF Kept, NotBegun, Uploaded, PostsCarried, Carries
    <3>4. CarriesParsed(f)'
      <4>1. whole'[f] => whole[f] /\ call[f].pc = "none"
        BY <1>1, <1>4, <3>2 DEF TypeOK
      <4> QED
        BY <1>4, <4>1 DEF CarriesParsed
    <3>5. Assembled(f)'
      <4> SUFFICES ASSUME ~refused, whole[f]
                   PROVE  /\ Len(buffers'[f]) <= Len(s)
                          /\ \A i \in 1..Len(s) :
                               Written(f, i)' => i <= Len(buffers'[f]) /\ buffers'[f][i] = s[i]
        BY <1>1, <1>4 DEF Assembled, s, TypeOK
      <4>1. /\ Len(buffers[f]) <= Len(s)
            /\ \A i \in 1..Len(s) : Written(f, i) => i <= Len(buffers[f]) /\ buffers[f][i] = s[i]
        BY <1>1 DEF Kept, Assembled, s
      <4>2. Len(buffers[f]) \in Nat /\ Len(buffers'[f]) \in Nat /\ Len(s) \in Nat
        BY <1>3, <1>8
      <4>3. Len(buffers'[f]) <= Len(s)
        BY <1>5, <1>8, <4>1, <4>2
      <4>4. ASSUME NEW i \in 1..Len(s), Written(f, i)'
            PROVE  Written(f, i) \/ (offset < i /\ i <= end)
        <5>1. PICK m \in Pieces(letter[f]) \ (todo[f] \ {n}) :
                (m - 1) * PieceSize < i /\ i <= m * PieceSize
          BY <1>1, <1>4, <4>4 DEF Written, TypeOK
        <5>2. CASE m = n
          BY <1>3, <1>7, <5>1, <5>2 DEF offset
        <5>3. CASE m # n
          BY <5>1, <5>3 DEF Written
        <5> QED
          BY <5>2, <5>3
      <4>5. ASSUME NEW i \in 1..Len(s), offset < i, i <= end
            PROVE  i <= Len(buffers'[f]) /\ buffers'[f][i] = s[i]
        <5>1. i - offset \in 1..(end - offset) /\ offset + (i - offset) = i
          BY <1>3, <1>6, <4>5
        <5>2. piece[i - offset] = s[i]
          BY <1>5, <5>1
        <5>3. i \in 1..Len(buffers'[f])
          BY <1>6, <1>8, <4>2, <4>5
        <5> QED
          BY <1>8, <4>5, <5>2, <5>3
      <4>6. ASSUME NEW i \in 1..Len(s), Written(f, i), ~(offset < i /\ i <= end)
            PROVE  i <= Len(buffers'[f]) /\ buffers'[f][i] = s[i]
        <5>1. i <= Len(buffers[f]) /\ buffers[f][i] = s[i]
          BY <4>1, <4>6
        <5>2. i \in 1..Len(buffers'[f])
          BY <1>6, <1>8, <4>2, <5>1
        <5>3. ~(i > offset /\ i <= end)
          BY <1>3, <4>6
        <5> QED
          BY <1>8, <5>1, <5>2, <5>3
      <4> QED
        BY <4>3, <4>4, <4>5, <4>6
    <3> QED
      BY <2>2, <3>3, <3>4, <3>5 DEF Kept
  <2> QED
    BY <2>1, <2>2
<1> QED
  BY <1>9, <1>10 DEF SendInv, Kept

\* The Close takes what the parser makes of the buffer, which is the letter if all of it came.
LEMMA CloseKeeps ==
  ASSUME SendInv, NEW f \in Fids, Close(f)
  PROVE  SendInv'
<1> DEFINE parsed == Parse(letter[f].file, buffers[f])
           pc == IF parsed.ok THEN "resolve" ELSE "done"
           result == IF parsed.ok THEN "none" ELSE "error"
<1>1. TypeOK /\ \A g \in Fids : Kept(g)
  BY DEF SendInv, Kept
<1>2. /\ buffers[f] # Absent /\ buffers' = [buffers EXCEPT ![f] = Absent]
      /\ whole' = [whole EXCEPT ![f] = @ /\ todo[f] = {}]
      /\ call' = [call EXCEPT ![f].pc = pc, ![f].content = parsed.content, ![f].data = parsed.data,
                              ![f].result = result]
      /\ UNCHANGED <<letter, todo, store, posts>>
  BY DEF Close
<1>3. letter[f] \in Letter /\ buffers[f] \in Seq(Bytes) /\ letter[f].file \in Files
  BY <1>1, <1>2 DEF TypeOK, Letter
<1>4. parsed \in Payloads /\ Len(parsed.content) <= MaxContent
  BY <1>3, ParseType
<1>5. call[f] = NoCall /\ call[f].pc = "none" /\ posts[f] = <<>> /\ store[f] = NoStore /\ call[f].part = 1
  BY <1>1, <1>2 DEF Kept, NotBegun, Uploaded
<1>6. whole[f] /\ todo[f] = {} => buffers[f] = Framed(letter[f])
  <2> SUFFICES ASSUME whole[f], todo[f] = {} PROVE buffers[f] = Framed(letter[f])
    OBVIOUS
  <2> DEFINE s == Framed(letter[f])
  <2>1. s \in Seq(Bytes)
    BY <1>3, FramedType
  <2>2. \A i \in 1..Len(s) : Written(f, i)
    BY <1>3, PieceOfByte DEF Written
  <2>3. Len(buffers[f]) <= Len(s) /\ \A i \in 1..Len(s) : i <= Len(buffers[f]) /\ buffers[f][i] = s[i]
    BY <1>1, <1>2, <2>2 DEF Kept, Assembled
  <2> HIDE DEF s
  <2>4. Len(buffers[f]) \in Nat /\ Len(s) \in Nat
    BY <1>3, <2>1
  <2>5. Len(s) <= Len(buffers[f])
    <3>1. Len(s) = 0 \/ Len(s) \in 1..Len(s)
      BY <2>4
    <3> QED
      BY <2>3, <2>4, <3>1
  <2>6. Len(buffers[f]) = Len(s)
    BY <2>3, <2>4, <2>5
  <2>7. buffers[f] = s
    BY <1>3, <2>1, <2>3, <2>6, SeqEqual
  <2> QED
    BY <2>7 DEF s
<1> HIDE DEF parsed
<1>7. /\ call'[f].pc = pc /\ call'[f].content = parsed.content /\ call'[f].data = parsed.data
      /\ call'[f].result = result /\ call'[f].part = 1 /\ call'[f].asleep = FALSE
      /\ call' \in [Fids -> Progress] /\ \A g \in Fids \ {f} : call'[g] = call[g]
  <2>1. call[f].asleep = FALSE /\ call \in [Fids -> Progress] /\ call[f] \in Progress
    <3>1. NoCall.asleep = FALSE
      BY DEF NoCall
    <3>2. call[f].asleep = FALSE
      BY <1>5, <3>1
    <3> QED
      BY <1>1, <3>2 DEF TypeOK
  <2>2. parsed.content \in Seq(Bytes) /\ parsed.data \in Seq(Bytes)
    BY <1>4 DEF Payloads
  <2>3. pc \in {"resolve", "done"} /\ result \in {"none", "error"}
    OBVIOUS
  <2> HIDE DEF pc, result
  <2>4. /\ call'[f].pc = pc /\ call'[f].content = parsed.content /\ call'[f].data = parsed.data
        /\ call'[f].result = result /\ call'[f].part = call[f].part /\ call'[f].asleep = call[f].asleep
        /\ \A g \in Fids \ {f} : call'[g] = call[g]
    BY <1>2, <2>1 DEF Progress
  <2>5. call' \in [Fids -> Progress]
    BY <1>2, <2>1, <2>2, <2>3 DEF Progress
  <2> QED
    BY <1>5, <2>1, <2>4, <2>5
<1>8. TypeOK'
  <2>1. buffers' \in [Fids -> Seq(Bytes) \cup {Absent}] /\ whole' \in [Fids -> BOOLEAN]
    BY <1>1, <1>2 DEF TypeOK
  <2>2. \A g \in Fids : buffers'[g] # Absent => buffers'[g] = buffers[g]
    BY <1>1, <1>2 DEF TypeOK
  <2>3. ASSUME NEW g \in Fids
        PROVE  /\ call'[g].asleep => call'[g].pc \in Requests
               /\ Len(call'[g].content) <= MaxContent
               /\ call'[g].result # "none" <=> call'[g].pc = "done"
    <3>1. CASE g = f
      BY <1>4, <1>7, <3>1 DEF Requests
    <3>2. CASE g # f
      BY <1>1, <1>7, <3>2 DEF TypeOK
    <3> QED
      BY <3>1, <3>2
  <2> QED
    BY <1>1, <1>2, <1>7, <2>1, <2>2, <2>3 DEF TypeOK
<1>9. ASSUME NEW g \in Fids PROVE Kept(g)'
  <2>1. CASE g # f
    <3>1. Untouched(g)
      BY <1>1, <1>2, <1>7, <2>1 DEF Untouched, TypeOK
    <3> QED
      BY <1>1, <3>1, UntouchedKept
  <2>2. CASE g = f
    <3>1. buffers'[f] = Absent /\ pc # "none" /\ posts'[f] = <<>> /\ store'[f] = NoStore
      BY <1>1, <1>2, <1>5 DEF TypeOK
    <3>2. NotBegun(f)' /\ Assembled(f)'
      BY <1>7, <3>1 DEF NotBegun, Assembled
    <3>3. Uploaded(f)'
      BY <1>7, <3>1 DEF Uploaded
    <3>4. PostsCarried(f)'
      BY <3>1 DEF PostsCarried
    <3>5. CarriesParsed(f)'
      <4>1. whole'[f] => whole[f] /\ todo[f] = {}
        BY <1>1, <1>2 DEF TypeOK
      <4>2. whole'[f] => parsed = Parse(letter[f].file, Framed(letter[f]))
        BY <1>6, <4>1 DEF parsed
      <4>3. letter'[f] = letter[f] /\ (pc # "done" => parsed.ok)
        BY <1>2
      <4> QED
        BY <1>7, <3>1, <4>2, <4>3 DEF CarriesParsed, Carries, Parsed
    <3> QED
      BY <2>2, <3>2, <3>3, <3>4, <3>5 DEF Kept
  <2> QED
    BY <2>1, <2>2
<1> QED
  BY <1>8, <1>9 DEF SendInv, Kept

\* What a request may do to the progress of the Close of f.
Proceeds(f) ==
  /\ call' \in [Fids -> Progress] /\ \A g \in Fids \ {f} : call'[g] = call[g]
  /\ Carries(f)' = Carries(f) /\ call'[f].pc # "none"
  /\ call'[f].asleep => call'[f].pc \in Requests
  /\ call'[f].result # "none" <=> call'[f].pc = "done"

StoreType == [Fids -> [parts : Seq(Bytes), object : Seq(Bytes)]]

\* A request of a Close keeps the invariant if what it uploads and posts is what the Close carries.
LEMMA RequestKeepsInv ==
  ASSUME SendInv, NEW f \in Fids, call[f].pc \notin {"none", "done"}, Idle, Proceeds(f),
         store' \in StoreType, \A g \in Fids \ {f} : store'[g] = store[g],
         posts' \in [Fids -> Seq(Message)], \A g \in Fids \ {f} : posts'[g] = posts[g],
         Uploaded(f)', PostsCarried(f)'
  PROVE  SendInv'
<1>1. TypeOK /\ \A g \in Fids : Kept(g)
  BY DEF SendInv, Kept
<1>2. call'[f].content = call[f].content /\ call'[f].data = call[f].data
  BY DEF Proceeds, Carries
<1>3. TypeOK'
  <2>1. ASSUME NEW g \in Fids
        PROVE  /\ call'[g].asleep => call'[g].pc \in Requests
               /\ Len(call'[g].content) <= MaxContent
               /\ call'[g].result # "none" <=> call'[g].pc = "done"
    <3>1. CASE g = f
      BY <1>1, <1>2, <3>1 DEF TypeOK, Proceeds
    <3>2. CASE g # f
      BY <1>1, <3>2 DEF TypeOK, Proceeds
    <3> QED
      BY <3>1, <3>2
  <2> QED
    BY <1>1, <2>1 DEF TypeOK, Idle, Proceeds, StoreType
<1>4. ASSUME NEW g \in Fids PROVE Kept(g)'
  <2>1. CASE g # f
    <3>1. Untouched(g)
      BY <2>1 DEF Untouched, Idle, Proceeds
    <3> QED
      BY <1>1, <3>1, UntouchedKept
  <2>2. CASE g = f
    <3>1. buffers[f] = Absent /\ buffers' = buffers
      BY <1>1 DEF Kept, NotBegun, Idle
    <3>2. NotBegun(f)' /\ Assembled(f)'
      BY <3>1 DEF NotBegun, Assembled, Proceeds
    <3>3. CarriesParsed(f)'
      BY <1>1 DEF Kept, CarriesParsed, Idle, Proceeds
    <3> QED
      BY <2>2, <3>2, <3>3 DEF Kept
  <2> QED
    BY <2>1, <2>2
<1> QED
  BY <1>3, <1>4 DEF SendInv, Kept

\* Nothing is posted before the last request.
LEMMA QuietRequest ==
  ASSUME SendInv, NEW f \in Fids, call[f].pc \notin {"none", "done"}, Idle, Proceeds(f),
         store' \in StoreType, \A g \in Fids \ {f} : store'[g] = store[g], UNCHANGED posts,
         Uploaded(f)'
  PROVE  SendInv'
<1>1. TypeOK /\ Kept(f)
  BY DEF SendInv, Kept
<1>2. posts[f] = <<>>
  BY <1>1 DEF Kept, PostsCarried
<1>3. PostsCarried(f)'
  BY <1>2 DEF PostsCarried
<1>4. posts' \in [Fids -> Seq(Message)] /\ \A g \in Fids \ {f} : posts'[g] = posts[g]
  BY <1>1 DEF TypeOK
<1> QED
  BY <1>3, <1>4, RequestKeepsInv

\* An error ends the Close, whatever the server has got by then.
LEMMA EndsProceeds ==
  ASSUME TypeOK, NEW f \in Fids, NEW result \in {"ok", "error"}, Ends(f, result)
  PROVE  Proceeds(f) /\ Uploaded(f)' /\ call'[f].pc = "done"
<1>1. call' = [call EXCEPT ![f].pc = "done", ![f].asleep = FALSE, ![f].result = result]
  BY DEF Ends
<1>2. call \in [Fids -> Progress] /\ call[f] \in Progress
  BY DEF TypeOK
<1>3. /\ call'[f].pc = "done" /\ call'[f].asleep = FALSE /\ call'[f].result = result
      /\ call'[f].content = call[f].content /\ call'[f].data = call[f].data
      /\ call'[f].size = call[f].size /\ \A g \in Fids \ {f} : call'[g] = call[g]
      /\ call' \in [Fids -> Progress]
  BY <1>1, <1>2 DEF Progress
<1>4. Proceeds(f)
  BY <1>3 DEF Proceeds, Carries
<1>5. Uploaded(f)'
  BY <1>3 DEF Uploaded
<1> QED
  BY <1>3, <1>4, <1>5

\* An answer takes it to the next request.
LEMMA NextProceeds ==
  ASSUME TypeOK, NEW f \in Fids, NEW pc \in {"plan", "complete", "post", "upload"},
         call[f].pc \notin {"none", "done"}, ~call[f].asleep,
         call' = [call EXCEPT ![f].pc = pc]
  PROVE  /\ Proceeds(f) /\ call'[f].pc = pc /\ call'[f].part = call[f].part
         /\ call'[f].parts = call[f].parts /\ call'[f].size = call[f].size
         /\ call'[f].content = call[f].content /\ call'[f].data = call[f].data
<1>1. call \in [Fids -> Progress] /\ call[f] \in Progress /\ call[f].result = "none"
  BY DEF TypeOK
<1>2. /\ call'[f].pc = pc /\ call'[f].asleep = FALSE /\ call'[f].result = "none"
      /\ call'[f].content = call[f].content /\ call'[f].data = call[f].data
      /\ call'[f].part = call[f].part /\ call'[f].parts = call[f].parts
      /\ call'[f].size = call[f].size /\ \A g \in Fids \ {f} : call'[g] = call[g]
  BY <1>1 DEF Progress
<1>3. call' \in [Fids -> Progress]
  BY <1>1 DEF Progress, Requests
<1> QED
  BY <1>2, <1>3 DEF Proceeds, Carries

\* The requests of a Close, each with the server's part of it.
LEMMA RequestKeeps ==
  ASSUME SendInv, NEW f \in Fids, Request(f)
  PROVE  SendInv'
<1>1. TypeOK /\ Kept(f) /\ store \in StoreType /\ store[f] = [parts |-> store[f].parts, object |-> store[f].object]
  BY DEF SendInv, Kept, TypeOK, StoreType
<1>2. /\ call[f] \in Progress /\ call[f].data \in Seq(Bytes)
      /\ store[f].parts \in Seq(Bytes) /\ store[f].object \in Seq(Bytes)
  BY <1>1 DEF TypeOK, Progress
<1>3. ASSUME Idle, call[f].pc \notin {"none", "done"}, Ends(f, "error"), UNCHANGED posts,
             store' \in StoreType, \A g \in Fids \ {f} : store'[g] = store[g]
      PROVE  SendInv'
  BY <1>1, <1>3, EndsProceeds, QuietRequest
<1>4. ASSUME NEW answered \in BOOLEAN, Resolves(f, answered) PROVE SendInv'
  <2>1. CASE answered
    <3>1. PICK pc \in {"plan", "post"} :
            pc = (IF call[f].data = <<>> THEN "post" ELSE "plan") /\ call' = [call EXCEPT ![f].pc = pc]
      BY <1>4, <2>1 DEF Resolves, Then
    <3>2. /\ Proceeds(f) /\ call'[f].pc = pc /\ call'[f].part = call[f].part
          /\ call'[f].data = call[f].data
      <4>1. /\ call[f].pc \notin {"none", "done"} /\ ~call[f].asleep
            /\ pc \in {"plan", "complete", "post", "upload"} /\ call' = [call EXCEPT ![f].pc = pc]
        BY <1>4, <3>1 DEF Resolves, Asks
      <4> QED
        BY <1>1, <4>1, NextProceeds
    <3>3. store[f] = NoStore /\ call[f].part = 1 /\ UNCHANGED store
      BY <1>1, <1>4 DEF Kept, Uploaded, Resolves, Asks
    <3>4. Uploaded(f)'
      BY <3>1, <3>2, <3>3 DEF Uploaded, NoStore
    <3> QED
      BY <1>1, <1>4, <3>2, <3>3, <3>4, QuietRequest DEF Resolves, Asks
  <2>2. CASE ~answered
    BY <1>1, <1>3, <1>4, <2>2 DEF Resolves, Then, Asks
  <2> QED
    BY <2>1, <2>2
<1>5. CASE PlanFails(f)
  BY <1>1, <1>3, <1>5 DEF PlanFails, Asks
<1>6. CASE PlanExceeds(f)
  BY <1>1, <1>3, <1>6 DEF PlanExceeds, Asks
<1>7. ASSUME NEW parts \in 0..MaxParts, NEW size \in PartSizes \cup {0}, Planned(f, size, parts)
      PROVE  SendInv'
  <2>1. /\ call[f].pc = "plan" /\ ~call[f].asleep /\ call[f].result = "none" /\ call[f].part = 1
        /\ store[f] = NoStore /\ size \in Nat /\ UNCHANGED store
        /\ call' = [call EXCEPT ![f].pc = "upload", ![f].size = size, ![f].parts = parts]
        /\ parts > 0 => size * parts >= Len(call[f].data)
    BY <1>1, <1>7, SendAssumption DEF Planned, Asks, Kept, Uploaded, TypeOK
  <2>2. /\ call'[f].pc = "upload" /\ call'[f].size = size /\ call'[f].parts = parts /\ call'[f].part = 1
        /\ call'[f].content = call[f].content /\ call'[f].data = call[f].data
        /\ call'[f].result = "none" /\ call'[f].asleep = FALSE /\ \A g \in Fids \ {f} : call'[g] = call[g]
    BY <1>1, <1>2, <2>1 DEF TypeOK, Progress
  <2>3. call' \in [Fids -> Progress]
    BY <1>1, <1>2, <2>1 DEF TypeOK, Progress
  <2>4. Proceeds(f)
    BY <2>2, <2>3 DEF Proceeds, Carries
  <2>5. Uploaded(f)'
    <3>1. (1 - 1) * size = 0 /\ 0 >= Len(<<>>) /\ Len(call[f].data) \in Nat
      BY <1>2, <2>1
    <3>2. Cut(call[f].data, 0, 0) = <<>>
      BY <1>2, <3>1, SubSeqEmpty DEF Cut
    <3>3. parts > 0 => 1 <= parts
      OBVIOUS
    <3> QED
      BY <2>1, <2>2, <3>1, <3>2, <3>3 DEF Uploaded, NoStore
  <2> QED
    BY <1>1, <1>7, <2>1, <2>4, <2>5, QuietRequest DEF Planned
<1>8. ASSUME NEW answered \in BOOLEAN, UploadsWhole(f, answered) PROVE SendInv'
  <2>1. store' \in StoreType /\ \A g \in Fids \ {f} : store'[g] = store[g]
    BY <1>1, <1>2, <1>8 DEF UploadsWhole, StoreType
  <2>2. CASE answered
    <3>1. call' = [call EXCEPT ![f].pc = "post"] /\ store' = [store EXCEPT ![f].object = call[f].data]
      BY <1>8, <2>2 DEF UploadsWhole, Then
    <3>2. Proceeds(f) /\ call'[f].pc = "post" /\ call'[f].data = call[f].data
      BY <1>1, <1>8, <3>1, NextProceeds DEF UploadsWhole, Asks
    <3>3. store'[f].object = call[f].data
      BY <1>1, <3>1 DEF StoreType
    <3>4. Uploaded(f)'
      BY <3>2, <3>3 DEF Uploaded
    <3> QED
      BY <1>1, <1>8, <2>1, <3>2, <3>4, QuietRequest DEF UploadsWhole, Asks
  <2>3. CASE ~answered
    BY <1>3, <1>8, <2>1, <2>3 DEF UploadsWhole, Then, Asks
  <2> QED
    BY <2>2, <2>3
<1>9. ASSUME NEW answered \in BOOLEAN, UploadsPart(f, answered) PROVE SendInv'
  <2> DEFINE a == (call[f].part - 1) * call[f].size
  <2>1. /\ call[f].pc = "upload" /\ ~call[f].asleep /\ call[f].result = "none" /\ call[f].part <= call[f].parts
        /\ Part(f) # <<>> /\ Part(f) = Cut(call[f].data, a, call[f].size)
    BY <1>1, <1>9 DEF UploadsPart, Asks, Part, TypeOK
  <2>2. /\ call[f].part \in Nat \ {0} /\ call[f].part \in 1..MaxParts + 1 /\ call[f].size \in Nat
        /\ call[f].parts \in Nat /\ call[f].parts \in 0..MaxParts /\ MaxParts \in Nat
    BY <1>2, SendAssumption DEF Progress
  <2>3. a \in Nat /\ call[f].part * call[f].size = a + call[f].size
    BY <2>2, Product
  <2> HIDE DEF a
  <2>4. Part(f) \in Seq(Bytes)
    BY <1>2, <2>1, <2>2, <2>3, CutType
  <2>5. store' \in StoreType /\ \A g \in Fids \ {f} : store'[g] = store[g]
    <3>1. store[f].parts \o Part(f) \in Seq(Bytes)
      BY <1>2, <2>4, ConcatProperties
    <3> QED
      BY <1>1, <1>2, <1>9, <3>1 DEF UploadsPart, StoreType
  <2>6. CASE answered
    <3> DEFINE pc == IF call[f].part = call[f].parts THEN "complete" ELSE "upload"
    <3>1. /\ call' = [call EXCEPT ![f].part = @ + 1, ![f].pc = pc]
          /\ store' = [store EXCEPT ![f].parts = @ \o Part(f)]
      BY <1>9, <2>6 DEF UploadsPart
    <3>2. pc \in {"complete", "upload"}
      OBVIOUS
    <3>3. /\ pc = "complete" => call[f].part = call[f].parts
          /\ pc = "upload" => call[f].part # call[f].parts
      OBVIOUS
    <3> HIDE DEF pc
    <3>4. /\ call'[f].pc = pc /\ call'[f].part = call[f].part + 1 /\ call'[f].asleep = call[f].asleep
          /\ call'[f].parts = call[f].parts /\ call'[f].size = call[f].size
          /\ call'[f].content = call[f].content /\ call'[f].data = call[f].data
          /\ call'[f].result = "none" /\ \A g \in Fids \ {f} : call'[g] = call[g]
      BY <1>1, <1>2, <2>1, <3>1 DEF TypeOK, Progress
    <3>5. call' \in [Fids -> Progress]
      <4>1. call[f].part + 1 \in 1..MaxParts + 1
        BY <2>1, <2>2
      <4> QED
        BY <1>1, <1>2, <3>1, <3>2, <4>1 DEF TypeOK, Progress, Requests
    <3>6. Proceeds(f)
      BY <2>1, <3>2, <3>4, <3>5 DEF Proceeds, Carries
    <3>7. store'[f].parts = Cut(call[f].data, 0, call[f].part * call[f].size)
      <4>1. store[f].parts = Cut(call[f].data, 0, a)
        BY <1>1, <2>1, <2>2 DEF Kept, Uploaded, a
      <4>2. Cut(call[f].data, 0, a) \o Cut(call[f].data, a, call[f].size) = Cut(call[f].data, 0, a + call[f].size)
        BY <1>2, <2>1, <2>2, <2>3, PartsJoin
      <4>3. store'[f].parts = store[f].parts \o Part(f)
        BY <1>1, <3>1 DEF StoreType
      <4> QED
        BY <2>1, <2>3, <4>1, <4>2, <4>3
    <3>8. call[f].size * call[f].parts >= Len(call[f].data)
      BY <1>1, <2>1, <2>2 DEF Kept, Uploaded
    <3>9. CASE pc = "complete"
      <4>1. call[f].part * call[f].size \in Nat /\ call[f].part * call[f].size >= Len(call[f].data)
        BY <2>2, <3>3, <3>8, <3>9
      <4>2. store'[f].parts = call[f].data
        BY <1>2, <3>7, <4>1, PartsSuffice
      <4>3. Uploaded(f)'
        BY <3>4, <3>9, <4>2 DEF Uploaded
      <4> QED
        BY <1>1, <1>9, <2>1, <2>5, <3>6, <4>3, QuietRequest DEF UploadsPart
    <3>10. CASE pc = "upload"
      <4>1. call[f].part + 1 <= call[f].parts /\ (call[f].part + 1) - 1 = call[f].part
        BY <2>1, <2>2, <3>3, <3>10
      <4>2. Uploaded(f)'
        BY <3>4, <3>7, <3>8, <3>10, <4>1 DEF Uploaded
      <4> QED
        BY <1>1, <1>9, <2>1, <2>5, <3>6, <4>2, QuietRequest DEF UploadsPart
    <3> QED
      BY <3>2, <3>9, <3>10
  <2>7. CASE ~answered
    BY <1>3, <1>9, <2>1, <2>5, <2>7 DEF UploadsPart
  <2> QED
    BY <2>6, <2>7
<1>10. ASSUME NEW answered \in BOOLEAN, Completes(f, answered) PROVE SendInv'
  <2>1. store' \in StoreType /\ \A g \in Fids \ {f} : store'[g] = store[g]
    BY <1>1, <1>2, <1>10 DEF Completes, StoreType
  <2>2. CASE answered
    <3>1. call' = [call EXCEPT ![f].pc = "post"] /\ store' = [store EXCEPT ![f].object = store[f].parts]
      BY <1>10, <2>2 DEF Completes, Then
    <3>2. Proceeds(f) /\ call'[f].pc = "post" /\ call'[f].data = call[f].data
      BY <1>1, <1>10, <3>1, NextProceeds DEF Completes, Asks
    <3>3. store'[f].object = call[f].data
      BY <1>1, <1>10, <3>1 DEF StoreType, Completes, Asks, Kept, Uploaded
    <3>4. Uploaded(f)'
      BY <3>2, <3>3 DEF Uploaded
    <3> QED
      BY <1>1, <1>10, <2>1, <3>2, <3>4, QuietRequest DEF Completes, Asks
  <2>3. CASE ~answered
    BY <1>3, <1>10, <2>1, <2>3 DEF Completes, Then, Asks
  <2> QED
    BY <2>2, <2>3
<1>11. ASSUME NEW answered \in BOOLEAN, Posts(f, answered) PROVE SendInv'
  <2>1. PICK result \in {"ok", "error"} : Ends(f, result)
    BY <1>11 DEF Posts
  <2>2. Proceeds(f) /\ Uploaded(f)' /\ call'[f].pc = "done"
    BY <1>1, <2>1, EndsProceeds
  <2>3. call[f].pc = "post" /\ posts[f] = <<>> /\ store[f].object = call[f].data /\ Idle /\ UNCHANGED store
    BY <1>1, <1>11 DEF Posts, Asks, Kept, Uploaded, PostsCarried
  <2>4. CASE UNCHANGED posts
    BY <1>1, <2>2, <2>3, <2>4, QuietRequest
  <2>5. CASE Posted(f)
    <3>1. /\ posts' = [posts EXCEPT ![f] = Append(@, Carries(f))]
          /\ Carries(f) \in Message
      BY <1>2, <2>3, <2>5 DEF Posted, Carries, Message, Progress
    <3>2. posts \in [Fids -> Seq(Message)]
      BY <1>1 DEF TypeOK
    <3>3. posts' \in [Fids -> Seq(Message)] /\ \A g \in Fids \ {f} : posts'[g] = posts[g]
      BY <3>1, <3>2
    <3>4. posts'[f] = <<Carries(f)>>
      BY <2>3, <3>1, <3>2
    <3>5. DOMAIN posts'[f] = {1} /\ posts'[f][1] = Carries(f)
      BY <3>4
    <3>6. PostsCarried(f)'
      BY <2>2, <3>5 DEF PostsCarried, Proceeds
    <3> QED
      BY <1>1, <2>2, <2>3, <3>3, <3>6, RequestKeepsInv
  <2> QED
    BY <1>11, <2>4, <2>5 DEF Posts
<1>12. CASE Limited(f) \/ Wakes(f)
  <2>1. PICK asleep \in BOOLEAN : call' = [call EXCEPT ![f].asleep = asleep]
    BY <1>12 DEF Limited, Wakes
  <2>2. call[f].pc \in Requests /\ Idle /\ UNCHANGED <<store, posts>> /\ call[f].result = "none"
    BY <1>1, <1>12 DEF Limited, Wakes, TypeOK, Requests
  <2>3. /\ call'[f].pc = call[f].pc /\ call'[f].part = call[f].part
        /\ call'[f].parts = call[f].parts /\ call'[f].size = call[f].size
        /\ call'[f].content = call[f].content /\ call'[f].data = call[f].data
        /\ call'[f].result = "none" /\ \A g \in Fids \ {f} : call'[g] = call[g]
    BY <1>1, <1>2, <2>1, <2>2 DEF TypeOK, Progress
  <2>4. call' \in [Fids -> Progress]
    BY <1>1, <1>2, <2>1 DEF TypeOK, Progress
  <2>5. Proceeds(f)
    BY <2>2, <2>3, <2>4 DEF Proceeds, Carries, Requests
  <2>6. Uploaded(f)'
    BY <1>1, <2>2, <2>3 DEF Kept, Uploaded
  <2> QED
    BY <1>1, <2>2, <2>5, <2>6, QuietRequest DEF Requests
<1>13. CASE GivesUp(f)
  <2>1. call[f].pc \in Requests
    BY <1>1, <1>13 DEF GivesUp, TypeOK
  <2> QED
    BY <1>1, <1>3, <1>13, <2>1 DEF GivesUp, Requests
<1> QED
  BY <1>4, <1>5, <1>6, <1>7, <1>8, <1>9, <1>10, <1>11, <1>12, <1>13 DEF Request

\* The deadline alone changes nothing of what is sent.
LEMMA ExpiresKeeps ==
  ASSUME SendInv, NEW f \in Fids, Expires(f)
  PROVE  SendInv'
<1>1. TypeOK /\ Kept(f) /\ store \in StoreType
  BY DEF SendInv, Kept, TypeOK, StoreType
<1>2. call \in [Fids -> Progress] /\ call[f] \in Progress
  BY <1>1 DEF TypeOK
<1>3. /\ call' = [call EXCEPT ![f].expired = TRUE] /\ Idle /\ UNCHANGED <<store, posts>>
      /\ call[f].pc \notin {"none", "done"} /\ call[f].result = "none"
  BY <1>1 DEF Expires, TypeOK
<1>4. /\ call'[f].pc = call[f].pc /\ call'[f].part = call[f].part /\ call'[f].asleep = call[f].asleep
      /\ call'[f].parts = call[f].parts /\ call'[f].size = call[f].size
      /\ call'[f].content = call[f].content /\ call'[f].data = call[f].data
      /\ call'[f].result = "none" /\ \A g \in Fids \ {f} : call'[g] = call[g]
  BY <1>2, <1>3 DEF Progress
<1>5. call' \in [Fids -> Progress]
  BY <1>2, <1>3 DEF Progress
<1>6. Proceeds(f)
  BY <1>1, <1>3, <1>4, <1>5 DEF Proceeds, Carries, TypeOK
<1>7. Uploaded(f)'
  BY <1>1, <1>3, <1>4 DEF Kept, Uploaded
<1> QED
  BY <1>1, <1>3, <1>6, <1>7, QuietRequest

(***************************************************************************)
(* The inductive invariant of what is posted holds in every behaviour.     *)
(***************************************************************************)
THEOREM SendInvariance == Spec => []SendInv
<1>1. ASSUME SendInv, UNCHANGED vars PROVE SendInv'
  <2>1. TypeOK /\ \A g \in Fids : Kept(g)
    BY <1>1 DEF SendInv, Kept
  <2>2. TypeOK'
    BY <1>1, <2>1 DEF TypeOK, vars
  <2>3. \A g \in Fids : Untouched(g)
    BY <1>1 DEF Untouched, vars
  <2> QED
    BY <2>1, <2>2, <2>3, UntouchedKept DEF SendInv, Kept
<1>2. SendInv /\ [Next]_vars => SendInv'
  BY <1>1, OpenKeeps, CloseKeeps, WriteKeeps, RequestKeeps, ExpiresKeeps DEF Next
<1> QED
  BY <1>2, SendInit, PTL DEF Spec

(***************************************************************************)
(* Every variable keeps its type: no buffer outgrows its limit, and no     *)
(* parser lets more text through than a message may have.                  *)
(***************************************************************************)
THEOREM TypeCorrect == Spec => []TypeOK
<1>1. SendInv => TypeOK
  BY DEF SendInv
<1> QED
  BY <1>1, SendInvariance, PTL

(***************************************************************************)
(* What is posted is what the parser makes of the whole letter, whichever  *)
(* order its pieces came in and however many parts it was uploaded in      *)
(* (sendFile.Write and Close, uploadAttachment).                           *)
(***************************************************************************)
THEOREM PostedAsParsedHolds == Spec => []PostedAsParsed
<1>1. SendInv => PostedAsParsed
  <2> SUFFICES ASSUME SendInv, NEW f \in Fids, NEW i \in DOMAIN posts[f], whole[f]
               PROVE  posts[f][i] = Parsed(letter[f])
    BY DEF PostedAsParsed
  <2>1. posts[f] # <<>>
    OBVIOUS
  <2>2. call[f].pc = "done" /\ posts[f][i] = Carries(f)
    BY <2>1 DEF SendInv, PostsCarried
  <2>3. call[f].pc # "none"
    BY <2>2
  <2>4. Carries(f) = Parsed(letter[f])
    BY <2>3 DEF SendInv, CarriesParsed
  <2> QED
    BY <2>2, <2>4
<1> QED
  BY <1>1, SendInvariance, PTL

-----------------------------------------------------------------------------
(***************************************************************************)
(* The parsers again: what they make of a letter that is written as the    *)
(* README and the comments say.  A separator is where its bytes are, and   *)
(* the index is the first such place; so the blank line that a caption     *)
(* ends at is the one that the program wrote.                              *)
(***************************************************************************)
\* What is left of a text, byte by byte.
LEMMA DropOf ==
  ASSUME NEW s \in Seq(Bytes), NEW n \in 0..Len(s)
  PROVE  /\ Drop(s, n) \in Seq(Bytes) /\ Len(Drop(s, n)) = Len(s) - n
         /\ \A i \in 1..(Len(s) - n) : Drop(s, n)[i] = s[n + i]
<1>1. \A i \in (n + 1)..Len(s) : s[i] \in Bytes
  BY ElementOfSeq
<1>2. n + 1 \in Int /\ Len(s) \in Int
  OBVIOUS
<1>3. /\ Drop(s, n) \in Seq(Bytes)
      /\ Len(Drop(s, n)) = IF n + 1 <= Len(s) THEN Len(s) - (n + 1) + 1 ELSE 0
      /\ \A i \in 1..(Len(s) - (n + 1) + 1) : Drop(s, n)[i] = s[n + 1 + i - 1]
  BY <1>1, <1>2, SubSeqProperties DEF Drop
<1>4. Len(Drop(s, n)) = Len(s) - n
  BY <1>2, <1>3
<1>5. ASSUME NEW i \in 1..(Len(s) - n) PROVE Drop(s, n)[i] = s[n + i]
  <2>1. i \in 1..(Len(s) - (n + 1) + 1) /\ n + 1 + i - 1 = n + i
    BY <1>2
  <2> QED
    BY <1>3, <2>1
<1> QED
  BY <1>3, <1>4, <1>5

\* The two halves of a text.
LEMMA Halves ==
  ASSUME NEW a \in Seq(Bytes), NEW b \in Seq(Bytes)
  PROVE  Drop(a \o b, Len(a)) = b /\ SubSeq(a \o b, 1, Len(a)) = a
<1>1. /\ a \o b \in Seq(Bytes) /\ Len(a \o b) = Len(a) + Len(b)
      /\ \A i \in 1..(Len(a) + Len(b)) : (a \o b)[i] = IF i <= Len(a) THEN a[i] ELSE b[i - Len(a)]
      /\ Len(a) \in Nat /\ Len(b) \in Nat
  BY ConcatProperties
<1>2. Drop(a \o b, Len(a)) = b
  <2>1. Len(a) \in 0..Len(a \o b)
    BY <1>1
  <2>2. /\ Drop(a \o b, Len(a)) \in Seq(Bytes) /\ Len(Drop(a \o b, Len(a))) = Len(b)
        /\ \A i \in 1..Len(b) : Drop(a \o b, Len(a))[i] = (a \o b)[Len(a) + i]
    <3> SUFFICES ASSUME NEW c, c = a \o b
                 PROVE  /\ Drop(c, Len(a)) \in Seq(Bytes) /\ Len(Drop(c, Len(a))) = Len(b)
                        /\ \A i \in 1..Len(b) : Drop(c, Len(a))[i] = c[Len(a) + i]
      OBVIOUS
    <3>1. c \in Seq(Bytes) /\ Len(a) \in 0..Len(c) /\ Len(c) - Len(a) = Len(b)
      BY <1>1
    <3> QED
      BY <3>1, DropOf
  <2>3. \A i \in 1..Len(b) : (a \o b)[Len(a) + i] = b[i]
    BY <1>1
  <2> QED
    BY <2>2, <2>3, SeqEqual
<1>3. SubSeq(a \o b, 1, Len(a)) = a
  <2>1. \A i \in 1..Len(a) : (a \o b)[i] = a[i] /\ a[i] \in Bytes
    BY <1>1, ElementOfSeq
  <2>2. /\ SubSeq(a \o b, 1, Len(a)) \in Seq(Bytes)
        /\ Len(SubSeq(a \o b, 1, Len(a))) = IF 1 <= Len(a) THEN Len(a) - 1 + 1 ELSE 0
        /\ \A i \in 1..(Len(a) - 1 + 1) : SubSeq(a \o b, 1, Len(a))[i] = (a \o b)[1 + i - 1]
    BY <1>1, <2>1, SubSeqProperties
  <2>3. Len(SubSeq(a \o b, 1, Len(a))) = Len(a)
    BY <1>1, <2>2
  <2>4. ASSUME NEW i \in 1..Len(a) PROVE SubSeq(a \o b, 1, Len(a))[i] = a[i]
    <3>1. i \in 1..(Len(a) - 1 + 1) /\ 1 + i - 1 = i
      BY <1>1
    <3> QED
      BY <2>1, <2>2, <3>1
  <2> QED
    BY <2>2, <2>3, <2>4, SeqEqual
<1> QED
  BY <1>2, <1>3

\* What is searched for is there from this byte on.
At(s, sep, i) == i - 1 + Len(sep) <= Len(s) /\ \A j \in 1..Len(sep) : s[i - 1 + j] = sep[j]

\* A prefix of what is left is there.
LEMMA PrefixAt ==
  ASSUME NEW s \in Seq(Bytes), NEW sep \in Seq(Bytes), NEW i \in 1..Len(s)
  PROVE  IsPrefix(sep, Drop(s, i - 1)) <=> At(s, sep, i)
<1> DEFINE rest == Drop(s, i - 1)
<1>1. Len(s) \in Nat /\ Len(sep) \in Nat /\ i - 1 \in 0..Len(s)
  OBVIOUS
<1>2. /\ rest \in Seq(Bytes) /\ Len(rest) = Len(s) - (i - 1)
      /\ \A j \in 1..(Len(s) - (i - 1)) : rest[j] = s[i - 1 + j]
  BY <1>1, DropOf
<1> HIDE DEF rest
<1>3. IsPrefix(sep, rest) <=>
        Len(sep) <= Len(rest) /\ SubSeq(sep, 1, Len(sep)) = SubSeq(rest, 1, Len(sep))
  BY DEF IsPrefix
<1>4. SubSeq(sep, 1, Len(sep)) = sep
  BY SubSeqFull
<1>5. ASSUME Len(sep) <= Len(rest)
      PROVE  sep = SubSeq(rest, 1, Len(sep)) <=> \A j \in 1..Len(sep) : rest[j] = sep[j]
  <2>1. \A j \in 1..Len(sep) : rest[j] \in Bytes
    BY <1>1, <1>2, <1>5, ElementOfSeq
  <2>2. /\ SubSeq(rest, 1, Len(sep)) \in Seq(Bytes)
        /\ Len(SubSeq(rest, 1, Len(sep))) = IF 1 <= Len(sep) THEN Len(sep) - 1 + 1 ELSE 0
        /\ \A j \in 1..(Len(sep) - 1 + 1) : SubSeq(rest, 1, Len(sep))[j] = rest[1 + j - 1]
    BY <1>1, <2>1, SubSeqProperties
  <2>3. Len(SubSeq(rest, 1, Len(sep))) = Len(sep)
    BY <1>1, <2>2
  <2>4. ASSUME NEW j \in 1..Len(sep) PROVE SubSeq(rest, 1, Len(sep))[j] = rest[j]
    <3>1. j \in 1..(Len(sep) - 1 + 1) /\ 1 + j - 1 = j
      BY <1>1
    <3> QED
      BY <2>2, <3>1
  <2> HIDE DEF rest
  <2>5. (\A j \in 1..Len(sep) : SubSeq(rest, 1, Len(sep))[j] = sep[j]) => SubSeq(rest, 1, Len(sep)) = sep
    BY <2>2, <2>3, SeqEqual
  <2> QED
    BY <2>4, <2>5
<1>6. Len(sep) <= Len(rest) => \A j \in 1..Len(sep) : rest[j] = s[i - 1 + j]
  BY <1>1, <1>2
<1>7. Len(sep) <= Len(rest) <=> i - 1 + Len(sep) <= Len(s)
  BY <1>1, <1>2
<1>8. IsPrefix(sep, rest) <=> At(s, sep, i)
  BY <1>3, <1>4, <1>5, <1>6, <1>7 DEF At
<1> QED
  BY <1>8 DEF rest

\* The places where it is, and what the index has to do with them.
LEMMA IndexOf ==
  ASSUME NEW s \in Seq(Bytes), NEW sep \in Seq(Bytes)
  PROVE  /\ Index(s, sep) = 0 <=> \A i \in 1..Len(s) : ~At(s, sep, i)
         /\ \A n \in 1..Len(s) :
              At(s, sep, n) /\ (\A i \in 1..(n - 1) : ~At(s, sep, i)) => Index(s, sep) = n
<1> DEFINE B == [i \in 1..Len(s) |-> IsPrefix(sep, Drop(s, i - 1))]
           I == {i \in 1..Len(s) : B[i]}
<1>1. Index(s, sep) = IF I # {} THEN Min(I) ELSE 0
  BY Zenon DEF Index, SelectInSubSeq
<1>2. \A i \in 1..Len(s) : i \in I <=> IsPrefix(sep, Drop(s, i - 1))
  BY Zenon
<1>3. \A i \in 1..Len(s) : i \in I <=> At(s, sep, i)
  BY <1>2, PrefixAt
<1>4. I \subseteq 1..Len(s) /\ Len(s) \in Nat
  OBVIOUS
<1> HIDE DEF I, B
<1>5. I # {} => Min(I) \in I
  <2>1. I \subseteq Nat
    BY <1>4
  <2> QED
    BY <2>1, Least
<1>6. Index(s, sep) = 0 <=> \A i \in 1..Len(s) : ~At(s, sep, i)
  <2>1. CASE I = {}
    BY <1>1, <1>3, <2>1
  <2>2. CASE I # {}
    <3>1. Index(s, sep) \in I /\ Index(s, sep) \in 1..Len(s)
      BY <1>1, <1>4, <1>5, <2>2
    <3> QED
      BY <1>3, <3>1
  <2> QED
    BY <2>1, <2>2
<1>7. ASSUME NEW n \in 1..Len(s), At(s, sep, n), \A i \in 1..(n - 1) : ~At(s, sep, i)
      PROVE  Index(s, sep) = n
  <2>1. n \in I /\ \A i \in I : n <= i
    BY <1>3, <1>4, <1>7
  <2>2. \A y \in I : Min(I) <= y
    <3>1. \E x \in I : \A y \in I : x <= y
      BY <2>1
    <3> QED
      BY <3>1, Zenon DEF Min
  <2>3. Min(I) \in I /\ Min(I) = n
    <3>1. Min(I) \in I
      BY <1>5, <2>1
    <3>2. n <= Min(I) /\ Min(I) <= n
      BY <2>1, <2>2, <3>1
    <3>3. Min(I) \in Nat /\ n \in Nat
      <4>1. Min(I) \in 1..Len(s)
        BY <1>4, <3>1, Zenon
      <4> QED
        BY <4>1
    <3> QED
      BY <3>1, <3>2, <3>3
  <2> QED
    BY <1>1, <2>1, <2>3
<1> QED
  BY <1>6, <1>7

\* The same where a text begins.
LEMMA PrefixHere ==
  ASSUME NEW s \in Seq(Bytes), NEW sep \in Seq(Bytes), s # <<>>
  PROVE  IsPrefix(sep, s) <=> At(s, sep, 1)
<1>1. 1 \in 1..Len(s)
  BY EmptySeq
<1>2. Drop(s, 1 - 1) = s
  <2>1. 1 - 1 + 1 = 1
    OBVIOUS
  <2> QED
    BY <2>1, SubSeqFull DEF Drop
<1> QED
  BY <1>1, <1>2, PrefixAt

\* What the parsers search for.
LEMMA Separators ==
  ASSUME NEW s \in Seq(Bytes), NEW i \in 1..Len(s)
  PROVE  /\ At(s, <<"n">>, i) <=> s[i] = "n"
         /\ At(s, <<"n", "n">>, i) <=> i + 1 <= Len(s) /\ s[i] = "n" /\ s[i + 1] = "n"
         /\ At(s, <<"r", "n">>, i) <=> i + 1 <= Len(s) /\ s[i] = "r" /\ s[i + 1] = "n"
         /\ At(s, <<"r", "n", "r", "n">>, i) <=>
              /\ i + 3 <= Len(s) /\ s[i] = "r" /\ s[i + 1] = "n"
              /\ s[i + 2] = "r" /\ s[i + 3] = "n"
<1>1. At(s, <<"n">>, i) <=> s[i] = "n"
  <2>1. Len(<<"n">>) = 1 /\ <<"n">>[1] = "n" /\ 1..1 = {1} /\ i - 1 + 1 = i /\ i <= Len(s)
    OBVIOUS
  <2> QED
    BY <2>1, Zenon DEF At
<1>2. \A x, y : At(s, <<x, y>>, i) <=> i + 1 <= Len(s) /\ s[i] = x /\ s[i + 1] = y
  <2> SUFFICES ASSUME NEW x, NEW y
               PROVE  At(s, <<x, y>>, i) <=> i + 1 <= Len(s) /\ s[i] = x /\ s[i + 1] = y
    OBVIOUS
  <2>1. /\ Len(<<x, y>>) = 2 /\ <<x, y>>[1] = x /\ <<x, y>>[2] = y /\ 1..2 = {1, 2}
        /\ i - 1 + 1 = i /\ i - 1 + 2 = i + 1
    OBVIOUS
  <2> QED
    BY <2>1, Zenon DEF At
<1>3. At(s, <<"r", "n", "r", "n">>, i) <=>
        /\ i + 3 <= Len(s) /\ s[i] = "r" /\ s[i + 1] = "n"
        /\ s[i + 2] = "r" /\ s[i + 3] = "n"
  <2> DEFINE t == <<"r", "n", "r", "n">>
  <2>1. /\ Len(t) = 4 /\ t[1] = "r" /\ t[2] = "n" /\ t[3] = "r" /\ t[4] = "n"
        /\ 1..4 = {1, 2, 3, 4}
        /\ i - 1 + 1 = i /\ i - 1 + 2 = i + 1 /\ i - 1 + 3 = i + 2 /\ i - 1 + 4 = i + 3
    OBVIOUS
  <2> HIDE DEF t
  <2>2. At(s, t, i) <=>
          /\ i + 3 <= Len(s) /\ s[i] = "r" /\ s[i + 1] = "n"
          /\ s[i + 2] = "r" /\ s[i + 3] = "n"
    BY <2>1, Zenon DEF At
  <2> QED
    BY <2>2 DEF t
<1> QED
  BY <1>1, <1>2, <1>3

-----------------------------------------------------------------------------
\* Where the caption ends.
Blank(rest) ==
  IF IsPrefix(<<"r", "n">>, rest) THEN [at |-> 1, length |-> 2]
  ELSE IF IsPrefix(<<"n">>, rest) THEN [at |-> 1, length |-> 1]
  ELSE CaptionEnds(rest)

Associates(x, y, z) == x \o (y \o z) = (x \o y) \o z

\* Three texts one after the other.
LEMMA Associative ==
  ASSUME NEW x \in Seq(Bytes), NEW y \in Seq(Bytes), NEW z \in Seq(Bytes)
  PROVE  x \o (y \o z) = (x \o y) \o z
<1>1. /\ y \o z \in Seq(Bytes) /\ Len(y \o z) = Len(y) + Len(z)
      /\ \A i \in 1..(Len(y) + Len(z)) : (y \o z)[i] = IF i <= Len(y) THEN y[i] ELSE z[i - Len(y)]
  BY ConcatProperties
<1>2. /\ x \o y \in Seq(Bytes) /\ Len(x \o y) = Len(x) + Len(y)
      /\ \A i \in 1..(Len(x) + Len(y)) : (x \o y)[i] = IF i <= Len(x) THEN x[i] ELSE y[i - Len(x)]
  BY ConcatProperties
<1>3. PICK v : v = y \o z
  OBVIOUS
<1>4. PICK w : w = x \o y
  OBVIOUS
<1>5. /\ x \o v \in Seq(Bytes) /\ Len(x \o v) = Len(x) + Len(v)
      /\ \A i \in 1..(Len(x) + Len(v)) : (x \o v)[i] = IF i <= Len(x) THEN x[i] ELSE v[i - Len(x)]
  BY <1>1, <1>3, ConcatProperties
<1>6. /\ w \o z \in Seq(Bytes) /\ Len(w \o z) = Len(w) + Len(z)
      /\ \A i \in 1..(Len(w) + Len(z)) : (w \o z)[i] = IF i <= Len(w) THEN w[i] ELSE z[i - Len(w)]
  BY <1>2, <1>4, ConcatProperties
<1>7. Len(x) \in Nat /\ Len(y) \in Nat /\ Len(z) \in Nat
  OBVIOUS
<1>8. Len(x \o v) = Len(w \o z) /\ Len(x \o v) = Len(x) + Len(y) + Len(z)
  BY <1>1, <1>2, <1>3, <1>4, <1>5, <1>6, <1>7
<1>9. ASSUME NEW i \in 1..Len(x \o v) PROVE (x \o v)[i] = (w \o z)[i]
  <2>1. i \in 1..(Len(x) + Len(v)) /\ i \in 1..(Len(w) + Len(z))
    BY <1>5, <1>6, <1>8
  <2>2. (x \o v)[i] = IF i <= Len(x) THEN x[i] ELSE v[i - Len(x)]
    BY <1>5, <2>1
  <2>3. (w \o z)[i] = IF i <= Len(w) THEN w[i] ELSE z[i - Len(w)]
    BY <1>6, <2>1
  <2>4. CASE i <= Len(x)
    <3>1. i \in 1..(Len(x) + Len(y)) /\ i <= Len(w)
      BY <1>2, <1>4, <1>7, <2>4
    <3>2. w[i] = x[i]
      BY <1>2, <1>4, <2>4, <3>1
    <3> QED
      BY <2>2, <2>3, <2>4, <3>1, <3>2
  <2>5. CASE Len(x) < i /\ i <= Len(x) + Len(y)
    <3>1. /\ i \in 1..(Len(x) + Len(y)) /\ i <= Len(w) /\ ~(i <= Len(x))
          /\ i - Len(x) \in 1..(Len(y) + Len(z)) /\ i - Len(x) <= Len(y)
      BY <1>2, <1>4, <1>7, <2>5
    <3>2. w[i] = y[i - Len(x)] /\ v[i - Len(x)] = y[i - Len(x)]
      BY <1>1, <1>2, <1>3, <1>4, <3>1
    <3> QED
      BY <2>2, <2>3, <3>1, <3>2
  <2>6. CASE Len(x) + Len(y) < i
    <3>1. /\ ~(i <= Len(x)) /\ ~(i <= Len(w)) /\ i - Len(w) = i - Len(x) - Len(y)
          /\ i - Len(x) \in 1..(Len(y) + Len(z)) /\ ~(i - Len(x) <= Len(y))
      BY <1>2, <1>4, <1>7, <1>8, <2>6
    <3>2. v[i - Len(x)] = z[i - Len(x) - Len(y)]
      BY <1>1, <1>3, <3>1
    <3> QED
      BY <2>2, <2>3, <3>1, <3>2
  <2> QED
    <3>1. i \in Nat
      BY <1>7, <1>8
    <3>2. i <= Len(x) \/ (Len(x) < i /\ i <= Len(x) + Len(y)) \/ Len(x) + Len(y) < i
      BY <1>7, <3>1
    <3> QED
      BY <2>4, <2>5, <2>6, <3>2
<1>10. x \o v = w \o z
  BY <1>5, <1>6, <1>8, <1>9, SeqEqual
<1> QED
  BY <1>3, <1>4, <1>10

\* What is before the blank line is the caption, and what is after it is the data.
LEMMA FramedSplits ==
  ASSUME NEW head \in Seq(Bytes), NEW c \in Seq(Bytes), NEW sep \in Seq(Bytes), NEW d \in Seq(Bytes),
         Index(head \o (c \o (sep \o d)), <<"n">>) = Len(head),
         Blank(c \o (sep \o d)) = [at |-> Len(c) + 1, length |-> Len(sep)],
         ParseFramed(head \o (c \o (sep \o d))).ok
  PROVE  /\ ParseFramed(head \o (c \o (sep \o d))).content = c
         /\ ParseFramed(head \o (c \o (sep \o d))).data = d
<1> DEFINE rest == c \o (sep \o d)
           s == head \o rest
<1>1. rest \in Seq(Bytes) /\ s \in Seq(Bytes) /\ sep \o d \in Seq(Bytes) /\ c \o sep \in Seq(Bytes)
  BY ConcatProperties
<1>2. Drop(s, Index(s, <<"n">>)) = rest
  <2>1. Index(s, <<"n">>) = Len(head)
    OBVIOUS
  <2> HIDE DEF rest
  <2>2. Drop(head \o rest, Len(head)) = rest
    BY <1>1, Halves
  <2> QED
    BY <2>1, <2>2, Zenon
<1>3. rest = (c \o sep) \o d
  BY Associative, ZenonT(30)
<1>4. Len(c \o sep) = Len(c) + Len(sep) /\ Len(c) \in Nat /\ Len(sep) \in Nat
  BY ConcatProperties, LenProperties
<1>5. SubSeq(rest, 1, Blank(rest).at - 1) = c
  <2>1. Blank(rest).at - 1 = Len(c)
    BY <1>4
  <2> QED
    BY <1>1, <2>1, Halves
<1>6. Drop(rest, Blank(rest).at + Blank(rest).length - 1) = d
  <2>1. Blank(rest).at + Blank(rest).length - 1 = Len(c \o sep)
    BY <1>4
  <2> QED
    <3>1. Drop((c \o sep) \o d, Len(c \o sep)) = d
      BY <1>1, Halves, Zenon
    <3> QED
      BY <1>3, <2>1, <3>1, Zenon
<1> HIDE DEF s, rest
<1>7. ParseFramed(s) = Malformed \/ ParseFramed(s) = Payload(c, d)
  BY <1>2, <1>5, <1>6, Zenon DEF ParseFramed, Blank
<1>8. ~Malformed.ok
  BY DEF Malformed
<1>9. ParseFramed(s) = [ok |-> TRUE, content |-> c, data |-> d]
  BY <1>7, <1>8 DEF Payload, s, rest
<1> QED
  BY <1>9 DEF s, rest

\* The bytes of three texts one after the other.
LEMMA BytesOf ==
  ASSUME NEW c \in Seq(Bytes), NEW sep \in Seq(Bytes), NEW d \in Seq(Bytes), NEW t, t = c \o (sep \o d)
  PROVE  /\ t \in Seq(Bytes) /\ Len(t) = Len(c) + Len(sep) + Len(d)
         /\ Len(c) \in Nat /\ Len(sep) \in Nat /\ Len(d) \in Nat
         /\ \A i \in 1..Len(c) : t[i] = c[i]
         /\ \A i \in 1..Len(sep) : t[Len(c) + i] = sep[i]
         /\ \A i \in 1..Len(d) : t[Len(c) + Len(sep) + i] = d[i]
<1>1. PICK v : v = sep \o d
  OBVIOUS
<1>2. /\ v \in Seq(Bytes) /\ Len(v) = Len(sep) + Len(d)
      /\ \A i \in 1..(Len(sep) + Len(d)) : v[i] = IF i <= Len(sep) THEN sep[i] ELSE d[i - Len(sep)]
  BY <1>1, ConcatProperties
<1>3. /\ t \in Seq(Bytes) /\ Len(t) = Len(c) + Len(v)
      /\ \A i \in 1..(Len(c) + Len(v)) : t[i] = IF i <= Len(c) THEN c[i] ELSE v[i - Len(c)]
  BY <1>1, <1>2, ConcatProperties
<1>4. Len(c) \in Nat /\ Len(sep) \in Nat /\ Len(d) \in Nat
  OBVIOUS
<1>5. ASSUME NEW i \in 1..Len(c) PROVE t[i] = c[i]
  <2>1. i \in 1..(Len(c) + Len(v)) /\ i <= Len(c)
    BY <1>2, <1>4
  <2> QED
    BY <1>3, <2>1
<1>6. ASSUME NEW i \in 1..Len(sep) PROVE t[Len(c) + i] = sep[i]
  <2>1. /\ Len(c) + i \in 1..(Len(c) + Len(v)) /\ ~(Len(c) + i <= Len(c)) /\ Len(c) + i - Len(c) = i
        /\ i \in 1..(Len(sep) + Len(d)) /\ i <= Len(sep)
    BY <1>2, <1>4
  <2>2. PICK k : k = Len(c) + i
    OBVIOUS
  <2>3. k \in 1..(Len(c) + Len(v)) /\ ~(k <= Len(c)) /\ k - Len(c) = i
    BY <2>1, <2>2
  <2>4. t[k] = v[i]
    BY <1>3, <2>3
  <2>5. v[i] = sep[i]
    BY <1>2, <2>1
  <2> QED
    BY <2>2, <2>4, <2>5
<1>7. ASSUME NEW i \in 1..Len(d) PROVE t[Len(c) + Len(sep) + i] = d[i]
  <2>1. /\ Len(c) + Len(sep) + i \in 1..(Len(c) + Len(v)) /\ ~(Len(c) + Len(sep) + i <= Len(c))
        /\ Len(c) + Len(sep) + i - Len(c) = Len(sep) + i
        /\ Len(sep) + i \in 1..(Len(sep) + Len(d)) /\ ~(Len(sep) + i <= Len(sep))
        /\ Len(sep) + i - Len(sep) = i
    BY <1>2, <1>4
  <2>2. t[Len(c) + Len(sep) + i] = v[Len(sep) + i]
    BY <1>3, <2>1
  <2> QED
    BY <1>2, <2>1, <2>2
<1>8. t \in Seq(Bytes) /\ Len(t) = Len(c) + Len(sep) + Len(d)
  BY <1>2, <1>3, <1>4
<1> QED
  BY <1>4, <1>5, <1>6, <1>7, <1>8, Zenon

\* What the parsers search for is text.
LEMMA SeparatorTypes ==
  /\ <<"n">> \in Seq(Bytes) /\ <<"r", "n">> \in Seq(Bytes) /\ <<"n", "n">> \in Seq(Bytes)
  /\ <<"r", "n", "r", "n">> \in Seq(Bytes)
  /\ <<"!">> \in Seq(Bytes) /\ <<"7">> \in Seq(Bytes)
  /\ <<"n">> \o <<"n">> = <<"n", "n">>
  /\ <<"r", "n">> \o <<"r", "n">> = <<"r", "n", "r", "n">>
<1>1. "n" \in Bytes /\ "r" \in Bytes /\ "!" \in Bytes /\ "7" \in Bytes
  BY DEF Bytes
<1>2. /\ <<"n">> \in Seq(Bytes) /\ <<"r", "n">> \in Seq(Bytes) /\ <<"n", "n">> \in Seq(Bytes)
      /\ <<"!">> \in Seq(Bytes) /\ <<"7">> \in Seq(Bytes)
  BY <1>1
<1>3. <<"r", "n", "r", "n">> \in Seq(Bytes)
  BY <1>1
<1>4. <<"n">> \o <<"n">> = <<"n", "n">>
  <2>1. PICK t : t = <<"n">> \o <<"n">>
    OBVIOUS
  <2>2. t \in Seq(Bytes) /\ Len(t) = 2 /\ t[1] = "n" /\ t[2] = "n"
    BY <1>2, <2>1, ConcatProperties
  <2>3. \A i \in 1..2 : t[i] = <<"n", "n">>[i]
    BY <2>2
  <2>4. Len(<<"n", "n">>) = 2
    OBVIOUS
  <2>5. t = <<"n", "n">>
    BY <1>2, <2>2, <2>3, <2>4, SeqEqual
  <2> QED
    BY <2>1, <2>5
<1>5. <<"r", "n">> \o <<"r", "n">> = <<"r", "n", "r", "n">>
  <2>1. PICK t : t = <<"r", "n">> \o <<"r", "n">>
    OBVIOUS
  <2>2. t \in Seq(Bytes) /\ Len(t) = 4 /\ t[1] = "r" /\ t[2] = "n" /\ t[3] = "r" /\ t[4] = "n"
    BY <1>2, <2>1, ConcatProperties
  <2>3. \A i \in 1..4 : t[i] = <<"r", "n", "r", "n">>[i]
    BY <2>2
  <2>4. Len(<<"r", "n", "r", "n">>) = 4
    OBVIOUS
  <2>5. t = <<"r", "n", "r", "n">>
    BY <1>3, <2>2, <2>3, <2>4, SeqEqual
  <2> QED
    BY <2>1, <2>5
<1> QED
  BY <1>2, <1>3, <1>4, <1>5

\* Without a caption the blank line is the first.
LEMMA BlankFirst ==
  ASSUME NEW d \in Seq(Bytes), NEW b \in {<<"n">>, <<"r", "n">>}
  PROVE  Blank(<<>> \o (b \o d)) = [at |-> Len(<<>>) + 1, length |-> Len(b)]
<1>1. PICK t : t = <<>> \o (b \o d)
  OBVIOUS
<1>2. <<>> \in Seq(Bytes) /\ Len(<<>>) = 0 /\ b \in Seq(Bytes)
  BY EmptySeq, SeparatorTypes
<1>3. /\ t \in Seq(Bytes) /\ Len(t) = Len(b) + Len(d) /\ Len(d) \in Nat
      /\ \A i \in 1..Len(b) : t[i] = b[i]
  BY <1>1, <1>2, BytesOf
<1>4. <<"r", "n">> \in Seq(Bytes) /\ <<"n">> \in Seq(Bytes)
  BY SeparatorTypes
<1>5. CASE b = <<"n">>
  <2>1. Len(b) = 1 /\ t[1] = "n" /\ 1 \in 1..Len(t) /\ t # <<>>
    BY <1>3, <1>5
  <2>2. At(t, <<"n">>, 1) /\ ~At(t, <<"r", "n">>, 1)
    BY <1>3, <2>1, Separators
  <2>3. IsPrefix(<<"n">>, t) /\ ~IsPrefix(<<"r", "n">>, t)
    BY <1>3, <1>4, <2>1, <2>2, PrefixHere
  <2> QED
    BY <1>1, <1>2, <2>1, <2>3 DEF Blank
<1>6. CASE b = <<"r", "n">>
  <2>1. Len(b) = 2 /\ t[1] = "r" /\ t[2] = "n" /\ 1 \in 1..Len(t) /\ 1 + 1 <= Len(t) /\ t # <<>>
    BY <1>3, <1>6
  <2>2. At(t, <<"r", "n">>, 1)
    BY <1>3, <2>1, Separators
  <2>3. IsPrefix(<<"r", "n">>, t)
    BY <1>3, <1>4, <2>1, <2>2, PrefixHere
  <2> QED
    BY <1>1, <1>2, <2>1, <2>3 DEF Blank
<1> QED
  BY <1>5, <1>6

\* A caption with lines of LF ends where it should...
LEMMA BlankAfterLF ==
  ASSUME NEW c \in Seq(Bytes), c # <<>>, NEW d \in Seq(Bytes),
         Index(<<"n">> \o c \o <<"n">>, <<"n">> \o <<"n">>) = 0,
         \A i \in 1..Len(c) : c[i] # "r", Index(d, <<"r", "n", "r", "n">>) = 0
  PROVE  Blank(c \o (<<"n", "n">> \o d)) = [at |-> Len(c) + 1, length |-> 2]
<1> DEFINE lf == <<"n", "n">>
           crlf == <<"r", "n", "r", "n">>
<1>1. /\ <<"n">> \in Seq(Bytes) /\ <<"r", "n">> \in Seq(Bytes) /\ lf \in Seq(Bytes) /\ crlf \in Seq(Bytes)
      /\ Len(<<"n">>) = 1 /\ Len(lf) = 2 /\ lf[1] = "n" /\ lf[2] = "n" /\ <<"n">>[1] = "n"
      /\ <<"n">> \o <<"n">> = lf
  BY SeparatorTypes
<1>2. Len(c) \in Nat /\ Len(c) >= 1
  BY EmptySeq
<1>3. /\ c[1] # "n" /\ c[Len(c)] # "n"
      /\ \A i \in 1..(Len(c) - 1) : ~(c[i] = "n" /\ c[i + 1] = "n")
  <2>1. PICK t : t = <<"n">> \o (c \o <<"n">>)
    OBVIOUS
  <2>2. t = <<"n">> \o c \o <<"n">>
    BY <1>1, <2>1, Associative
  <2>3. /\ t \in Seq(Bytes) /\ Len(t) = Len(c) + 2
        /\ \A i \in 1..1 : t[i] = <<"n">>[i]
        /\ \A i \in 1..Len(c) : t[1 + i] = c[i]
        /\ \A i \in 1..1 : t[1 + Len(c) + i] = <<"n">>[i]
    BY <1>1, <1>2, <2>1, BytesOf
  <2>4. t[1] = "n" /\ t[Len(c) + 2] = "n"
    <3>1. 1 \in 1..1 /\ 1 + Len(c) + 1 = Len(c) + 2
      BY <1>2
    <3> QED
      BY <1>1, <2>3, <3>1
  <2>5. \A i \in 1..Len(t) : ~At(t, lf, i)
    BY <1>1, <2>2, <2>3, IndexOf
  <2>6. \A i \in 1..(Len(c) + 1) : ~(t[i] = "n" /\ t[i + 1] = "n")
    BY <1>2, <2>3, <2>5, Separators
  <2>7. c[1] # "n"
    BY <1>2, <2>3, <2>4, <2>6
  <2>8. c[Len(c)] # "n"
    <3>1. t[Len(c) + 1] = c[Len(c)]
      BY <1>2, <2>3, SMTT(20)
    <3> QED
      BY <1>2, <2>4, <2>6, <3>1
  <2>9. ASSUME NEW i \in 1..(Len(c) - 1) PROVE ~(c[i] = "n" /\ c[i + 1] = "n")
    <3>1. t[i + 1] = c[i] /\ t[i + 2] = c[i + 1] /\ i + 1 \in 1..(Len(c) + 1)
      BY <1>2, <2>3
    <3> QED
      BY <1>2, <2>6, <3>1
  <2> QED
    BY <2>7, <2>8, <2>9
<1>4. PICK t : t = c \o (lf \o d)
  OBVIOUS
<1>5. /\ t \in Seq(Bytes) /\ Len(t) = Len(c) + 2 + Len(d) /\ Len(d) \in Nat
      /\ \A i \in 1..Len(c) : t[i] = c[i]
      /\ \A i \in 1..2 : t[Len(c) + i] = lf[i]
      /\ \A i \in 1..Len(d) : t[Len(c) + 2 + i] = d[i]
  BY <1>1, <1>4, BytesOf
<1>6. t[Len(c) + 1] = "n" /\ t[Len(c) + 2] = "n"
  BY <1>1, <1>5
<1> HIDE DEF lf, crlf
<1>7. t # <<>> /\ 1 \in 1..Len(t) /\ t[1] = c[1] /\ c[1] # "r"
  BY <1>2, <1>5
<1>8. ~IsPrefix(<<"r", "n">>, t) /\ ~IsPrefix(<<"n">>, t)
  BY <1>1, <1>3, <1>5, <1>7, PrefixHere, Separators, ZenonT(30)
<1>9. Index(t, crlf) = 0
  <2>1. ASSUME NEW i \in 1..Len(t), At(t, crlf, i) PROVE FALSE
    <3>1. i + 3 <= Len(t) /\ t[i] = "r" /\ t[i + 1] = "n" /\ t[i + 2] = "r" /\ t[i + 3] = "n"
      BY <1>5, <2>1, Separators DEF crlf
    <3>2. ~(i <= Len(c) + 2)
      <4>1. i <= Len(c) => t[i] = c[i] /\ c[i] # "r"
        BY <1>5
      <4>2. i = Len(c) + 1 \/ i = Len(c) + 2 => t[i] = "n"
        BY <1>6
      <4>3. i <= Len(c) + 2 => i <= Len(c) \/ i = Len(c) + 1 \/ i = Len(c) + 2
        BY <1>2
      <4> QED
        BY <3>1, <4>1, <4>2, <4>3
    <3>3. PICK j \in 1..Len(d) : i = Len(c) + 2 + j
      <4>1. i - (Len(c) + 2) \in 1..Len(d) /\ i = Len(c) + 2 + (i - (Len(c) + 2))
        BY <1>2, <1>5, <3>1, <3>2
      <4> QED
        BY <4>1
    <3>4. j + 1 \in 1..Len(d) /\ j + 2 \in 1..Len(d) /\ j + 3 \in 1..Len(d)
      BY <1>2, <1>5, <3>1, <3>3
    <3>5. /\ t[Len(c) + 2 + j] = d[j] /\ t[Len(c) + 2 + (j + 1)] = d[j + 1]
          /\ t[Len(c) + 2 + (j + 2)] = d[j + 2] /\ t[Len(c) + 2 + (j + 3)] = d[j + 3]
      BY <1>5, <3>3, <3>4
    <3>6. /\ Len(c) + 2 + j = i /\ Len(c) + 2 + (j + 1) = i + 1
          /\ Len(c) + 2 + (j + 2) = i + 2 /\ Len(c) + 2 + (j + 3) = i + 3
      BY <1>2, <3>3
    <3>7. d[j] = "r" /\ d[j + 1] = "n" /\ d[j + 2] = "r" /\ d[j + 3] = "n"
      BY <3>1, <3>5, <3>6
    <3>8. At(d, crlf, j)
      BY <3>4, <3>7, Separators DEF crlf
    <3> QED
      BY <1>1, <3>8, IndexOf DEF crlf
  <2> QED
    BY <1>1, <1>5, <2>1, IndexOf
<1>10. Index(t, lf) = Len(c) + 1
  <2>1. Len(c) + 1 \in 1..Len(t) /\ Len(c) + 1 + 1 <= Len(t) /\ Len(c) + 1 + 1 = Len(c) + 2
    BY <1>2, <1>5
  <2>2. At(t, lf, Len(c) + 1)
    BY <1>5, <1>6, <2>1, Separators DEF lf
  <2>3. ASSUME NEW i \in 1..(Len(c) + 1 - 1) PROVE ~At(t, lf, i)
    <3>1. i \in 1..Len(c) /\ i \in 1..Len(t)
      BY <1>2, <1>5
    <3>2. ~(t[i] = "n" /\ t[i + 1] = "n")
      <4>1. CASE i = Len(c)
        BY <1>3, <1>5, <3>1, <4>1
      <4>2. CASE i # Len(c)
        <5>1. i \in 1..(Len(c) - 1) /\ i + 1 \in 1..Len(c)
          BY <1>2, <3>1, <4>2
        <5> QED
          BY <1>3, <1>5, <3>1, <5>1
      <4> QED
        BY <4>1, <4>2
    <3> QED
      BY <1>5, <3>1, <3>2, Separators DEF lf
  <2> QED
    BY <1>1, <1>5, <2>1, <2>2, <2>3, IndexOf
<1>11. CaptionEnds(t) = [at |-> Len(c) + 1, length |-> 2]
  <2>1. ~(Index(t, crlf) > 0)
    BY <1>9
  <2> QED
    BY <1>10, <2>1 DEF CaptionEnds, lf, crlf
<1> QED
  BY <1>4, <1>8, <1>11 DEF Blank, lf

\* ... and so does one with lines of CR LF, whatever the data is.
LEMMA BlankAfterCRLF ==
  ASSUME NEW c \in Seq(Bytes), c # <<>>, NEW d \in Seq(Bytes),
         Index(<<"r", "n">> \o c \o <<"r", "n">>, <<"r", "n">> \o <<"r", "n">>) = 0,
         Head(c) # "n"
  PROVE  Blank(c \o (<<"r", "n", "r", "n">> \o d)) = [at |-> Len(c) + 1, length |-> 4]
<1> DEFINE b == <<"r", "n">>
           crlf == <<"r", "n", "r", "n">>
<1>1. /\ <<"n">> \in Seq(Bytes) /\ b \in Seq(Bytes) /\ crlf \in Seq(Bytes) /\ b \o b = crlf
      /\ Len(b) = 2 /\ b[1] = "r" /\ b[2] = "n"
      /\ Len(crlf) = 4 /\ crlf[1] = "r" /\ crlf[2] = "n" /\ crlf[3] = "r" /\ crlf[4] = "n"
  BY SeparatorTypes
<1>2. Len(c) \in Nat /\ Len(c) >= 1 /\ c[1] # "n"
  BY EmptySeq
<1>3. PICK t : t = c \o (crlf \o d)
  OBVIOUS
<1>4. /\ t \in Seq(Bytes) /\ Len(t) = Len(c) + 4 + Len(d) /\ Len(d) \in Nat
      /\ \A i \in 1..Len(c) : t[i] = c[i]
      /\ \A i \in 1..4 : t[Len(c) + i] = crlf[i]
  BY <1>1, <1>3, BytesOf
<1>5. t[Len(c) + 1] = "r" /\ t[Len(c) + 2] = "n" /\ t[Len(c) + 3] = "r" /\ t[Len(c) + 4] = "n"
  <2>1. 1 \in 1..4 /\ 2 \in 1..4 /\ 3 \in 1..4 /\ 4 \in 1..4
    OBVIOUS
  <2> QED
    BY <1>1, <1>4, <2>1
<1>6. PICK u : u = b \o (c \o b)
  OBVIOUS
<1>7. u = b \o c \o b
  BY <1>1, <1>6, Associative, SMTT(20)
<1>8. /\ u \in Seq(Bytes) /\ Len(u) = Len(c) + 4
      /\ \A i \in 1..2 : u[i] = b[i]
      /\ \A i \in 1..Len(c) : u[2 + i] = c[i]
      /\ \A i \in 1..2 : u[2 + Len(c) + i] = b[i]
  BY <1>1, <1>2, <1>6, BytesOf
<1>9. /\ u[1] = "r" /\ u[2] = "n" /\ u[Len(c) + 3] = "r" /\ u[Len(c) + 4] = "n"
  <2>1. 1 \in 1..2 /\ 2 \in 1..2 /\ 2 + Len(c) + 1 = Len(c) + 3 /\ 2 + Len(c) + 2 = Len(c) + 4
    BY <1>2
  <2> QED
    BY <1>1, <1>8, <2>1
<1>10. \A i \in 1..Len(u) : ~At(u, crlf, i)
  BY <1>1, <1>7, <1>8, IndexOf
<1> HIDE DEF b, crlf
<1>11. \A i \in 1..(Len(c) + 1) :
         ~(u[i] = "r" /\ u[i + 1] = "n" /\ u[i + 2] = "r" /\ u[i + 3] = "n")
  <2> SUFFICES ASSUME NEW i \in 1..(Len(c) + 1)
               PROVE  ~(u[i] = "r" /\ u[i + 1] = "n" /\ u[i + 2] = "r" /\ u[i + 3] = "n")
    OBVIOUS
  <2>1. i \in 1..Len(u) /\ i + 3 <= Len(u)
    BY <1>2, <1>8
  <2> QED
    BY <1>8, <1>10, <2>1, Separators DEF crlf
<1>12. \A i \in 1..(Len(c) + 2) : u[i + 2] = t[i]
  <2> SUFFICES ASSUME NEW i \in 1..(Len(c) + 2) PROVE u[i + 2] = t[i]
    OBVIOUS
  <2>1. CASE i \in 1..Len(c)
    <3>1. 2 + i = i + 2
      BY <1>2
    <3> QED
      BY <1>4, <1>8, <2>1, <3>1
  <2>2. CASE i = Len(c) + 1
    <3>1. i + 2 = Len(c) + 3
      BY <1>2, <2>2
    <3> QED
      BY <1>5, <1>9, <2>2, <3>1
  <2>3. CASE i = Len(c) + 2
    <3>1. i + 2 = Len(c) + 4
      BY <1>2, <2>3
    <3> QED
      BY <1>5, <1>9, <2>3, <3>1
  <2> QED
    BY <1>2, <2>1, <2>2, <2>3
<1>13. t # <<>> /\ 1 \in 1..Len(t) /\ t[1] = c[1]
  BY <1>2, <1>4
<1>14. ~IsPrefix(b, t)
  <2>1. ~(t[1] = "r" /\ t[2] = "n")
    <3>1. u[3] = t[1] /\ u[4] = t[2]
      <4>1. 1 \in 1..(Len(c) + 2) /\ 2 \in 1..(Len(c) + 2) /\ 1 + 2 = 3 /\ 2 + 2 = 4
        BY <1>2
      <4> QED
        BY <1>12, <4>1
    <3>2. 1 \in 1..(Len(c) + 1) /\ 1 + 1 = 2 /\ 1 + 2 = 3 /\ 1 + 3 = 4
      BY <1>2
    <3> QED
      BY <1>9, <1>11, <3>1, <3>2
  <2>2. ~At(t, b, 1)
    BY <1>4, <1>13, <2>1, Separators, SMTT(20) DEF b
  <2> QED
    BY <1>1, <1>4, <1>13, <2>2, PrefixHere
<1>15. ~IsPrefix(<<"n">>, t)
  <2>1. t[1] # "n"
    BY <1>2, <1>13
  <2>2. ~At(t, <<"n">>, 1)
    BY <1>4, <1>13, <2>1, Separators
  <2> QED
    BY <1>1, <1>4, <1>13, <2>2, PrefixHere
<1>16. Index(t, crlf) = Len(c) + 1
  <2>1. Len(c) + 1 \in 1..Len(t) /\ Len(c) + 1 + 3 <= Len(t)
        /\ Len(c) + 1 + 1 = Len(c) + 2 /\ Len(c) + 1 + 2 = Len(c) + 3 /\ Len(c) + 1 + 3 = Len(c) + 4
    BY <1>2, <1>4
  <2>2. At(t, crlf, Len(c) + 1)
    <3>1. PICK k : k = Len(c) + 1
      OBVIOUS
    <3>2. /\ k \in 1..Len(t) /\ k + 3 <= Len(t)
          /\ k + 1 = Len(c) + 2 /\ k + 2 = Len(c) + 3 /\ k + 3 = Len(c) + 4
      BY <2>1, <3>1
    <3>3. t[k] = "r" /\ t[k + 1] = "n" /\ t[k + 2] = "r" /\ t[k + 3] = "n"
      BY <1>5, <3>1, <3>2, Zenon
    <3>4. At(t, crlf, k)
      BY <1>4, <3>2, <3>3, Separators DEF crlf
    <3> QED
      BY <3>1, <3>4
  <2>3. ASSUME NEW i \in 1..(Len(c) + 1 - 1), At(t, crlf, i) PROVE FALSE
    <3>1. i \in 1..Len(c) /\ i \in 1..Len(t)
      BY <1>2, <1>4
    <3>2. t[i] = "r" /\ t[i + 1] = "n" /\ t[i + 2] = "r" /\ t[i + 3] = "n"
      BY <1>4, <2>3, <3>1, Separators DEF crlf
    <3>3. CASE i = Len(c)
      <4>1. i + 1 = Len(c) + 1
        BY <3>3
      <4> QED
        BY <1>5, <3>2, <4>1
    <3>4. CASE i # Len(c)
      <4>1. i + 3 <= Len(c) + 2
        <5>1. CASE i = Len(c) - 1
          BY <1>2, <5>1
        <5>2. CASE i = Len(c) - 2
          BY <1>2, <5>2
        <5>3. CASE i < Len(c) - 2
          BY <1>2, <5>3
        <5> QED
          BY <1>2, <3>1, <3>4, <5>1, <5>2, <5>3
      <4>2. /\ i \in 1..(Len(c) + 2) /\ i + 1 \in 1..(Len(c) + 2)
            /\ i + 2 \in 1..(Len(c) + 2) /\ i + 3 \in 1..(Len(c) + 2)
            /\ i + 1 + 2 = i + 2 + 1 /\ i + 2 + 2 = i + 2 + 2 /\ i + 3 + 2 = i + 2 + 3
            /\ i + 2 \in 1..(Len(c) + 1)
        BY <1>2, <3>1, <4>1
      <4>3. /\ u[i + 2] = t[i] /\ u[i + 1 + 2] = t[i + 1]
            /\ u[i + 2 + 2] = t[i + 2] /\ u[i + 3 + 2] = t[i + 3]
        BY <1>12, <4>2
      <4>4. u[i + 2] = "r" /\ u[i + 2 + 1] = "n" /\ u[i + 2 + 2] = "r" /\ u[i + 2 + 3] = "n"
        BY <3>2, <4>2, <4>3
      <4> QED
        BY <1>11, <4>2, <4>4
    <3> QED
      BY <3>3, <3>4
  <2> QED
    BY <1>1, <1>4, <2>1, <2>2, <2>3, IndexOf, SMTT(20)
<1>17. CaptionEnds(t) = [at |-> Len(c) + 1, length |-> 4]
  <2>1. Index(t, crlf) > 0
    BY <1>2, <1>16
  <2> QED
    BY <1>16, <2>1 DEF CaptionEnds, crlf
<1> QED
  BY <1>3, <1>14, <1>15, <1>17 DEF Blank, crlf, b

Regroups(h, c, b, d) ==
  /\ (h \o b) \o d = h \o (b \o d)
  /\ ((h \o (c \o b)) \o b) \o d = h \o (c \o ((b \o b) \o d))

\* Five texts one after the other.
LEMMA Regrouped ==
  ASSUME NEW h \in Seq(Bytes), NEW c \in Seq(Bytes), NEW b \in Seq(Bytes), NEW d \in Seq(Bytes)
  PROVE  Regroups(h, c, b, d)
<1>1. \A x, y, z \in Seq(Bytes) : Associates(x, y, z)
  BY Associative DEF Associates
<1>2. PICK cb \in Seq(Bytes) : cb = c \o b
  BY ConcatProperties
<1>3. PICK hcb \in Seq(Bytes) : hcb = h \o cb
  BY ConcatProperties
<1>4. PICK bd \in Seq(Bytes) : bd = b \o d
  BY ConcatProperties
<1>5. /\ Associates(hcb, b, d) /\ Associates(h, cb, bd) /\ Associates(c, b, bd)
      /\ Associates(b, b, d) /\ Associates(h, b, d)
  BY <1>1
<1>6. (hcb \o b) \o d = hcb \o bd
  BY <1>4, <1>5, Zenon DEF Associates
<1>7. hcb \o bd = h \o (cb \o bd)
  BY <1>3, <1>5, Zenon DEF Associates
<1>8. cb \o bd = c \o (b \o bd)
  BY <1>2, <1>5, Zenon DEF Associates
<1>9. b \o bd = (b \o b) \o d
  BY <1>4, <1>5, Zenon DEF Associates
<1> QED
  BY <1>2, <1>3, <1>4, <1>5, <1>6, <1>7, <1>8, <1>9, Zenon DEF Associates, Regroups

\* An attachment that is written as it should be is read back: what is before the blank line is its
\* caption, and what is after it its data.
LEMMA FramedRead ==
  ASSUME NEW l \in Letter, l.style \in {"lf", "crlf"}, AttachmentWritten(l), ~Misread(l),
         ParseFramed(Framed(l)).ok
  PROVE  /\ ParseFramed(Framed(l)).content = l.caption
         /\ ParseFramed(Framed(l)).data = l.data
<1> DEFINE b == Break(l)
           head == <<"!">> \o b
           sep == IF l.caption = <<>> THEN b ELSE b \o b
<1>1. /\ l.caption \in Seq(Bytes) /\ l.data \in Seq(Bytes) /\ l.style \in {"lf", "crlf"}
      /\ <<>> \in Seq(Bytes)
  BY EmptySeq DEF Letter
<1>2. /\ b \in {<<"n">>, <<"r", "n">>}
      /\ l.style = "lf" => b = <<"n">>
      /\ l.style = "crlf" => b = <<"r", "n">>
  BY <1>1 DEF Break
<1>3. /\ b \in Seq(Bytes) /\ <<"!">> \in Seq(Bytes) /\ <<"n">> \in Seq(Bytes)
      /\ b \o b \in Seq(Bytes) /\ head \in Seq(Bytes) /\ sep \in Seq(Bytes)
      /\ b = <<"n">> => b \o b = <<"n", "n">>
      /\ b = <<"r", "n">> => b \o b = <<"r", "n", "r", "n">>
  BY <1>2, SeparatorTypes, ConcatProperties
<1>4. Regroups(head, l.caption, b, l.data)
  <2> HIDE DEF b, head
  <2>1. \A h, c, x, d \in Seq(Bytes) : Regroups(h, c, x, d)
    BY Regrouped
  <2> QED
    BY <1>1, <1>3, <2>1
<1>5. Framed(l) = head \o (l.caption \o (sep \o l.data))
  <2>0. Framed(l) = <<"!">> \o b \o (IF l.caption = <<>> THEN <<>> ELSE l.caption \o b) \o b \o l.data
    BY DEF Framed
  <2> HIDE DEF b
  <2>1. CASE l.caption = <<>>
    <3>1. Framed(l) = ((head \o <<>>) \o b) \o l.data
      BY <2>0, <2>1
    <3>2. head \o <<>> = head /\ <<>> \o (b \o l.data) = b \o l.data
      BY <1>1, <1>3, ConcatEmptySeq, ConcatProperties
    <3> HIDE DEF head
    <3>3. (head \o b) \o l.data = head \o (b \o l.data)
      BY <1>4, Zenon DEF Regroups
    <3> QED
      BY <2>1, <3>1, <3>2, <3>3
  <2>2. CASE l.caption # <<>>
    <3>1. Framed(l) = ((head \o (l.caption \o b)) \o b) \o l.data
      BY <2>0, <2>2
    <3>0. sep = b \o b
      BY <2>2
    <3> HIDE DEF head, sep
    <3>2. ((head \o (l.caption \o b)) \o b) \o l.data = head \o (l.caption \o ((b \o b) \o l.data))
      BY <1>4, Zenon DEF Regroups
    <3> QED
      BY <3>0, <3>1, <3>2
  <2> QED
    BY <2>1, <2>2
<1>6. PICK rest : rest = l.caption \o (sep \o l.data)
  OBVIOUS
<1>7. rest \in Seq(Bytes)
  BY <1>1, <1>3, <1>6, ConcatProperties
<1>8. Index(head \o rest, <<"n">>) = Len(head)
  <2>1. PICK t : t = <<"!">> \o (b \o rest)
    OBVIOUS
  <2>2. t = head \o rest
    BY <1>3, <1>7, <2>1, Associative
  <2>3. /\ t \in Seq(Bytes) /\ Len(t) = 1 + Len(b) + Len(rest) /\ Len(b) \in Nat /\ Len(rest) \in Nat
        /\ \A i \in 1..1 : t[i] = <<"!">>[i]
        /\ \A i \in 1..Len(b) : t[1 + i] = b[i]
    BY <1>3, <1>7, <2>1, BytesOf
  <2>4. Len(head) = 1 + Len(b)
    BY <1>3, ConcatProperties
  <2>5. t[1] = "!" /\ ~At(t, <<"n">>, 1)
    BY <2>3, Separators
  <2> HIDE DEF b, head
  <2>6. CASE b = <<"n">>
    <3>1. Len(b) = 1 /\ t[2] = "n" /\ 2 \in 1..Len(t) /\ 1..(2 - 1) = {1}
      BY <2>3, <2>6
    <3>2. At(t, <<"n">>, 2)
      BY <2>3, <3>1, Separators
    <3>3. \A i \in 1..(2 - 1) : ~At(t, <<"n">>, i)
      BY <2>5, <3>1, Zenon
    <3>4. Index(t, <<"n">>) = 2
      BY <1>3, <2>3, <3>1, <3>2, <3>3, IndexOf
    <3> QED
      BY <2>2, <2>4, <3>1, <3>4
  <2>7. CASE b = <<"r", "n">>
    <3>1. Len(b) = 2 /\ t[2] = "r" /\ t[3] = "n" /\ 2 \in 1..Len(t) /\ 3 \in 1..Len(t) /\ 1..(3 - 1) = {1, 2}
      BY <2>3, <2>7
    <3>2. At(t, <<"n">>, 3) /\ ~At(t, <<"n">>, 2)
      BY <2>3, <3>1, Separators
    <3>3. \A i \in 1..(3 - 1) : ~At(t, <<"n">>, i)
      BY <2>5, <3>1, <3>2, Zenon
    <3>4. Index(t, <<"n">>) = 3
      BY <1>3, <2>3, <3>1, <3>2, <3>3, IndexOf
    <3> QED
      BY <2>2, <2>4, <3>1, <3>4
  <2> QED
    BY <1>2, <2>6, <2>7
<1>9. Blank(rest) = [at |-> Len(l.caption) + 1, length |-> Len(sep)]
  <2>1. CASE l.caption = <<>>
    <3> HIDE DEF b
    <3>1. Blank(<<>> \o (b \o l.data)) = [at |-> Len(<<>>) + 1, length |-> Len(b)]
      BY <1>1, <1>2, BlankFirst
    <3> QED
      BY <1>6, <2>1, <3>1
  <2>2. CASE l.caption # <<>> /\ l.style = "lf"
    <3>1. /\ b = <<"n">> /\ sep = <<"n", "n">> /\ Len(sep) = 2
      BY <1>2, <1>3, <2>2
    <3>2. /\ Index(<<"n">> \o l.caption \o <<"n">>, <<"n">> \o <<"n">>) = 0
          /\ \A i \in 1..Len(l.caption) : l.caption[i] # "r"
      BY <2>2, <3>1 DEF AttachmentWritten
    <3>3. Index(l.data, <<"r", "n", "r", "n">>) = 0
      <4>1. Index(l.data, <<"r", "n", "r", "n">>) \in 0..Len(l.data) /\ Len(l.data) \in Nat
        BY <1>1, IndexType
      <4>2. ~(Index(l.data, <<"r", "n", "r", "n">>) > 0)
        BY <2>2 DEF Misread
      <4> QED
        BY <4>1, <4>2
    <3> HIDE DEF sep
    <3> QED
      BY <1>1, <1>6, <2>2, <3>1, <3>2, <3>3, BlankAfterLF
  <2>3. CASE l.caption # <<>> /\ l.style = "crlf"
    <3>1. /\ b = <<"r", "n">> /\ sep = <<"r", "n", "r", "n">> /\ Len(sep) = 4
      BY <1>2, <1>3, <2>3
    <3>2. /\ Index(<<"r", "n">> \o l.caption \o <<"r", "n">>, <<"r", "n">> \o <<"r", "n">>) = 0
          /\ Head(l.caption) # "n"
      BY <2>3, <3>1 DEF AttachmentWritten
    <3> HIDE DEF sep
    <3> QED
      BY <1>1, <1>6, <2>3, <3>1, <3>2, BlankAfterCRLF
  <2> QED
    BY <1>1, <2>1, <2>2, <2>3
<1> HIDE DEF b, head, sep
<1>10. /\ Index(head \o (l.caption \o (sep \o l.data)), <<"n">>) = Len(head)
       /\ Blank(l.caption \o (sep \o l.data)) = [at |-> Len(l.caption) + 1, length |-> Len(sep)]
       /\ ParseFramed(head \o (l.caption \o (sep \o l.data))).ok
  BY <1>5, <1>6, <1>8, <1>9, Zenon
<1>11. /\ ParseFramed(head \o (l.caption \o (sep \o l.data))).content = l.caption
       /\ ParseFramed(head \o (l.caption \o (sep \o l.data))).data = l.data
  <2>1. PICK c, d : c = l.caption /\ d = l.data
    OBVIOUS
  <2>2. c \in Seq(Bytes) /\ d \in Seq(Bytes) /\ head \in Seq(Bytes) /\ sep \in Seq(Bytes)
    BY <1>1, <1>3, <2>1
  <2>3. /\ Index(head \o (c \o (sep \o d)), <<"n">>) = Len(head)
        /\ Blank(c \o (sep \o d)) = [at |-> Len(c) + 1, length |-> Len(sep)]
        /\ ParseFramed(head \o (c \o (sep \o d))).ok
    BY <1>10, <2>1
  <2>4. /\ ParseFramed(head \o (c \o (sep \o d))).content = c
        /\ ParseFramed(head \o (c \o (sep \o d))).data = d
    BY <2>2, <2>3, FramedSplits
  <2> QED
    BY <2>1, <2>4
<1> QED
  BY <1>5, <1>11, Zenon

-----------------------------------------------------------------------------
\* What a parser lets through is what it read.
LEMMA PayloadRead ==
  ASSUME NEW content, NEW data, Payload(content, data).ok
  PROVE  Payload(content, data).content = content /\ Payload(content, data).data = data
<1>1. ~Malformed.ok
  BY DEF Malformed
<1>2. Payload(content, data) = [ok |-> TRUE, content |-> content, data |-> data]
  BY <1>1 DEF Payload
<1> QED
  BY <1>2

\* A text less its last byte.
LEMMA LineEnd ==
  ASSUME NEW t \in Seq(Bytes), NEW byte \in Bytes
  PROVE  /\ t \o <<byte>> \in Seq(Bytes) /\ t \o <<byte>> # <<>>
         /\ Front(t \o <<byte>>) = t /\ Last(t \o <<byte>>) = byte
<1>1. <<byte>> \in Seq(Bytes) /\ Len(<<byte>>) = 1 /\ <<byte>>[1] = byte
  OBVIOUS
<1>2. PICK s : s = t \o <<byte>>
  OBVIOUS
<1>3. s \in Seq(Bytes) /\ Len(s) = Len(t) + 1 /\ Len(t) \in Nat /\ s[Len(t) + 1] = byte
  BY <1>1, <1>2, ConcatProperties
<1>4. SubSeq(s, 1, Len(t)) = t
  BY <1>1, <1>2, Halves
<1>5. Len(s) - 1 = Len(t) /\ s # <<>>
  BY <1>3
<1> QED
  BY <1>2, <1>3, <1>4, <1>5 DEF Front, Last

\* A text, or a file, that is sent as it is, is read as it was meant.
LEMMA TextRead ==
  ASSUME NEW l \in Letter, l.file = "send", ~Misread(l), NotFramed(l), ParseSend(l.data).ok,
         \/ l.style = "text" /\ TextWritten(l)
         \/ l.style = "file" /\ FileWritten(l)
  PROVE  ParseSend(l.data).content = Meant(l).content /\ ParseSend(l.data).data = Meant(l).data
<1> DEFINE s == l.data
           text == IF s # <<>> /\ Last(s) = "n" THEN Front(s) ELSE s
<1>1. s \in Seq(Bytes) /\ l.text \in Seq(Bytes) /\ "n" \in Bytes
  BY DEF Letter, Bytes
<1>2. /\ IsText(s) <=> l.style = "text"
      /\ l.style = "text" => TextWritten(l) /\ Meant(l) = [content |-> l.text, data |-> <<>>]
      /\ l.style # "text" => Meant(l) = [content |-> <<>>, data |-> s]
  BY DEF Meant, Misread, IsText, TextWritten, FileWritten
<1>3. ~(s # <<>> /\ Head(s) = "!")
  BY DEF NotFramed
<1>4. CASE ~IsText(s)
  <2>1. ParseSend(s) = Payload(<<>>, s)
    BY <1>3, <1>4, Zenon DEF ParseSend
  <2> QED
    BY <1>2, <1>4, <2>1, PayloadRead
<1>5. CASE IsText(s)
  <2>1. ParseSend(s) = IF text = <<>> THEN Malformed ELSE Payload(text, <<>>)
    BY <1>3, <1>5, Zenon DEF ParseSend
  <2>2. ~Malformed.ok
    BY DEF Malformed
  <2>3. text = l.text
    <3>1. CASE s = l.text \o <<"n">>
      BY <1>1, <3>1, LineEnd
    <3>2. CASE s = l.text /\ (l.text # <<>> => Last(l.text) # "n")
      BY <3>2
    <3> QED
      BY <1>2, <1>5, <3>1, <3>2 DEF TextWritten
  <2> HIDE DEF text
  <2>4. ParseSend(s) = Payload(l.text, <<>>)
    BY <2>1, <2>2, <2>3
  <2> QED
    BY <1>2, <1>5, <2>4, PayloadRead
<1> QED
  BY <1>4, <1>5

\* One line end is taken off a command.
LEMMA CommandLine ==
  ASSUME NEW t \in Seq(Bytes), t # <<>>, Last(t) \notin {"n", "r"}, NEW end \in LineEnds,
         Valid(t \o end)
  PROVE  CommandText(t \o end) = t
<1> DEFINE Line(s) == IF s # <<>> /\ Last(s) = "n" THEN Front(s) ELSE s
<1>1. "n" \in Bytes /\ "r" \in Bytes
  BY DEF Bytes
<1>2. PICK s : s = t \o end
  OBVIOUS
<1>3. Line(s) # <<>> /\ (IF Last(Line(s)) = "r" THEN Front(Line(s)) = t ELSE Line(s) = t)
  <2>1. CASE end = <<>>
    <3>1. s = t
      BY <1>2, <2>1, ConcatEmptySeq
    <3> QED
      BY <3>1
  <2>2. CASE end = <<"n">>
    <3>1. Front(s) = t /\ Last(s) = "n" /\ s # <<>>
      BY <1>1, <1>2, <2>2, LineEnd
    <3> QED
      BY <3>1
  <2>3. CASE end = <<"r", "n">>
    <3>1. PICK u : u = t \o <<"r">>
      OBVIOUS
    <3>2. u \in Seq(Bytes) /\ u # <<>> /\ Front(u) = t /\ Last(u) = "r"
      BY <1>1, <3>1, LineEnd
    <3>3. s = u \o <<"n">>
      <4>1. <<"r">> \in Seq(Bytes) /\ <<"n">> \in Seq(Bytes)
        BY <1>1
      <4>2. <<"r">> \o <<"n">> = <<"r", "n">>
        <5>1. PICK v : v = <<"r">> \o <<"n">>
          OBVIOUS
        <5>2. v \in Seq(Bytes) /\ Len(v) = 2 /\ v[1] = "r" /\ v[2] = "n"
          BY <4>1, <5>1, ConcatProperties
        <5>3. /\ \A i \in 1..2 : v[i] = <<"r", "n">>[i]
              /\ Len(<<"r", "n">>) = 2 /\ <<"r", "n">> \in Seq(Bytes)
          BY <5>2, SeparatorTypes
        <5> QED
          BY <5>1, <5>2, <5>3, SeqEqual
      <4>3. Associates(t, <<"r">>, <<"n">>)
        BY <4>1, Associative DEF Associates
      <4> QED
        BY <1>2, <2>3, <3>1, <4>2, <4>3 DEF Associates
    <3>4. Front(s) = u /\ Last(s) = "n" /\ s # <<>>
      BY <1>1, <3>2, <3>3, LineEnd
    <3> QED
      BY <3>2, <3>4
  <2> QED
    BY <2>1, <2>2, <2>3 DEF LineEnds
<1>4. Valid(s)
  BY <1>2
<1>5. CommandText(s) = IF Line(s) # <<>> /\ Last(Line(s)) = "r" THEN Front(Line(s)) ELSE Line(s)
  BY <1>4, Zenon DEF CommandText
<1> HIDE DEF Line
<1> QED
  BY <1>2, <1>3, <1>5

\* Spaces before a text are taken off.
LEMMA SpacesTrimmed ==
  ASSUME NEW u \in Seq(Bytes), NEW n \in 0..(Len(u) - 1),
         \A i \in 1..n : u[i] \in Space, u[n + 1] \notin Space
  PROVE  TrimLeft(u) = Drop(u, n)
<1> DEFINE I == {i \in 1..Len(u) : \A j \in 1..i : u[j] \in Space}
<1>1. Len(u) \in Nat /\ n \in Nat
  OBVIOUS
<1>2. I = 1..n
  <2>1. ASSUME NEW i \in 1..n PROVE i \in I
    <3>1. i \in 1..Len(u) /\ \A j \in 1..i : j \in 1..n
      BY <1>1
    <3> QED
      BY <3>1
  <2>2. ASSUME NEW i \in I PROVE i \in 1..n
    <3>1. n + 1 \in 1..i => FALSE
      OBVIOUS
    <3>2. i \in 1..Len(u)
      OBVIOUS
    <3> HIDE DEF I
    <3> QED
      BY <1>1, <3>1, <3>2
  <2> HIDE DEF I
  <2>3. \A i \in I : i \in 1..n
    BY <2>2
  <2>4. \A i \in 1..n : i \in I
    BY <2>1
  <2> QED
    BY <2>3, <2>4
<1>3. Cardinality(1..n) = n
  <2>1. Cardinality(1..n) = IF 1 > n THEN 0 ELSE n - 1 + 1
    BY <1>1, FS_Interval
  <2> QED
    BY <1>1, <2>1
<1>4. TrimLeft(u) = Drop(u, Cardinality(I))
  BY Zenon DEF TrimLeft
<1> QED
  BY <1>2, <1>3, <1>4

Spaced(t, n) == \A i \in 2..n : t[i] \in Space

\* An ID, spaces and a text are read as the text.
LEMMA MessageRead ==
  ASSUME NEW t \in Seq(Bytes), NEW x \in Seq(Bytes), x # <<>>, Head(x) \notin Space,
         NEW n \in 2..Len(t), t[1] = "7", Spaced(t, n), Drop(t, n) = x,
         NEW s, CommandText(s) = t, ParseMessage(s).ok
  PROVE  ParseMessage(s).content = x /\ ParseMessage(s).data = <<>>
<1> DEFINE gap == SelectInSeq(t, LAMBDA b : b \in Space)
           u == Drop(t, 2 - 1)
<1>1. Len(t) \in Nat /\ n \in Nat /\ Len(x) \in Nat /\ Len(x) >= 1
  BY EmptySeq
<1>2. gap = 2
  <2> DEFINE I == {i \in 1..Len(t) : t[i] \in Space}
  <2>1. gap = IF I # {} THEN Min(I) ELSE 0
    BY Zenon DEF SelectInSeq
  <2>2. 1 \notin I /\ 2 \in I /\ I \subseteq Nat /\ \A i \in I : i >= 1
    <3>1. "7" \notin Space
      BY DEF Space
    <3>2. 2 \in 2..n /\ 2 \in 1..Len(t)
      BY <1>1
    <3>3. t[2] \in Space /\ t[1] \notin Space
      BY <3>1, <3>2 DEF Spaced
    <3> QED
      BY <3>2, <3>3
  <2> HIDE DEF I, gap
  <2>3. Min(I) \in I
    BY <2>2, Least
  <2>4. \A i \in I : 2 <= i
    BY <2>2
  <2>5. Min(I) <= 2
    <3>1. \E i \in I : \A j \in I : i <= j
      BY <2>2, <2>4
    <3>2. \A j \in I : Min(I) <= j
      BY <3>1, Zenon DEF Min
    <3> QED
      BY <2>2, <3>2
  <2>6. Min(I) = 2
    <3>1. PICK m \in Nat : m = Min(I)
      BY <2>2, <2>3
    <3>2. 2 <= m /\ m <= 2
      BY <2>3, <2>4, <2>5, <3>1
    <3> QED
      BY <3>1, <3>2
  <2> QED
    BY <2>1, <2>2, <2>6
<1>3. /\ u \in Seq(Bytes) /\ Len(u) = Len(t) - 1
      /\ \A i \in 1..(Len(t) - 1) : u[i] = t[1 + i]
  <2>1. 2 - 1 = 1 /\ 1 \in 0..Len(t)
    BY <1>1
  <2> QED
    BY <2>1, DropOf
<1>4. /\ Len(x) = Len(t) - n
      /\ \A i \in 1..(Len(t) - n) : x[i] = t[n + i]
  <2>1. n \in 0..Len(t)
    BY <1>1
  <2> QED
    BY <2>1, DropOf, ZenonT(30)
<1> HIDE DEF u
<1>5. TrimLeft(u) = Drop(u, n - 1)
  <2>1. n - 1 \in 0..(Len(u) - 1) /\ 1 \in 1..(Len(t) - n) /\ n - 1 + 1 = n /\ n \in 1..(Len(t) - 1)
    BY <1>1, <1>3, <1>4
  <2>2. \A i \in 1..(n - 1) : u[i] \in Space
    <3> SUFFICES ASSUME NEW i \in 1..(n - 1) PROVE u[i] \in Space
      OBVIOUS
    <3>1. i \in 1..(Len(t) - 1) /\ 1 + i \in 2..n
      BY <1>1
    <3> QED
      BY <1>3, <3>1 DEF Spaced
  <2>3. u[n - 1 + 1] \notin Space
    <3>1. u[n] = t[1 + n] /\ x[1] = t[n + 1] /\ 1 + n = n + 1
      BY <1>1, <1>3, <1>4, <2>1
    <3>2. u[n] = Head(x)
      BY <3>1
    <3> QED
      BY <2>1, <3>2
  <2> QED
    BY <1>3, <2>1, <2>2, <2>3, SpacesTrimmed
<1>6. Drop(u, n - 1) = x
  <2>1. n - 1 \in 0..Len(u)
    BY <1>1, <1>3
  <2>2. PICK v : v = Drop(u, n - 1)
    OBVIOUS
  <2>3. /\ v \in Seq(Bytes) /\ Len(v) = Len(u) - (n - 1)
        /\ \A i \in 1..(Len(u) - (n - 1)) : v[i] = u[n - 1 + i]
    BY <1>3, <2>1, <2>2, DropOf
  <2>4. Len(v) = Len(x)
    BY <1>1, <1>3, <1>4, <2>3
  <2>5. ASSUME NEW i \in 1..Len(x) PROVE v[i] = x[i]
    <3>1. /\ i \in 1..(Len(u) - (n - 1)) /\ i \in 1..(Len(t) - n)
          /\ n - 1 + i \in 1..(Len(t) - 1) /\ 1 + (n - 1 + i) = n + i
      BY <1>1, <1>3, <1>4
    <3>2. v[i] = u[n - 1 + i] /\ u[n - 1 + i] = t[1 + (n - 1 + i)] /\ x[i] = t[n + i]
      BY <1>3, <1>4, <2>3, <3>1
    <3> QED
      BY <3>1, <3>2
  <2> QED
    BY <2>2, <2>3, <2>4, <2>5, SeqEqual
<1>7. ParseMessage(s) = IF gap = 0 \/ SubSeq(t, 1, gap - 1) # <<"7">> \/ TrimLeft(Drop(t, gap - 1)) = <<>>
                          THEN Malformed ELSE Payload(TrimLeft(Drop(t, gap - 1)), <<>>)
  BY Zenon DEF ParseMessage
<1>8. TrimLeft(Drop(t, gap - 1)) = x
  BY <1>2, <1>5, <1>6 DEF u
<1> HIDE DEF gap
<1>9. ParseMessage(s) = Malformed \/ ParseMessage(s) = Payload(x, <<>>)
  BY <1>7, <1>8
<1>10. ~Malformed.ok
  BY DEF Malformed
<1> QED
  BY <1>9, <1>10, PayloadRead

\* A command that is written as it should be is read as it was meant.
LEMMA CommandRead ==
  ASSUME NEW l \in Letter, l.style = "text", l.file # "send", CommandWritten(l), Parse(l.file, l.data).ok
  PROVE  /\ Parse(l.file, l.data).content = Meant(l).content
         /\ Parse(l.file, l.data).data = Meant(l).data
<1> DEFINE s == l.data
           x == l.text
<1>1. s \in Seq(Bytes) /\ x \in Seq(Bytes) /\ l.file \in Files
  BY DEF Letter
<1>2. Valid(s) /\ Meant(l) = [content |-> x, data |-> <<>>]
  BY DEF Meant, CommandWritten
<1>3. ~Malformed.ok
  BY DEF Malformed
<1>4. CASE l.file \notin {"reply", "edit", "react", "unreact"}
  <2>1. x = <<>>
    BY <1>4 DEF CommandWritten
  <2>2. Parse(l.file, s) = ParseID(s) \/ Parse(l.file, s) = Payload(<<>>, <<>>)
    BY <1>1, <1>4 DEF Parse, Files
  <2>3. ParseID(s) = Malformed \/ ParseID(s) = Payload(<<>>, <<>>)
    BY Zenon DEF ParseID
  <2>4. Parse(l.file, s) = Payload(<<>>, <<>>)
    BY <1>3, <2>2, <2>3
  <2> QED
    BY <1>2, <2>1, <2>4, PayloadRead
<1>5. CASE l.file \in {"reply", "edit", "react", "unreact"}
  <2>1. /\ x # <<>> /\ Head(x) \notin Space /\ Last(x) \notin {"n", "r"}
        /\ \E n \in 2..Len(s) :
             /\ s[1] = "7" /\ \A i \in 2..n : s[i] \in Space
             /\ \E end \in LineEnds : Drop(s, n) = x \o end
    BY <1>5 DEF CommandWritten
  <2>2. PICK n \in 2..Len(s), end \in LineEnds :
          s[1] = "7" /\ (\A i \in 2..n : s[i] \in Space) /\ Drop(s, n) = x \o end
    BY <2>1
  <2> HIDE DEF s, x
  <2>3. PICK g : g = SubSeq(s, 1, n)
    OBVIOUS
  <2>4. /\ g \in Seq(Bytes) /\ Len(g) = n /\ n \in Nat /\ Len(s) \in Nat /\ n <= Len(s) /\ n >= 2
        /\ \A i \in 1..n : g[i] = s[i]
    <3>1. n \in Nat /\ Len(s) \in Nat /\ n <= Len(s) /\ n >= 2
      BY <1>1
    <3>2. \A i \in 1..n : s[i] \in Bytes
      BY <1>1, <3>1, ElementOfSeq
    <3>3. /\ g \in Seq(Bytes) /\ Len(g) = IF 1 <= n THEN n - 1 + 1 ELSE 0
          /\ \A i \in 1..(n - 1 + 1) : g[i] = s[1 + i - 1]
      BY <2>3, <3>1, <3>2, SubSeqProperties
    <3>4. \A i \in 1..n : i \in 1..(n - 1 + 1) /\ 1 + i - 1 = i
      BY <3>1
    <3> QED
      BY <3>1, <3>3, <3>4
  <2>5. end \in Seq(Bytes)
    BY EmptySeq, SeparatorTypes DEF LineEnds
  <2>6. PICK t : t = g \o x
    OBVIOUS
  <2>7. /\ t \in Seq(Bytes) /\ Len(t) = n + Len(x) /\ Len(x) \in Nat /\ Len(x) >= 1
        /\ \A i \in 1..(n + Len(x)) : t[i] = IF i <= n THEN g[i] ELSE x[i - n]
    <3>1. /\ t \in Seq(Bytes) /\ Len(t) = Len(g) + Len(x)
          /\ \A i \in 1..(Len(g) + Len(x)) : t[i] = IF i <= Len(g) THEN g[i] ELSE x[i - Len(g)]
      BY <1>1, <2>4, <2>6, ConcatProperties, ZenonT(30)
    <3>2. Len(g) = n /\ Len(x) \in Nat /\ Len(x) >= 1
      BY <1>1, <2>1, <2>4, EmptySeq
    <3> QED
      BY <3>1, <3>2
  <2>8. s = t \o end
    <3>1. PICK w : w = Drop(s, n)
      OBVIOUS
    <3>2. /\ w \in Seq(Bytes) /\ Len(w) = Len(s) - n
          /\ \A i \in 1..(Len(s) - n) : w[i] = s[n + i]
      <4>1. n \in 0..Len(s)
        BY <2>4
      <4> QED
        BY <1>1, <3>1, <4>1, DropOf
    <3>3. PICK v : v = g \o w
      OBVIOUS
    <3>4. /\ v \in Seq(Bytes) /\ Len(v) = n + Len(w)
          /\ \A i \in 1..(n + Len(w)) : v[i] = IF i <= n THEN g[i] ELSE w[i - n]
      <4>1. /\ v \in Seq(Bytes) /\ Len(v) = Len(g) + Len(w)
            /\ \A i \in 1..(Len(g) + Len(w)) : v[i] = IF i <= Len(g) THEN g[i] ELSE w[i - Len(g)]
        <5>1. g \in Seq(Bytes) /\ w \in Seq(Bytes)
          BY <2>4, <3>2
        <5> QED
          BY <3>3, <5>1, ConcatProperties
      <4>2. Len(g) = n
        BY <2>4
      <4> QED
        BY <4>1, <4>2
    <3>5. Len(v) = Len(s)
      BY <2>4, <3>2, <3>4
    <3>6. ASSUME NEW i \in 1..Len(s) PROVE v[i] = s[i]
      <4>1. CASE i <= n
        <5>1. i \in 1..n /\ i \in 1..(n + Len(w))
          BY <2>4, <3>2, <4>1
        <5> QED
          BY <2>4, <3>4, <4>1, <5>1
      <4>2. CASE ~(i <= n)
        <5>1. /\ i \in 1..(n + Len(w)) /\ i - n \in 1..(Len(s) - n) /\ n + (i - n) = i
          BY <2>4, <3>2, <4>2
        <5>2. v[i] = w[i - n] /\ w[i - n] = s[n + (i - n)]
          BY <3>2, <3>4, <4>2, <5>1
        <5> QED
          BY <5>1, <5>2
      <4> QED
        BY <4>1, <4>2
    <3>7. v = s
      BY <1>1, <3>4, <3>5, <3>6, SeqEqual
    <3>8. Associates(g, x, end)
      BY <1>1, <2>4, <2>5, Associative, SMTT(20) DEF Associates
    <3> QED
      BY <2>2, <2>6, <3>1, <3>3, <3>7, <3>8, Zenon DEF Associates
  <2>9. CommandText(s) = t
    <3>1. t # <<>>
      BY <2>4, <2>7
    <3>2. Last(t) = Last(x)
      <4>1. n + Len(x) \in 1..(n + Len(x)) /\ ~(n + Len(x) <= n) /\ n + Len(x) - n = Len(x)
        BY <2>4, <2>7
      <4> QED
        BY <2>7, <4>1 DEF Last
    <3> QED
      BY <1>2, <2>1, <2>2, <2>7, <2>8, <3>1, <3>2, CommandLine
  <2>10. Drop(t, n) = x
    BY <1>1, <2>4, <2>6, Halves
  <2>11. n \in 2..Len(t) /\ t[1] = "7" /\ \A i \in 2..n : t[i] \in Space
    <3>1. n \in 2..Len(t) /\ 1 \in 1..(n + Len(x)) /\ 1 \in 1..n /\ 1 <= n
      BY <2>4, <2>7
    <3>2. \A i \in 2..n : i \in 1..(n + Len(x)) /\ i \in 1..n /\ i <= n
      BY <2>4, <2>7
    <3>3. \A i \in 1..n : t[i] = s[i]
      BY <2>4, <2>7
    <3> QED
      BY <2>2, <3>1, <3>2, <3>3
  <2>12. Parse(l.file, s) = ParseMessage(s) \/ Parse(l.file, s) = ParseReaction(s)
    BY <1>5 DEF Parse
  <2>13. ParseReaction(s) = Malformed \/ ParseReaction(s) = ParseMessage(s)
    BY Zenon DEF ParseReaction
  <2>14. Parse(l.file, s) = ParseMessage(s)
    BY <1>3, <2>12, <2>13 DEF s
  <2>15. ParseMessage(s).content = x /\ ParseMessage(s).data = <<>>
    <3>1. ParseMessage(s).ok
      BY <2>14 DEF s
    <3>2. Spaced(t, n)
      BY <2>11 DEF Spaced
    <3>3. t \in Seq(Bytes) /\ n \in 2..Len(t) /\ t[1] = "7" /\ x \in Seq(Bytes) /\ x # <<>>
      BY <1>1, <2>1, <2>7, <2>11
    <3> QED
      BY <2>1, <2>9, <2>10, <3>1, <3>2, <3>3, MessageRead
  <2> QED
    BY <1>2, <2>14, <2>15 DEF s
<1> QED
  BY <1>4, <1>5

\* A framed attachment starts with its mark.
LEMMA FramedHead ==
  ASSUME NEW l \in Letter, l.style \in {"lf", "crlf"}
  PROVE  Framed(l) # <<>> /\ Head(Framed(l)) = "!"
<1> DEFINE b == Break(l)
           middle == IF l.caption = <<>> THEN <<>> ELSE l.caption \o b
<1>1. b \in Seq(Bytes) /\ <<"!">> \in Seq(Bytes) /\ l.caption \in Seq(Bytes) /\ l.data \in Seq(Bytes)
  BY SeparatorTypes DEF Letter, Break
<1>2. Framed(l) = <<"!">> \o b \o middle \o b \o l.data
  BY DEF Framed
<1>3. middle \in Seq(Bytes)
  BY <1>1, ConcatProperties, EmptySeq
<1> HIDE DEF b, middle
<1>4. ASSUME NEW x \in Seq(Bytes), NEW y \in Seq(Bytes), Len(x) >= 1, x[1] = "!"
      PROVE  x \o y \in Seq(Bytes) /\ Len(x \o y) >= 1 /\ (x \o y)[1] = "!"
  BY <1>4, ConcatProperties
<1>5. PICK u : u = <<"!">> \o b
  OBVIOUS
<1>6. PICK v : v = u \o middle
  OBVIOUS
<1>7. PICK w : w = v \o b
  OBVIOUS
<1>8. u \in Seq(Bytes) /\ Len(u) >= 1 /\ u[1] = "!"
  BY <1>1, <1>4, <1>5
<1>9. v \in Seq(Bytes) /\ Len(v) >= 1 /\ v[1] = "!"
  BY <1>3, <1>4, <1>6, <1>8
<1>10. w \in Seq(Bytes) /\ Len(w) >= 1 /\ w[1] = "!"
  BY <1>1, <1>4, <1>7, <1>9
<1>11. Framed(l) \in Seq(Bytes) /\ Len(Framed(l)) >= 1 /\ Framed(l)[1] = "!"
  <2>1. Framed(l) = w \o l.data
    BY <1>2, <1>5, <1>6, <1>7
  <2> QED
    BY <1>1, <1>4, <1>10, <2>1
<1> QED
  BY <1>11

\* What is meant is a content and a data.
LEMMA MeantFields ==
  ASSUME NEW l
  PROVE  Meant(l) = [content |-> Meant(l).content, data |-> Meant(l).data]
  BY DEF Meant

(***************************************************************************)
(* The parsers return what the program meant of every letter that is       *)
(* written as the README and the comments say, however long it is, unless  *)
(* it is one that they misread: the data of an attachment has the blank    *)
(* line of CR LF lines that ends the caption of LF lines, a text begins    *)
(* with the signature of another kind of file, or a file looks like a text *)
(* (parseSend, parseFramedAttachment, parseMessageCommand,                 *)
(* parseReactionCommand and parseIDCommand of files.go).                   *)
(***************************************************************************)
THEOREM ParsersAgreeHolds ==
  ASSUME LettersDocumented
  PROVE  ParsersAgree
<1> SUFFICES ASSUME NEW f \in Fids, NEW l \in Letters[f],
                    Parse(l.file, Framed(l)).ok, ~Misread(l)
             PROVE  Parsed(l) = Meant(l)
  BY DEF ParsersAgree
<1>1. l \in Letter /\ Documented(l)
  BY SendAssumption DEF LettersDocumented
<1>2. Parsed(l) = [content |-> Parse(l.file, Framed(l)).content, data |-> Parse(l.file, Framed(l)).data]
  BY Zenon DEF Parsed
<1>3. CASE l.style \in {"lf", "crlf"}
  <2>1. AttachmentWritten(l) /\ l.file = "send"
    BY <1>1, <1>3 DEF Documented, AttachmentWritten
  <2>2. Parse(l.file, Framed(l)) = ParseSend(Framed(l))
    BY <2>1 DEF Parse
  <2>3. ParseSend(Framed(l)) = ParseFramed(Framed(l))
    <3>1. Framed(l) # <<>> /\ Head(Framed(l)) = "!"
      BY <1>1, <1>3, FramedHead
    <3> QED
      BY <3>1, Zenon DEF ParseSend
  <2>4. ParseFramed(Framed(l)).content = l.caption /\ ParseFramed(Framed(l)).data = l.data
    BY <1>1, <1>3, <2>1, <2>2, <2>3, FramedRead
  <2> QED
    BY <1>2, <1>3, <2>2, <2>3, <2>4 DEF Meant
<1>4. CASE l.style \in {"text", "file"}
  <2>1. Framed(l) = l.data
    BY <1>4 DEF Framed
  <2>2. CASE l.file = "send"
    <3>1. /\ NotFramed(l)
          /\ \/ l.style = "text" /\ TextWritten(l)
             \/ l.style = "file" /\ FileWritten(l)
      BY <1>1, <1>4, <2>2 DEF Documented
    <3>2. Parse(l.file, l.data) = ParseSend(l.data)
      BY <2>2 DEF Parse
    <3>3. ParseSend(l.data).content = Meant(l).content /\ ParseSend(l.data).data = Meant(l).data
      BY <1>1, <2>1, <2>2, <3>1, <3>2, TextRead
    <3> QED
      BY <1>2, <2>1, <3>2, <3>3, MeantFields
  <2>3. CASE l.file # "send"
    <3>1. l.style = "text" /\ CommandWritten(l)
      BY <1>1, <1>4, <2>3 DEF Documented, FileWritten
    <3>2. /\ Parse(l.file, l.data).content = Meant(l).content
          /\ Parse(l.file, l.data).data = Meant(l).data
      BY <1>1, <1>4, <2>1, <2>3, <3>1, CommandRead
    <3> QED
      BY <1>2, <2>1, <3>2, MeantFields
  <2> QED
    BY <2>2, <2>3
<1> QED
  BY <1>1, <1>3, <1>4 DEF Letter

-----------------------------------------------------------------------------
(***************************************************************************)
(* So what is posted is what the program meant, when it writes its letters *)
(* as the README and the comments say and they are not of those that the   *)
(* parsers misread (sendFile.Write and Close, parseSend, uploadAttachment).*)
(***************************************************************************)
THEOREM PostedAsMeantHolds ==
  ASSUME LettersDocumented
  PROVE  Spec => []PostedAsMeant
<1>1. SendInv => PostedAsMeant
  <2> SUFFICES ASSUME SendInv, NEW f \in Fids, NEW i \in DOMAIN posts[f],
                      whole[f], ~Misread(letter[f])
               PROVE  posts[f][i] = Meant(letter[f])
    BY DEF PostedAsMeant
  <2>1. posts[f] # <<>>
    OBVIOUS
  <2>2. call[f].pc = "done" /\ posts[f][i] = Carries(f)
    BY <2>1 DEF SendInv, PostsCarried
  <2>3. call[f].pc # "none"
    BY <2>2
  <2>4. Carries(f) = Parsed(letter[f]) /\ Parse(letter[f].file, Framed(letter[f])).ok
    BY <2>1, <2>3 DEF SendInv, CarriesParsed
  <2>5. letter[f] \in Letters[f]
    BY DEF SendInv, TypeOK
  <2>6. ParsersAgree
    BY ParsersAgreeHolds
  <2> QED
    BY <2>2, <2>4, <2>5, <2>6 DEF ParsersAgree
<1> QED
  BY <1>1, SendInvariance, PTL

-----------------------------------------------------------------------------
(***************************************************************************)
(* The refinement of Delivery: every step is its moment, a slip or nothing *)
(* that a program is promised anything of.                                 *)
(***************************************************************************)
Says(f) == whole[f] /\ ~Misread(letter[f])

\* What Delivery speaks of stays as it is, or changes in what is known of one letter.
LEMMA Unseen ==
  ASSUME UNCHANGED <<letter, posts>>, NEW f \in Fids, whole \in [Fids -> BOOLEAN],
         whole' \in {whole, [whole EXCEPT ![f] = FALSE]},
         \A g \in Fids : call'[g].result = call[g].result
  PROVE  [Letterbox!Next]_(Letterbox!deliveryVars)
<1> DEFINE exact == [g \in Fids |-> whole[g] /\ ~Misread(letter[g])]
           answer == [g \in Fids |-> call[g].result]
           meant == [g \in Fids |-> Meant(letter[g])]
<1>1. UNCHANGED meant /\ UNCHANGED answer
  OBVIOUS
<1>2. CASE whole' = whole
  <2>1. UNCHANGED exact
    BY <1>2
  <2> QED
    BY <1>1, <2>1 DEF Letterbox!deliveryVars
<1>3. CASE whole' = [whole EXCEPT ![f] = FALSE]
  <2>1. exact' = [exact EXCEPT ![f] = FALSE]
    BY <1>3
  <2> HIDE DEF exact, answer, meant
  <2>2. Letterbox!Slip(f)
    BY <1>1, <2>1 DEF Letterbox!Slip, exact, answer, meant
  <2> QED
    BY <2>2 DEF Letterbox!Next
<1> QED
  BY <1>2, <1>3

\* A Close that returns an error without posting has failed.
LEMMA Failed ==
  ASSUME UNCHANGED <<letter, posts>>, NEW f \in Fids, whole \in [Fids -> BOOLEAN],
         whole' \in {whole, [whole EXCEPT ![f] = FALSE]},
         posts[f] = <<>>, call[f].result = "none", call'[f].result = "error",
         \A g \in Fids \ {f} : call'[g].result = call[g].result
  PROVE  [Letterbox!Next]_(Letterbox!deliveryVars)
<1> DEFINE exact == [g \in Fids |-> whole[g] /\ ~Misread(letter[g])]
           answer == [g \in Fids |-> call[g].result]
           meant == [g \in Fids |-> Meant(letter[g])]
<1>1. UNCHANGED meant /\ answer' = [answer EXCEPT ![f] = "error"] /\ answer[f] = "none"
  OBVIOUS
<1>2. exact' \in {exact, [exact EXCEPT ![f] = FALSE]}
  OBVIOUS
<1> HIDE DEF exact, answer, meant
<1>3. Letterbox!Fail(f)
  BY <1>1, <1>2 DEF Letterbox!Fail, exact, answer, meant
<1> QED
  BY <1>3 DEF Letterbox!Next

\* A Close that posts has delivered.
LEMMA Delivered ==
  ASSUME UNCHANGED <<letter, whole>>, NEW f \in Fids, NEW m \in Message, posts[f] = <<>>,
         posts' = [posts EXCEPT ![f] = <<m>>], posts \in [Fids -> Seq(Message)],
         Says(f) => m = Meant(letter[f]),
         call[f].result = "none", call'[f].result \in {"ok", "error"},
         \A g \in Fids \ {f} : call'[g].result = call[g].result
  PROVE  [Letterbox!Next]_(Letterbox!deliveryVars)
<1> DEFINE exact == [g \in Fids |-> whole[g] /\ ~Misread(letter[g])]
           answer == [g \in Fids |-> call[g].result]
           meant == [g \in Fids |-> Meant(letter[g])]
<1>1. UNCHANGED meant /\ UNCHANGED exact /\ answer[f] = "none"
  OBVIOUS
<1>2. answer' = [answer EXCEPT ![f] = call'[f].result]
  OBVIOUS
<1>3. posts'[f] = <<m>>
  OBVIOUS
<1>4. posts'[f] \in IF exact[f] THEN {<<meant[f]>>} ELSE [1..1 -> Message]
  <2>1. <<m>> \in [1..1 -> Message]
    OBVIOUS
  <2>2. exact[f] => m = meant[f]
    BY DEF Says
  <2> HIDE DEF exact, meant
  <2> QED
    BY <1>3, <2>1, <2>2
<1> HIDE DEF exact, answer, meant
<1>5. Letterbox!Deliver(f)
  BY <1>1, <1>2, <1>3, <1>4 DEF Letterbox!Deliver, exact, answer, meant
<1> QED
  BY <1>5 DEF Letterbox!Next

\* Before a Close has returned it has neither an answer nor anything posted.
LEMMA NotReturned ==
  ASSUME SendInv, NEW f \in Fids, call[f].pc # "done"
  PROVE  /\ call[f].result = "none" /\ posts[f] = <<>>
         /\ call \in [Fids -> Progress] /\ whole \in [Fids -> BOOLEAN]
  BY DEF SendInv, TypeOK, PostsCarried

\* A request that is refused, or that runs out of time, ends the Close.
LEMMA Refused ==
  ASSUME SendInv, NEW f \in Fids, call[f].pc # "done", Ends(f, "error"), Idle, UNCHANGED posts
  PROVE  [Letterbox!Next]_(Letterbox!deliveryVars)
<1>1. /\ call[f].result = "none" /\ posts[f] = <<>>
      /\ call \in [Fids -> Progress] /\ whole \in [Fids -> BOOLEAN]
  BY NotReturned
<1>2. /\ call'[f].result = "error"
      /\ \A g \in Fids \ {f} : call'[g].result = call[g].result
  BY <1>1 DEF Ends, Progress
<1> QED
  BY <1>1, <1>2, Failed DEF Idle

\* A request that goes on to the next shows nothing.
LEMMA Proceeding ==
  ASSUME SendInv, NEW f \in Fids, Idle, UNCHANGED posts,
         \A g \in Fids : call'[g].result = call[g].result
  PROVE  [Letterbox!Next]_(Letterbox!deliveryVars)
<1>1. whole \in [Fids -> BOOLEAN]
  BY DEF SendInv, TypeOK
<1> QED
  BY <1>1, Unseen DEF Idle

\* The post is the moment of the Close.
LEMMA PostsDelivers ==
  ASSUME SendInv, ParsersAgree, NEW f \in Fids, NEW answered \in BOOLEAN, Posts(f, answered)
  PROVE  [Letterbox!Next]_(Letterbox!deliveryVars)
<1>1. PICK result \in {"ok", "error"} : Ends(f, result) /\ (result = "ok" => Posted(f))
  BY DEF Posts
<1>2. /\ call[f].pc = "post" /\ Idle
      /\ Posted(f) \/ (UNCHANGED posts /\ result = "error")
  BY <1>1 DEF Posts, Asks
<1>3. /\ call[f].result = "none" /\ posts[f] = <<>>
      /\ call \in [Fids -> Progress] /\ whole \in [Fids -> BOOLEAN]
  BY <1>2, NotReturned
<1>4. CASE Posted(f)
  <2>1. /\ call'[f].result \in {"ok", "error"}
        /\ \A g \in Fids \ {f} : call'[g].result = call[g].result
    BY <1>1, <1>3 DEF Ends, Progress
  <2>2. posts \in [Fids -> Seq(Message)]
    BY DEF SendInv, TypeOK
  <2>3. Carries(f) \in Message /\ posts' = [posts EXCEPT ![f] = <<Carries(f)>>]
    <3>1. store[f].object = call[f].data
      BY <1>2 DEF SendInv, Uploaded
    <3>2. posts' = [posts EXCEPT ![f] = Append(@, Carries(f))]
      BY <1>4, <3>1 DEF Posted, Carries
    <3>3. Append(posts[f], Carries(f)) = <<Carries(f)>>
      BY <1>3
    <3> QED
      BY <1>3, <2>2, <3>2, <3>3 DEF Carries, Progress, Message
  <2>4. Says(f) => Carries(f) = Meant(letter[f])
    <3>1. letter[f] \in Letters[f]
      BY DEF SendInv, TypeOK
    <3>2. whole[f] => /\ Carries(f) = Parsed(letter[f])
                      /\ Parse(letter[f].file, Framed(letter[f])).ok
      BY <1>2 DEF SendInv, CarriesParsed
    <3> QED
      BY <3>1, <3>2 DEF Says, ParsersAgree
  <2> QED
    BY <1>2, <1>3, <2>1, <2>2, <2>3, <2>4, Delivered DEF Idle
<1>5. CASE UNCHANGED posts /\ result = "error"
  BY <1>1, <1>2, <1>5, Refused
<1> QED
  BY <1>2, <1>4, <1>5

\* Every request but the post shows nothing, or ends the Close with an error.
LEMMA RequestDelivers ==
  ASSUME SendInv, ParsersAgree, NEW f \in Fids, Request(f)
  PROVE  [Letterbox!Next]_(Letterbox!deliveryVars)
<1>1. call \in [Fids -> Progress]
  BY DEF SendInv, TypeOK
<1>2. ASSUME NEW answered \in BOOLEAN, NEW next, Then(f, answered, next), Idle, UNCHANGED posts,
             call[f].pc # "done"
      PROVE  [Letterbox!Next]_(Letterbox!deliveryVars)
  <2>1. CASE answered
    <3>1. \A g \in Fids : call'[g].result = call[g].result
      <4>1. call' = [call EXCEPT ![f].pc = next]
        BY <1>2, <2>1 DEF Then
      <4> QED
        BY <1>1, <4>1 DEF Progress
    <3> QED
      BY <1>2, <3>1, Proceeding
  <2>2. CASE ~answered
    BY <1>2, <2>2, Refused DEF Then
  <2> QED
    BY <2>1, <2>2
<1>3. ASSUME NEW answered \in BOOLEAN, Resolves(f, answered)
      PROVE  [Letterbox!Next]_(Letterbox!deliveryVars)
  <2>1. call[f].pc = "resolve" /\ Idle /\ UNCHANGED posts
    BY <1>3 DEF Resolves, Asks
  <2> QED
    BY <1>2, <1>3, <2>1 DEF Resolves
<1>4. ASSUME NEW answered \in BOOLEAN, UploadsWhole(f, answered)
      PROVE  [Letterbox!Next]_(Letterbox!deliveryVars)
  BY <1>2, <1>4 DEF UploadsWhole, Asks
<1>5. ASSUME NEW answered \in BOOLEAN, UploadsPart(f, answered)
      PROVE  [Letterbox!Next]_(Letterbox!deliveryVars)
  <2>1. call[f].pc = "upload" /\ Idle /\ UNCHANGED posts
    BY <1>5 DEF UploadsPart, Asks
  <2>2. CASE answered
    <3>1. \A g \in Fids : call'[g].result = call[g].result
      <4>1. PICK pc : call' = [call EXCEPT ![f].part = @ + 1, ![f].pc = pc]
        BY <1>5, <2>2 DEF UploadsPart
      <4> QED
        BY <1>1, <4>1 DEF Progress
    <3> QED
      BY <2>1, <3>1, Proceeding
  <2>3. CASE ~answered
    BY <1>5, <2>1, <2>3, Refused DEF UploadsPart
  <2> QED
    BY <2>2, <2>3
<1>6. ASSUME NEW answered \in BOOLEAN, Completes(f, answered)
      PROVE  [Letterbox!Next]_(Letterbox!deliveryVars)
  BY <1>2, <1>6 DEF Completes, Asks
<1>7. CASE PlanFails(f) \/ PlanExceeds(f)
  BY <1>7, Refused DEF PlanFails, PlanExceeds, Asks
<1>8. ASSUME NEW parts, NEW size, Planned(f, size, parts)
      PROVE  [Letterbox!Next]_(Letterbox!deliveryVars)
  <2>1. \A g \in Fids : call'[g].result = call[g].result
    BY <1>1, <1>8 DEF Planned, Progress
  <2> QED
    BY <1>8, <2>1, Proceeding DEF Planned
<1>9. CASE Limited(f) \/ Wakes(f)
  <2>1. \A g \in Fids : call'[g].result = call[g].result
    <3>1. PICK asleep : call' = [call EXCEPT ![f].asleep = asleep]
      BY <1>9 DEF Limited, Wakes
    <3> QED
      BY <1>1, <3>1 DEF Progress
  <2> QED
    BY <1>9, <2>1, Proceeding DEF Limited, Wakes
<1>10. CASE GivesUp(f)
  <2>1. call[f].pc # "done"
    BY <1>10 DEF GivesUp, SendInv, TypeOK, Requests
  <2> QED
    BY <1>10, <2>1, Refused DEF GivesUp
<1> QED
  BY <1>3, <1>4, <1>5, <1>6, <1>7, <1>8, <1>9, <1>10, PostsDelivers DEF Request

\* A Close that cannot read its letter fails; what is cut short is known by then.
LEMMA CloseDelivers ==
  ASSUME SendInv, NEW f \in Fids, Close(f)
  PROVE  [Letterbox!Next]_(Letterbox!deliveryVars)
<1>1. call[f].pc = "none"
  BY DEF Close, SendInv, NotBegun
<1>2. /\ call[f].result = "none" /\ posts[f] = <<>>
      /\ call \in [Fids -> Progress] /\ whole \in [Fids -> BOOLEAN]
  BY <1>1, NotReturned
<1>3. /\ whole' \in {whole, [whole EXCEPT ![f] = FALSE]} /\ UNCHANGED <<letter, posts>>
  <2>1. UNCHANGED <<letter, posts>> /\ whole' = [whole EXCEPT ![f] = @ /\ todo[f] = {}]
    BY DEF Close
  <2> QED
    BY <1>2, <2>1
<1>4. \A g \in Fids \ {f} : call'[g].result = call[g].result
  BY <1>2 DEF Close
<1>5. call'[f].result \in {"none", "error"}
  BY <1>2 DEF Close, Progress
<1>6. CASE call'[f].result = "none"
  <2>1. \A g \in Fids : call'[g].result = call[g].result
    BY <1>2, <1>4, <1>6
  <2> QED
    BY <1>2, <1>3, <2>1, Unseen
<1>7. CASE call'[f].result = "error"
  BY <1>2, <1>3, <1>4, <1>7, Failed
<1> QED
  BY <1>5, <1>6, <1>7

(***************************************************************************)
(* A Close, with the resolving, the plan, the uploads, the waits and the   *)
(* post, implements one step of Delivery: the message appears at one       *)
(* moment, the one that was meant unless the parsers misread the letter or *)
(* it came in part, or an error is returned (sendFile.Close and            *)
(* commandFile.Close of files.go, SendAttachmentMessage of client.go).     *)
(***************************************************************************)
THEOREM DeliveryImplemented ==
  ASSUME LettersDocumented
  PROVE  Spec => IsDelivery
<1>1. Init /\ SendInv => Letterbox!Init
  <2> SUFFICES ASSUME Init, SendInv PROVE Letterbox!Init
    OBVIOUS
  <2>1. [f \in Fids |-> Meant(letter[f])] \in [Fids -> Message]
    <3> SUFFICES ASSUME NEW f \in Fids PROVE Meant(letter[f]) \in Message
      OBVIOUS
    <3>1. letter[f] \in Letter /\ <<>> \in Seq(Bytes)
      BY EmptySeq DEF SendInv, TypeOK
    <3> QED
      BY <3>1 DEF Meant, Letter, Message
  <2>2. [f \in Fids |-> whole[f] /\ ~Misread(letter[f])] \in [Fids -> BOOLEAN]
    OBVIOUS
  <2>3. [f \in Fids |-> call[f].result] = [f \in Fids |-> "none"]
    BY DEF Init, NoCall
  <2>4. posts = [f \in Fids |-> <<>>]
    BY DEF Init
  <2> QED
    BY <2>1, <2>2, <2>3, <2>4, Zenon DEF Letterbox!Init
<1>2. SendInv /\ [Next]_vars => [Letterbox!Next]_(Letterbox!deliveryVars)
  <2> SUFFICES ASSUME SendInv, [Next]_vars PROVE [Letterbox!Next]_(Letterbox!deliveryVars)
    OBVIOUS
  <2>1. ParsersAgree
    BY ParsersAgreeHolds
  <2>2. whole \in [Fids -> BOOLEAN] /\ call \in [Fids -> Progress]
    BY DEF SendInv, TypeOK
  <2>3. CASE UNCHANGED vars
    BY <2>3 DEF vars, Letterbox!deliveryVars
  <2>4. ASSUME NEW f \in Fids, Open(f) PROVE [Letterbox!Next]_(Letterbox!deliveryVars)
    BY <2>2, <2>4, Unseen DEF Open
  <2>5. ASSUME NEW f \in Fids, NEW n \in todo[f], Write(f, n)
        PROVE  [Letterbox!Next]_(Letterbox!deliveryVars)
    <3>1. whole' \in {whole, [whole EXCEPT ![f] = FALSE]} /\ UNCHANGED <<letter, call, posts>>
      BY <2>5 DEF Write
    <3> QED
      BY <2>2, <3>1, Unseen
  <2>6. ASSUME NEW f \in Fids, Expires(f) PROVE [Letterbox!Next]_(Letterbox!deliveryVars)
    <3>1. \A g \in Fids : call'[g].result = call[g].result
      BY <2>2, <2>6 DEF Expires, Progress
    <3> QED
      BY <2>6, <3>1, Proceeding DEF Expires
  <2> QED
    BY <2>1, <2>3, <2>4, <2>5, <2>6, RequestDelivers, CloseDelivers DEF Next
<1> QED
  BY <1>1, <1>2, SendInvariance, PTL DEF Spec, IsDelivery, Letterbox!Spec
=============================================================================
