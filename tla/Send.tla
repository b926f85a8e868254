-------------------------------- MODULE Send --------------------------------
(***************************************************************************)
(* What is written to send and to the command files (sendFile, commandFile *)
(* of internal/p9fs/files.go) and the requests that a Close makes of it    *)
(* (internal/fluxer/client.go).  A program writes in pieces, each with its *)
(* offset, which may be served in any order; Close takes the buffer,       *)
(* parses it, finds the channel and posts: a text at once, an attachment   *)
(* after a plan was asked for, its parts were uploaded and, if there are   *)
(* several, completed.                                                     *)
(*                                                                         *)
(* A request may be refused, its answer may be lost after the server has   *)
(* carried it out, and a 429 makes do sleep and ask again, all within the  *)
(* deadline of the Close.  Bytes are kept as far as the parsers tell them  *)
(* apart: "b" is one that is not valid UTF-8, "0" a control byte, "%" what *)
(* begins with the signature of another kind of file, as ID3 or BM, and    *)
(* "<" a tag of HTML or XML.                                               *)
(***************************************************************************)
EXTENDS Integers, Sequences, FiniteSets, SequencesExt

CONSTANTS
  Fids,        \* fids, each opened on one file and closed once
  Absent,      \* not a buffer
  Letters,     \* [Fids -> the letters that may be written through it]
  PieceSize,   \* bytes in one Twrite
  MaxBuffer,   \* the 64 MiB of send, the 32 KiB of commands
  MaxContent,  \* the 4000 characters of a message
  SniffSize,   \* the first bytes, 512, that tell what kind of file it is
  PartSizes,   \* the sizes of a part that the server may plan
  MaxParts     \* bound: parts of an upload

Bytes == {"!", "r", "n", "x", "b", "0", "7", " ", "%", "<"}

Files == {"send", "reply", "edit", "react", "unreact", "delete", "pin", "unpin", "read", "typing"}

\* What a program means to send: a text, as with echo, a file, as with cat, or an attachment with
\* its name and caption, in lines that end in LF or CR LF.
Letter ==
  [file : Files, style : {"text", "file", "lf", "crlf"},
   caption : Seq(Bytes), data : Seq(Bytes), text : Seq(Bytes)]

ASSUME SendAssumption ==
  /\ PieceSize \in Nat \ {0} /\ MaxBuffer \in Nat /\ MaxContent \in Nat
  /\ SniffSize \in Nat /\ MaxParts \in Nat \ {0}
  /\ PartSizes \subseteq Nat \ {0}
  /\ \A f \in Fids : Letters[f] \subseteq Letter
  /\ Absent \notin Seq(Bytes)

VARIABLES
  letter,   \* [Fids -> what the program means to send]
  todo,     \* [Fids -> pieces that it has not written]
  whole,    \* history: [Fids -> every piece was accepted before the Close]
  buffers,  \* [Fids -> buffers[fid], or Absent]
  call,     \* [Fids -> progress of the Close]
  store,    \* [Fids -> what the server has of an upload]
  posts     \* [Fids -> what the server has carried out for a Close: its messages]

vars == <<letter, todo, whole, buffers, call, store, posts>>

NoCall == [pc |-> "none", asleep |-> FALSE, expired |-> FALSE, content |-> <<>>, data |-> <<>>,
           size |-> 0, parts |-> 0, part |-> 1, result |-> "none"]

NoStore == [parts |-> <<>>, object |-> <<>>]

-----------------------------------------------------------------------------
\* The program.  Its letters are the README's: lines are ended as its style has it.
Break(l) == IF l.style = "crlf" THEN <<"r", "n">> ELSE <<"n">>

Framed(l) ==
  IF l.style \in {"text", "file"} THEN l.data
  ELSE <<"!">> \o Break(l) \o (IF l.caption = <<>> THEN <<>> ELSE l.caption \o Break(l))
       \o Break(l) \o l.data

Pieces(l) == 1..((Len(Framed(l)) + PieceSize - 1) \div PieceSize)

-----------------------------------------------------------------------------
\* The parsers.
Malformed == [ok |-> FALSE, content |-> <<>>, data |-> <<>>]
Payload(content, data) ==
  IF Len(content) > MaxContent THEN Malformed
  ELSE [ok |-> TRUE, content |-> content, data |-> data]

Drop(s, n) == SubSeq(s, n + 1, Len(s))
\* s[offset:offset+n], or as much of it as there is.
Cut(s, offset, n) == SubSeq(s, offset + 1, IF offset + n < Len(s) THEN offset + n ELSE Len(s))

\* bytes.Index, from 1; 0 for none.
Index(s, sep) ==
  SelectInSubSeq([i \in 1..Len(s) |-> IsPrefix(sep, Drop(s, i - 1))], 1, Len(s), LAMBDA b : b)

Space == {" ", "n", "r"}
TrimLeft(s) == Drop(s, Cardinality({i \in 1..Len(s) : \A j \in 1..i : s[j] \in Space}))
TrimSpace(s) == Reverse(TrimLeft(Reverse(TrimLeft(s))))

\* utf8.Valid.
Valid(s) == \A i \in 1..Len(s) : s[i] # "b"

\* http.DetectContentType looks at the first bytes and finds something other than text: a signature,
\* a tag, before which there may be space, or a control byte (a hole reads as zeros).
Sniffed(s) ==
  LET head == Cut(s, 0, SniffSize)
      tag == TrimLeft(head)
  IN \/ head # <<>> /\ Head(head) = "%"
     \/ tag # <<>> /\ Head(tag) = "<"
     \/ \E i \in 1..Len(head) : head[i] = "0"

IsText(s) == Valid(s) /\ ~Sniffed(s)

\* Mutant: the data starts with the last LF of the blank line.
CaptionEndsEarly(rest) ==
  IF Index(rest, <<"r", "n", "r", "n">>) > 0
    THEN [at |-> Index(rest, <<"r", "n", "r", "n">>), length |-> 3]
    ELSE [at |-> Index(rest, <<"n", "n">>), length |-> 1]

\* A caption ends at the first blank line, one of CR LF lines before one of LF lines.
CaptionEnds(rest) ==
  IF Index(rest, <<"r", "n", "r", "n">>) > 0
    THEN [at |-> Index(rest, <<"r", "n", "r", "n">>), length |-> 4]
    ELSE [at |-> Index(rest, <<"n", "n">>), length |-> 2]

ParseFramed(s) ==
  LET rest == Drop(s, Index(s, <<"n">>))
      blank == IF IsPrefix(<<"r", "n">>, rest) THEN [at |-> 1, length |-> 2]
               ELSE IF IsPrefix(<<"n">>, rest) THEN [at |-> 1, length |-> 1]
               ELSE CaptionEnds(rest)
      caption == SubSeq(rest, 1, blank.at - 1)
      data == Drop(rest, blank.at + blank.length - 1)
  IN IF Index(s, <<"n">>) = 0 \/ blank.at = 0 \/ data = <<>> \/ ~Valid(caption)
       THEN Malformed ELSE Payload(caption, data)

ParseSend(s) ==
  LET text == IF s # <<>> /\ Last(s) = "n" THEN Front(s) ELSE s
  IN IF s # <<>> /\ Head(s) = "!" THEN ParseFramed(s)
     ELSE IF ~IsText(s) THEN Payload(<<>>, s)
     ELSE IF text = <<>> THEN Malformed ELSE Payload(text, <<>>)

\* commandText: one line end is taken off.
CommandText(s) ==
  LET line == IF s # <<>> /\ Last(s) = "n" THEN Front(s) ELSE s
  IN IF ~Valid(s) THEN <<>>
     ELSE IF line # <<>> /\ Last(line) = "r" THEN Front(line) ELSE line

ParseMessage(s) ==
  LET text == CommandText(s)
      gap == SelectInSeq(text, LAMBDA b : b \in Space)
      content == TrimLeft(Drop(text, gap - 1))
  IN IF gap = 0 \/ SubSeq(text, 1, gap - 1) # <<"7">> \/ content = <<>>
       THEN Malformed ELSE Payload(content, <<>>)

ParseID(s) ==
  IF TrimSpace(CommandText(s)) # <<"7">> THEN Malformed ELSE Payload(<<>>, <<>>)

\* One emoji.
ParseReaction(s) ==
  LET parsed == ParseMessage(s)
  IN IF \E i \in 1..Len(parsed.content) : parsed.content[i] \in Space THEN Malformed ELSE parsed

\* Which grammar each file has; typing does not look at what was written.
Parse(file, s) ==
  CASE file = "send" -> ParseSend(s)
    [] file \in {"reply", "edit"} -> ParseMessage(s)
    [] file \in {"react", "unreact"} -> ParseReaction(s)
    [] file \in {"delete", "pin", "unpin", "read"} -> ParseID(s)
    [] file = "typing" -> Payload(<<>>, <<>>)

-----------------------------------------------------------------------------
Init ==
  /\ letter \in {l \in [Fids -> UNION {Letters[f] : f \in Fids}] : \A f \in Fids : l[f] \in Letters[f]}
  /\ todo = [f \in Fids |-> Pieces(letter[f])]
  /\ whole = [f \in Fids |-> TRUE]
  /\ buffers = [f \in Fids |-> Absent]
  /\ call = [f \in Fids |-> NoCall]
  /\ store = [f \in Fids |-> NoStore]
  /\ posts = [f \in Fids |-> <<>>]

Open(f) ==
  /\ buffers[f] = Absent /\ call[f] = NoCall
  /\ buffers' = [buffers EXCEPT ![f] = <<>>]
  /\ UNCHANGED <<letter, todo, whole, call, store, posts>>

\* Mutant: a piece is added where the buffer ends.
PutAppends(buffer, offset, piece) == buffer \o piece

\* The buffer grows by zeros as far as the end of the piece.
Put(buffer, offset, piece) ==
  LET end == offset + Len(piece)
  IN [i \in 1..(IF end > Len(buffer) THEN end ELSE Len(buffer)) |->
        IF i > offset /\ i <= end THEN piece[i - offset]
        ELSE IF i <= Len(buffer) THEN buffer[i] ELSE "0"]

\* Mutant: the limit is compared with the offset of a piece.
WriteChecksOffset(f, n) ==
  LET offset == (n - 1) * PieceSize
      piece == Cut(Framed(letter[f]), offset, PieceSize)
  IN /\ n \in todo[f] /\ (buffers[f] # Absent \/ call[f] # NoCall)
     /\ todo' = [todo EXCEPT ![f] = @ \ {n}]
     /\ IF buffers[f] = Absent \/ offset > MaxBuffer
          THEN whole' = [whole EXCEPT ![f] = FALSE] /\ UNCHANGED buffers
          ELSE buffers' = [buffers EXCEPT ![f] = Put(@, offset, piece)] /\ UNCHANGED whole
     /\ UNCHANGED <<letter, call, store, posts>>

\* A piece is refused when it goes past the limit, or when it comes after the Close.
Write(f, n) ==
  LET offset == (n - 1) * PieceSize
      piece == Cut(Framed(letter[f]), offset, PieceSize)
  IN /\ n \in todo[f] /\ (buffers[f] # Absent \/ call[f] # NoCall)
     /\ todo' = [todo EXCEPT ![f] = @ \ {n}]
     /\ IF buffers[f] = Absent \/ offset + Len(piece) > MaxBuffer
          THEN whole' = [whole EXCEPT ![f] = FALSE] /\ UNCHANGED buffers
          ELSE buffers' = [buffers EXCEPT ![f] = Put(@, offset, piece)] /\ UNCHANGED whole
     /\ UNCHANGED <<letter, call, store, posts>>

-----------------------------------------------------------------------------
\* The Close.
Ends(f, result) ==
  call' = [call EXCEPT ![f].pc = "done", ![f].asleep = FALSE, ![f].result = result]

\* A request either is answered in time, or ends the Close with an error.
Then(f, answered, next) ==
  IF answered THEN ~call[f].expired /\ call' = [call EXCEPT ![f].pc = next]
              ELSE Ends(f, "error")

Asks(f, pc) == call[f].pc = pc /\ ~call[f].asleep
Idle == UNCHANGED <<letter, todo, whole, buffers>>

\* It takes the buffer away, whether the program has written everything or was stopped.
Close(f) ==
  LET parsed == Parse(letter[f].file, buffers[f])
  IN /\ buffers[f] # Absent
     /\ buffers' = [buffers EXCEPT ![f] = Absent]
     /\ whole' = [whole EXCEPT ![f] = @ /\ todo[f] = {}]
     /\ call' = [call EXCEPT ![f].pc = IF parsed.ok THEN "resolve" ELSE "done",
                             ![f].content = parsed.content, ![f].data = parsed.data,
                             ![f].result = IF parsed.ok THEN "none" ELSE "error"]
     /\ UNCHANGED <<letter, todo, store, posts>>

\* resolve finds the channel, with a request of its own for a friend without a DM.
Resolves(f, answered) ==
  /\ Asks(f, "resolve")
  /\ Then(f, answered, IF call[f].data = <<>> THEN "post" ELSE "plan")
  /\ Idle /\ UNCHANGED <<store, posts>>

PlanFails(f) ==
  /\ Asks(f, "plan")
  /\ Ends(f, "error")
  /\ Idle /\ UNCHANGED <<store, posts>>

\* The server plans parts that hold the file between them, or one upload for all of it (0 parts).
Planned(f, size, parts) ==
  /\ Asks(f, "plan") /\ ~call[f].expired
  /\ IF parts = 0 THEN size = 0 ELSE size * parts >= Len(call[f].data)
  /\ call' = [call EXCEPT ![f].pc = "upload", ![f].size = size, ![f].parts = parts]
  /\ Idle /\ UNCHANGED <<store, posts>>

\* The bytes of the next part; the last may be shorter, and none is left for one too many.
Part(f) == Cut(call[f].data, (call[f].part - 1) * call[f].size, call[f].size)

UploadsWhole(f, answered) ==
  /\ Asks(f, "upload") /\ call[f].parts = 0
  /\ Then(f, answered, "post")
  /\ \/ store' = [store EXCEPT ![f].object = call[f].data]
     \/ ~answered /\ UNCHANGED store
  /\ Idle /\ UNCHANGED posts

UploadsPart(f, answered) ==
  /\ Asks(f, "upload") /\ call[f].part <= call[f].parts /\ Part(f) # <<>>
  /\ IF answered
       THEN /\ ~call[f].expired
            /\ call' = [call EXCEPT ![f].part = @ + 1,
                          ![f].pc = IF call[f].part = call[f].parts THEN "complete" ELSE "upload"]
       ELSE Ends(f, "error")
  /\ \/ store' = [store EXCEPT ![f].parts = @ \o Part(f)]
     \/ ~answered /\ UNCHANGED store
  /\ Idle /\ UNCHANGED posts

\* The plan has a part that starts after the end of the file.
PlanExceeds(f) ==
  /\ Asks(f, "upload") /\ call[f].part <= call[f].parts /\ Part(f) = <<>>
  /\ Ends(f, "error")
  /\ Idle /\ UNCHANGED <<store, posts>>

Completes(f, answered) ==
  /\ Asks(f, "complete")
  /\ Then(f, answered, "post")
  /\ \/ store' = [store EXCEPT ![f].object = store[f].parts]
     \/ ~answered /\ UNCHANGED store
  /\ Idle /\ UNCHANGED posts

Posted(f) == posts' = [posts EXCEPT ![f] = Append(@, [content |-> call[f].content, data |-> store[f].object])]

\* Mutant: do asks again when an answer is lost.
PostsAgain(f, answered) ==
  /\ Asks(f, "post") /\ Len(posts[f]) < 2
  /\ IF answered THEN ~call[f].expired /\ Ends(f, "ok") ELSE UNCHANGED call
  /\ Posted(f) \/ (~answered /\ UNCHANGED posts)
  /\ Idle /\ UNCHANGED store

\* The message is posted, or the command carried out; the answer may be lost after that.
Posts(f, answered) ==
  /\ Asks(f, "post")
  /\ IF answered THEN ~call[f].expired /\ Ends(f, "ok") ELSE Ends(f, "error")
  /\ Posted(f) \/ (~answered /\ UNCHANGED posts)
  /\ Idle /\ UNCHANGED store

Requests == {"plan", "complete", "post"}

\* Mutant: the request is made without the context of the Close.
LimitedForever(f) ==
  /\ call[f].pc \in Requests /\ ~call[f].asleep
  /\ call' = [call EXCEPT ![f].asleep = TRUE]
  /\ Idle /\ UNCHANGED <<store, posts>>

\* A 429 that asks for a wait that is not too long; any other is an error.
Limited(f) ==
  /\ call[f].pc \in Requests /\ ~call[f].asleep /\ ~call[f].expired
  /\ call' = [call EXCEPT ![f].asleep = TRUE]
  /\ Idle /\ UNCHANGED <<store, posts>>

Wakes(f) ==
  /\ call[f].asleep
  /\ call' = [call EXCEPT ![f].asleep = FALSE]
  /\ Idle /\ UNCHANGED <<store, posts>>

\* ctx.Done while do sleeps.
GivesUp(f) ==
  /\ call[f].asleep /\ call[f].expired
  /\ Ends(f, "error")
  /\ Idle /\ UNCHANGED <<store, posts>>

Expires(f) ==
  /\ call[f].pc \notin {"none", "done"} /\ ~call[f].expired
  /\ call' = [call EXCEPT ![f].expired = TRUE]
  /\ Idle /\ UNCHANGED <<store, posts>>

Request(f) ==
  \/ \E answered \in BOOLEAN :
       Resolves(f, answered) \/ UploadsWhole(f, answered) \/ UploadsPart(f, answered)
         \/ Completes(f, answered) \/ Posts(f, answered)
  \/ PlanFails(f) \/ PlanExceeds(f)
  \/ \E parts \in 0..MaxParts, size \in PartSizes \cup {0} : Planned(f, size, parts)
  \/ Limited(f) \/ Wakes(f) \/ GivesUp(f)

Next ==
  \E f \in Fids :
    \/ Open(f) \/ Close(f) \/ \E n \in todo[f] : Write(f, n)
    \/ Request(f) \/ Expires(f)

Spec == Init /\ [][Next]_vars

(***************************************************************************)
(* A request ends, by its answer or by the client's timeout, a sleep ends, *)
(* and the deadline passes.                                                *)
(***************************************************************************)
FairSpec == Spec /\ \A f \in Fids : WF_vars(Request(f)) /\ WF_vars(Expires(f))

-----------------------------------------------------------------------------
Progress ==
  [pc : Requests \cup {"none", "resolve", "upload", "done"}, asleep : BOOLEAN, expired : BOOLEAN,
   content : Seq(Bytes), data : Seq(Bytes), size : Nat, parts : 0..MaxParts,
   part : 1..MaxParts + 1, result : {"none", "ok", "error"}]

Message == [content : Seq(Bytes), data : Seq(Bytes)]

TypeOK ==
  /\ letter \in [Fids -> Letter] /\ todo \in [Fids -> SUBSET Nat] /\ whole \in [Fids -> BOOLEAN]
  /\ buffers \in [Fids -> Seq(Bytes) \cup {Absent}]
  /\ call \in [Fids -> Progress]
  /\ store \in [Fids -> [parts : Seq(Bytes), object : Seq(Bytes)]]
  /\ posts \in [Fids -> Seq(Message)]
  /\ \A f \in Fids :
       /\ letter[f] \in Letters[f] /\ todo[f] \subseteq Pieces(letter[f])
       /\ buffers[f] # Absent => Len(buffers[f]) <= MaxBuffer
       /\ call[f].asleep => call[f].pc \in Requests
       /\ Len(call[f].content) <= MaxContent
       /\ call[f].result # "none" <=> call[f].pc = "done"

(***************************************************************************)
(* A Close posts at most once, and once when it succeeds, whichever        *)
(* answers were lost and however often it was told to wait (the loop in do *)
(* of client.go:90 repeats a request after a 429 alone).                   *)
(***************************************************************************)
PostedOnce ==
  \A f \in Fids : Len(posts[f]) <= 1 /\ (call[f].result = "ok" => Len(posts[f]) = 1)

Meant(l) ==
  IF l.style = "text" THEN [content |-> l.text, data |-> <<>>]
  ELSE [content |-> l.caption, data |-> l.data]

\* The code takes the letter for another one.  The data of an attachment has a blank line of CR LF
\* lines, which ends the caption in the place of the writer's; a text begins like a file of another
\* kind; or a file looks like a text.
Misread(l) ==
  \/ l.style = "lf" /\ l.caption # <<>> /\ Index(l.data, <<"r", "n", "r", "n">>) > 0
  \/ l.style = "text" /\ l.file = "send" /\ Sniffed(l.data)
  \/ l.style = "file" /\ IsText(l.data)

(***************************************************************************)
(* What is posted is what the program meant: the text less its line end,   *)
(* or the caption and every byte of the attachment, in whichever order its *)
(* pieces came, into however many parts it was cut, and whatever another   *)
(* fid writes meanwhile (sendFile.Write, parseSend, uploadAttachment).     *)
(* The exceptions are what the code does: a Close after a piece was        *)
(* refused, or before the last, sends the rest; parseFramedAttachment      *)
(* looks for a blank line of CR LF in the data too; and parseSend tells a  *)
(* text from a file by its first bytes.                                    *)
(***************************************************************************)
PostedAsMeant ==
  \A f \in Fids : \A i \in DOMAIN posts[f] :
    whole[f] /\ ~Misread(letter[f]) => posts[f][i] = Meant(letter[f])

(***************************************************************************)
(* The whole of a Close, with all its requests, is one step of Delivery:   *)
(* nothing is posted before it, and it posts the message that was meant or *)
(* returns an error (sendFile.Close and commandFile.Close of files.go,     *)
(* SendMessage and SendAttachmentMessage of client.go).                    *)
(***************************************************************************)
Letterbox ==
  INSTANCE Delivery WITH
    Messages <- Message,
    meant <- [f \in Fids |-> Meant(letter[f])],
    exact <- [f \in Fids |-> whole[f] /\ ~Misread(letter[f])],
    sent <- posts,
    answer <- [f \in Fids |-> call[f].result]

IsDelivery == Letterbox!Spec

(***************************************************************************)
(* A Close returns, even when the server answers each request with a 429:  *)
(* the deadline of the Close ends the sleep of do, or the request after    *)
(* it.                                                                     *)
(***************************************************************************)
CloseReturns == \A f \in Fids : call[f].pc = "resolve" ~> call[f].pc = "done"

-----------------------------------------------------------------------------
(***************************************************************************)
(* The inductive invariant of what is posted.  While a fid has a buffer    *)
(* its Close has not begun, and before that nothing is written...          *)
(***************************************************************************)
NotBegun(f) ==
  /\ buffers[f] # Absent => call[f].pc = "none"
  /\ call[f].pc = "none" => call[f] = NoCall /\ posts[f] = <<>>
  /\ buffers[f] = Absent /\ call[f].pc = "none" => todo[f] = Pieces(letter[f])

\* ... and the buffer has the bytes of every piece that was written.
Written(f, i) ==
  \E n \in Pieces(letter[f]) \ todo[f] : (n - 1) * PieceSize < i /\ i <= n * PieceSize

Assembled(f) ==
  buffers[f] # Absent /\ whole[f] =>
    /\ Len(buffers[f]) <= Len(Framed(letter[f]))
    /\ \A i \in 1..Len(Framed(letter[f])) :
         Written(f, i) => i <= Len(buffers[f]) /\ buffers[f][i] = Framed(letter[f])[i]

\* The Close works with what the parser made of the whole letter.
Parsed(l) ==
  LET parsed == Parse(l.file, Framed(l))
  IN [content |-> parsed.content, data |-> parsed.data]

Carries(f) == [content |-> call[f].content, data |-> call[f].data]

CarriesParsed(f) ==
  call[f].pc # "none" /\ whole[f] =>
    /\ Carries(f) = Parsed(letter[f])
    /\ call[f].pc # "done" \/ posts[f] # <<>> => Parse(letter[f].file, Framed(letter[f])).ok

\* The server has the data as far as the parts that were uploaded go.
Uploaded(f) ==
  /\ call[f].pc \in {"none", "resolve", "plan"} => store[f] = NoStore /\ call[f].part = 1
  /\ call[f].pc = "upload" /\ call[f].parts > 0 =>
       /\ call[f].part <= call[f].parts
       /\ call[f].size * call[f].parts >= Len(call[f].data)
       /\ store[f].parts = Cut(call[f].data, 0, (call[f].part - 1) * call[f].size)
  /\ call[f].pc = "complete" => store[f].parts = call[f].data
  /\ call[f].pc = "post" => store[f].object = call[f].data

\* What was posted is what the Close carried.
PostsCarried(f) ==
  /\ posts[f] # <<>> => call[f].pc = "done"
  /\ \A i \in DOMAIN posts[f] : posts[f][i] = Carries(f)

SendInv ==
  /\ TypeOK
  /\ \A f \in Fids : NotBegun(f) /\ Assembled(f) /\ CarriesParsed(f) /\ Uploaded(f) /\ PostsCarried(f)

(***************************************************************************)
(* What is posted is what the parser makes of the letter as the program    *)
(* wrote it: neither the order of its pieces, nor another fid, nor the     *)
(* parts of the upload, nor a repeated request changes a byte of it.       *)
(***************************************************************************)
PostedAsParsed ==
  \A f \in Fids : \A i \in DOMAIN posts[f] : whole[f] => posts[f][i] = Parsed(letter[f])

\* The parsers get every letter right that the exceptions leave.
ParsersAgree ==
  \A f \in Fids : \A l \in Letters[f] :
    Parse(l.file, Framed(l)).ok /\ ~Misread(l) => Parsed(l) = Meant(l)

-----------------------------------------------------------------------------
(***************************************************************************)
(* How the README and the comments say to write a letter.  A text is valid *)
(* UTF-8 with at most one line end after it; neither it nor a file is a    *)
(* framed attachment; a caption has no empty line, and its lines end in    *)
(* the style that it is written in; a command is an ID, with space and a   *)
(* text after it where it has one.                                         *)
(***************************************************************************)
NotFramed(l) == l.data # <<>> => Head(l.data) # "!"

TextWritten(l) ==
  /\ Valid(l.data)
  /\ \/ l.data = l.text \o <<"n">>
     \/ l.data = l.text /\ (l.text # <<>> => Last(l.text) # "n")

FileWritten(l) == l.file = "send" /\ l.caption = <<>>

AttachmentWritten(l) ==
  /\ l.file = "send"
  /\ l.caption # <<>> =>
       /\ Index(Break(l) \o l.caption \o Break(l), Break(l) \o Break(l)) = 0
       /\ l.style = "lf" => \A i \in 1..Len(l.caption) : l.caption[i] # "r"
       /\ l.style = "crlf" => Head(l.caption) # "n"

LineEnds == {<<>>, <<"n">>, <<"r", "n">>}

CommandWritten(l) ==
  /\ Valid(l.data)
  /\ IF l.file \notin {"reply", "edit", "react", "unreact"} THEN l.text = <<>>
     ELSE /\ l.text # <<>> /\ Head(l.text) \notin Space /\ Last(l.text) \notin {"n", "r"}
          /\ \E n \in 2..Len(l.data) :
               /\ l.data[1] = "7" /\ \A i \in 2..n : l.data[i] \in Space
               /\ \E end \in LineEnds : Drop(l.data, n) = l.text \o end

Documented(l) ==
  CASE l.style \in {"lf", "crlf"} -> AttachmentWritten(l)
    [] l.style = "file" -> FileWritten(l) /\ NotFramed(l)
    [] l.style = "text" ->
         IF l.file = "send" THEN TextWritten(l) /\ NotFramed(l) ELSE CommandWritten(l)

\* A letter that is written in another way is refused.
LettersDocumented ==
  \A f \in Fids : \A l \in Letters[f] : Parse(l.file, Framed(l)).ok => Documented(l)
=============================================================================
