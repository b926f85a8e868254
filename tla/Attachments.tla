---------------------------- MODULE Attachments ----------------------------
(***************************************************************************)
(* The index of a conversation's attachments (attachmentIndex of           *)
(* internal/p9fs/attachments.go): a directory for each message with        *)
(* attachments, in it info.json and a file for each attachment.  It is     *)
(* made anew, nodes kept, from the last list that an Open of history and   *)
(* the last that an Open of pins was answered with.                        *)
(*                                                                         *)
(* update runs under attachmentIndex.mu and is one step.  Opens run on     *)
(* goroutines of their own, so that answers may be applied in another      *)
(* order than they were given; and a Read that refreshes an expired URL    *)
(* (refreshAndOpen) reads a file's name and writes it back in two steps.   *)
(*                                                                         *)
(* Messages are numbered as they are posted.  A file name is a short       *)
(* sequence, a base and perhaps a suffix.                                  *)
(***************************************************************************)
EXTENDS Integers, Sequences, FiniteSets

CONSTANTS
  MaxPosts,    \* bound: messages
  Atts,        \* IDs of attachments
  MessageOf,   \* [Atts -> 1..MaxPosts]
  Base,        \* [Atts -> name]: safePathName of the file name
  Short,       \* [Atts -> the ID's last characters]
  Limit,       \* --history-limit
  PinLimit,    \* how many pins are asked for, 50 in the code
  Opens,       \* goroutines that serve an Open of history or pins
  Reads,       \* goroutines that refresh a URL for a Read
  MaxOpens, MaxRefreshes, MaxChanges   \* bounds

Msgs == 1..MaxPosts
Sources == {"history", "pins"}
InfoName == <<"info.json">>

ASSUME AttachmentsAssumption ==
  /\ MaxPosts \in Nat /\ Limit \in Nat \ {0} /\ PinLimit \in Nat
  /\ MessageOf \in [Atts -> Msgs]
  /\ Base \in [Atts -> Seq(STRING)] /\ Short \in [Atts -> STRING]
  /\ \A a, b \in Atts :
       MessageOf[a] = MessageOf[b] =>
         /\ Short[a] = Short[b] => a = b
         /\ Append(Base[a], Short[a]) # Base[b] /\ Append(Base[a], Short[a]) # InfoName

VARIABLES
  posted, deleted, pinned, attached,   \* the server's messages and their attachments
  sources,    \* attachmentIndex.sources: [Sources -> [message -> attachments]]
  dirs,       \* attachmentIndex.messages and dir: [message -> its info and children]
  files,      \* attachmentMessageDir.attachments: [attachment -> its node and stat.Name]
  made,       \* history: [Atts -> nodes made for it]
  shadowed,   \* history: messages whose info.json an attachment has taken
  renamed,    \* history: attachments whose refreshed name was that of before an update
  open,       \* [Opens -> progress of an Open]
  read,       \* [Reads -> progress of a refresh]
  current,    \* history: sources whose list has not changed since it was asked for
  opens, refreshes, changes

serverVars == <<posted, deleted, pinned, attached>>
indexVars == <<sources, dirs, files, made, shadowed, renamed>>
attachmentVars == <<serverVars, indexVars, open, read, current, opens, refreshes, changes>>

Idle == [step |-> "idle"]
Empty == [m \in {} |-> {}]

IndexInit ==
  /\ posted = 0 /\ deleted = {} /\ pinned = {} /\ attached = Atts
  /\ sources = [s \in Sources |-> Empty]
  /\ dirs = Empty /\ files = Empty
  /\ made = [a \in Atts |-> 0] /\ shadowed = {} /\ renamed = {}
  /\ open = [c \in Opens |-> Idle] /\ read = [c \in Reads |-> Idle]
  /\ current = {}
  /\ opens = 0 /\ refreshes = 0 /\ changes = 0

-----------------------------------------------------------------------------
\* The server.

Existing == 1..posted \ deleted
Window == {m \in Existing : Cardinality({n \in Existing : n > m}) < Limit}
Copy(m) == {a \in attached : MessageOf[a] = m}

\* One page of pins is asked for, and has_more is not looked at: which of too
\* many pins it has, is for the server to say.
PinPages ==
  {S \in SUBSET pinned : /\ Cardinality(S) <= PinLimit
                         /\ Cardinality(pinned) <= PinLimit => S = pinned}

\* The messages that an answer may list, and the answer itself.
Pages(s) == IF s = "pins" THEN PinPages ELSE {Window}
Answer(S) == [m \in S |-> Copy(m)]

Changed ==
  /\ changes < MaxChanges /\ changes' = changes + 1
  /\ current' = {}
  /\ open' = [c \in Opens |-> IF open[c] = Idle THEN Idle ELSE [open[c] EXCEPT !.same = FALSE]]
  /\ UNCHANGED <<indexVars, read, opens, refreshes>>

Post ==
  /\ posted < MaxPosts
  /\ posted' = posted + 1
  /\ Changed /\ UNCHANGED <<deleted, pinned, attached>>

Pin(m) ==
  /\ m \in Existing \ pinned
  /\ pinned' = pinned \cup {m}
  /\ Changed /\ UNCHANGED <<posted, deleted, attached>>

Unpin(m) ==
  /\ m \in pinned
  /\ pinned' = pinned \ {m}
  /\ Changed /\ UNCHANGED <<posted, deleted, attached>>

DeleteMessage(m) ==
  /\ m \in Existing
  /\ deleted' = deleted \cup {m} /\ pinned' = pinned \ {m}
  /\ Changed /\ UNCHANGED <<posted, attached>>

\* An edit of a message removes one of its attachments.
Edit(a) ==
  /\ a \in attached /\ MessageOf[a] \in Existing
  /\ attached' = attached \ {a}
  /\ Changed /\ UNCHANGED <<posted, deleted, pinned>>

-----------------------------------------------------------------------------
\* What update and reconcileMessage make of the two lists.

\* Mutant: names are not told apart.
PathPlain(copy, a) == Base[a]

\* AttachmentNames: a base that several attachments have gets the ID's suffix.
Path(copy, a) ==
  IF \E b \in copy \ {a} : Base[b] = Base[a] THEN Append(Base[a], Short[a]) ELSE Base[a]

\* What one map has, and what another has besides.
Over(f, g) == [x \in DOMAIN f \cup DOMAIN g |-> IF x \in DOMAIN f THEN f[x] ELSE g[x]]

\* The pins are merged last, over the history.
Combined(lists) == Over(lists["pins"], lists["history"])

WithAttachments(list) == [m \in {n \in DOMAIN list : list[n] # {}} |-> list[m]]

Info == [file |-> "info", node |-> 0]

\* info.json is whatever the directory held under that name before.
InfoChild(m) == IF m \in DOMAIN dirs THEN dirs[m].children[InfoName] ELSE Info

Directory(m, copy, node) ==
  LET new == [p \in {Path(copy, a) : a \in copy} |->
                LET a == CHOOSE b \in copy : Path(copy, b) = p IN [file |-> a, node |-> node[a]]]
  IN [info |-> [a \in copy |-> Path(copy, a)],
      children |-> Over(new, [p \in {InfoName} |-> InfoChild(m)])]

\* Mutant: attachments that a message has lost keep their nodes.
IndexNeverForgets(combined) ==
  LET listed == DOMAIN files \cup UNION {combined[m] : m \in DOMAIN combined}
      node == [a \in Atts |-> IF a \in listed \ DOMAIN files THEN made[a] + 1 ELSE made[a]]
  IN /\ made' = node
     /\ dirs' = [m \in DOMAIN combined |-> Directory(m, combined[m], node)]
     /\ files' = [a \in listed |-> [node |-> node[a], name |-> Base[a]]]
     /\ UNCHANGED <<shadowed, renamed>>

\* Nodes are kept for what stays in the index.
Index(combined) ==
  LET listed == UNION {combined[m] : m \in DOMAIN combined}
      node == [a \in Atts |-> IF a \in listed \ DOMAIN files THEN made[a] + 1 ELSE made[a]]
  IN /\ made' = node
     /\ dirs' = [m \in DOMAIN combined |-> Directory(m, combined[m], node)]
     /\ files' = [a \in listed |-> [node |-> node[a], name |-> Path(combined[MessageOf[a]], a)]]
     /\ shadowed' = {m \in DOMAIN combined :
                       m \in shadowed \/ \E a \in combined[m] : Path(combined[m], a) = InfoName}
     /\ renamed' = {}

-----------------------------------------------------------------------------
\* Open of history or pins: a request, then update with its answer.

OpenBegin(c, s) ==
  /\ open[c] = Idle /\ opens < MaxOpens
  /\ opens' = opens + 1
  /\ open' = [open EXCEPT ![c] = [step |-> "asked", source |-> s, same |-> TRUE]]
  /\ UNCHANGED <<serverVars, indexVars, read, current, refreshes, changes>>

OpenAnswered(c) ==
  /\ open[c].step = "asked"
  /\ \E S \in Pages(open[c].source) :
       open' = [open EXCEPT ![c] = [step |-> "answered", source |-> @.source, same |-> @.same,
                                    list |-> Answer(S)]]
  /\ UNCHANGED <<serverVars, indexVars, read, current, opens, refreshes, changes>>

\* Without an answer the index stays as it is.
OpenFails(c) ==
  /\ open[c].step = "asked"
  /\ open' = [open EXCEPT ![c] = Idle]
  /\ UNCHANGED <<serverVars, indexVars, read, current, opens, refreshes, changes>>

\* Mutant: what the list no longer has stays in the index.
UpdateMerges(c) ==
  /\ open[c].step = "answered"
  /\ LET s == open[c].source
     IN /\ sources' = [sources EXCEPT ![s] = Over(WithAttachments(open[c].list), @)]
        /\ current' = IF open[c].same THEN current \cup {s} ELSE current \ {s}
  /\ Index(Combined(sources'))
  /\ open' = [open EXCEPT ![c] = Idle]
  /\ UNCHANGED <<serverVars, read, opens, refreshes, changes>>

Update(c) ==
  /\ open[c].step = "answered"
  /\ LET s == open[c].source
     IN /\ sources' = [sources EXCEPT ![s] = WithAttachments(open[c].list)]
        /\ current' = IF open[c].same THEN current \cup {s} ELSE current \ {s}
  /\ Index(Combined(sources'))
  /\ open' = [open EXCEPT ![c] = Idle]
  /\ UNCHANGED <<serverVars, read, opens, refreshes, changes>>

-----------------------------------------------------------------------------
\* refreshAndOpen: the message was fetched and has the attachment still.

RefreshReadsName(c, a) ==
  /\ read[c] = Idle /\ refreshes < MaxRefreshes
  /\ a \in DOMAIN files /\ a \in attached /\ MessageOf[a] \in Existing
  /\ refreshes' = refreshes + 1
  /\ read' = [read EXCEPT ![c] = [step |-> "named", file |-> a, node |-> files[a].node,
                                   name |-> files[a].name]]
  /\ UNCHANGED <<serverVars, indexVars, open, current, opens, changes>>

\* The node may have left the index meanwhile, which then keeps no trace of it.
RefreshWrites(c) ==
  /\ read[c].step = "named"
  /\ LET a == read[c].file
     IN IF a \in DOMAIN files /\ files[a].node = read[c].node
          THEN /\ files' = [files EXCEPT ![a].name = read[c].name]
               /\ renamed' = IF files[a].name # read[c].name THEN renamed \cup {a} ELSE renamed
          ELSE UNCHANGED <<files, renamed>>
  /\ read' = [read EXCEPT ![c] = Idle]
  /\ UNCHANGED <<serverVars, sources, dirs, made, shadowed, open, current, opens,
                 refreshes, changes>>

IndexNext ==
  \/ Post \/ \E m \in Msgs : Pin(m) \/ Unpin(m) \/ DeleteMessage(m)
  \/ \E a \in Atts : Edit(a)
  \/ \E c \in Opens :
       (\E s \in Sources : OpenBegin(c, s)) \/ OpenAnswered(c) \/ OpenFails(c) \/ Update(c)
  \/ \E c \in Reads : (\E a \in Atts : RefreshReadsName(c, a)) \/ RefreshWrites(c)

IndexSpec == IndexInit /\ [][IndexNext]_attachmentVars

-----------------------------------------------------------------------------
Paths == {Base[a] : a \in Atts} \cup {Append(Base[a], Short[a]) : a \in Atts} \cup {InfoName}
Child == {Info} \cup [file : Atts, node : Nat \ {0}]

IndexTypeOK ==
  /\ posted \in 0..MaxPosts /\ deleted \subseteq Msgs /\ pinned \subseteq Existing
  /\ attached \subseteq Atts
  /\ \A s \in Sources : /\ DOMAIN sources[s] \subseteq Msgs
                        /\ \A m \in DOMAIN sources[s] : sources[s][m] \in (SUBSET Atts) \ {{}}
  /\ DOMAIN dirs \subseteq Msgs
  /\ \A m \in DOMAIN dirs :
       /\ DOMAIN dirs[m].info \subseteq Atts /\ \A a \in DOMAIN dirs[m].info : dirs[m].info[a] \in Paths
       /\ DOMAIN dirs[m].children \subseteq Paths
       /\ \A p \in DOMAIN dirs[m].children : dirs[m].children[p] \in Child
  /\ DOMAIN files = UNION {DOMAIN dirs[m].info : m \in DOMAIN dirs}
  /\ \A a \in DOMAIN files : files[a].node \in 1..made[a] /\ files[a].name \in Paths
  /\ shadowed \subseteq DOMAIN dirs /\ renamed \subseteq DOMAIN files
  /\ current \subseteq Sources

ShowsNow(m) == m \in DOMAIN dirs /\ DOMAIN dirs[m].info = Copy(m)

(***************************************************************************)
(* What README.md:76, "The index contains the latest history window plus  *)
(* current pins", comes to when the lists that were applied last had been  *)
(* asked for after the last change.  An Open of pins is enough for a page  *)
(* of pins, which is all of them unless there are too many.  An Open of    *)
(* history alone is not enough for the window: a message stays as an older *)
(* answer to pins showed it (update merges the pins over the history).     *)
(***************************************************************************)
IndexIsCurrent ==
  /\ "history" \in current =>
       \A m \in Window : Copy(m) # {} => ShowsNow(m) \/ m \in DOMAIN sources["pins"]
  /\ "pins" \in current =>
       \E S \in PinPages :
         /\ \A m \in S : Copy(m) # {} => ShowsNow(m)
         /\ "history" \in current => DOMAIN dirs = {m \in Window \cup S : Copy(m) # {}}

(***************************************************************************)
(* The paths that info.json and history give lead to the attachments they  *)
(* are given for, under names of their own, and the nodes show these names *)
(* unless a refresh of the URL overlapped with the update (the name is     *)
(* read and written back in two steps).  info.json is the metadata unless  *)
(* an attachment of that name has taken its place, which is then for good: *)
(* reconcileMessage carries over whatever has the name.                    *)
(***************************************************************************)
PathsResolve ==
  \A m \in DOMAIN dirs :
    /\ \A a \in DOMAIN dirs[m].info :
         LET p == dirs[m].info[a]
         IN /\ p \in DOMAIN dirs[m].children
            /\ dirs[m].children[p] = [file |-> a, node |-> files[a].node]
            /\ files[a].name = p \/ a \in renamed
    /\ dirs[m].children[InfoName] = Info \/ m \in shadowed

-----------------------------------------------------------------------------
(***************************************************************************)
(* The inductive invariant: what the index makes of its two lists...       *)
(***************************************************************************)
Lists == UNION {[S -> SUBSET Atts] : S \in SUBSET Msgs}

Owned(list) == \A m \in DOMAIN list : \A a \in list[m] : MessageOf[a] = m

ListsOK ==
  /\ sources \in [Sources -> Lists]
  /\ \A s \in Sources : Owned(sources[s]) /\ \A m \in DOMAIN sources[s] : sources[s][m] # {}

Listed == UNION {Combined(sources)[m] : m \in DOMAIN Combined(sources)}

\* ... directories with a path for each attachment, which leads to its node,
DirectoryOK(m, copy) ==
  /\ dirs[m].info = [a \in copy |-> Path(copy, a)]
  /\ DOMAIN dirs[m].children = {Path(copy, a) : a \in copy} \cup {InfoName}
  /\ \A a \in copy : dirs[m].children[Path(copy, a)] = [file |-> a, node |-> made[a]]
  /\ dirs[m].children[InfoName] = Info \/ m \in shadowed

DirsOK ==
  /\ DOMAIN dirs = DOMAIN Combined(sources)
  /\ \A m \in DOMAIN dirs : DirectoryOK(m, Combined(sources)[m])

\* and nodes, each the last that was made for its attachment.
FilesOK ==
  /\ made \in [Atts -> Nat]
  /\ files \in [Listed -> [node : Nat, name : Paths]]
  /\ \A a \in Listed :
       /\ files[a].node = made[a]
       /\ files[a].name = Path(Combined(sources)[MessageOf[a]], a) \/ a \in renamed

\* What the server would answer now, and what update would keep of it.
AnsweredNow(s, list) == \E S \in Pages(s) : list = Answer(S)
KeptNow(s, list) == \E S \in Pages(s) : list = WithAttachments(Answer(S))

\* The answers under way, and which of them are still what the server has.
OpenOK ==
  /\ open \in [Opens -> {Idle} \cup [step : {"asked"}, source : Sources, same : BOOLEAN]
                     \cup [step : {"answered"}, source : Sources, same : BOOLEAN, list : Lists]]
  /\ \A c \in Opens :
       open[c].step = "answered" =>
         /\ Owned(open[c].list)
         /\ open[c].same => AnsweredNow(open[c].source, open[c].list)

RefreshOK == read \in [Reads -> {Idle} \cup [step : {"named"}, file : Atts, node : Nat, name : Paths]]

CurrentOK == \A s \in current : KeptNow(s, sources[s])

IndexInv == IndexTypeOK /\ ListsOK /\ DirsOK /\ FilesOK /\ OpenOK /\ RefreshOK /\ CurrentOK
=============================================================================
