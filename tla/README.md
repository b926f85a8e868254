# 9flx in TLA+

[9flx](../src/README.md) shows a Fluxer account as a 9P file tree. This
directory holds TLA+ modules of the parts of it that are concurrent, meet
failures or depend on order, the TLC configurations that check them on small
instances, and theorems that TLAPS proves for every instance.

- [The system](#the-system): its parts, what each keeps, how they interact
- [The modules](#the-modules): what models what
- [The runs](#the-runs): what is checked, with which bounds
- [Fairness](#fairness)
- [What is proved](#what-is-proved)
- [Findings](#findings)
- [What is not modelled](#what-is-not-modelled)
- [Plan](#plan)

## The system

One process. `main.go` fills the store over REST, connects the parts by
callbacks and starts two goroutines, the gateway's and the 9P server's; the
server runs a goroutine for each connection, and go9p goroutines for requests.

| part | state | operations | hard because |
|---|---|---|---|
| event hub, `core/hub.go` | subscriptions by channel and global ones, a bounded Go channel and a dropped counter each | `Subscribe`, `Unsubscribe`, `Publish`, `GapAll`, `TakeDropped` | publishing beside closing, full channels, a channel and a counter that readers use without the lock |
| live files, `p9fs/files.go` | a `liveReader` per fid: subscription, rest of a rendered record, mutex | `Open`, blocking `Read`, `Close` | a `Read` blocks with a mutex held; loss and events come by two ways |
| gateway session, `fluxer/gateway.go` | session ID, sequence, pending gap, activity, backoff | `Run`, `connect` | sessions that are resumed, invalidated, forgotten; connections that break anywhere |
| gateway presence, same file | presence, custom status, a channel of one place per connection | `SetPresence`, `SetCustomStatus`, presence goroutine | changes at any moment of a connection's life |
| gateway heartbeat, same file | awaiting ACK, generation, time sent | ticker, ACK, timers | three goroutines, a mutex that is not first come, first served, and real time |
| store, `core/store.go` | profile, friends, DMs, guilds with channels | `Bootstrap`, `ApplyGateway`, `UpsertDM`, `Snapshot` | snapshots share arrays that events write over |
| tree, `p9fs/tree.go`, `nodes.go` | directories, caches of nodes by ID | `Refresh`, the resolver of a friend's DM | refreshes from two sides, two mutexes, names that clash |
| attachments, `p9fs/attachments.go` | index of messages merged from `history` and `pins`; a stream per fid | `update`, `Open`, `Read`, `Close` | URLs that expire, seeks, reads beside closes |
| setting files, `p9fs/files.go` | a buffer per fid | `Close` changes a REST setting, then the gateway | two steps, many writers |
| command and send files, same file | a buffer per fid | `Close` parses and makes one REST call | creating a DM once |
| snapshot files, same file | content per fid | `Open` | - |
| status page, `core/status.go` | counters | one method each | - |
| server, `p9fs/server.go` | active connections | `Serve` | accepting beside shutting down |
| REST client, rendering, types, configuration, authentication | none that outlives a call | | retry after 429, paging |

They interact by direct calls on the caller's goroutine. The gateway goroutine
runs `Store.ApplyGateway`, and in it `Hub.Publish` or `Tree.Refresh`; it runs
`Hub.GapAll` when a new session leaves a gap. A goroutine that serves a 9P
request may call REST, `Store.UpsertDM` (and so `Tree.Refresh`),
`Gateway.SetPresence`, or wait on a subscription's Go channel.

What makes each part correct:

- hub and live files: no send on a closed channel; each reader sees posts in
  order and at most once and is told of a loss before anything newer, but for
  one slip; losses add up; a close ends blocked reads;
- session: no event is skipped without a gap report, a RESUME starts where it
  should, the client catches up when faults end, pauses grow as they should;
- pipeline: the two together lose nothing silently from server to reader;
- store and tree: the settled tree shows the store, a conversation is hidden
  only by one whose name its own clashes with, nodes outlive refreshes, a DM is
  created once, every call ends;
- presence: the server ends up with the newest presence and never goes back;
- heartbeat: a silent server is noticed in bounded time, and nothing else
  closes a connection for a missing ACK;
- index: made from answers that still hold, it shows the window and a page of the
  pins, and each path that a message's `info.json` names leads to its file;
- downloads: right bytes, no stream left open, `Close` and `Read` return;
- sends and commands: one message or action for one successful `Close`, with the
  text and bytes that were meant, and every `Close` ends.

## The modules

| module | models | uses |
|---|---|---|
| `Hub` | `core/hub.go`: one operator per method, and per step of `publish` | |
| `LiveFile` | `liveFile` of `p9fs/files.go`, with `Hub` | extends `Hub` |
| `OrderedFeed` | abstract: what a reader of an events file is promised | |
| `LiveFileProofs` | theorems about `LiveFile` | extends `LiveFile` |
| `GatewaySession` | `Run` and `connect` of `fluxer/gateway.go`, and the server | |
| `GatewaySessionProofs` | theorems about `GatewaySession` | extends `GatewaySession` |
| `Pipeline` | the wiring of `main.go`: session, store, hub, files | instantiates `GatewaySession`, `LiveFile` |
| `PipelineProofs` | theorems about `Pipeline` | extends `Pipeline`, instantiates `GatewaySessionProofs`, `LiveFileProofs` |
| `Topology` | `core/store.go` and `p9fs/tree.go` | |
| `TopologyProofs` | theorems about `Topology` | extends `Topology` |
| `Presence` | `settingFile.Close`, `SetPresence`, presence goroutine, IDENTIFY | |
| `PresenceProofs` | theorems about `Presence` | extends `Presence` |
| `Mutex` | external: Go's `sync.Mutex`, its normal and its starvation mode | |
| `Heartbeat` | ticker, ACK, timers and `write` of `connect`, over discrete time | instantiates `Mutex` |
| `HeartbeatProofs` | theorems about `Heartbeat` | extends `Heartbeat` |
| `Attachments` | `attachmentIndex` of `p9fs/attachments.go`, fed by `history` and `pins` | |
| `Download` | `attachmentFile` of `p9fs/attachments.go` | |
| `AttachmentProofs` | theorems about `Download` and `Attachments` | extends both |
| `Delivery` | abstract: what a program is promised of a `Close` | |
| `Send` | `sendFile` and `commandFile` of `p9fs/files.go`, and `do` and the uploads of `fluxer/client.go` | instantiates `Delivery` |
| `SendProofs` | theorems about `Send` | extends `Send` |
| `MC...` | instances for TLC | |

**Hub and LiveFile.** A step of the model is what the code does under a mutex,
or one operation on a Go channel or an atomic, when others can see it. `topic[s]`
is the hub's two maps read backwards; `queue[s]` is the Go channel; `dropped[s]`
the atomic counter. `Publish` and `GapAll` hold `Hub.mu` throughout, which
keeps the other methods out (`HubFree`) but not the readers, who receive and
swap the counter without it. So they take many steps (`offer`): for each subscription
in turn the send, or the default of the `select`, then `dropped.Add(1)`, then
`onOverflow`. `Read` is cut at every point where others may come between: finding
the reader, taking its mutex, the check of `pending` and of the counter, the
receive. `Close` is cut between forgetting the reader and unsubscribing. A
record is the number of reads it is fetched in (`pending`), since no property
tells its bytes apart. `missed`, `last` and `reported` are history. `Open` is
one step: the client cannot read or close a fid whose `Open` has not returned,
and until then an event can only wait in the new channel.

**GatewaySession.** One goroutine writes all of the session's fields, so
handling a payload is one step, the callbacks included. The server is external:
it numbers dispatches per session, replays after a RESUME and may forget a
detached session; faults (breaks that lose any tail of what was sent, RECONNECT,
close 4004, resumable and other INVALID_SESSIONs, failed dials, the three
minutes of `lastActivity`) come from one budget. A missed heartbeat, which
`Heartbeat` models, is such a break. `accounted` is the last event handed on or
covered by a reported gap. Each payload is decoded without error.

**Pipeline.** `HandOnEvent` and `HandOnReady` are the gateway's step together
with the beginning of the publish that its callback makes; the goroutine does
nothing else until the publish has ended (`PublishGoesOn`), while the server,
the network and the files go on. `covers` and `known` follow which events a
record that was read stands for.

**Topology.** The account is reduced to friends, DMs and one guild with text
channels; a name is a short sequence, a base and perhaps a suffix. A tag may
read like another one with a suffix, and IDs may end alike: `Reconcile` then
shows either, as Go's order of iteration decides. A guild's update with a list
of channels, perhaps an empty one, is told from one without (`mergeGuild`).
`Apply` plus the event's own conjuncts is `ApplyGateway` under `Store.mu`; the refresh
that follows is stepwise, from snapshot to each directory. `InPlace` is the
sharing of the guild's array between store and snapshot: what a refresh has not
read yet changes under it.
The race detector would object to the code there; the model takes whole
elements only. Non-text channels, relationships that are not friends and
group DMs differ in what is left out or how a base is formed, and are not
told apart.

**Presence.** A value is the number of the write it comes from.
`queuePresenceLocked` is one step although it has up to three selects: only
holders of `Gateway.mu` send, so the goroutine's receive may as well come
before. After `stop()` what was written but not received is lost.

**Heartbeat.** Time passes in units, and a unit passes only when no goroutine
can go on (`Settled`); so a write may last for its deadline, and everything else
is prompt. Three writers (ticker, read loop, presence goroutine) contend for
`writeMu`, which is Go's mutex as `Mutex` has it: a waiter that is woken may
find that a running goroutine was faster, any number of times within a
millisecond; one that has waited longer makes the mutex starve, and then it is
handed over in the order of the queue. The presence's goroutine writes whenever
it likes. `markHeartbeatSent` is a step after the write has returned, as in the code, so
an ACK may be read in between; `outran` remembers that. A timer knows only
whether its heartbeat is the newest (`heartbeatGeneration`). Clocks are kept as
ages and countdowns, so that the state space is finite.

**Attachments.** `update` holds `attachmentIndex.mu` throughout and is one
step. An `Open` of `history` or `pins` asks, is answered with what the server
has at that moment, the window of the history or one page of the pins
(`PinPages`: all of them, or any `PinLimit` of too many), and updates the index
later, so that two of them may update in the other order. Refreshing a URL (`refreshAndOpen`) also writes back a name
that it read before: two steps with the request between them. `shadowed` and
`renamed` remember the two things that the code does to a message's directory
and no later update repairs or shows: see [Findings](#findings).

**Download.** `Read` is cut at its mutex, at each request and at `body.Read`;
`Close` at its two mutexes and the cancel. A request that starts after the
context ended fails; one under way may still succeed. `IndexUpdate` is
the other writer of the URL, which may put an older one back.

**Send.** A program opens a file, writes a letter in pieces that may be served
in any order, also after the `Close`, and closes. `Close` takes the buffer away,
parses it, finds the channel (`resolve`, which may create a DM: that part is
`Topology`'s) and makes its requests. Each ends in an answer, a refusal, an
answer lost after the server has acted, a 429 that makes `do` sleep, or the
deadline of the `Close`. An upload is a plan, its parts and their completion,
or one request. Bytes are tokens: line ends, a byte that is not UTF-8, a zero or a
hole that was never written, the `!` of a framed attachment, a space, an ID, the
`<` of a tag, one that stands for any other signature, and any other. `Sniffed`
is `http.DetectContentType`, as far as `parseSend` asks it: on the first
`SniffSize` bytes, signatures at the beginning, tags after space, control bytes
anywhere. The limits are scaled down. Which sizes the server plans is its choice,
but its parts hold the file between them. File names and content types do
not change the control and are left out. `LettersDocumented` says that the
letters which the parsers accept are written as the README and the comments of
the code ask. It is the hypothesis of the theorems about what is posted, and TLC
evaluates it for the letters of the run.

**Delivery.** A `Close` has one moment: before it nothing of a letter is seen,
at it the message is posted as a whole or the `Close` fails, after it nothing
happens. A letter that did not arrive as it was written (`exact`) may be
posted as another message. An answer that was lost is a moment at which the
message is posted and an error returned.

**Mutants.** Beside a definition stand variants of it named for what is wrong
with them, each marked "Mutant". `PROJECT.json` pairs each property with one
that breaks it.

## The runs

Times are with two workers on a small machine that does nothing else.

| run | cfg | bounds | states | shows |
|---|---|---|---|---|
| `live_file` | `MCLiveFile` | 2 subscriptions, 2 channels, 2 calls, buffer 1, 3 posts, whole records; symmetric | 0.9 M, 60 s | `NoSendOnClosed`, `LossAccounting`, refinement `IsOrderedFeed` |
| `live_file_liveness` | `MCLiveFileLive` | 1 subscription, 2 calls, buffer 2, 6 posts, records in 2 pieces | 58 k, 15 s | `TypeOK`, `GapIsNext`, `CloseUnblocks`, `LossReportedUnlessStranded` |
| `live_file_gap` | `MCLiveFileGap` | 1 subscription, 1 call, buffer 1, 3 posts | 1 s | violates `GapBeforeNewer`, see [Findings](#findings) |
| `gateway_session` | `MCGatewaySession` | 4 events, 4 faults, pauses up to 3 | 5 s | `TypeOK`, `ResumePoint`, `GapIsOwed`, `PausesGrow`, `NoSilentLoss`, `CatchesUp` |
| `pipeline` | `MCPipeline` | 3 events, 2 faults, 1 subscription, 2 channels, 1 call; symmetric | 1.3 M, 90 s | `NoSilentLossEndToEnd` |
| `topology` | `MCTopology` | 2 friends of one name, 2 DMs with IDs that end alike, 3 channels (two of one name, one named like another with its suffix), 2 senders, 1 gateway event, 2 sends | 0.2 M, 115 s | `TypeOK`, `TreeShowsStore`, `OnlyClashesHide`, `NodesAreKept`, `OneDMEach`, `EveryCallEnds` |
| `presence` | `MCPresence` | 2 files, 2 writers, 3 writes, 2 faults | 0.5 M, 30 s | `TypeOK`, `QuietIsCurrent`, `NeverOlder`, `PresenceArrives` |
| `presence_file` | `MCPresenceFile` | 1 file, 2 writers, 2 writes, no faults | 1 s | violates `FileShowsPresence`, see [Findings](#findings) |
| `heartbeat` | `MCHeartbeat` | period 2, timeout 3, write deadline 2, 2 payloads or heartbeats in flight | 0.3 M, 6 s | `TypeOK`, `NoFalseAlarm`, `SilenceNoticed` |
| `attachments` | `MCAttachments` | 2 messages, a history and a page of pins of 1, 3 attachments of one name or called `info.json` and 1 other, 4 opens, 2 at a time, 4 changes, 1 refresh | 1.5 M, 105 s | `IndexTypeOK`, `IndexIsCurrent`, `PathsResolve` |
| `download` | `MCDownload` | 1 fid, 2 calls, 2 bytes, 3 reads, 2 faults | 0.3 M, 75 s | `TypeOK`, `BytesInPlace`, `NoStreamLeft`, `CloseReturns`, `ReadReturns` |
| `send` | `MCSend` | 2 fids, of 21 letters and 1; pieces of 3 bytes, buffers of 12, texts of 3, 2 bytes sniffed, parts of 2 or 4 bytes, at most 2 parts | 0.15 M, 45 s | `TypeOK`, `PostedOnce`, `PostedAsMeant`, `CloseReturns`, refinement `IsDelivery` |

Why these bounds reach the interesting cases: a buffer of one is full after one
post, so three posts give a queue, a loss and something newer than the loss;
six posts on a buffer of two give a loss that is counted while a call already
waits in the receive of a drained channel, an event that overtakes it, and more
losses behind it. Two calls on one subscription contend for its mutex. Four faults allow
a session to be lost, the connection to break before the next READY, and the
new session to be lost again. Three channels let an in-place delete shift two
elements under a refresh that has read the first. One event is
enough for that: the gateway's goroutine applies an event and then waits for
`Tree.mu`, so that no refresh meets two. Three writes let one wait
in the channel, one be sent and one come between IDENTIFY and READY. Two
bytes and three reads give a seek, a failure of it and a read after it. With a
period of 2, a timeout of 3 and writes of up to 2 a tick may find a heartbeat
that waits or is still being written, a timeout may end between two ticks, and a
heartbeat on request may start a wait anew just before a tick; the presence's
goroutine overtakes a woken ticker, and the mutex starves. A history of one
message pushes the other out of the window, so that only the pins keep it, and
one page of pins holds one of the two. Four changes post both, pin one and
edit it between two answers. The 21 letters have each grammar, good and
malformed, line ends of both kinds, a caption, data that looks like a blank line,
texts that begin like a file and files that look like a text, one upload of both kinds of plan, and one letter past the buffer's limit; a
second fid shows whether buffers stay apart.

Deadlock is not checked: in each bounded instance the environment stops when
its bound is reached. That the parts themselves do not stop is what
`CloseUnblocks`, `LossReportedUnlessStranded`, `CatchesUp`, `EveryCallEnds`,
`PresenceArrives`, the two `CloseReturns` and `ReadReturns` are for.

## Fairness

Weak fairness but in one place, and only of what Go's scheduler, a timer or a
protocol peer owes:

- `LiveFile`: a goroutine in `Read` that can go on does, a publish that has begun
  goes on, and a `Close` that has forgotten its reader goes on to unsubscribe.
  The last needs `Hub.mu`, which is free now and then only, so that its
  fairness is strong: `sync.Mutex` starves no waiter. `KeenSpec`, used for
  `LossReportedUnlessStranded`, adds a client that keeps reading;
  nothing makes events happen or files close.
- `GatewaySession`: the read loop and the retry timer go on, and the server
  answers an IDENTIFY or a RESUME that reached it. Faults are bounded and never
  owed.
- `Topology`: goroutines go on, and a REST call ends in success or failure
  (the client has a timeout).
- `Presence`: goroutines go on, and the server reads what it is sent.
- `Download`: goroutines go on, and a request or a body whose context has ended
  fails. Servers owe nothing, except in the premise of `ReadReturns`.
- `Send`: a request ends, by an answer or by the client's timeout, a sleep ends,
  and the deadline of a `Close` passes. A server may answer 429 for as long
  as it likes, and no program has to write or close.
- `Heartbeat` states none. `SilenceNoticed` is a bound, not a liveness property:
  a unit of time does not pass while a goroutine can go on, and a write does not
  outlast its deadline. The bound is a period, five writes (see
  [below](#presence-downloads-heartbeat)) and the timeout, for any interval the
  server may ask for.

## What is proved

Eight modules hold theorems that TLAPS checks to the last leaf. They hold for
all values of the constants that satisfy the assumption of the module; TLC
evaluates each assumption in the runs.

| module | theorem | states |
|---|---|---|
| `LiveFileProofs` | `TypeCorrect`, `Invariance` | `Spec => []TypeOK`, `Spec => []IInv` |
| | `GapsComeNext` | `Spec => []GapIsNext` |
| | `NoPanic` | `Spec => []NoSendOnClosed` |
| | `LossesAddUp` | `Spec => []LossAccounting` |
| | `FeedImplemented` | `Spec => IsOrderedFeed`, the refinement |
| `GatewaySessionProofs` | `TypeCorrect`, `Invariance` | `Spec => []TypeOK`, `Spec => []IInv` |
| | `GapStaysOwed` | `Spec => []GapIsOwed` |
| | `ResumesWhereItStopped` | `Spec => []ResumePoint` |
| | `NoneLostSilently` | `Spec => NoSilentLoss`, an action property |
| | `PausesGrowHolds` | `Spec => []PausesGrow` |
| | `NothingMadeUp` | `Spec => []OnlyWhatHappened` |
| `PipelineProofs` | `GatewayInPipeline`, `FilesInPipeline` | the pipeline's behaviours are a session's, and a live file's |
| | `PipeInvariance` | `Spec => []PipeInv` |
| | `NoneLostEndToEnd` | `Spec => []NoSilentLossEndToEnd` |
| | `FeedInPipeline` | the refinement of `OrderedFeed`, behind the gateway |
| `TopologyProofs` | `TypeCorrect`, `Invariance` | `Spec => []TypeOK`, `Spec => []IInv` |
| | `TreeFollowsStore` | `Spec => []TreeShowsStore` |
| | `HiddenByClashOnly` | `Spec => []OnlyClashesHide` |
| | `NodesStay` | `Spec => []NodesAreKept` |
| | `OneDMForEach` | `Spec => []OneDMEach` |
| `PresenceProofs` | `TypeCorrect`, `Invariance` | `Spec => []TypeOK`, `Spec => []IInv` |
| | `QuietShowsNewest` | `Spec => []QuietIsCurrent` |
| | `NeverGoesBack` | `Spec => NeverOlder`, an action property |
| `AttachmentProofs` | `TypeCorrect`, `Invariance` | `Spec => []TypeOK`, `Spec => []IInv`, of `Download` |
| | `ReadsInPlace` | `Spec => []BytesInPlace` |
| | `CloseLeavesNothing` | `Spec => []NoStreamLeft` |
| | `IndexTypeCorrect`, `IndexInvariance` | `IndexSpec => []IndexTypeOK`, `IndexSpec => []IndexInv`, of `Attachments` |
| | `IndexShowsTheCurrent` | `IndexSpec => []IndexIsCurrent` |
| | `IndexPathsResolve` | `IndexSpec => []PathsResolve` |
| `SendProofs` | `TypeCorrect`, `SendInvariance` | `Spec => []TypeOK`, `Spec => []SendInv` |
| | `PostedOnceHolds` | `Spec => []PostedOnce` |
| | `PostedAsParsedHolds` | `Spec => []PostedAsParsed` |
| | `ParsersAgreeHolds` | `LettersDocumented` implies `ParsersAgree` |
| | `PostedAsMeantHolds` | `LettersDocumented` implies `Spec => []PostedAsMeant` |
| | `DeliveryImplemented` | `LettersDocumented` implies `Spec => IsDelivery`, the refinement |
| `HeartbeatProofs` | `TypeCorrect` | `Spec => []TypeOK` |
| | `NoFalseAlarmHolds` | `Spec => []NoFalseAlarm` |
| | `SilenceNoticedHolds` | `Spec => []SilenceNoticed` |

The assumptions say little more than the types of the constants. Those that say
more:

- `HubAssumption`: a subscription's channel has at least one place, and there
  are finitely many subscriptions;
- `TopologyAssumption`: the IDs of a guild's channels differ, which is the
  server's to see to. Of names and of how IDs end it assumes nothing;
- `AttachmentsAssumption`: the attachments of one message differ in the last
  characters of their IDs, and no name is another one with such a suffix, nor
  is `info.json`; `AttachmentNames` relies on it, and `PathsResolve` with it.

`LettersDocumented` is no assumption of `Send` but a hypothesis of three of its
theorems: the others, and the module, are about any letters.

### Live files

One would like a record never to be newer than a loss its reader has not been
told of (`GapBeforeNewer`), and the code does not quite keep this: between the
`default` of `Publish` and its `Add` a reader may drain the channel and find the
counter zero, and the next event then reaches it before the loss is counted in
its sight. `GapIsNext` is what holds: one loss at most is overtaken, and once a
record has been handed out the next thing that is read is the gap. It is not
inductive. A `Read` checks the counter and only then receives, so the invariant
has to say what a call may have missed that already waits in the receive
(`WaitersOweOne`). Nothing it has missed is older than what it read last. While
the channel is empty it is one loss at most, and none while an event is between
the `default` and the `Add`; while the channel has events, one loss at most is
older than the first of them, since whatever is dropped later was dropped
because that event was in the way. The head of the channel can be taken by no
one else, because `liveReader.mu` is held.

This rests on the other parts of `IInv`: queues are in order (`QueuesInOrder`)
and bounded (`BoundedQueues`), the counter is zero exactly when nothing is
missed (`LossesCounted`), one call at a time is inside a reader
(`LockDiscipline`), a publish goes through one subscription at a time
(`OneAtATime`), and nothing is sent on, or still offered to, a closed channel
(`NoSendOnClosed`). `SubscriberBuffer >= 1` is used: with an unbuffered channel
the argument, and the property, fail. The proof has a lemma per kind of step:
those of a publish (`BeginKeepsIInv`, `SendKeepsIInv`, `FindFullKeepsIInv`,
`CountLossKeepsIInv`, `NoteOverflowKeepsIInv`), opening and closing
(`OpenCloseKeepIInv`), steps of a read that render nothing (`QuietReadKeepsIInv`),
rendering a gap (`GapKeepsIInv`) and an event (`EventKeepsIInv`).

`FeedImplemented` maps what waits, or is on offer, and what is missed to the
abstract feed. An event counts as posted from the beginning of its publish
(`BeginPosts`); being sent changes nothing, and it is lost at the moment it is
counted (`OfferSteps`). `IInv` is what tells that the record which is rendered
is the oldest, or the one that may overtake (`ReceiveDelivers`).

`LossAccounting` sums the counters over all subscriptions; the status page is one
behind while a publish has counted a loss and not yet called `onOverflow`
(`HubStepCounts`, `CountsKept`). The sum is a fold,
and a fold is a function defined by recursion over subsets, of which a prover
knows only that it is the one with a certain equation if there is one. `SumsExist`
shows that there is one, and `TotalsGain` what a step that adds to a counter does
to its sum. The induction theorems of the library take an operator as their
parameter, which the provers cannot instantiate; `Least` and `Induction` do
what is needed of them, from the least element of a set.

### Gateway session

What the client holds and what the server keeps are tied by what is on its way
between them, so the invariant is mostly about `inbox`:

- `ServerKeepsAll`: a session's log is every event since it started;
- `ClientFollows`: the client's sequence number counts what it has handled of
  its session, and is zero exactly when it has none;
- `DispatchesInOrder`: the dispatches on their way are of the newest session,
  start after the client's sequence number and have no hole;
- `AttachedUpToDate`: while the server sends to the connection, the last of
  them, or the last that was received, is the newest event;
- `RequestIsCurrent` and `LinkInPhase`: nothing overtakes a HELLO, an IDENTIFY
  or a RESUME, and a dead link is empty;
- `GapIsOwed`: a session that was given up after a READY leaves a gap pending.

A break cuts a tail from `inbox`, which leaves all of them but
`AttachedUpToDate`, and that one asks for nothing of a session that is not
attached. `OnlyWhatHappened` is inductive beside `IInv`; the pipeline needs it.
`NextPause`, for `PausesGrow`, is about the next pause in every phase; it
uses that a power of two exceeds its exponent, as the count of pauses stops past
the cap.

### Pipeline

`GatewayInPipeline` and `FilesInPipeline` show that the composition takes only
steps that its parts allow, so that all that is proved of the parts holds in it.
What is left is the wiring. `PipeInv` says that the posts stand for the events
in the order in which they happened (`PostsInOrder`), that a subscription
has only what was posted for its topic since its `Open` (`SubscribedOnce`), that
all a reader still wants up to what the gateway has accounted for waits in its
channel, is on offer to it, is told of by a gap that it will read, or was read
(`ReadersServed`), and that what was lost and counted was really posted and will
not come (`LostForGood`). With `GapIsNext` this gives `NoSilentLossEndToEnd`: of
the events before the newest that was read, all were read, told of, or are the
one that was overtaken and is told of next (`Overtaken`). A publish is gone
through stage by stage (`PostComes`, `LossComes`, `OfferKeepsInv`).

### Topology

The mutexes are held by who is at the steps they protect (`TreeMuOK`, `DmMuOK`),
and a refresh goes through IDs of the right kind (`ItemsOK`). `TreeShowsStore`
is about a tree that nobody refreshes or is about to; its invariant,
`SnapshotIsCurrent`, is about a refresh that runs while nobody is about to start
one: it has what the store has, whatever it took its snapshot from. `ShowsStore`
says which directories it has come past by then. That a refresh which works on
an old snapshot does no lasting harm is so because its writer is about to
refresh after it. `NodesOK` counts the nodes that were made, or that the refresh
that runs will make, against those that were removed and those that are, or will
be, there; `CreatesOK` does the same with DMs. `OnlyClashesHide` follows
from `ShowsStore`: `Reconcile` shows one node under each name, so an entry that
is not shown has the name of another (`ShownUnlessClash`), and two entries get one
name only if their bases and suffixes run together (`SameNameIsAClash`).

### The attachment index

`update` makes the index from two lists and from what the index had before, and
what it had before is to leave no trace. The invariant says that of each part:
the lists hold a message's own attachments and no empty set (`ListsOK`); a
directory has a path for each attachment of the combined list, which leads to
its newest node (`DirsOK`, `FilesOK`); and `info.json` is what it should be
unless the message is `shadowed`. Names differ because `Path` adds the ID's last
characters to each name that occurs twice (`PathsDiffer`); `DirectoryMade` and
`IndexMade` show once that the index which is made has all this, whatever it was
made from, and the rest is the steps that change it in place: `RefreshWrites`
writes a name that may be old, and so makes a file `renamed`.

`IndexIsCurrent` relates the lists to the server, and answers may be applied
late and in the other order. It speaks of the moments at which the lists are
those of answers that the server would still give: the window, and a page of
pins. An `Open` carries whether the server has changed since it asked (`same`),
and `OpenOK` says that an answer for which this is so is still one that the
server could give (`AnsweredNow`). So an update makes its list current, or makes it not
current, and after a change of the server no list counts as current
(`CurrentOK`, `ServerChanges`). With both lists current, the combined list is
that of the window and a page of the pins (`KeptNow`, `PinPages`). It claims nothing of
an older answer that is applied after a newer one.

### Presence, downloads, heartbeat

`Presence`: what is under way comes to the server in the order `wire`,
`sending`, `updates`. Each part is ordered by when it was set
(`WireInOrder`, `SenderInOrder`, `QueueInOrder`), and on a connection that is up
the last of it is what the gateway was given last (`LastIsCurrent`). An IDENTIFY
took its copy before anything was queued, so it is older than all of it, and
the READY after it queues what is current.

`Download`: who is past the mutex holds it (`LockOK`); the one body that is open
stands where `offset` says (`BodyOK`), and a `Read` that comes to read has it
where it wants it (`ReadOK`). Once a fid has been forgotten, its `Close` is still
under way, or nothing is open and no `Read` is left that could open anything
(`ClosedOK`).

`NoFalseAlarm` needs two facts more: what is waited for is owed or came before
its mark (`WaitIsOwed`), and the newest timer ends as the mark becomes a timeout
old (`NewestTimesMark`), so that both places that raise the alarm see the same
age.

`SilenceNoticed` says nothing of why silence ends. `InTime` does: the client
always waits for one of a tick, its turn at `writeMu`, the end of its write, or a
timeout, and each part bounds `quiet` at the time it comes. A tick comes within
a period (`TickInTime`), a heartbeat's write ends within five writes more
(`BeatInTime`, `MarkInTime`), and so its timeout within the patience
(`TimeoutInTime`). What makes it five is Go's mutex, which is not fair. The
queue for it, with a waiter that was woken or has the mutex handed over at its
head, is seen through `First` and `Second`: two wait at most (`Queued`, with the
lemmas `Locked`, `Tried` and `Unlocked` about what a `Lock`, a woken waiter's
attempt and an `Unlock` make of it). `Ends(w)` bounds when the write of `w` will have ended:
its own, one that is under way, one by a goroutine that barges in or spins, and those of
waiters before it; once it has waited a millisecond the mutex starves, and no
one comes in between. It is five deadlines at most (`EndsSoon`); no step of
another goroutine increases it (`EndsAsOthersCome`, `EndsAsOthersTry`,
`EndsAsOthersUnlock`, `EndsAsMarked`), and a unit of time decreases it
(`EndsAsTimePasses`). Nothing is assumed of how the interval, the write deadline
and the timeout compare.

`TypeOK` says that exactly the goroutines that write have `writeMu` or are in its
`Lock`, and bounds the heartbeats that are under way; `Bounded` says why: the
ticker adds one at most to those the server asked for, as it does not write
while an ACK is awaited.

### Sends

`PostedOnce` says that a `Close` has posted at most once, and once when it
succeeded. It is not inductive: nothing in it keeps a `Close` that has posted
from coming to its post again. `PostInv` adds the two facts that do: whoever has
posted is done (`PostedByDone`), since an answer that was lost also ends the
`Close`; and while the buffer is there no `Close` has begun, so that taking the
buffer starts one at most. The proof goes over the requests one by one; those
that cannot post share the lemmas `UnderWay`, `EndsCall` and `ThenCall`.

`SendInv` follows the bytes of a letter: from the pieces into the buffer, in
whatever order they are written (`Assembled`), through the parser into what the
`Close` carries (`CarriesParsed`), by the parts of the upload to the server
(`Uploaded`) and into the message (`PostsCarried`). So what is posted is what
the parser makes of the letter as it was written (`PostedAsParsed`). What the
parser makes of it is `ParsersAgree`: for each letter that is parsed and is not
`Misread`, the result is what was meant. It is about constants only: sequential
functions that search a sequence, and a program that writes one. The searches
are defined by the first place at which a separator stands, not by recursion, so
that the provers can reason about them. `ParsersAgreeHolds` shows that the
separators of a framed attachment are found where the program wrote them. The
first line end of the payload is the one of the header, as the header has none
(`FramedSplits`). The first blank line after it is the writer's (`BlankAfterLF`,
`BlankAfterCRLF`): one that began earlier would need an empty line in the
caption, or line ends of the other style, or would reach from the caption into
the separator, and none of these fits. One that begins in the data is later,
except that the search for CR LF comes first. That is the exception of `Misread`
for attachments, and the lemmas say that there is no other; its exceptions for
texts that look like a file and files that look like a text are what
`parseSend` goes by (`Sniffed`, `IsText`). Texts lose their line end (`TextRead`),
and commands are cut at the first space (`CommandRead`). This holds for
captions, data and texts of any length. What it asks of the letters,
`LettersDocumented`, is what a program has to respect: a caption without empty
lines and in one style, a text that does not begin like a framed attachment and
ends in one line end at most.

`DeliveryImplemented` maps a fid to its letter, what was posted and what the
`Close` returned. Most steps stutter (`Unseen`), among them every request that
is answered and leads to another. The step that posts is `Deliver`
(`Delivered`), also when its answer is lost; each that ends without having
posted is `Fail` (`Failed`); a piece that is refused is `Slip`. `PostInv` says
that a `Close` comes to either once, `SendInv` and `ParsersAgreeHolds` that what
it delivers was meant.

### Only model-checked

- All liveness, which TLAPS cannot prove here: `CloseUnblocks`,
  `LossReportedUnlessStranded`, `CatchesUp`, `EveryCallEnds`, `PresenceArrives`, `CloseReturns` (twice),
  `ReadReturns`.
- `LettersDocumented`, which is about the constants of the run.
- The two violations, `FileShowsPresence` and `GapBeforeNewer`.

## Findings

**A record may be read before the gap for an older loss** (`live_file_gap`).
`Publish` finds a channel full, and only then counts the loss
(`core/hub.go:93-94`). A `Read` takes no `Hub.mu`: in between it may drain the
channel, find the counter zero and wait. The loss is then counted, and the next
event goes to the waiting call: it is rendered before the GAP that is older. That
`files.go:358` looks for losses before each receive does not prevent it.
`GapIsNext` shows that the slip is by one loss, and that the gap is what is read
next.

**A write of `me/status` may leave the file and the presence apart**
(`presence_file`). The store function of `me/status` (`p9fs/files.go:248-261`)
changes the setting by REST, `api.SetStatus`, and then the gateway's copy,
`setLive`. Two clients, or two fids of one, may write at the same time:
`settingFile.mu` is free while the store function runs. If the two PATCH
requests are served in one order and the two `setLive` calls run in the other,
both writes succeed, the file reads one value, and the server shows the other
until somebody writes again. README.md:101 says "Read or change your presence
with `me/status`". The same gap opens when the answer to the PATCH is lost; the
write then returns an error, and the run leaves that out.

Other behaviour met while modelling that a maintainer may want to know of. Except
for the last entry the modules have it as the code does, and the properties
name it as an exception:

- In the same window as above, a reader may wait in the receive of a channel
  that it has drained, its counter at zero, when the loss is counted
  (`hub.go:93-94`). Nothing tells it until another event of its topic comes.
  `LossReportedUnlessStranded` shows that this is the only way for a reader that
  keeps reading not to be told.
- `assignNames` tells equal names apart by the last six characters of the
  ID (`tree.go:322`). IDs may end alike, and a tag may read like another one with
  its suffix; two entries then get one name and the directory shows one of them,
  which one depends on Go's order of iteration. `OnlyClashesHide` shows that an
  entry is missing for this reason only.
- `Open` of `pins` asks for 50 (`files.go:97`) and ignores `has_more`: older pins
  are neither in `pins` nor in the index, of which README.md:76 says that it
  "contains the latest history window plus current pins". `IndexIsCurrent`
  promises a page of them.
- `update` applies answers in the order in which they come to it
  (`attachments.go:67`). Of two overlapping Opens of `history`, the one that asked
  before a message was posted may be applied last; the index then lacks the
  message until the next `Open`. `IndexIsCurrent` excludes this.
- `parseSend` asks `http.DetectContentType` what a text is (`files.go:724`). A text
  that begins with `BM`, `ID3`, `<!--`, `%PDF-` or another signature is posted as
  an attachment, although README.md:3 says "send a message with `echo 'hello' >
  send`". `Misread`.
- A heartbeat is marked as sent after it was written. An ACK that is read in
  between is overwritten by the mark, and a healthy connection is closed 15
  seconds later (`gateway.go:289-293`). `NoFalseAlarm` shows that this race
  (`outran`) is the only way to a false alarm.
- Each new heartbeat starts the wait for an ACK anew, so that a server that keeps
  asking for heartbeats and acknowledges none is not noticed; `SilenceNoticed`
  is about a server that sends nothing.
- A framed attachment is searched for a blank line of CR LF before one of LF
  (`files.go:757`), in the data too. With LF lines, as README.md:77-86 writes
  them, and a caption, data that holds CR LF CR LF is cut there: what comes
  before becomes part of the caption, or the `Close` fails because that is no
  text or too long. `Misread` in `Send` has this case, beside that of texts and
  files that are taken for each other, and `PostedAsMeant` holds outside of it.
- A piece past the limit is refused, but the `Close` sends the pieces before it;
  so does the `Close` of a program that was stopped half-way (`files.go:667`).
- An attachment named `info.json` takes the place of the metadata
  (README.md:70), and keeps it after it has left the message: the directory
  carries over whatever has that name (`attachments.go:105`). `shadowed`.
- The index merges the pins over the history (`attachments.go:69`), so that a
  pinned message shows its attachments as the last `Open` of `pins` had them,
  however new the history is, and a message that was unpinned or deleted since
  stays. README.md:76 says "the latest history window plus current pins";
  `IndexIsCurrent` shows that once both were opened this is so.
- A refresh of a URL that overlaps with an update leaves the file's old name in its
  `stat` (`attachments.go:268`); its path is right. `renamed`.
- RESUMED does not start the backoff over (`gateway.go:385`), an event that does
  not decode is reported in `status` but not to readers
  (`gateway.go:390`), READY removes nothing from the store (`store.go:161`), and a
  failed seek in an attachment leaves a closed body behind
  (`attachments.go:218`).

## What is not modelled

- The paging of guilds, `Store.Bootstrap` before its result, the server's
  accept loop and shutdown: see the plan.
- The other methods of the REST client: one `do` each, and `do` is in `Send`.
- The bytes of snapshot files, of rendering and of the API's types: pure
  formatting of what a call returned, with no state that another part reads. The
  `Open` of `history` and `pins` is modelled as far as the index goes.
- The buffers of setting files and `me/avatar`: like those of commands, with
  one REST call after them.
- In `Send`: attachment names, content types and the names that are inferred from
  them; a channel that goes away between the parse and the post, which is a
  refused request; the two kinds of 429 that are errors, which are refusals.
- Authentication: sequential, and the protocol is the library's.
- Configuration: read once, before anything runs.
- The status page beyond `QueueOverflows` and `GatewayConnected`: each of its
  methods is one assignment under a mutex.
- Go's memory model: the shared arrays of channels (`Topology`) are read and
  written without a common lock; the model takes whole elements.

## Plan

Done: `Hub`, `LiveFile`, `OrderedFeed`, `GatewaySession`, `Pipeline`,
`Topology`, `Presence`, `Download`, `Attachments`, `Mutex`, `Heartbeat`, `Send`,
`Delivery`, and proofs about all of them. Each safety property that a passing run
checks is a theorem.

Next modules, in this order:

1. `Lifecycle`: accept against shutdown, and the two goroutines of `main.go`.
2. `Paging`: the paging of guilds while guilds are joined and left.

Abstract specifications worth stating next: a store that is mirrored by a tree,
for `Topology`; a register that follows the last write, for `Presence`.
