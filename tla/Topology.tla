------------------------------ MODULE Topology ------------------------------
(***************************************************************************)
(* What the account looks like (internal/core/store.go) and the directory  *)
(* tree that shows it (internal/p9fs/tree.go).                             *)
(*                                                                         *)
(* The gateway goroutine applies an event to the store and then refreshes  *)
(* the tree; a goroutine that serves a send to a friend may create the DM, *)
(* put it into the store and refresh as well.  A refresh holds Tree.mu,    *)
(* takes its snapshot under it, and replaces one directory after another.  *)
(* A snapshot shares the arrays of the guilds' channel lists with the      *)
(* store, and CHANNEL_UPDATE and CHANNEL_DELETE write to those arrays in   *)
(* place: a refresh that is reading one meets the new elements from where  *)
(* it stands.  (The race detector's torn elements are left out.)           *)
(***************************************************************************)
EXTENDS Integers, Sequences, FiniteSets, SequencesExt

CONSTANTS
  Users,       \* IDs of the users that can be friends
  DMs,         \* IDs of the private channels
  Chans,       \* IDs of the guild's text channels
  Guild,       \* ID of a community
  DMOf,        \* [Users -> DMs]: what CreateDM answers
  Boot,        \* what the REST calls of Store.Bootstrap answer
  Bases,       \* path names made from tags and channel names: sequences
  Short,       \* [IDs -> suffix]: shortID, the last six characters, for some
               \* IDs the same
  Gateway,     \* the goroutine that reads the gateway
  Senders,     \* goroutines that serve a send to a friend
  Nobody,      \* holds neither mutex
  MaxUpdates,  \* bound: gateway events in one behaviour
  MaxSends     \* bound: sends in one behaviour

IDs == Users \cup DMs \cup Chans \cup {Guild}
Threads == Senders \cup {Gateway}

Entry == [id : Chans, base : Bases]

Distinct(list) == \A i, j \in DOMAIN list : list[i].id = list[j].id => i = j

\* A Go map from some of the IDs to bases.
Maps(ids) == UNION {[S -> Bases] : S \in SUBSET ids}

(***************************************************************************)
(* An ID names one thing.  A base is a sequence so that a suffix can be    *)
(* told from what stands before it; a tag may itself read like another one *)
(* with a suffix, and is then the same sequence.                           *)
(***************************************************************************)
ASSUME TopologyAssumption ==
  /\ IsFiniteSet(Users) /\ IsFiniteSet(DMs)
  /\ Users \cap DMs = {} /\ (Users \cup DMs) \cap (Chans \cup {Guild}) = {}
  /\ DMOf \in [Users -> DMs]
  /\ Boot.friends \in Maps(Users) /\ Boot.dms \in Maps(DMs)
  /\ Boot.channels \in Seq(Entry) /\ Distinct(Boot.channels)
  /\ Bases \subseteq Seq(STRING) /\ Short \in [IDs -> STRING]
  /\ Nobody \notin Threads /\ Gateway \notin Senders

VARIABLES
  friends,   \* Store.relationships: [friends -> base]
  dms,       \* Store.dms: [private channels -> base]
  guild,     \* the guild is in Store.guilds
  channels,  \* Guild.Channels: a sequence of entries
  children,  \* what the directories show: [kind -> [name -> ID]]
  cached,    \* the IDs in the caches of nodes
  made,      \* history: how many nodes were made for each ID
  removed,   \* history: how often each ID has left the store
  treeMu,    \* who holds Tree.mu
  dmMu,      \* who holds Tree.dmMu
  pc,        \* [Threads -> step]
  target,    \* [Senders -> the friend to send to]
  items,     \* snapshot of the refresh: [kind -> entries it goes through]
  taken,     \* how many of the guild's channels it has read
  creates,   \* history: CreateDM calls per friend
  updates, sends

storeVars == <<friends, dms, guild, channels>>
treeVars  == <<children, cached, made>>
snapVars  == <<items, taken>>
sendVars  == <<dmMu, target, creates, sends>>
vars == <<storeVars, treeVars, snapVars, sendVars, removed, treeMu, pc, updates>>

Kinds == {"friends", "dms", "communities", "channels"}
NoItems == [k \in Kinds |-> <<>>]

\* After Bootstrap and before the first refresh, which NewTree makes.

Init ==
  /\ friends = Boot.friends /\ dms = Boot.dms /\ guild = TRUE /\ channels = Boot.channels
  /\ children = [k \in Kinds |-> <<>>]
  /\ cached = {}
  /\ made = [i \in IDs |-> 0] /\ removed = [i \in IDs |-> 0]
  /\ treeMu = Nobody /\ dmMu = Nobody
  /\ pc = [t \in Threads |-> IF t = Gateway THEN "refresh" ELSE "idle"]
  /\ target = [t \in Senders |-> CHOOSE u \in Users : TRUE]
  /\ items = NoItems /\ taken = 0
  /\ creates = [u \in Users |-> 0]
  /\ updates = 0 /\ sends = 0

-----------------------------------------------------------------------------
\* Mutant: equal names are left as they are.
NameInPlain(list, entry) == entry.base

\* assignNames: a base that several entries have gets the ID's suffix.
NameIn(list, entry) ==
  IF \E i, j \in DOMAIN list : i # j /\ list[i].base = entry.base /\ list[j].base = entry.base
    THEN Append(entry.base, Short[entry.id])
    ELSE entry.base

Names(list) == {NameIn(list, list[i]) : i \in DOMAIN list}

Ids(list) == {list[i].id : i \in DOMAIN list}

\* The map of children made from a list: of two equal names either may win, as
\* the order in which Go goes through a map is its own.
Shows(list, dir) ==
  /\ DOMAIN dir = Names(list)
  /\ \A n \in Names(list) : \E i \in DOMAIN list : NameIn(list, list[i]) = n /\ dir[n] = list[i].id

\* A map's entries; its order of iteration is of no account.
Entries(map) == SetToSeq({[id |-> i, base |-> map[i]] : i \in DOMAIN map})

Listed == DOMAIN friends \cup DOMAIN dms \cup (IF guild THEN {Guild} \cup Ids(channels) ELSE {})

-----------------------------------------------------------------------------
(***************************************************************************)
(* Store.ApplyGateway: one event under Store.mu, then a refresh.           *)
(***************************************************************************)
With(map, id, base) ==
  [i \in DOMAIN map \cup {id} |-> IF i = id THEN base ELSE map[i]]

Without(map, id) == [i \in DOMAIN map \ {id} |-> map[i]]

(***************************************************************************)
(* The guild's array is written over while a refresh that has taken its    *)
(* snapshot may not have read all of it yet.                               *)
(***************************************************************************)
InPlace(new) ==
  items' = IF treeMu # Nobody /\ pc[treeMu] \in {"friends", "dms", "channels"}
             THEN [items EXCEPT !["channels"] =
                     [i \in DOMAIN @ |-> IF i > taken /\ i \in DOMAIN new THEN new[i] ELSE @[i]]]
             ELSE items

NotInPlace == UNCHANGED items

\* What the event took out of the store is counted.
Apply(gone) ==
  /\ pc[Gateway] = "idle"
  /\ updates < MaxUpdates /\ updates' = updates + 1
  /\ removed' = [i \in IDs |-> removed[i] + (IF i \in gone THEN 1 ELSE 0)]
  /\ pc' = [pc EXCEPT ![Gateway] = "refresh"]
  /\ UNCHANGED <<treeVars, taken, sendVars, treeMu>>

RelationshipAdd(u, b) ==
  /\ Apply({})
  /\ friends' = With(friends, u, b)
  /\ NotInPlace /\ UNCHANGED <<dms, guild, channels>>

RelationshipRemove(u) ==
  /\ u \in DOMAIN friends
  /\ Apply({u})
  /\ friends' = Without(friends, u)
  /\ NotInPlace /\ UNCHANGED <<dms, guild, channels>>

\* CHANNEL_CREATE or CHANNEL_UPDATE without a guild.
PrivateChannelUpdate(d, b) ==
  /\ Apply({})
  /\ dms' = With(dms, d, b)
  /\ NotInPlace /\ UNCHANGED <<friends, guild, channels>>

\* CHANNEL_CREATE or CHANNEL_UPDATE in the guild: in place if it is known.
ChannelUpdate(c, b) ==
  /\ guild
  /\ Apply({})
  /\ LET new == [i \in DOMAIN channels |->
                   IF channels[i].id = c THEN [id |-> c, base |-> b] ELSE channels[i]]
     IN  IF c \in Ids(channels)
           THEN channels' = new /\ InPlace(new)
           ELSE channels' = Append(channels, [id |-> c, base |-> b]) /\ NotInPlace
  /\ UNCHANGED <<friends, dms, guild>>

PrivateChannelDelete(d) ==
  /\ d \in DOMAIN dms
  /\ Apply({d})
  /\ dms' = Without(dms, d)
  /\ NotInPlace /\ UNCHANGED <<friends, guild, channels>>

\* CHANNEL_DELETE in the guild: out := guild.Channels[:0] filters in place.
\* The list has no ID twice (TypeOK), so the filter takes out one element.
ChannelDelete(c) ==
  /\ guild
  /\ Apply({c})
  /\ \E i \in DOMAIN channels : channels[i].id = c /\ channels' = RemoveAt(channels, i)
  /\ InPlace(channels')
  /\ UNCHANGED <<friends, dms, guild>>

\* GUILD_CREATE, GUILD_UPDATE and READY's guilds with a list of channels, which
\* may be empty.  (A guild that is not in the store has no channels.)
GuildUpdate(list) ==
  /\ Apply(Ids(channels) \ Ids(list))
  /\ guild' = TRUE
  /\ channels' = list
  /\ NotInPlace /\ UNCHANGED <<friends, dms>>

\* The same without a list: mergeGuild keeps the channels that it knows.
GuildUpdateBare ==
  /\ Apply({})
  /\ guild' = TRUE
  /\ NotInPlace /\ UNCHANGED <<friends, dms, channels>>

GuildDelete ==
  /\ guild
  /\ Apply({Guild} \cup Ids(channels))
  /\ guild' = FALSE /\ channels' = <<>>
  /\ NotInPlace /\ UNCHANGED <<friends, dms>>

\* READY adds what it lists and removes nothing.
Ready(u, d, b) ==
  /\ Apply({})
  /\ friends' = With(friends, u, b)
  /\ dms' = With(dms, d, b)
  /\ NotInPlace /\ UNCHANGED <<guild, channels>>

GatewayEvent ==
  \/ \E u \in Users : RelationshipRemove(u) \/ \E b \in Bases : RelationshipAdd(u, b)
  \/ \E d \in DMs : PrivateChannelDelete(d) \/ \E b \in Bases : PrivateChannelUpdate(d, b)
  \/ \E c \in Chans : ChannelDelete(c) \/ \E b \in Bases : ChannelUpdate(c, b)
  \/ \E c \in Chans, b \in Bases : GuildUpdate(<<[id |-> c, base |-> b]>>)
  \/ GuildUpdate(<<>>) \/ GuildUpdateBare
  \/ GuildDelete
  \/ \E u \in Users, d \in DMs, b \in Bases : Ready(u, d, b)

-----------------------------------------------------------------------------
(***************************************************************************)
(* A send to a friend (the resolver in Tree.Refresh): under dmMu, the DM   *)
(* that the store knows, or else one that CreateDM makes.                  *)
(***************************************************************************)
Goto(t, step) == pc' = [pc EXCEPT ![t] = step]

FindDM(u) == {d \in DOMAIN dms : d = DMOf[u]}

SendBegin(t, u) ==
  /\ pc[t] = "idle" /\ sends < MaxSends
  /\ u \in cached
  /\ sends' = sends + 1
  /\ target' = [target EXCEPT ![t] = u]
  /\ Goto(t, "lockDM")
  /\ UNCHANGED <<storeVars, treeVars, snapVars, dmMu, creates, removed, treeMu, updates>>

\* Mutant: the lookup and the creation of the DM are not one critical section.
SendLockDMNever(t) ==
  /\ pc[t] = "lockDM"
  /\ Goto(t, "find")
  /\ UNCHANGED <<storeVars, treeVars, snapVars, sendVars, removed, treeMu, updates>>

SendLockDM(t) ==
  /\ pc[t] = "lockDM" /\ dmMu = Nobody
  /\ dmMu' = t
  /\ Goto(t, "find")
  /\ UNCHANGED <<storeVars, treeVars, snapVars, target, creates, sends, removed, treeMu, updates>>

SendUnlockDM(t) == dmMu' = (IF dmMu = t THEN Nobody ELSE dmMu) /\ Goto(t, "idle")

SendFinds(t) ==
  /\ pc[t] = "find" /\ FindDM(target[t]) # {}
  /\ SendUnlockDM(t)
  /\ UNCHANGED <<storeVars, treeVars, snapVars, target, creates, sends, removed, treeMu, updates>>

SendCreates(t) ==
  /\ pc[t] = "find" /\ FindDM(target[t]) = {}
  /\ creates' = [creates EXCEPT ![target[t]] = @ + 1]
  /\ Goto(t, "create")
  /\ UNCHANGED <<storeVars, treeVars, snapVars, dmMu, target, sends, removed, treeMu, updates>>

\* CreateDM answers, and Store.UpsertDM puts the DM in; or it fails.
SendUpserts(t, b) ==
  /\ pc[t] = "create"
  /\ dms' = With(dms, DMOf[target[t]], b)
  /\ Goto(t, "refresh")
  /\ UNCHANGED <<friends, guild, channels, treeVars, snapVars, sendVars, removed, treeMu, updates>>

\* Mutant: the mutex is released on the successful path only.
SendFailsKeepsMutex(t) ==
  /\ pc[t] = "create"
  /\ creates' = [creates EXCEPT ![target[t]] = @ - 1]
  /\ Goto(t, "idle")
  /\ UNCHANGED <<storeVars, treeVars, snapVars, dmMu, target, sends, removed, treeMu, updates>>

SendFails(t) ==
  /\ pc[t] = "create"
  /\ creates' = [creates EXCEPT ![target[t]] = @ - 1]
  /\ SendUnlockDM(t)
  /\ UNCHANGED <<storeVars, treeVars, snapVars, target, sends, removed, treeMu, updates>>

-----------------------------------------------------------------------------
\* Tree.Refresh, the snapshot of Store.Snapshot and the loops over it.

Snapshot ==
  /\ items' = [k \in Kinds |->
       CASE k = "friends"     -> Entries(friends)
         [] k = "dms"         -> Entries(dms)
         [] k = "communities" -> IF guild THEN <<[id |-> Guild, base |-> <<>>]>> ELSE <<>>
         [] k = "channels"    -> channels]
  /\ taken' = 0

\* Mutant: a refresh that finds another one running leaves the work to it.
RefreshTryLock(t) ==
  /\ pc[t] = "refresh"
  /\ IF treeMu = Nobody
       THEN treeMu' = t /\ Snapshot /\ Goto(t, "friends") /\ UNCHANGED dmMu
       ELSE /\ IF t = Gateway THEN Goto(t, "idle") /\ UNCHANGED dmMu ELSE SendUnlockDM(t)
            /\ UNCHANGED <<treeMu, snapVars>>
  /\ UNCHANGED <<storeVars, treeVars, target, creates, sends, removed, updates>>

RefreshLock(t) ==
  /\ pc[t] = "refresh" /\ treeMu = Nobody
  /\ treeMu' = t
  /\ Snapshot
  /\ Goto(t, "friends")
  /\ UNCHANGED <<storeVars, treeVars, sendVars, removed, updates>>

\* Mutant: every refresh makes the nodes anew.
ReconcileRebuilds(kind, all) ==
  LET list == items[kind]
  IN  /\ \E dir \in [Names(list) -> Ids(list)] :
            Shows(list, dir) /\ children' = [children EXCEPT ![kind] = dir]
      /\ cached' = (cached \ all) \cup Ids(list)
      /\ made' = [i \in IDs |-> made[i] + (IF i \in Ids(list) THEN 1 ELSE 0)]

\* reconcileConversations and Replace: nodes are made for new IDs only.
Reconcile(kind, all) ==
  LET list == items[kind]
  IN  /\ \E dir \in [Names(list) -> Ids(list)] :
            Shows(list, dir) /\ children' = [children EXCEPT ![kind] = dir]
      /\ cached' = (cached \ all) \cup Ids(list)
      /\ made' = [i \in IDs |-> made[i] + (IF i \in Ids(list) \ cached THEN 1 ELSE 0)]

RefreshFriends(t) ==
  /\ pc[t] = "friends"
  /\ Reconcile("friends", Users)
  /\ Goto(t, "dms")
  /\ UNCHANGED <<storeVars, snapVars, sendVars, removed, treeMu, updates>>

RefreshDMs(t) ==
  /\ pc[t] = "dms"
  /\ Reconcile("dms", DMs)
  /\ Goto(t, "channels")
  /\ UNCHANGED <<storeVars, snapVars, sendVars, removed, treeMu, updates>>

\* Mutant: the loop runs one element past the end of the list.
RefreshReadsPastEnd(t) ==
  /\ pc[t] = "channels" /\ taken <= Len(items["channels"])
  /\ taken' = taken + 1
  /\ UNCHANGED <<storeVars, treeVars, items, sendVars, removed, treeMu, pc, updates>>

\* reconcileCommunity reads the next element of the shared array.
RefreshReadsChannel(t) ==
  /\ pc[t] = "channels" /\ taken < Len(items["channels"])
  /\ taken' = taken + 1
  /\ UNCHANGED <<storeVars, treeVars, items, sendVars, removed, treeMu, pc, updates>>

\* Without the guild its node and those of its channels leave the caches.
RefreshChannels(t) ==
  /\ pc[t] = "channels" /\ taken = Len(items["channels"])
  /\ Reconcile("channels", Chans)
  /\ Goto(t, "communities")
  /\ UNCHANGED <<storeVars, snapVars, sendVars, removed, treeMu, updates>>

RefreshCommunities(t) ==
  /\ pc[t] = "communities"
  /\ Reconcile("communities", {Guild})
  /\ Goto(t, "unlock")
  /\ UNCHANGED <<storeVars, snapVars, sendVars, removed, treeMu, updates>>

\* Refresh returns; a send then has its DM, and its deferred Unlock runs.
RefreshUnlock(t) ==
  /\ pc[t] = "unlock"
  /\ treeMu' = Nobody
  /\ items' = NoItems /\ taken' = 0
  /\ IF t = Gateway THEN Goto(t, "idle") /\ UNCHANGED dmMu ELSE SendUnlockDM(t)
  /\ UNCHANGED <<storeVars, treeVars, target, creates, sends, removed, updates>>

Refresh(t) ==
  \/ RefreshLock(t) \/ RefreshFriends(t) \/ RefreshDMs(t) \/ RefreshReadsChannel(t)
  \/ RefreshChannels(t) \/ RefreshCommunities(t) \/ RefreshUnlock(t)

SendStep(t) ==
  \/ SendLockDM(t) \/ SendFinds(t) \/ SendCreates(t) \/ SendFails(t)
  \/ \E b \in Bases : SendUpserts(t, b)

Next ==
  \/ GatewayEvent
  \/ \E t \in Senders : SendStep(t) \/ \E u \in Users : SendBegin(t, u)
  \/ \E t \in Threads : Refresh(t)

Spec == Init /\ [][Next]_vars

\* Goroutines run on, and every REST call ends.
FairSpec ==
  /\ Spec
  /\ \A t \in Threads : WF_vars(Refresh(t))
  /\ \A t \in Senders : WF_vars(SendStep(t))

-----------------------------------------------------------------------------
Refreshing == {"friends", "dms", "channels", "communities", "unlock"}

TypeOK ==
  /\ friends \in Maps(Users) /\ dms \in Maps(DMs)
  /\ guild \in BOOLEAN
  /\ channels \in Seq(Entry) /\ Distinct(channels)
  /\ DOMAIN children = Kinds
  /\ cached \subseteq IDs
  /\ made \in [IDs -> Nat] /\ removed \in [IDs -> Nat]
  /\ treeMu \in Threads \cup {Nobody} /\ dmMu \in Senders \cup {Nobody}
  /\ pc \in [Threads -> {"idle", "lockDM", "find", "create", "refresh"} \cup Refreshing]
  /\ DOMAIN items = Kinds /\ items["channels"] \in Seq(Entry)
  /\ taken \in 0..Len(items["channels"])
  /\ creates \in [Users -> Nat]

\* Nobody stands between an update of the store and the end of its refresh.
Settled ==
  /\ treeMu = Nobody
  /\ \A t \in Threads : pc[t] # "refresh"

(***************************************************************************)
(* Once nobody is refreshing, the directories show exactly what the store  *)
(* holds, each conversation under the name it should have: no refresh puts *)
(* an older snapshot over a newer one, and one that met an array in the    *)
(* middle of a change is followed by another (Refresh against UpsertDM and *)
(* ApplyGateway).                                                          *)
(***************************************************************************)
TreeShowsStore ==
  Settled =>
    /\ Shows(Entries(friends), children["friends"])
    /\ Shows(Entries(dms), children["dms"])
    /\ Shows(channels, children["channels"])
    /\ Guild \in {children["communities"][n] : n \in DOMAIN children["communities"]} <=> guild

\* What the three directories of conversations are made from.
Lists == [friends |-> Entries(friends), dms |-> Entries(dms), channels |-> channels]

ShownIn(k, id) == \E n \in DOMAIN children[k] : children[k][n] = id

\* Equal tags of IDs that end alike, or a tag that reads like the other's name.
Clash(a, b) ==
  \/ a.base = b.base /\ Short[a.id] = Short[b.id]
  \/ a.base = Append(b.base, Short[b.id])
  \/ b.base = Append(a.base, Short[a.id])

(***************************************************************************)
(* Everything becomes a file (README.md:3), or nearly: assignNames tells   *)
(* equal names apart by six characters of the ID, and does not ask whether *)
(* the result is a name that another entry has.  The tree hides a          *)
(* conversation only behind one that clashes with it so, in the same       *)
(* directory and itself in the tree; equal tags alone hide nothing, and no *)
(* two hide each other.                                                    *)
(***************************************************************************)
OnlyClashesHide ==
  Settled =>
    /\ guild => ShownIn("communities", Guild)
    /\ \A k \in DOMAIN Lists : \A i \in DOMAIN Lists[k] :
         \/ ShownIn(k, Lists[k][i].id)
         \/ \E j \in DOMAIN Lists[k] \ {i} :
              Clash(Lists[k][i], Lists[k][j]) /\ ShownIn(k, Lists[k][j].id)

(***************************************************************************)
(* A friend's or a DM's directory is made once for each time it appears in *)
(* the store: as long as it stays, so do its node, the fids open in it and *)
(* its attachment index.  (A channel of a guild has no such promise: see   *)
(* RefreshReadsChannel.)                                                   *)
(***************************************************************************)
NodesAreKept == \A i \in Users \cup DMs : made[i] <= removed[i] + 1

(***************************************************************************)
(* However many sends to a friend run at once, CreateDM is called once for *)
(* a DM that the store does not lose again (Tree.dmMu).                    *)
(***************************************************************************)
OneDMEach == \A u \in Users : creates[u] <= removed[DMOf[u]] + 1

(***************************************************************************)
(* Every refresh and every send comes to an end: neither mutex is kept for *)
(* ever, although a send refreshes the tree while it holds dmMu, and       *)
(* although CreateDM may fail.                                             *)
(***************************************************************************)
EveryCallEnds == \A t \in Threads : pc[t] # "idle" ~> pc[t] = "idle"
=============================================================================
