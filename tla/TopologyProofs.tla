--------------------------- MODULE TopologyProofs ---------------------------
(***************************************************************************)
(* Proofs about Topology: for any number of friends, private channels and  *)
(* goroutines, and any sequence of events.                                 *)
(***************************************************************************)
EXTENDS Topology, TLAPS, FiniteSetTheorems

(***************************************************************************)
(* The inductive invariant.                                                *)
(***************************************************************************)
\* Tree.mu is held from RefreshLock to RefreshUnlock...
TreeMuOK == \A t \in Threads : treeMu = t <=> pc[t] \in Refreshing

\* ... and Tree.dmMu from the lookup of the DM to the end of the send.
DmMuOK ==
  /\ pc[Gateway] \in {"idle", "refresh"} \cup Refreshing
  /\ DOMAIN target = Senders
  /\ \A t \in Senders : pc[t] # "idle" => target[t] \in Users
  /\ \A t \in Senders : pc[t] \notin {"idle", "lockDM"} => dmMu = t

\* What a refresh goes through is of the kind it goes through it for.
ItemsOK ==
  /\ Ids(items["friends"]) \subseteq Users /\ Ids(items["dms"]) \subseteq DMs
  /\ Ids(items["communities"]) \subseteq {Guild}

\* A CreateDM that was called has led to a DM, will lead to one, or fails.
IsCreating(u) == \E t \in Senders : pc[t] = "create" /\ target[t] = u

CreatesOK ==
  /\ \A u \in Users :
       creates[u] <= removed[DMOf[u]] +
                       (IF DMOf[u] \in DOMAIN dms \/ IsCreating(u) THEN 1 ELSE 0)
  /\ \A t \in Senders : pc[t] = "create" => creates[target[t]] > 0

-----------------------------------------------------------------------------
\* The steps at which a refresh has yet to show what it took of a kind.
Before(kind) ==
  IF kind = "friends" THEN {"friends"} ELSE {"friends", "dms"}

Pending(kind) == treeMu # Nobody /\ pc[treeMu] \in Before(kind)

\* The nodes of a kind that are there once the refresh has come past it.
WillHave(kind) == IF Pending(kind) THEN Ids(items[kind]) ELSE cached
WillMake(kind) == IF Pending(kind) THEN Ids(items[kind]) \ cached ELSE {}

NodesOK(kind, ids, listed) ==
  \A i \in ids :
    made[i] + (IF i \in WillMake(kind) THEN 1 ELSE 0)
      <= removed[i] + (IF i \in WillHave(kind) \cap listed THEN 1 ELSE 0)

-----------------------------------------------------------------------------
\* While nobody is about to refresh, a refresh that runs has what the store has.
Stale == \E t \in Threads : pc[t] = "refresh"

Communities == IF guild THEN <<[id |-> Guild, base |-> <<>>]>> ELSE <<>>

SnapshotIsCurrent ==
  ~Stale /\ treeMu # Nobody =>
    /\ items["friends"] = Entries(friends) /\ items["dms"] = Entries(dms)
    /\ items["channels"] = channels /\ items["communities"] = Communities

\* The refresh that runs has come past the directories of a kind.
Past(steps) == ~Stale /\ (treeMu = Nobody \/ pc[treeMu] \in steps)

ShowsStore ==
  /\ Past({"dms", "channels", "communities", "unlock"}) =>
       Shows(Entries(friends), children["friends"])
  /\ Past({"channels", "communities", "unlock"}) => Shows(Entries(dms), children["dms"])
  /\ Past({"communities", "unlock"}) => Shows(channels, children["channels"])
  /\ Past({"unlock"}) => Shows(Communities, children["communities"])

IInv ==
  /\ TypeOK
  /\ TreeMuOK
  /\ DmMuOK
  /\ ItemsOK
  /\ CreatesOK
  /\ NodesOK("friends", Users, DOMAIN friends)
  /\ NodesOK("dms", DMs, DOMAIN dms)
  /\ SnapshotIsCurrent
  /\ ShowsStore

-----------------------------------------------------------------------------
(***************************************************************************)
(* Lists and maps.                                                         *)
(***************************************************************************)
\* A map with or without an ID is a map.
LEMMA MapWith ==
  ASSUME NEW ids, NEW map \in Maps(ids), NEW i \in ids, NEW b \in Bases
  PROVE  With(map, i, b) \in Maps(ids) /\ DOMAIN With(map, i, b) = DOMAIN map \cup {i}
<1>1. PICK S \in SUBSET ids : map \in [S -> Bases]
  BY DEF Maps
<1>2. With(map, i, b) \in [S \cup {i} -> Bases]
  BY <1>1 DEF With
<1>3. S \cup {i} \in SUBSET ids
  BY <1>1
<1> QED
  BY <1>1, <1>2, <1>3 DEF Maps

\* A map from which an entry is deleted is a map without it.
LEMMA MapWithout ==
  ASSUME NEW ids, NEW map \in Maps(ids), NEW i
  PROVE  Without(map, i) \in Maps(ids) /\ DOMAIN Without(map, i) = DOMAIN map \ {i}
<1>1. PICK S \in SUBSET ids : map \in [S -> Bases]
  BY DEF Maps
<1>2. Without(map, i) \in [S \ {i} -> Bases]
  BY <1>1 DEF Without
<1>3. S \ {i} \in SUBSET ids
  BY <1>1
<1> QED
  BY <1>1, <1>2, <1>3 DEF Maps

\* The entries of a map are a list with each of its IDs.
LEMMA EntriesOf ==
  ASSUME NEW ids, IsFiniteSet(ids), NEW map \in Maps(ids)
  PROVE  /\ Entries(map) \in Seq([id : ids, base : Bases])
         /\ Ids(Entries(map)) = DOMAIN map /\ DOMAIN map \subseteq ids
<1>1. PICK S \in SUBSET ids : map \in [S -> Bases]
  BY DEF Maps
<1> DEFINE T == {[id |-> i, base |-> map[i]] : i \in DOMAIN map}
           g == [i \in S |-> [id |-> i, base |-> map[i]]]
<1>2. IsFiniteSet(S)
  BY <1>1, FS_Subset
<1>3. g \in Surjection(S, T)
  BY <1>1 DEF Surjection
<1>4. IsFiniteSet(T)
  BY <1>2, <1>3, FS_Surjection
<1>5. ExistsBijection(1..Cardinality(T), T) /\ Cardinality(T) \in Nat
  BY <1>4, FS_CardinalityType
<1>6. PICK f \in [1..Cardinality(T) -> T] :
        /\ IsInjective(f)
        /\ \A x \in T : \E j \in 1..Cardinality(T) : f[j] = x
  BY <1>5 DEF ExistsBijection, Bijection, Injection, Surjection, IsInjective
<1>7. SetToSeq(T) \in [1..Cardinality(T) -> T] /\ IsInjective(SetToSeq(T))
  BY <1>6 DEF SetToSeq
<1>8. SetToSeq(T) \in Surjection(1..Cardinality(T), T)
  <2> DEFINE q == SetToSeq(T)
             R == {q[j] : j \in 1..Cardinality(T)}
  <2>1. q \in Injection(1..Cardinality(T), R) /\ q \in Surjection(1..Cardinality(T), R)
    BY <1>7 DEF Injection, Surjection, IsInjective
  <2>2. IsFiniteSet(1..Cardinality(T)) /\ Cardinality(1..Cardinality(T)) = Cardinality(T)
    BY <1>5, FS_Interval
  <2>3. Cardinality(R) = Cardinality(T)
    BY <2>1, <2>2, FS_Surjection
  <2>4. R \in SUBSET T
    BY <1>7
  <2>5. R = T
    BY <1>4, <2>3, <2>4, FS_Subset
  <2> QED
    BY <2>1, <2>5
<1>9. \A x \in T : x \in [id : ids, base : Bases]
  BY <1>1
<1>10. Entries(map) = SetToSeq(T)
  BY DEF Entries
<1>11. Entries(map) \in Seq([id : ids, base : Bases])
  <2> DEFINE E == [id : ids, base : Bases]
  <2>1. Entries(map) \in [1..Cardinality(T) -> E]
    BY <1>7, <1>9, <1>10
  <2> HIDE DEF E, T, g
  <2>2. \A n \in Nat : \A h \in [1..n -> E] : h \in Seq(E)
    OBVIOUS
  <2>3. Entries(map) \in Seq(E)
    BY <1>5, <2>1, <2>2
  <2> QED
    BY <2>3 DEF E
<1>12. Ids(Entries(map)) = DOMAIN map
  <2>1. DOMAIN Entries(map) = 1..Cardinality(T)
    BY <1>7, <1>10
  <2>2. \A j \in 1..Cardinality(T) : Entries(map)[j] \in T
    BY <1>7, <1>10
  <2>3. \A x \in T : \E j \in 1..Cardinality(T) : Entries(map)[j] = x
    BY <1>8, <1>10 DEF Surjection
  <2>4. \A x \in T : x.id \in DOMAIN map
    OBVIOUS
  <2>5. \A i \in DOMAIN map : [id |-> i, base |-> map[i]] \in T
    OBVIOUS
  <2>6. \A i \in DOMAIN map : \E x \in T : x.id = i
    BY <2>5
  <2> HIDE DEF T, g
  <2> QED
    BY <2>1, <2>2, <2>3, <2>4, <2>6 DEF Ids
<1> QED
  BY <1>1, <1>11, <1>12

\* The elements of a list are those of its kind.
LEMMA IdsOfKind ==
  ASSUME NEW ids, NEW list \in Seq([id : ids, base : Bases])
  PROVE  /\ Ids(list) \subseteq ids
         /\ \A k \in DOMAIN list : list[k].id \in ids /\ list[k].base \in Bases
<1> DEFINE E == [id : ids, base : Bases]
<1>1. list \in Seq(E)
  OBVIOUS
<1>2. \A i \in DOMAIN list : list[i] \in E
  <2> HIDE DEF E
  <2> QED
    BY <1>1
<1> QED
  BY <1>2 DEF Ids

\* Two entries of a list that have the same name clash.
LEMMA SameNameIsAClash ==
  ASSUME NEW list, \A k \in DOMAIN list : list[k].id \in IDs /\ list[k].base \in Bases,
         NEW i \in DOMAIN list, NEW j \in DOMAIN list, i # j,
         NameIn(list, list[i]) = NameIn(list, list[j])
  PROVE  Clash(list[i], list[j])
<1> DEFINE a == list[i].base
           b == list[j].base
           x == Short[list[i].id]
           y == Short[list[j].id]
<1>1. a \in Seq(STRING) /\ b \in Seq(STRING) /\ x \in STRING /\ y \in STRING
  BY TopologyAssumption
<1>2. /\ NameIn(list, list[i]) \in {a, Append(a, x)}
      /\ NameIn(list, list[j]) \in {b, Append(b, y)}
      /\ a = b => NameIn(list, list[i]) = Append(a, x) /\ NameIn(list, list[j]) = Append(b, y)
  BY DEF NameIn
<1>3. Clash(list[i], list[j]) <=> (a = b /\ x = y) \/ a = Append(b, y) \/ b = Append(a, x)
  BY DEF Clash
<1>4. Append(a, x) = Append(b, y) => a = b /\ x = y
  <2> SUFFICES ASSUME Append(a, x) = Append(b, y) PROVE a = b /\ x = y
    OBVIOUS
  <2> HIDE DEF a, b, x, y
  <2>1. Len(a) = Len(b)
    <3>1. Len(Append(a, x)) = Len(a) + 1 /\ Len(Append(b, y)) = Len(b) + 1
      BY <1>1
    <3> QED
      BY <1>1, <3>1
  <2>2. \A k \in 1..Len(a) : Append(a, x)[k] = a[k] /\ Append(b, y)[k] = b[k]
    BY <1>1, <2>1
  <2>3. Append(a, x)[Len(a) + 1] = x /\ Append(b, y)[Len(b) + 1] = y
    BY <1>1
  <2> QED
    BY <1>1, <2>1, <2>2, <2>3
<1> HIDE DEF a, b, x, y
<1> QED
  BY <1>2, <1>3, <1>4

\* A directory that shows a list hides an entry behind a clashing one at most.
LEMMA ShownUnlessClash ==
  ASSUME NEW list, \A k \in DOMAIN list : list[k].id \in IDs /\ list[k].base \in Bases,
         NEW dir, Shows(list, dir),
         NEW i \in DOMAIN list
  PROVE  \/ \E n \in DOMAIN dir : dir[n] = list[i].id
         \/ \E j \in DOMAIN list \ {i} :
              Clash(list[i], list[j]) /\ \E n \in DOMAIN dir : dir[n] = list[j].id
<1>1. NameIn(list, list[i]) \in DOMAIN dir
  BY DEF Shows, Names
<1>2. PICK k \in DOMAIN list : /\ NameIn(list, list[k]) = NameIn(list, list[i])
                               /\ dir[NameIn(list, list[i])] = list[k].id
  BY <1>1 DEF Shows, Names
<1>3. CASE k = i
  BY <1>1, <1>2, <1>3
<1>4. CASE k # i
  BY <1>1, <1>2, <1>4, SameNameIsAClash
<1> QED
  BY <1>3, <1>4

\* What the constants are.
LEMMA Kind ==
  /\ Users \subseteq IDs /\ DMs \subseteq IDs /\ Chans \subseteq IDs /\ Guild \in IDs
  /\ Users \cap DMs = {} /\ (Users \cup DMs) \cap (Chans \cup {Guild}) = {}
  /\ \A u \in Users : DMOf[u] \in DMs
  /\ Nobody \notin Threads /\ Gateway \in Threads /\ Gateway \notin Senders
  /\ Threads = Senders \cup {Gateway}
BY TopologyAssumption DEF IDs, Threads

-----------------------------------------------------------------------------
(***************************************************************************)
(* Steps of the gateway goroutine on the store.                            *)
(***************************************************************************)
LEMMA EventKeepsIInv ==
  ASSUME IInv, NEW gone, Apply(gone),
         friends' \in Maps(Users), dms' \in Maps(DMs), guild' \in BOOLEAN,
         channels' \in Seq(Entry), Distinct(channels'), NotInPlace \/ InPlace(channels'),
         DOMAIN friends \ gone \subseteq DOMAIN friends', DOMAIN dms \ gone \subseteq DOMAIN dms'
  PROVE  IInv'
<1> DEFINE Steps == {"idle", "lockDM", "find", "create", "refresh"} \cup Refreshing
<1>1. /\ pc \in [Threads -> Steps] /\ pc[Gateway] = "idle"
      /\ removed \in [IDs -> Nat] /\ made \in [IDs -> Nat] /\ creates \in [Users -> Nat]
  BY DEF IInv, TypeOK, Apply
<1>2. /\ pc' \in [Threads -> Steps] /\ pc'[Gateway] = "refresh"
      /\ \A t \in Senders : pc'[t] = pc[t]
      /\ UNCHANGED <<children, cached, made, taken, dmMu, target, creates, sends, treeMu>>
  BY <1>1, Kind DEF Apply, treeVars, sendVars
<1>3. /\ removed' \in [IDs -> Nat]
      /\ \A i \in IDs : removed'[i] = removed[i] + (IF i \in gone THEN 1 ELSE 0)
  BY <1>1 DEF Apply
<1>4. /\ DOMAIN items' = Kinds /\ items'["channels"] \in Seq(Entry)
      /\ taken' \in 0..Len(items'["channels"])
      /\ items'["friends"] = items["friends"] /\ items'["dms"] = items["dms"]
      /\ items'["communities"] = items["communities"]
  <2>1. DOMAIN items = Kinds /\ items["channels"] \in Seq(Entry) /\ taken \in 0..Len(items["channels"])
    BY DEF IInv, TypeOK
  <2>2. CASE items' = items
    BY <1>2, <2>1, <2>2
  <2>3. CASE items' # items
    <3> DEFINE list == items["channels"]
               new == [i \in DOMAIN list |->
                         IF i > taken /\ i \in DOMAIN channels' THEN channels'[i] ELSE list[i]]
    <3>1. items' = [items EXCEPT !["channels"] = new]
      BY <2>3 DEF NotInPlace, InPlace
    <3>2. new \in [1..Len(list) -> Entry]
      BY <2>1
    <3>3. new \in Seq(Entry) /\ Len(new) = Len(list)
      <4> HIDE DEF new
      <4>1. \A n \in Nat : \A f \in [1..n -> Entry] : f \in Seq(Entry) /\ Len(f) = n
        OBVIOUS
      <4> QED
        BY <2>1, <3>2, <4>1, SMTT(20)
    <3> HIDE DEF new
    <3> QED
      BY <1>2, <2>1, <3>1, <3>3 DEF Kinds
  <2> QED
    BY <2>2, <2>3
<1>5. treeMu # Gateway /\ (treeMu # Nobody => treeMu \in Senders)
  BY <1>1, Kind DEF IInv, TypeOK, TreeMuOK, Refreshing
<1>6. TypeOK'
  BY <1>2, <1>3, <1>4 DEF IInv, TypeOK, Distinct
<1>7. TreeMuOK'
  BY <1>2, <1>5, Kind DEF IInv, TreeMuOK, Refreshing
<1>8. DmMuOK' /\ ItemsOK'
  BY <1>2, <1>4 DEF IInv, DmMuOK, ItemsOK, Ids
<1>9. CreatesOK'
  <2>1. \A u \in Users : IsCreating(u)' <=> IsCreating(u)
    BY <1>2 DEF IsCreating
  <2>2. ASSUME NEW u \in Users
        PROVE  creates'[u] <= removed'[DMOf[u]] +
                                (IF DMOf[u] \in DOMAIN dms' \/ IsCreating(u)' THEN 1 ELSE 0)
    <3>1. creates[u] <= removed[DMOf[u]] +
                          (IF DMOf[u] \in DOMAIN dms \/ IsCreating(u) THEN 1 ELSE 0)
      BY DEF IInv, CreatesOK
    <3>2. DMOf[u] \in IDs
      BY Kind
    <3>3. DMOf[u] \in DOMAIN dms => DMOf[u] \in DOMAIN dms' \/ DMOf[u] \in gone
      OBVIOUS
    <3> QED
      BY <1>1, <1>2, <1>3, <2>1, <3>1, <3>2, <3>3
  <2>3. \A t \in Senders : pc'[t] = "create" => creates'[target'[t]] > 0
    BY <1>2 DEF IInv, CreatesOK
  <2> QED
    BY <2>2, <2>3 DEF CreatesOK
<1>10. /\ WillMake("friends")' = WillMake("friends") /\ WillHave("friends")' = WillHave("friends")
       /\ WillMake("dms")' = WillMake("dms") /\ WillHave("dms")' = WillHave("dms")
  <2>1. treeMu' # Nobody => pc'[treeMu'] = pc[treeMu]
    BY <1>2, <1>5
  <2>2. Pending("friends")' = Pending("friends") /\ Pending("dms")' = Pending("dms")
    BY <1>2, <2>1 DEF Pending, Before
  <2>3. Ids(items["friends"])' = Ids(items["friends"]) /\ Ids(items["dms"])' = Ids(items["dms"])
    BY <1>4 DEF Ids
  <2> QED
    BY <1>2, <2>2, <2>3 DEF WillMake, WillHave
<1>11. NodesOK("friends", Users, DOMAIN friends)'
  <2>1. ASSUME NEW i \in Users
        PROVE  made'[i] + (IF i \in WillMake("friends") THEN 1 ELSE 0)
                 <= removed'[i] + (IF i \in WillHave("friends") \cap DOMAIN friends' THEN 1 ELSE 0)
    <3>1. made[i] + (IF i \in WillMake("friends") THEN 1 ELSE 0)
            <= removed[i] + (IF i \in WillHave("friends") \cap DOMAIN friends THEN 1 ELSE 0)
      BY DEF IInv, NodesOK
    <3>2. i \in IDs /\ made'[i] = made[i] /\ made[i] \in Nat /\ removed[i] \in Nat
      BY <1>1, <1>2, Kind
    <3> QED
      BY <1>3, <3>1, <3>2
  <2> QED
    BY <1>10, <2>1 DEF NodesOK
<1>12. NodesOK("dms", DMs, DOMAIN dms)'
  <2>1. ASSUME NEW i \in DMs
        PROVE  made'[i] + (IF i \in WillMake("dms") THEN 1 ELSE 0)
                 <= removed'[i] + (IF i \in WillHave("dms") \cap DOMAIN dms' THEN 1 ELSE 0)
    <3>1. made[i] + (IF i \in WillMake("dms") THEN 1 ELSE 0)
            <= removed[i] + (IF i \in WillHave("dms") \cap DOMAIN dms THEN 1 ELSE 0)
      BY DEF IInv, NodesOK
    <3>2. i \in IDs /\ made'[i] = made[i] /\ made[i] \in Nat /\ removed[i] \in Nat
      BY <1>1, <1>2, Kind
    <3> QED
      BY <1>3, <3>1, <3>2
  <2> QED
    BY <1>10, <2>1 DEF NodesOK
<1>13. Stale'
  BY <1>2, Kind DEF Stale
<1>14. SnapshotIsCurrent' /\ ShowsStore'
  BY <1>13 DEF SnapshotIsCurrent, ShowsStore, Past
<1> QED
  BY <1>6, <1>7, <1>8, <1>9, <1>11, <1>12, <1>14 DEF IInv

\* What is left of a list without one of its elements.
LEMMA RemovedAt ==
  ASSUME NEW T, NEW list \in Seq(T), NEW i \in 1..Len(list)
  PROVE  /\ RemoveAt(list, i) \in Seq(T) /\ Len(RemoveAt(list, i)) = Len(list) - 1
         /\ \A j \in 1..Len(RemoveAt(list, i)) :
              RemoveAt(list, i)[j] = list[IF j < i THEN j ELSE j + 1]
<1> DEFINE a == SubSeq(list, 1, i - 1)
           b == SubSeq(list, i + 1, Len(list))
<1>1. PICK n \in Nat : n = Len(list)
  OBVIOUS
<1>2. a \in Seq(T) /\ Len(a) = i - 1 /\ \A j \in 1..(i - 1) : a[j] = list[j]
  BY <1>1
<1>3. b \in Seq(T) /\ Len(b) = n - i /\ \A j \in 1..(n - i) : b[j] = list[i + j]
  BY <1>1
<1>4. RemoveAt(list, i) = a \o b
  BY DEF RemoveAt
<1> HIDE DEF a, b
<1>5. a \o b \in Seq(T) /\ Len(a \o b) = n - 1
  BY <1>1, <1>2, <1>3
<1>6. ASSUME NEW j \in 1..(n - 1) PROVE (a \o b)[j] = list[IF j < i THEN j ELSE j + 1]
  <2>1. CASE j < i
    BY <1>1, <1>2, <1>3, <2>1
  <2>2. CASE ~(j < i)
    <3>1. (a \o b)[j] = b[j - (i - 1)] /\ j - (i - 1) \in 1..(n - i)
      BY <1>1, <1>2, <1>3, <2>2
    <3>2. b[j - (i - 1)] = list[i + (j - (i - 1))] /\ i + (j - (i - 1)) = j + 1
      BY <1>1, <1>3, <3>1
    <3> QED
      BY <2>2, <3>1, <3>2
  <2> QED
    BY <2>1, <2>2
<1> QED
  BY <1>1, <1>4, <1>5, <1>6

\* Every event of the gateway keeps the invariant.
LEMMA GatewayKeepsIInv == ASSUME IInv, GatewayEvent PROVE IInv'
<1>1. /\ friends \in Maps(Users) /\ dms \in Maps(DMs) /\ guild \in BOOLEAN
      /\ channels \in Seq(Entry) /\ Distinct(channels)
  BY DEF IInv, TypeOK
<1>2. ASSUME UNCHANGED channels PROVE Distinct(channels')
  BY <1>1, <1>2 DEF Distinct
<1>3. \A u \in Users, b \in Bases :
        /\ With(friends, u, b) \in Maps(Users)
        /\ DOMAIN With(friends, u, b) = DOMAIN friends \cup {u}
  BY <1>1, MapWith
<1>4. \A d \in DMs, b \in Bases :
        With(dms, d, b) \in Maps(DMs) /\ DOMAIN With(dms, d, b) = DOMAIN dms \cup {d}
  BY <1>1, MapWith
<1>5. ASSUME NEW u \in Users, RelationshipRemove(u) PROVE IInv'
  <2>1. friends' \in Maps(Users) /\ DOMAIN friends' = DOMAIN friends \ {u}
    BY <1>1, <1>5, MapWithout DEF RelationshipRemove
  <2> QED
    BY <1>1, <1>2, <1>5, <2>1, EventKeepsIInv DEF RelationshipRemove
<1>6. ASSUME NEW u \in Users, NEW b \in Bases, RelationshipAdd(u, b) PROVE IInv'
  <2>1. friends' \in Maps(Users) /\ DOMAIN friends' = DOMAIN friends \cup {u}
    BY <1>3, <1>6 DEF RelationshipAdd
  <2> QED
    BY <1>1, <1>2, <1>6, <2>1, EventKeepsIInv DEF RelationshipAdd
<1>7. ASSUME NEW d \in DMs, PrivateChannelDelete(d) PROVE IInv'
  <2>1. dms' \in Maps(DMs) /\ DOMAIN dms' = DOMAIN dms \ {d}
    BY <1>1, <1>7, MapWithout DEF PrivateChannelDelete
  <2> QED
    BY <1>1, <1>2, <1>7, <2>1, EventKeepsIInv DEF PrivateChannelDelete
<1>8. ASSUME NEW d \in DMs, NEW b \in Bases, PrivateChannelUpdate(d, b) PROVE IInv'
  <2>1. dms' \in Maps(DMs) /\ DOMAIN dms' = DOMAIN dms \cup {d}
    BY <1>4, <1>8 DEF PrivateChannelUpdate
  <2> QED
    BY <1>1, <1>2, <1>8, <2>1, EventKeepsIInv DEF PrivateChannelUpdate
<1>9. ASSUME NEW c \in Chans, ChannelDelete(c) PROVE IInv'
  <2>1. PICK i \in DOMAIN channels : channels' = RemoveAt(channels, i)
    BY <1>9 DEF ChannelDelete
  <2>2. i \in 1..Len(channels) /\ Len(channels) \in Nat
    BY <1>1, <2>1
  <2>3. /\ channels' \in Seq(Entry) /\ Len(channels') = Len(channels) - 1
        /\ \A j \in 1..Len(channels') : channels'[j] = channels[IF j < i THEN j ELSE j + 1]
    BY <1>1, <2>1, <2>2, RemovedAt
  <2>4. Distinct(channels')
    <3> SUFFICES ASSUME NEW j \in 1..Len(channels'), NEW k \in 1..Len(channels'),
                        channels'[j].id = channels'[k].id
                 PROVE  j = k
      BY <2>3 DEF Distinct
    <3> DEFINE at(n) == IF n < i THEN n ELSE n + 1
    <3>1. at(j) \in DOMAIN channels /\ at(k) \in DOMAIN channels
      BY <1>1, <2>2, <2>3
    <3>2. channels[at(j)].id = channels[at(k)].id
      BY <2>3
    <3>3. at(j) = at(k)
      BY <1>1, <3>1, <3>2 DEF Distinct
    <3> QED
      BY <2>2, <2>3, <3>3
  <2> QED
    BY <1>1, <1>9, <2>3, <2>4, EventKeepsIInv DEF ChannelDelete
<1>10. ASSUME NEW c \in Chans, NEW b \in Bases, ChannelUpdate(c, b) PROVE IInv'
  <2> DEFINE entry == [id |-> c, base |-> b]
             new == [i \in DOMAIN channels |-> IF channels[i].id = c THEN entry ELSE channels[i]]
  <2>1. entry \in Entry /\ entry.id = c
    BY DEF Entry
  <2> HIDE DEF entry
  <2>2. CASE c \in Ids(channels)
    <3>1. channels' = new /\ InPlace(new)
      BY <1>10, <2>2 DEF ChannelUpdate, entry
    <3>2. new \in Seq(Entry)
      BY <1>1, <2>1
    <3>3. DOMAIN new = DOMAIN channels /\ \A i \in DOMAIN channels : new[i].id = channels[i].id
      BY <2>1
    <3> HIDE DEF new
    <3>4. Distinct(channels')
      BY <1>1, <3>1, <3>3 DEF Distinct
    <3> QED
      BY <1>1, <1>10, <3>1, <3>2, <3>4, EventKeepsIInv DEF ChannelUpdate
  <2>3. CASE c \notin Ids(channels)
    <3>1. channels' = Append(channels, entry) /\ NotInPlace
      BY <1>10, <2>3 DEF ChannelUpdate, entry
    <3>2. /\ channels' \in Seq(Entry) /\ Len(channels') = Len(channels) + 1
          /\ \A i \in 1..Len(channels) : channels'[i] = channels[i] /\ channels[i].id # c
          /\ channels'[Len(channels) + 1] = entry
      BY <1>1, <2>1, <2>3, <3>1 DEF Ids
    <3>3. Distinct(channels')
      <4> SUFFICES ASSUME NEW i \in 1..(Len(channels) + 1), NEW j \in 1..(Len(channels) + 1),
                          channels'[i].id = channels'[j].id
                   PROVE  i = j
        BY <3>2 DEF Distinct
      <4>1. /\ i \in 1..Len(channels) \/ i = Len(channels) + 1
            /\ j \in 1..Len(channels) \/ j = Len(channels) + 1
        BY <1>1
      <4> QED
        BY <1>1, <2>1, <3>2, <4>1 DEF Distinct
    <3> QED
      BY <1>1, <1>10, <3>1, <3>2, <3>3, EventKeepsIInv DEF ChannelUpdate
  <2> QED
    BY <2>2, <2>3
<1>11. ASSUME NEW list \in Seq(Entry), Distinct(list), GuildUpdate(list) PROVE IInv'
  <2>1. channels' \in Seq(Entry) /\ Distinct(channels') /\ guild' \in BOOLEAN
    BY <1>11 DEF GuildUpdate, Distinct
  <2> QED
    BY <1>1, <1>11, <2>1, EventKeepsIInv DEF GuildUpdate
<1>16. ASSUME GuildUpdateBare PROVE IInv'
  <2>1. channels' \in Seq(Entry) /\ Distinct(channels') /\ guild' \in BOOLEAN
    BY <1>1, <1>2, <1>16 DEF GuildUpdateBare
  <2> QED
    BY <1>1, <1>16, <2>1, EventKeepsIInv DEF GuildUpdateBare
<1>12. ASSUME GuildDelete PROVE IInv'
  <2>1. channels' = <<>> /\ guild' = FALSE
    BY <1>12 DEF GuildDelete
  <2>2. channels' \in Seq(Entry) /\ Distinct(channels')
    BY <2>1 DEF Distinct
  <2> QED
    BY <1>1, <1>12, <2>1, <2>2, EventKeepsIInv DEF GuildDelete
<1>13. ASSUME NEW u \in Users, NEW d \in DMs, NEW b \in Bases, Ready(u, d, b) PROVE IInv'
  <2>1. friends' \in Maps(Users) /\ DOMAIN friends' = DOMAIN friends \cup {u}
    BY <1>3, <1>13 DEF Ready
  <2>2. dms' \in Maps(DMs) /\ DOMAIN dms' = DOMAIN dms \cup {d}
    BY <1>4, <1>13 DEF Ready
  <2> QED
    BY <1>1, <1>2, <1>13, <2>1, <2>2, EventKeepsIInv DEF Ready
<1>14. \A c \in Chans, b \in Bases :
         <<[id |-> c, base |-> b]>> \in Seq(Entry) /\ Distinct(<<[id |-> c, base |-> b]>>)
  BY DEF Entry, Distinct
<1>15. <<>> \in Seq(Entry) /\ Distinct(<<>>)
  BY DEF Distinct
<1> QED
  BY <1>5, <1>6, <1>7, <1>8, <1>9, <1>10, <1>11, <1>12, <1>13, <1>14, <1>15, <1>16
     DEF GatewayEvent

-----------------------------------------------------------------------------
\* What the directories show of the store does not depend on the rest.
LEMMA SameShown ==
  ASSUME UNCHANGED <<friends, dms, guild, channels, children>>
  PROVE  /\ Shows(Entries(friends), children["friends"])
              => Shows(Entries(friends), children["friends"])'
         /\ Shows(Entries(dms), children["dms"]) => Shows(Entries(dms), children["dms"])'
         /\ Shows(channels, children["channels"]) => Shows(channels, children["channels"])'
         /\ Shows(Communities, children["communities"])
              => Shows(Communities, children["communities"])'
<1>1. /\ Entries(friends)' = Entries(friends) /\ Entries(dms)' = Entries(dms)
      /\ Communities' = Communities
  BY DEF Entries, Communities
<1> QED
  BY <1>1

(***************************************************************************)
(* Steps of a send.  Before it refreshes, the tree is not touched by it.   *)
(***************************************************************************)
LEMMA SendLeavesTree ==
  ASSUME IInv, NEW t \in Senders, pc[t] \in {"idle", "lockDM", "find", "create"},
         NEW step \in {"idle", "lockDM", "find", "create", "refresh"}, Goto(t, step),
         UNCHANGED <<friends, guild, channels, treeVars, snapVars, removed, treeMu>>,
         dms' = dms \/ step = "refresh", dms' \in Maps(DMs), DOMAIN dms \subseteq DOMAIN dms',
         dmMu' \in Senders \cup {Nobody}, creates' \in [Users -> Nat]
  PROVE  /\ TypeOK' /\ TreeMuOK' /\ ItemsOK'
         /\ NodesOK("friends", Users, DOMAIN friends)' /\ NodesOK("dms", DMs, DOMAIN dms)'
         /\ SnapshotIsCurrent' /\ ShowsStore'
<1> DEFINE Steps == {"idle", "lockDM", "find", "create", "refresh"} \cup Refreshing
<1>1. pc \in [Threads -> Steps]
  BY DEF IInv, TypeOK
<1>2. /\ pc' \in [Threads -> Steps] /\ pc'[t] = step
      /\ \A s \in Threads \ {t} : pc'[s] = pc[s]
      /\ UNCHANGED <<children, cached, made, items, taken>>
  BY <1>1, Kind DEF Goto, treeVars, snapVars
<1>3. t \in Threads /\ treeMu # t /\ (treeMu # Nobody => treeMu \in Threads \ {t})
  BY Kind DEF IInv, TypeOK, TreeMuOK, Refreshing
<1>4. treeMu' = treeMu /\ (treeMu # Nobody => pc'[treeMu] = pc[treeMu])
  BY <1>2, <1>3
<1>5. TypeOK'
  BY <1>2 DEF IInv, TypeOK, Distinct
<1>6. TreeMuOK'
  BY <1>2, <1>3 DEF IInv, TreeMuOK, Refreshing
<1>7. ItemsOK'
  BY <1>2 DEF IInv, ItemsOK, Ids
<1>8. /\ WillMake("friends")' = WillMake("friends") /\ WillHave("friends")' = WillHave("friends")
      /\ WillMake("dms")' = WillMake("dms") /\ WillHave("dms")' = WillHave("dms")
  <2>1. Pending("friends")' = Pending("friends") /\ Pending("dms")' = Pending("dms")
    BY <1>4 DEF Pending, Before
  <2>2. Ids(items["friends"])' = Ids(items["friends"]) /\ Ids(items["dms"])' = Ids(items["dms"])
    BY <1>2 DEF Ids
  <2> QED
    BY <1>2, <2>1, <2>2 DEF WillMake, WillHave
<1>9. NodesOK("friends", Users, DOMAIN friends)'
  BY <1>2, <1>8 DEF IInv, NodesOK
<1>10. NodesOK("dms", DMs, DOMAIN dms)'
  <2>1. ASSUME NEW i \in DMs
        PROVE  made'[i] + (IF i \in WillMake("dms") THEN 1 ELSE 0)
                 <= removed'[i] + (IF i \in WillHave("dms") \cap DOMAIN dms' THEN 1 ELSE 0)
    <3>1. made[i] + (IF i \in WillMake("dms") THEN 1 ELSE 0)
            <= removed[i] + (IF i \in WillHave("dms") \cap DOMAIN dms THEN 1 ELSE 0)
      BY DEF IInv, NodesOK
    <3>2. made[i] \in Nat /\ removed[i] \in Nat /\ made' = made /\ removed' = removed
      BY <1>2, Kind DEF IInv, TypeOK
    <3> QED
      BY <3>1, <3>2
  <2> QED
    BY <1>8, <2>1 DEF NodesOK
<1>11. Stale' \/ (~Stale' /\ ~Stale /\ dms' = dms)
  BY <1>2, <1>3 DEF Stale
<1>12. SnapshotIsCurrent'
  BY <1>2, <1>4, <1>11 DEF IInv, SnapshotIsCurrent, Communities, Entries
<1>13. ShowsStore'
  <2>1. CASE Stale'
    BY <2>1 DEF ShowsStore, Past
  <2>2. CASE ~Stale' /\ ~Stale /\ dms' = dms
    <3>1. /\ Past({"dms", "channels", "communities", "unlock"})'
               => Past({"dms", "channels", "communities", "unlock"})
          /\ Past({"channels", "communities", "unlock"})'
               => Past({"channels", "communities", "unlock"})
          /\ Past({"communities", "unlock"})' => Past({"communities", "unlock"})
          /\ Past({"unlock"})' => Past({"unlock"})
      BY <1>4, <2>2 DEF Past
    <3> QED
      BY <1>2, <2>2, <3>1, SameShown DEF IInv, ShowsStore
  <2> QED
    BY <1>11, <2>1, <2>2
<1> QED
  BY <1>5, <1>6, <1>7, <1>9, <1>10, <1>12, <1>13

\* Every step of a send before its refresh keeps the invariant.
LEMMA SendKeepsIInv ==
  ASSUME IInv, NEW t \in Senders,
         \/ \E u \in Users : SendBegin(t, u)
         \/ SendLockDM(t) \/ SendFinds(t) \/ SendCreates(t) \/ SendFails(t)
         \/ \E b \in Bases : SendUpserts(t, b)
  PROVE  IInv'
<1>1. /\ pc \in [Threads -> {"idle", "lockDM", "find", "create", "refresh"} \cup Refreshing]
      /\ dms \in Maps(DMs) /\ dmMu \in Senders \cup {Nobody}
      /\ creates \in [Users -> Nat] /\ removed \in [IDs -> Nat]
      /\ \A u \in Users : DMOf[u] \in IDs /\ DMOf[u] \in DMs
      /\ t \in Threads /\ Senders \subseteq Threads /\ Gateway \in Threads \ {t}
      /\ Nobody \notin Threads
  BY Kind DEF IInv, TypeOK
<1>2. ASSUME NEW step, Goto(t, step)
      PROVE  pc'[t] = step /\ \A s \in Threads \ {t} : pc'[s] = pc[s]
  BY <1>1, <1>2 DEF Goto
\* A step that calls no CreateDM and leaves the DMs as they are.
<1>3. ASSUME pc[t] # "create", pc'[t] # "create", creates' = creates, removed' = removed,
             dms' = dms, \A s \in Senders \ {t} : pc'[s] = pc[s] /\ target'[s] = target[s]
      PROVE  CreatesOK'
  <2>1. \A u \in Users : IsCreating(u)' <=> IsCreating(u)
    BY <1>3 DEF IsCreating
  <2>2. \A u \in Users :
          creates'[u] <= removed'[DMOf[u]] +
                           (IF DMOf[u] \in DOMAIN dms' \/ IsCreating(u)' THEN 1 ELSE 0)
    BY <1>3, <2>1 DEF IInv, CreatesOK
  <2> QED
    BY <1>3, <2>2 DEF IInv, CreatesOK
\* Past the lock a send is alone, so nobody else is creating a DM.
<1>4. pc[t] \in {"find", "create"} =>
        dmMu = t /\ target[t] \in Users /\ \A s \in Senders \ {t} : pc[s] \in {"idle", "lockDM"}
  BY DEF IInv, DmMuOK
<1>5. ASSUME NEW u \in Users, SendBegin(t, u) PROVE IInv'
  <2>1. /\ pc[t] = "idle" /\ Goto(t, "lockDM") /\ dms' = dms /\ dmMu' = dmMu
        /\ target' = [target EXCEPT ![t] = u]
        /\ UNCHANGED <<friends, guild, channels, treeVars, snapVars, removed, treeMu, creates>>
    BY <1>5 DEF SendBegin, storeVars
  <2>2. pc'[t] = "lockDM" /\ \A s \in Threads \ {t} : pc'[s] = pc[s]
    BY <1>2, <2>1
  <2>3. /\ target'[t] = u /\ DOMAIN target' = Senders
        /\ \A s \in Senders \ {t} : target'[s] = target[s]
    BY <2>1 DEF IInv, DmMuOK
  <2>4. DmMuOK'
    BY <1>1, <2>1, <2>2, <2>3 DEF IInv, DmMuOK
  <2>5. CreatesOK'
    BY <1>1, <1>3, <2>1, <2>2, <2>3
  <2> QED
    BY <1>1, <2>1, <2>4, <2>5, SendLeavesTree DEF IInv
<1>6. ASSUME SendLockDM(t) PROVE IInv'
  <2>1. /\ pc[t] = "lockDM" /\ Goto(t, "find") /\ dms' = dms /\ dmMu = Nobody /\ dmMu' = t
        /\ UNCHANGED <<friends, guild, channels, treeVars, snapVars, removed, treeMu, creates,
                       target>>
    BY <1>6 DEF SendLockDM, storeVars
  <2>2. pc'[t] = "find" /\ \A s \in Threads \ {t} : pc'[s] = pc[s]
    BY <1>2, <2>1
  <2>3. DmMuOK'
    BY <1>1, <2>1, <2>2 DEF IInv, DmMuOK
  <2>4. CreatesOK'
    BY <1>1, <1>3, <2>1, <2>2
  <2> QED
    BY <1>1, <2>1, <2>3, <2>4, SendLeavesTree DEF IInv
<1>7. ASSUME SendFinds(t) PROVE IInv'
  <2>1. /\ pc[t] = "find" /\ Goto(t, "idle") /\ dms' = dms
        /\ dmMu' = (IF dmMu = t THEN Nobody ELSE dmMu)
        /\ UNCHANGED <<friends, guild, channels, treeVars, snapVars, removed, treeMu, creates,
                       target>>
    BY <1>7 DEF SendFinds, SendUnlockDM, storeVars
  <2>2. pc'[t] = "idle" /\ \A s \in Threads \ {t} : pc'[s] = pc[s]
    BY <1>2, <2>1
  <2>3. DmMuOK'
    BY <1>1, <1>4, <2>1, <2>2 DEF IInv, DmMuOK
  <2>4. CreatesOK'
    BY <1>1, <1>3, <2>1, <2>2
  <2> QED
    BY <1>1, <2>1, <2>3, <2>4, SendLeavesTree DEF IInv
<1>8. ASSUME SendCreates(t) PROVE IInv'
  <2>1. /\ pc[t] = "find" /\ Goto(t, "create") /\ dms' = dms /\ dmMu' = dmMu
        /\ FindDM(target[t]) = {}
        /\ creates' = [creates EXCEPT ![target[t]] = @ + 1]
        /\ UNCHANGED <<friends, guild, channels, treeVars, snapVars, removed, treeMu, target>>
    BY <1>8 DEF SendCreates, storeVars
  <2>2. pc'[t] = "create" /\ \A s \in Threads \ {t} : pc'[s] = pc[s]
    BY <1>2, <2>1
  <2>3. DmMuOK'
    BY <1>1, <2>1, <2>2 DEF IInv, DmMuOK
  <2>4. /\ creates' \in [Users -> Nat] /\ creates'[target[t]] = creates[target[t]] + 1
        /\ \A u \in Users \ {target[t]} : creates'[u] = creates[u]
    BY <1>1, <1>4, <2>1
  <2>5. DMOf[target[t]] \notin DOMAIN dms
    BY <2>1 DEF FindDM
  <2>6. ~IsCreating(target[t]) /\ IsCreating(target[t])'
    BY <1>4, <2>1, <2>2 DEF IsCreating
  <2>7. CreatesOK'
    <3>1. creates'[target[t]] <= removed'[DMOf[target[t]]] + 1
      BY <1>1, <1>4, <2>1, <2>4, <2>5, <2>6 DEF IInv, CreatesOK
    <3>2. ASSUME NEW u \in Users \ {target[t]}
          PROVE  creates'[u] <= removed'[DMOf[u]] +
                                  (IF DMOf[u] \in DOMAIN dms' \/ IsCreating(u)' THEN 1 ELSE 0)
      <4>1. IsCreating(u)' <=> IsCreating(u)
        BY <1>1, <2>1, <2>2 DEF IsCreating
      <4> QED
        BY <2>1, <2>4, <4>1 DEF IInv, CreatesOK
    <3>3. \A s \in Senders : pc'[s] = "create" => creates'[target'[s]] > 0
      BY <1>1, <1>4, <2>1, <2>2, <2>4
    <3> QED
      BY <2>1, <2>6, <3>1, <3>2, <3>3 DEF CreatesOK
  <2> QED
    BY <1>1, <2>1, <2>3, <2>4, <2>7, SendLeavesTree DEF IInv
<1>9. ASSUME SendFails(t) PROVE IInv'
  <2>1. /\ pc[t] = "create" /\ Goto(t, "idle") /\ dms' = dms
        /\ dmMu' = (IF dmMu = t THEN Nobody ELSE dmMu)
        /\ creates' = [creates EXCEPT ![target[t]] = @ - 1]
        /\ UNCHANGED <<friends, guild, channels, treeVars, snapVars, removed, treeMu, target>>
    BY <1>9 DEF SendFails, SendUnlockDM, storeVars
  <2>2. pc'[t] = "idle" /\ \A s \in Threads \ {t} : pc'[s] = pc[s]
    BY <1>2, <2>1
  <2>3. DmMuOK'
    BY <1>1, <2>1, <2>2 DEF IInv, DmMuOK
  <2>4. creates[target[t]] > 0
    BY <2>1 DEF IInv, CreatesOK
  <2>5. /\ creates' \in [Users -> Nat] /\ creates'[target[t]] = creates[target[t]] - 1
        /\ \A u \in Users \ {target[t]} : creates'[u] = creates[u]
    BY <1>1, <1>4, <2>1, <2>4
  <2>6. CreatesOK'
    <3>1. creates'[target[t]] <= removed'[DMOf[target[t]]]
      BY <1>1, <1>4, <2>1, <2>5 DEF IInv, CreatesOK
    <3>2. ASSUME NEW u \in Users \ {target[t]}
          PROVE  creates'[u] <= removed'[DMOf[u]] +
                                  (IF DMOf[u] \in DOMAIN dms' \/ IsCreating(u)' THEN 1 ELSE 0)
      <4>1. IsCreating(u)' <=> IsCreating(u)
        BY <1>1, <2>1, <2>2 DEF IsCreating
      <4> QED
        BY <2>1, <2>5, <4>1 DEF IInv, CreatesOK
    <3>3. \A s \in Senders : pc'[s] # "create"
      BY <1>1, <1>4, <2>1, <2>2
    <3>4. creates'[target[t]] <= removed'[DMOf[target[t]]] +
            (IF DMOf[target[t]] \in DOMAIN dms' \/ IsCreating(target[t])' THEN 1 ELSE 0)
      BY <1>1, <1>4, <2>1, <2>5, <3>1
    <3>5. \A u \in Users :
            creates'[u] <= removed'[DMOf[u]] +
                             (IF DMOf[u] \in DOMAIN dms' \/ IsCreating(u)' THEN 1 ELSE 0)
      BY <2>1, <3>2, <3>4
    <3> QED
      BY <3>3, <3>5 DEF CreatesOK
  <2> QED
    BY <1>1, <2>1, <2>3, <2>5, <2>6, SendLeavesTree DEF IInv
<1>10. ASSUME NEW b \in Bases, SendUpserts(t, b) PROVE IInv'
  <2>1. /\ pc[t] = "create" /\ Goto(t, "refresh") /\ dmMu' = dmMu
        /\ dms' = With(dms, DMOf[target[t]], b) /\ creates' = creates
        /\ UNCHANGED <<friends, guild, channels, treeVars, snapVars, removed, treeMu, target>>
    BY <1>10 DEF SendUpserts, storeVars, sendVars
  <2>2. pc'[t] = "refresh" /\ \A s \in Threads \ {t} : pc'[s] = pc[s]
    BY <1>2, <2>1
  <2>3. DmMuOK'
    BY <1>1, <2>1, <2>2 DEF IInv, DmMuOK
  <2>4. dms' \in Maps(DMs) /\ DOMAIN dms' = DOMAIN dms \cup {DMOf[target[t]]}
    <3>1. DMOf[target[t]] \in DMs
      BY <1>1, <1>4, <2>1
    <3>2. \A d \in DMs, c \in Bases :
            With(dms, d, c) \in Maps(DMs) /\ DOMAIN With(dms, d, c) = DOMAIN dms \cup {d}
      <4>1. dms \in Maps(DMs)
        BY <1>1
      <4> QED
        BY <4>1, MapWith
    <3> QED
      BY <2>1, <3>1, <3>2
  <2>5. CreatesOK'
    <3>1. ASSUME NEW u \in Users
          PROVE  creates'[u] <= removed'[DMOf[u]] +
                                  (IF DMOf[u] \in DOMAIN dms' \/ IsCreating(u)' THEN 1 ELSE 0)
      <4>1. DMOf[u] \in DOMAIN dms \/ IsCreating(u) => DMOf[u] \in DOMAIN dms'
        BY <1>1, <1>4, <2>1, <2>4 DEF IsCreating
      <4>2. creates[u] <= removed[DMOf[u]] +
                            (IF DMOf[u] \in DOMAIN dms \/ IsCreating(u) THEN 1 ELSE 0)
        BY DEF IInv, CreatesOK
      <4> QED
        BY <1>1, <2>1, <4>1, <4>2
    <3>2. \A s \in Senders : pc'[s] # "create"
      BY <1>1, <1>4, <2>1, <2>2
    <3> QED
      BY <3>1, <3>2 DEF CreatesOK
  <2> QED
    BY <1>1, <2>1, <2>3, <2>4, <2>5, SendLeavesTree DEF IInv
<1> QED
  BY <1>5, <1>6, <1>7, <1>8, <1>9, <1>10

-----------------------------------------------------------------------------
(***************************************************************************)
(* Steps of a refresh.                                                     *)
(***************************************************************************)
\* The snapshot: what a refresh will show is what the store holds.
LEMMA RefreshLockKeepsIInv ==
  ASSUME IInv, NEW t \in Threads, RefreshLock(t)
  PROVE  IInv'
<1> DEFINE Steps == {"idle", "lockDM", "find", "create", "refresh"} \cup Refreshing
<1>1. /\ pc \in [Threads -> Steps] /\ pc[t] = "refresh" /\ treeMu = Nobody /\ treeMu' = t
      /\ UNCHANGED <<storeVars, treeVars, sendVars, removed, updates>>
  BY DEF IInv, TypeOK, RefreshLock
<1>2. /\ pc' \in [Threads -> Steps] /\ pc'[t] = "friends"
      /\ \A s \in Threads \ {t} : pc'[s] = pc[s] /\ pc[s] \notin Refreshing
  BY <1>1, Kind DEF RefreshLock, Goto, Refreshing, IInv, TreeMuOK
<1>3. /\ Ids(Entries(friends)) = DOMAIN friends /\ DOMAIN friends \subseteq Users
      /\ Ids(Entries(dms)) = DOMAIN dms /\ DOMAIN dms \subseteq DMs
  BY EntriesOf, TopologyAssumption, ZenonT(30) DEF IInv, TypeOK
<1>4. /\ items'["friends"] = Entries(friends) /\ items'["dms"] = Entries(dms)
      /\ items'["channels"] = channels /\ items'["communities"] = Communities
      /\ DOMAIN items' = Kinds /\ taken' = 0
  BY DEF RefreshLock, Snapshot, Kinds, Communities
<1>5. TypeOK'
  BY <1>1, <1>2, <1>4 DEF IInv, TypeOK, storeVars, treeVars, sendVars, Distinct
<1>6. TreeMuOK'
  BY <1>1, <1>2, Kind DEF TreeMuOK, Refreshing
<1>7. DmMuOK'
  BY <1>1, <1>2, Kind DEF IInv, DmMuOK, sendVars, Refreshing
<1>8. ItemsOK'
  <2>1. Ids(items'["communities"]) \subseteq {Guild}
    BY <1>4 DEF Communities, Ids
  <2> QED
    BY <1>3, <1>4, <2>1 DEF ItemsOK
<1>9. CreatesOK'
  <2>1. \A u \in Users : IsCreating(u)' <=> IsCreating(u)
    BY <1>1, <1>2, Kind DEF IsCreating, sendVars
  <2>2. \A s \in Senders : pc'[s] = "create" => pc[s] = "create"
    BY <1>2, Kind
  <2> QED
    BY <1>1, <2>1, <2>2 DEF IInv, CreatesOK, sendVars, storeVars
<1>10. /\ Pending("friends")' /\ Pending("dms")' /\ ~Pending("friends") /\ ~Pending("dms")
  BY <1>1, <1>2, Kind DEF Pending, Before
<1>11. NodesOK("friends", Users, DOMAIN friends)'
  <2>1. WillMake("friends")' = DOMAIN friends \ cached /\ WillHave("friends")' = DOMAIN friends
    BY <1>1, <1>3, <1>4, <1>10 DEF WillMake, WillHave, treeVars
  <2>2. WillMake("friends") = {} /\ WillHave("friends") = cached
    BY <1>10 DEF WillMake, WillHave
  <2>3. ASSUME NEW i \in Users
        PROVE  made[i] + (IF i \in DOMAIN friends \ cached THEN 1 ELSE 0)
                 <= removed[i] + (IF i \in DOMAIN friends THEN 1 ELSE 0)
    <3>1. made[i] <= removed[i] + (IF i \in cached \cap DOMAIN friends THEN 1 ELSE 0)
      BY <2>2, Kind DEF IInv, TypeOK, NodesOK
    <3>2. made[i] \in Nat /\ removed[i] \in Nat
      BY Kind DEF IInv, TypeOK
    <3> QED
      BY <3>1, <3>2
  <2> QED
    BY <1>1, <2>1, <2>3 DEF NodesOK, treeVars, storeVars
<1>12. NodesOK("dms", DMs, DOMAIN dms)'
  <2>1. WillMake("dms")' = DOMAIN dms \ cached /\ WillHave("dms")' = DOMAIN dms
    BY <1>1, <1>3, <1>4, <1>10 DEF WillMake, WillHave, treeVars
  <2>2. WillMake("dms") = {} /\ WillHave("dms") = cached
    BY <1>10 DEF WillMake, WillHave
  <2>3. ASSUME NEW i \in DMs
        PROVE  made[i] + (IF i \in DOMAIN dms \ cached THEN 1 ELSE 0)
                 <= removed[i] + (IF i \in DOMAIN dms THEN 1 ELSE 0)
    <3>1. made[i] <= removed[i] + (IF i \in cached \cap DOMAIN dms THEN 1 ELSE 0)
      BY <2>2, Kind DEF IInv, TypeOK, NodesOK
    <3>2. made[i] \in Nat /\ removed[i] \in Nat
      BY Kind DEF IInv, TypeOK
    <3> QED
      BY <3>1, <3>2
  <2> QED
    BY <1>1, <2>1, <2>3 DEF NodesOK, treeVars, storeVars
<1>13. SnapshotIsCurrent'
  <2>1. /\ Entries(friends)' = Entries(friends) /\ Entries(dms)' = Entries(dms)
        /\ Communities' = Communities /\ channels' = channels
    BY <1>1 DEF Entries, Communities, storeVars
  <2> QED
    BY <1>4, <2>1 DEF SnapshotIsCurrent
<1>14. ShowsStore'
  BY <1>1, <1>2, Kind DEF ShowsStore, Past
<1> QED
  BY <1>5, <1>6, <1>7, <1>8, <1>9, <1>11, <1>12, <1>13, <1>14 DEF IInv

(***************************************************************************)
(* A refresh goes on to its next step: it holds both mutexes it held, and  *)
(* the store and its snapshot stay.                                        *)
(***************************************************************************)
LEMMA RefreshGoesOn ==
  ASSUME IInv, NEW t \in Threads, pc[t] \in Refreshing,
         NEW step \in Refreshing, Goto(t, step),
         UNCHANGED <<storeVars, items, sendVars, removed, treeMu>>,
         taken' \in 0..Len(items["channels"]),
         DOMAIN children' = Kinds, cached' \subseteq IDs, made' \in [IDs -> Nat]
  PROVE  /\ treeMu = t /\ pc'[t] = step /\ (Stale' <=> Stale)
         /\ TypeOK' /\ TreeMuOK' /\ DmMuOK' /\ ItemsOK' /\ CreatesOK' /\ SnapshotIsCurrent'
<1> DEFINE Steps == {"idle", "lockDM", "find", "create", "refresh"} \cup Refreshing
<1>1. pc \in [Threads -> Steps] /\ treeMu = t
  BY DEF IInv, TypeOK, TreeMuOK
<1>2. /\ pc' \in [Threads -> Steps] /\ pc'[t] = step
      /\ \A s \in Threads \ {t} : pc'[s] = pc[s]
  BY <1>1 DEF Goto
<1>3. Stale' <=> Stale
  BY <1>2 DEF Stale, Refreshing
<1>4. TypeOK'
  BY <1>2 DEF IInv, TypeOK, storeVars, sendVars, Distinct
<1>5. TreeMuOK'
  BY <1>1, <1>2 DEF IInv, TreeMuOK
<1>6. DmMuOK'
  BY <1>2, Kind DEF IInv, DmMuOK, sendVars, Refreshing
<1>7. ItemsOK'
  BY DEF IInv, ItemsOK, Ids
<1>8. CreatesOK'
  <2>1. \A u \in Users : IsCreating(u)' <=> IsCreating(u)
    BY <1>2, Kind DEF IsCreating, sendVars, Refreshing
  <2>2. \A s \in Senders : pc'[s] = "create" => pc[s] = "create"
    BY <1>2, Kind DEF Refreshing
  <2> QED
    BY <2>1, <2>2 DEF IInv, CreatesOK, sendVars, storeVars
<1>9. SnapshotIsCurrent'
  <2>1. /\ Entries(friends)' = Entries(friends) /\ Entries(dms)' = Entries(dms)
        /\ Communities' = Communities /\ channels' = channels
    BY DEF Entries, Communities, storeVars
  <2> QED
    BY <1>3, <2>1 DEF IInv, SnapshotIsCurrent
<1> QED
  BY <1>1, <1>2, <1>3, <1>4, <1>5, <1>6, <1>7, <1>8, <1>9

\* What Reconcile does to the directories, the caches and the count of nodes.
LEMMA Reconciles ==
  ASSUME IInv, NEW kind \in Kinds, NEW all, Reconcile(kind, all), Ids(items[kind]) \subseteq all,
         all \subseteq IDs
  PROVE  /\ DOMAIN children' = Kinds /\ Shows(items[kind], children'[kind])
         /\ \A k \in Kinds \ {kind} : children'[k] = children[k]
         /\ cached' \subseteq IDs
         /\ \A i \in all : i \in cached' <=> i \in Ids(items[kind])
         /\ \A i \in IDs \ all : i \in cached' <=> i \in cached
         /\ made' \in [IDs -> Nat]
         /\ \A i \in IDs : made'[i] = made[i] + (IF i \in Ids(items[kind]) \ cached THEN 1 ELSE 0)
<1>1. DOMAIN children = Kinds /\ cached \subseteq IDs /\ made \in [IDs -> Nat]
  BY DEF IInv, TypeOK
<1>2. PICK dir \in [Names(items[kind]) -> Ids(items[kind])] :
        Shows(items[kind], dir) /\ children' = [children EXCEPT ![kind] = dir]
  BY DEF Reconcile
<1>3. /\ DOMAIN children' = Kinds /\ children'[kind] = dir
      /\ \A k \in Kinds \ {kind} : children'[k] = children[k]
  BY <1>1, <1>2
<1>4. cached' = (cached \ all) \cup Ids(items[kind])
  BY DEF Reconcile
<1>5. made' = [i \in IDs |-> made[i] + (IF i \in Ids(items[kind]) \ cached THEN 1 ELSE 0)]
  BY DEF Reconcile
<1>6. made' \in [IDs -> Nat]
  BY <1>1, <1>5
<1> QED
  BY <1>1, <1>2, <1>3, <1>4, <1>5, <1>6

\* Past its turn a kind is left alone by the rest of the refresh.
LEMMA OtherNodes ==
  ASSUME IInv, NEW all, NEW shown, UNCHANGED <<storeVars, removed>>,
         \A i \in IDs \ all : i \in cached' <=> i \in cached,
         \A i \in IDs : made'[i] = made[i] + (IF i \in shown \ cached THEN 1 ELSE 0),
         shown \subseteq all
  PROVE  /\ ~Pending("friends") /\ ~Pending("friends")' /\ Users \cap all = {}
              => NodesOK("friends", Users, DOMAIN friends)'
         /\ ~Pending("dms") /\ ~Pending("dms")' /\ DMs \cap all = {}
              => NodesOK("dms", DMs, DOMAIN dms)'
<1>1. ASSUME ~Pending("friends"), ~Pending("friends")', Users \cap all = {}
      PROVE  NodesOK("friends", Users, DOMAIN friends)'
  <2>1. /\ WillMake("friends")' = {} /\ WillHave("friends")' = cached'
        /\ WillMake("friends") = {} /\ WillHave("friends") = cached
    BY <1>1 DEF WillMake, WillHave
  <2>2. ASSUME NEW i \in Users PROVE made'[i] = made[i] /\ (i \in cached' <=> i \in cached)
    <3>1. i \in IDs \ all /\ i \notin shown /\ made[i] \in Nat
      BY <1>1, Kind DEF IInv, TypeOK
    <3> QED
      BY <3>1
  <2> QED
    BY <2>1, <2>2 DEF IInv, NodesOK, storeVars
<1>2. ASSUME ~Pending("dms"), ~Pending("dms")', DMs \cap all = {}
      PROVE  NodesOK("dms", DMs, DOMAIN dms)'
  <2>1. /\ WillMake("dms")' = {} /\ WillHave("dms")' = cached'
        /\ WillMake("dms") = {} /\ WillHave("dms") = cached
    BY <1>2 DEF WillMake, WillHave
  <2>2. ASSUME NEW i \in DMs PROVE made'[i] = made[i] /\ (i \in cached' <=> i \in cached)
    <3>1. i \in IDs \ all /\ i \notin shown /\ made[i] \in Nat
      BY <1>2, Kind DEF IInv, TypeOK
    <3> QED
      BY <3>1
  <2> QED
    BY <2>1, <2>2 DEF IInv, NodesOK, storeVars
<1> QED
  BY <1>1, <1>2

\* The friends are shown: nodes are made for those that have none.
LEMMA RefreshFriendsKeepsIInv ==
  ASSUME IInv, NEW t \in Threads, RefreshFriends(t)
  PROVE  IInv'
<1>1. /\ pc[t] = "friends" /\ Goto(t, "dms") /\ Reconcile("friends", Users)
      /\ UNCHANGED <<storeVars, items, taken, sendVars, removed, treeMu>>
      /\ taken \in 0..Len(items["channels"])
  BY DEF RefreshFriends, snapVars, IInv, TypeOK
<1>2. /\ DOMAIN children' = Kinds /\ Shows(items["friends"], children'["friends"])
      /\ \A k \in Kinds \ {"friends"} : children'[k] = children[k]
      /\ cached' \subseteq IDs
      /\ \A i \in Users : i \in cached' <=> i \in Ids(items["friends"])
      /\ \A i \in IDs \ Users : i \in cached' <=> i \in cached
      /\ made' \in [IDs -> Nat]
      /\ \A i \in IDs :
           made'[i] = made[i] + (IF i \in Ids(items["friends"]) \ cached THEN 1 ELSE 0)
      /\ Ids(items["friends"]) \subseteq Users
  BY <1>1, Reconciles, Kind DEF Kinds, IInv, ItemsOK
<1>3. /\ treeMu = t /\ pc'[t] = "dms" /\ (Stale' <=> Stale)
      /\ TypeOK' /\ TreeMuOK' /\ DmMuOK' /\ ItemsOK' /\ CreatesOK' /\ SnapshotIsCurrent'
  BY <1>1, <1>2, RefreshGoesOn DEF Refreshing
<1>4. /\ Pending("friends") /\ Pending("dms") /\ ~Pending("friends")' /\ Pending("dms")'
  BY <1>1, <1>3, Kind DEF Pending, Before
<1>5. NodesOK("friends", Users, DOMAIN friends)'
  <2>1. WillMake("friends")' = {} /\ WillHave("friends")' = cached'
    BY <1>4 DEF WillMake, WillHave
  <2>2. /\ WillMake("friends") = Ids(items["friends"]) \ cached
        /\ WillHave("friends") = Ids(items["friends"])
    BY <1>4 DEF WillMake, WillHave
  <2>3. ASSUME NEW i \in Users
        PROVE  made'[i] <= removed[i] + (IF i \in cached' \cap DOMAIN friends THEN 1 ELSE 0)
    BY <1>2, <2>2, Kind DEF IInv, NodesOK
  <2>4. \A i \in Users : made'[i] \in Nat
    BY <1>2, Kind
  <2> QED
    BY <1>1, <2>1, <2>3, <2>4 DEF NodesOK, storeVars
<1>6. NodesOK("dms", DMs, DOMAIN dms)'
  <2>1. /\ WillMake("dms")' = Ids(items["dms"]) \ cached'
        /\ WillHave("dms")' = Ids(items["dms"])
    BY <1>1, <1>4 DEF WillMake, WillHave
  <2>2. WillMake("dms") = Ids(items["dms"]) \ cached /\ WillHave("dms") = Ids(items["dms"])
    BY <1>4 DEF WillMake, WillHave
  <2>3. ASSUME NEW i \in DMs
        PROVE  made'[i] = made[i] /\ (i \in WillMake("dms")' <=> i \in WillMake("dms"))
    <3>1. i \in IDs \ Users /\ i \notin Ids(items["friends"]) /\ made[i] \in Nat
      BY <1>2, Kind DEF IInv, TypeOK
    <3> QED
      BY <1>2, <2>1, <2>2, <3>1
  <2> QED
    BY <1>1, <2>1, <2>2, <2>3 DEF IInv, NodesOK, storeVars
<1>7. ShowsStore'
  <2>1. ~Past({"channels", "communities", "unlock"})' /\ ~Past({"communities", "unlock"})'
        /\ ~Past({"unlock"})'
    BY <1>1, <1>3, Kind DEF Past
  <2>2. ASSUME ~Stale' PROVE Shows(Entries(friends), children["friends"])'
    <3>1. items["friends"] = Entries(friends)
      BY <1>3, <2>2, Kind DEF IInv, SnapshotIsCurrent
    <3>2. Entries(friends)' = Entries(friends)
      BY <1>1 DEF Entries, storeVars
    <3> QED
      BY <1>2, <3>1, <3>2
  <2> QED
    BY <2>1, <2>2 DEF ShowsStore, Past
<1> QED
  BY <1>3, <1>5, <1>6, <1>7 DEF IInv

\* The private channels are shown.
LEMMA RefreshDMsKeepsIInv ==
  ASSUME IInv, NEW t \in Threads, RefreshDMs(t)
  PROVE  IInv'
<1>1. /\ pc[t] = "dms" /\ Goto(t, "channels") /\ Reconcile("dms", DMs)
      /\ UNCHANGED <<storeVars, items, taken, sendVars, removed, treeMu>>
      /\ taken \in 0..Len(items["channels"])
  BY DEF RefreshDMs, snapVars, IInv, TypeOK
<1>2. /\ DOMAIN children' = Kinds /\ Shows(items["dms"], children'["dms"])
      /\ \A k \in Kinds \ {"dms"} : children'[k] = children[k]
      /\ cached' \subseteq IDs
      /\ \A i \in DMs : i \in cached' <=> i \in Ids(items["dms"])
      /\ \A i \in IDs \ DMs : i \in cached' <=> i \in cached
      /\ made' \in [IDs -> Nat]
      /\ \A i \in IDs : made'[i] = made[i] + (IF i \in Ids(items["dms"]) \ cached THEN 1 ELSE 0)
      /\ Ids(items["dms"]) \subseteq DMs
  BY <1>1, Reconciles, Kind DEF Kinds, IInv, ItemsOK
<1>3. /\ treeMu = t /\ pc'[t] = "channels" /\ (Stale' <=> Stale)
      /\ TypeOK' /\ TreeMuOK' /\ DmMuOK' /\ ItemsOK' /\ CreatesOK' /\ SnapshotIsCurrent'
  BY <1>1, <1>2, RefreshGoesOn DEF Refreshing
<1>4. /\ ~Pending("friends") /\ Pending("dms") /\ ~Pending("friends")' /\ ~Pending("dms")'
  BY <1>1, <1>3, Kind DEF Pending, Before
<1>5. NodesOK("dms", DMs, DOMAIN dms)'
  <2>1. WillMake("dms")' = {} /\ WillHave("dms")' = cached'
    BY <1>4 DEF WillMake, WillHave
  <2>2. WillMake("dms") = Ids(items["dms"]) \ cached /\ WillHave("dms") = Ids(items["dms"])
    BY <1>4 DEF WillMake, WillHave
  <2>3. ASSUME NEW i \in DMs
        PROVE  made'[i] <= removed[i] + (IF i \in cached' \cap DOMAIN dms THEN 1 ELSE 0)
    BY <1>2, <2>2, Kind DEF IInv, NodesOK
  <2>4. \A i \in DMs : made'[i] \in Nat
    BY <1>2, Kind
  <2> QED
    BY <1>1, <2>1, <2>3, <2>4 DEF NodesOK, storeVars
<1>6. NodesOK("friends", Users, DOMAIN friends)'
  BY <1>1, <1>2, <1>4, OtherNodes, Kind
<1>7. ShowsStore'
  <2>1. ~Past({"communities", "unlock"})' /\ ~Past({"unlock"})'
    BY <1>1, <1>3, Kind DEF Past
  <2>2. ASSUME ~Stale'
        PROVE  Shows(Entries(friends), children["friends"])' /\ Shows(Entries(dms), children["dms"])'
    <3>1. items["dms"] = Entries(dms)
      BY <1>3, <2>2, Kind DEF IInv, SnapshotIsCurrent
    <3>2. Entries(dms)' = Entries(dms) /\ Entries(friends)' = Entries(friends)
      BY <1>1 DEF Entries, storeVars
    <3>3. Past({"dms", "channels", "communities", "unlock"})
      BY <1>1, <1>3, <2>2 DEF Past
    <3>4. children'["friends"] = children["friends"]
      BY <1>2 DEF Kinds
    <3> QED
      BY <1>2, <3>1, <3>2, <3>3, <3>4 DEF IInv, ShowsStore
  <2> QED
    BY <2>1, <2>2 DEF ShowsStore, Past
<1> QED
  BY <1>3, <1>5, <1>6, <1>7 DEF IInv

\* An element of the shared array is read: only how far changes.
LEMMA RefreshReadsChannelKeepsIInv ==
  ASSUME IInv, NEW t \in Threads, RefreshReadsChannel(t)
  PROVE  IInv'
<1>1. /\ taken \in 0..Len(items["channels"]) /\ items["channels"] \in Seq(Entry)
      /\ taken < Len(items["channels"]) /\ taken' = taken + 1
      /\ UNCHANGED <<storeVars, treeVars, items, sendVars, removed, treeMu, pc>>
  BY DEF RefreshReadsChannel, IInv, TypeOK
<1>2. taken' \in 0..Len(items["channels"])
  BY <1>1
<1>3. TypeOK'
  BY <1>1, <1>2 DEF IInv, TypeOK, storeVars, treeVars, sendVars, Distinct
<1>4. TreeMuOK' /\ DmMuOK' /\ ItemsOK'
  BY <1>1 DEF IInv, TreeMuOK, DmMuOK, ItemsOK, sendVars, Ids
<1>5. CreatesOK'
  BY <1>1 DEF IInv, CreatesOK, IsCreating, sendVars, storeVars
<1>6. NodesOK("friends", Users, DOMAIN friends)' /\ NodesOK("dms", DMs, DOMAIN dms)'
  BY <1>1 DEF IInv, NodesOK, WillMake, WillHave, Pending, Ids, treeVars, storeVars
<1>7. SnapshotIsCurrent'
  BY <1>1 DEF IInv, SnapshotIsCurrent, Stale, Entries, Communities, storeVars
<1>8. ShowsStore'
  BY <1>1, SameShown DEF IInv, ShowsStore, Past, Stale, storeVars, treeVars
<1> QED
  BY <1>3, <1>4, <1>5, <1>6, <1>7, <1>8 DEF IInv

\* The guild's channels are shown.
LEMMA RefreshChannelsKeepsIInv ==
  ASSUME IInv, NEW t \in Threads, RefreshChannels(t)
  PROVE  IInv'
<1>1. /\ pc[t] = "channels" /\ Goto(t, "communities") /\ Reconcile("channels", Chans)
      /\ UNCHANGED <<storeVars, items, taken, sendVars, removed, treeMu>>
      /\ taken \in 0..Len(items["channels"]) /\ items["channels"] \in Seq(Entry)
  BY DEF RefreshChannels, snapVars, IInv, TypeOK
<1>2. Ids(items["channels"]) \subseteq Chans
  BY <1>1, IdsOfKind DEF Entry
<1>3. /\ DOMAIN children' = Kinds /\ Shows(items["channels"], children'["channels"])
      /\ \A k \in Kinds \ {"channels"} : children'[k] = children[k]
      /\ cached' \subseteq IDs
      /\ \A i \in IDs \ Chans : i \in cached' <=> i \in cached
      /\ made' \in [IDs -> Nat]
      /\ \A i \in IDs :
           made'[i] = made[i] + (IF i \in Ids(items["channels"]) \ cached THEN 1 ELSE 0)
  BY <1>1, <1>2, Reconciles, Kind DEF Kinds
<1>4. /\ treeMu = t /\ pc'[t] = "communities" /\ (Stale' <=> Stale)
      /\ TypeOK' /\ TreeMuOK' /\ DmMuOK' /\ ItemsOK' /\ CreatesOK' /\ SnapshotIsCurrent'
  BY <1>1, <1>3, RefreshGoesOn DEF Refreshing
<1>5. /\ ~Pending("friends") /\ ~Pending("dms") /\ ~Pending("friends")' /\ ~Pending("dms")'
  BY <1>1, <1>4, Kind DEF Pending, Before
<1>6. NodesOK("friends", Users, DOMAIN friends)' /\ NodesOK("dms", DMs, DOMAIN dms)'
  <2>1. Users \cap Chans = {} /\ DMs \cap Chans = {}
    BY Kind
  <2> QED
    BY <1>1, <1>2, <1>3, <1>5, <2>1, OtherNodes
<1>7. ShowsStore'
  <2>1. ~Past({"unlock"})'
    BY <1>1, <1>4, Kind DEF Past
  <2>2. ASSUME ~Stale'
        PROVE  /\ Shows(Entries(friends), children["friends"])'
               /\ Shows(Entries(dms), children["dms"])' /\ Shows(channels, children["channels"])'
    <3>1. items["channels"] = channels
      BY <1>4, <2>2, Kind DEF IInv, SnapshotIsCurrent
    <3>2. /\ Entries(dms)' = Entries(dms) /\ Entries(friends)' = Entries(friends)
          /\ channels' = channels
      BY <1>1 DEF Entries, storeVars
    <3>3. /\ Past({"dms", "channels", "communities", "unlock"})
          /\ Past({"channels", "communities", "unlock"})
      BY <1>1, <1>4, <2>2 DEF Past
    <3>4. children'["friends"] = children["friends"] /\ children'["dms"] = children["dms"]
      BY <1>3 DEF Kinds
    <3> QED
      BY <1>3, <3>1, <3>2, <3>3, <3>4 DEF IInv, ShowsStore
  <2> QED
    BY <2>1, <2>2 DEF ShowsStore, Past
<1> QED
  BY <1>4, <1>6, <1>7 DEF IInv

\* The communities are shown, the last of the directories.
LEMMA RefreshCommunitiesKeepsIInv ==
  ASSUME IInv, NEW t \in Threads, RefreshCommunities(t)
  PROVE  IInv'
<1>1. /\ pc[t] = "communities" /\ Goto(t, "unlock") /\ Reconcile("communities", {Guild})
      /\ UNCHANGED <<storeVars, items, taken, sendVars, removed, treeMu>>
      /\ taken \in 0..Len(items["channels"]) /\ Ids(items["communities"]) \subseteq {Guild}
  BY DEF RefreshCommunities, snapVars, IInv, TypeOK, ItemsOK
<1>2. /\ DOMAIN children' = Kinds /\ Shows(items["communities"], children'["communities"])
      /\ \A k \in Kinds \ {"communities"} : children'[k] = children[k]
      /\ cached' \subseteq IDs
      /\ \A i \in IDs \ {Guild} : i \in cached' <=> i \in cached
      /\ made' \in [IDs -> Nat]
      /\ \A i \in IDs :
           made'[i] = made[i] + (IF i \in Ids(items["communities"]) \ cached THEN 1 ELSE 0)
  BY <1>1, Reconciles, Kind DEF Kinds
<1>3. /\ treeMu = t /\ pc'[t] = "unlock" /\ (Stale' <=> Stale)
      /\ TypeOK' /\ TreeMuOK' /\ DmMuOK' /\ ItemsOK' /\ CreatesOK' /\ SnapshotIsCurrent'
  BY <1>1, <1>2, RefreshGoesOn DEF Refreshing
<1>4. /\ ~Pending("friends") /\ ~Pending("dms") /\ ~Pending("friends")' /\ ~Pending("dms")'
  BY <1>1, <1>3, Kind DEF Pending, Before
<1>5. NodesOK("friends", Users, DOMAIN friends)' /\ NodesOK("dms", DMs, DOMAIN dms)'
  <2>1. Users \cap {Guild} = {} /\ DMs \cap {Guild} = {}
    BY Kind
  <2> QED
    BY <1>1, <1>2, <1>4, <2>1, OtherNodes
<1>6. ShowsStore'
  <2>1. ASSUME ~Stale'
        PROVE  /\ Shows(Entries(friends), children["friends"])'
               /\ Shows(Entries(dms), children["dms"])' /\ Shows(channels, children["channels"])'
               /\ Shows(Communities, children["communities"])'
    <3>1. items["communities"] = Communities
      BY <1>3, <2>1, Kind DEF IInv, SnapshotIsCurrent
    <3>2. /\ Entries(dms)' = Entries(dms) /\ Entries(friends)' = Entries(friends)
          /\ channels' = channels /\ Communities' = Communities
      BY <1>1 DEF Entries, Communities, storeVars
    <3>3. /\ Past({"dms", "channels", "communities", "unlock"})
          /\ Past({"channels", "communities", "unlock"})
          /\ Past({"communities", "unlock"})
      BY <1>1, <1>3, <2>1 DEF Past
    <3>4. /\ children'["friends"] = children["friends"] /\ children'["dms"] = children["dms"]
          /\ children'["channels"] = children["channels"]
      BY <1>2 DEF Kinds
    <3> QED
      BY <1>2, <3>1, <3>2, <3>3, <3>4 DEF IInv, ShowsStore
  <2> QED
    BY <2>1 DEF ShowsStore, Past
<1> QED
  BY <1>3, <1>5, <1>6 DEF IInv

\* Tree.mu is free again, and with it dmMu if it was a send that refreshed.
LEMMA RefreshUnlockKeepsIInv ==
  ASSUME IInv, NEW t \in Threads, RefreshUnlock(t)
  PROVE  IInv'
<1> DEFINE Steps == {"idle", "lockDM", "find", "create", "refresh"} \cup Refreshing
<1>1. /\ pc \in [Threads -> Steps] /\ pc[t] = "unlock" /\ treeMu' = Nobody
      /\ items' = NoItems /\ taken' = 0 /\ treeMu = t
      /\ UNCHANGED <<storeVars, treeVars, target, creates, removed>>
      /\ dmMu \in Senders \cup {Nobody}
  BY DEF IInv, TypeOK, RefreshUnlock, TreeMuOK, Refreshing
<1>2. /\ pc' \in [Threads -> Steps] /\ pc'[t] = "idle"
      /\ \A s \in Threads \ {t} : pc'[s] = pc[s] /\ pc[s] \notin Refreshing
  <2>1. Goto(t, "idle")
    BY DEF RefreshUnlock, SendUnlockDM
  <2> QED
    BY <1>1, <2>1 DEF Goto, IInv, TreeMuOK
<1>3. dmMu' = (IF dmMu = t THEN Nobody ELSE dmMu)
  <2>1. CASE t = Gateway
    BY <1>1, <2>1, Kind DEF RefreshUnlock
  <2>2. CASE t # Gateway
    BY <2>2 DEF RefreshUnlock, SendUnlockDM
  <2> QED
    BY <2>1, <2>2
<1>4. /\ DOMAIN items' = Kinds /\ items'["friends"] = <<>> /\ items'["dms"] = <<>>
      /\ items'["communities"] = <<>> /\ items'["channels"] = <<>>
  BY <1>1 DEF NoItems, Kinds
<1>5. TypeOK'
  <2>1. items'["channels"] \in Seq(Entry) /\ taken' \in 0..Len(items'["channels"])
    BY <1>1, <1>4
  <2> QED
    BY <1>1, <1>2, <1>3, <1>4, <2>1 DEF IInv, TypeOK, storeVars, treeVars, Distinct
<1>6. TreeMuOK'
  BY <1>1, <1>2, Kind DEF TreeMuOK, Refreshing
<1>7. DmMuOK'
  <2>1. \A s \in Senders : pc'[s] \notin {"idle", "lockDM"} => dmMu = s /\ s # t
    BY <1>2, Kind DEF IInv, DmMuOK
  <2>2. pc'[Gateway] \in {"idle", "refresh"} \cup Refreshing
    BY <1>2, Kind DEF IInv, DmMuOK
  <2> QED
    BY <1>1, <1>2, <1>3, <2>1, <2>2, Kind DEF IInv, DmMuOK
<1>8. ItemsOK'
  BY <1>4 DEF ItemsOK, Ids
<1>9. CreatesOK'
  <2>1. \A u \in Users : IsCreating(u)' <=> IsCreating(u)
    BY <1>1, <1>2, Kind DEF IsCreating
  <2>2. \A s \in Senders : pc'[s] = "create" => pc[s] = "create"
    BY <1>2, Kind
  <2> QED
    BY <1>1, <2>1, <2>2 DEF IInv, CreatesOK, storeVars
<1>10. /\ ~Pending("friends") /\ ~Pending("dms") /\ ~Pending("friends")' /\ ~Pending("dms")'
  BY <1>1, <1>2, Kind DEF Pending, Before
<1>11. NodesOK("friends", Users, DOMAIN friends)' /\ NodesOK("dms", DMs, DOMAIN dms)'
  <2>1. /\ WillMake("friends")' = WillMake("friends") /\ WillHave("friends")' = WillHave("friends")
        /\ WillMake("dms")' = WillMake("dms") /\ WillHave("dms")' = WillHave("dms")
    BY <1>1, <1>10 DEF WillMake, WillHave, treeVars
  <2> QED
    BY <1>1, <2>1 DEF IInv, NodesOK, treeVars, storeVars
<1>12. SnapshotIsCurrent'
  BY <1>1 DEF SnapshotIsCurrent
<1>13. ShowsStore'
  <2>1. Stale' <=> Stale
    BY <1>1, <1>2 DEF Stale
  <2>2. ~Stale' => /\ Past({"dms", "channels", "communities", "unlock"})
                   /\ Past({"channels", "communities", "unlock"})
                   /\ Past({"communities", "unlock"}) /\ Past({"unlock"})
    BY <1>1, <2>1 DEF Past
  <2> QED
    BY <1>1, <2>2, SameShown DEF IInv, ShowsStore, Past, storeVars, treeVars
<1> QED
  BY <1>5, <1>6, <1>7, <1>8, <1>9, <1>11, <1>12, <1>13 DEF IInv

\* Steps that change nothing.
LEMMA StutterKeepsIInv == ASSUME IInv, UNCHANGED vars PROVE IInv'
<1>1. UNCHANGED <<storeVars, treeVars, snapVars, sendVars, removed, treeMu, pc>>
  BY DEF vars
<1>2. TypeOK'
  BY <1>1 DEF IInv, TypeOK, storeVars, treeVars, snapVars, sendVars, Distinct
<1>3. TreeMuOK' /\ DmMuOK' /\ ItemsOK'
  BY <1>1 DEF IInv, TreeMuOK, DmMuOK, ItemsOK, sendVars, snapVars, Ids
<1>4. CreatesOK'
  BY <1>1 DEF IInv, CreatesOK, IsCreating, sendVars, storeVars
<1>5. NodesOK("friends", Users, DOMAIN friends)' /\ NodesOK("dms", DMs, DOMAIN dms)'
  BY <1>1 DEF IInv, NodesOK, WillMake, WillHave, Pending, Ids, treeVars, storeVars, snapVars
<1>6. SnapshotIsCurrent'
  BY <1>1 DEF IInv, SnapshotIsCurrent, Stale, Entries, Communities, storeVars, snapVars
<1>7. ShowsStore'
  BY <1>1, SameShown DEF IInv, ShowsStore, Past, Stale, storeVars, treeVars
<1> QED
  BY <1>2, <1>3, <1>4, <1>5, <1>6, <1>7 DEF IInv

\* Every step keeps the invariant.
LEMMA StepKeepsIInv == IInv /\ [Next]_vars => IInv'
<1> SUFFICES ASSUME IInv, [Next]_vars PROVE IInv'
  OBVIOUS
<1>1. CASE GatewayEvent
  BY <1>1, GatewayKeepsIInv
<1>2. CASE \E t \in Senders : SendStep(t) \/ \E u \in Users : SendBegin(t, u)
  BY <1>2, SendKeepsIInv DEF SendStep
<1>3. CASE \E t \in Threads : Refresh(t)
  BY <1>3, RefreshLockKeepsIInv, RefreshFriendsKeepsIInv, RefreshDMsKeepsIInv,
     RefreshReadsChannelKeepsIInv, RefreshChannelsKeepsIInv, RefreshCommunitiesKeepsIInv,
     RefreshUnlockKeepsIInv DEF Refresh
<1>4. CASE UNCHANGED vars
  BY <1>4, StutterKeepsIInv
<1> QED
  BY <1>1, <1>2, <1>3, <1>4 DEF Next

-----------------------------------------------------------------------------
(***************************************************************************)
(* The inductive invariant holds in every behaviour.                       *)
(***************************************************************************)
THEOREM Invariance == Spec => []IInv
<1>1. Init => IInv
  <2> SUFFICES ASSUME Init PROVE IInv
    OBVIOUS
  <2>1. /\ friends \in Maps(Users) /\ dms \in Maps(DMs) /\ guild = TRUE
        /\ channels \in Seq(Entry) /\ Distinct(channels)
    BY TopologyAssumption DEF Init
  <2>2. /\ DOMAIN children = Kinds /\ cached = {} /\ treeMu = Nobody /\ dmMu = Nobody
        /\ \A i \in IDs : made[i] = 0 /\ removed[i] = 0
        /\ made \in [IDs -> Nat] /\ removed \in [IDs -> Nat]
        /\ creates \in [Users -> Nat] /\ \A u \in Users : creates[u] = 0
        /\ DOMAIN target = Senders
    BY DEF Init
  <2>3. /\ DOMAIN items = Kinds /\ items["friends"] = <<>> /\ items["dms"] = <<>>
        /\ items["channels"] = <<>> /\ items["communities"] = <<>> /\ taken = 0
    BY DEF Init, NoItems, Kinds
  <2>4. /\ pc[Gateway] = "refresh" /\ \A t \in Senders : pc[t] = "idle"
        /\ pc \in [Threads -> {"idle", "lockDM", "find", "create", "refresh"} \cup Refreshing]
    BY Kind DEF Init
  <2>5. TypeOK
    <3>1. items["channels"] \in Seq(Entry) /\ taken \in 0..Len(items["channels"])
      BY <2>3
    <3> QED
      BY <2>1, <2>2, <2>3, <2>4, <3>1 DEF TypeOK
  <2>6. TreeMuOK /\ DmMuOK
    BY <2>2, <2>4, Kind DEF TreeMuOK, DmMuOK, Refreshing
  <2>7. ItemsOK
    BY <2>3 DEF ItemsOK, Ids
  <2>8. CreatesOK
    <3>1. \A u \in Users : creates[u] <= removed[DMOf[u]]
      BY <2>2, Kind
    <3> QED
      BY <2>2, <2>4, <3>1, Kind DEF CreatesOK
  <2>9. NodesOK("friends", Users, DOMAIN friends) /\ NodesOK("dms", DMs, DOMAIN dms)
    <3>1. /\ WillMake("friends") = {} /\ WillHave("friends") = {}
          /\ WillMake("dms") = {} /\ WillHave("dms") = {}
      BY <2>2 DEF WillMake, WillHave, Pending
    <3> QED
      BY <2>2, <3>1, Kind DEF NodesOK
  <2>10. SnapshotIsCurrent /\ ShowsStore
    <3>1. Stale
      BY <2>4, Kind DEF Stale
    <3> QED
      BY <3>1 DEF SnapshotIsCurrent, ShowsStore, Past
  <2> QED
    BY <2>5, <2>6, <2>7, <2>8, <2>9, <2>10 DEF IInv
<1> QED
  BY <1>1, StepKeepsIInv, PTL DEF Spec

(***************************************************************************)
(* Every variable keeps its type; a refresh never reads past the list it   *)
(* took, although the list is written to while it reads.                   *)
(***************************************************************************)
THEOREM TypeCorrect == Spec => []TypeOK
BY Invariance, PTL DEF IInv

(***************************************************************************)
(* Once nobody refreshes, the directories show the store: no refresh puts  *)
(* an older snapshot over a newer one (Tree.mu is taken before Snapshot).  *)
(***************************************************************************)
THEOREM TreeFollowsStore == Spec => []TreeShowsStore
<1>1. IInv => TreeShowsStore
  <2> SUFFICES ASSUME IInv, Settled PROVE TreeShowsStore
    BY DEF TreeShowsStore
  <2>1. /\ Shows(Entries(friends), children["friends"]) /\ Shows(Entries(dms), children["dms"])
        /\ Shows(channels, children["channels"])
        /\ Shows(Communities, children["communities"])
    BY DEF IInv, ShowsStore, Past, Stale, Settled
  <2>2. Guild \in {children["communities"][n] : n \in DOMAIN children["communities"]} <=> guild
    <3>1. CASE guild
      <4>1. Communities = <<[id |-> Guild, base |-> <<>>]>>
        BY <3>1 DEF Communities
      <4>2. DOMAIN Communities = {1} /\ Communities[1].id = Guild
        BY <4>1
      <4>3. NameIn(Communities, Communities[1]) \in Names(Communities)
        BY <4>2 DEF Names
      <4> QED
        BY <2>1, <3>1, <4>2, <4>3 DEF Shows
    <3>2. CASE ~guild
      <4>1. DOMAIN Communities = {}
        BY <3>2 DEF Communities
      <4>2. DOMAIN children["communities"] = {}
        BY <2>1, <4>1 DEF Shows, Names
      <4> QED
        BY <3>2, <4>2
    <3> QED
      BY <3>1, <3>2
  <2> QED
    BY <2>1, <2>2 DEF TreeShowsStore
<1> QED
  BY <1>1, Invariance, PTL

(***************************************************************************)
(* The tree hides a conversation of the store only behind one of the same  *)
(* directory that clashes with it and is shown: equal tags whose IDs end   *)
(* differently hide nothing, however many there are (assignNames, and the  *)
(* children map of reconcileConversations).                                *)
(***************************************************************************)
THEOREM HiddenByClashOnly == Spec => []OnlyClashesHide
<1>1. IInv => OnlyClashesHide
  <2> SUFFICES ASSUME IInv, Settled
               PROVE  OnlyClashesHide
    BY DEF OnlyClashesHide
  <2>1. /\ Shows(Entries(friends), children["friends"]) /\ Shows(Entries(dms), children["dms"])
        /\ Shows(channels, children["channels"])
        /\ Shows(Communities, children["communities"])
    BY DEF IInv, ShowsStore, Past, Stale, Settled
  <2>2. Entries(friends) \in Seq([id : Users, base : Bases])
    BY EntriesOf, TopologyAssumption DEF IInv, TypeOK
  <2>3. Entries(dms) \in Seq([id : DMs, base : Bases])
    BY EntriesOf, TopologyAssumption, ZenonT(30) DEF IInv, TypeOK
  <2>4. channels \in Seq([id : Chans, base : Bases])
    BY DEF IInv, TypeOK, Entry
  <2>5. /\ \A k \in DOMAIN Entries(friends) :
              Entries(friends)[k].id \in IDs /\ Entries(friends)[k].base \in Bases
        /\ \A k \in DOMAIN Entries(dms) : Entries(dms)[k].id \in IDs /\ Entries(dms)[k].base \in Bases
        /\ \A k \in DOMAIN channels : channels[k].id \in IDs /\ channels[k].base \in Bases
    BY <2>2, <2>3, <2>4, IdsOfKind, Kind
  <2> DEFINE Told(list, kind) ==
               \A i \in DOMAIN list :
                 \/ ShownIn(kind, list[i].id)
                 \/ \E j \in DOMAIN list \ {i} :
                      Clash(list[i], list[j]) /\ ShownIn(kind, list[j].id)
  <2>6. Told(Entries(friends), "friends")
    BY <2>1, <2>5, ShownUnlessClash DEF ShownIn
  <2>7. Told(Entries(dms), "dms")
    BY <2>1, <2>5, ShownUnlessClash DEF ShownIn
  <2>8. Told(channels, "channels")
    BY <2>1, <2>5, ShownUnlessClash DEF ShownIn
  <2>9. guild => ShownIn("communities", Guild)
    <3> SUFFICES ASSUME guild PROVE ShownIn("communities", Guild)
      OBVIOUS
    <3>1. Communities = <<[id |-> Guild, base |-> <<>>]>>
      BY DEF Communities
    <3>2. DOMAIN Communities = {1} /\ Communities[1].id = Guild
      BY <3>1
    <3>3. NameIn(Communities, Communities[1]) \in Names(Communities)
      BY <3>2 DEF Names
    <3> QED
      BY <2>1, <3>2, <3>3 DEF Shows, ShownIn
  <2>10. /\ DOMAIN Lists = {"friends", "dms", "channels"}
         /\ Lists["friends"] = Entries(friends) /\ Lists["dms"] = Entries(dms)
         /\ Lists["channels"] = channels
    BY DEF Lists
  <2>11. \A k \in DOMAIN Lists : Told(Lists[k], k)
    <3> HIDE DEF Told
    <3> QED
      BY <2>6, <2>7, <2>8, <2>10
  <2> QED
    BY <2>9, <2>11 DEF OnlyClashesHide
<1> QED
  BY <1>1, Invariance, PTL

(***************************************************************************)
(* A friend's or a DM's node is made once for each time it appears in the  *)
(* store: between two refreshes it may go and come back, and still one     *)
(* refresh at a time looks it up in the cache (Tree.mu).                   *)
(***************************************************************************)
THEOREM NodesStay == Spec => []NodesAreKept
<1>1. IInv => NodesAreKept
  <2> SUFFICES ASSUME IInv, NEW i \in Users \cup DMs PROVE made[i] <= removed[i] + 1
    BY DEF NodesAreKept
  <2>1. made[i] \in Nat /\ removed[i] \in Nat
    BY Kind DEF IInv, TypeOK
  <2>2. CASE i \in Users
    <3>1. made[i] + (IF i \in WillMake("friends") THEN 1 ELSE 0)
            <= removed[i] + (IF i \in WillHave("friends") \cap DOMAIN friends THEN 1 ELSE 0)
      BY <2>2 DEF IInv, NodesOK
    <3> QED
      BY <2>1, <3>1
  <2>3. CASE i \in DMs
    <3>1. made[i] + (IF i \in WillMake("dms") THEN 1 ELSE 0)
            <= removed[i] + (IF i \in WillHave("dms") \cap DOMAIN dms THEN 1 ELSE 0)
      BY <2>3 DEF IInv, NodesOK
    <3> QED
      BY <2>1, <3>1
  <2> QED
    BY <2>2, <2>3
<1> QED
  BY <1>1, Invariance, PTL

(***************************************************************************)
(* However many sends to a friend run at once, CreateDM is called once for *)
(* a DM that the store does not lose again: who looks the DM up holds dmMu *)
(* until the DM is in the store or the call has failed.                    *)
(***************************************************************************)
THEOREM OneDMForEach == Spec => []OneDMEach
<1>1. IInv => OneDMEach
  <2> SUFFICES ASSUME IInv, NEW u \in Users PROVE creates[u] <= removed[DMOf[u]] + 1
    BY DEF OneDMEach
  <2>1. creates[u] \in Nat /\ removed[DMOf[u]] \in Nat
    BY Kind DEF IInv, TypeOK
  <2>2. creates[u] <= removed[DMOf[u]] +
                        (IF DMOf[u] \in DOMAIN dms \/ IsCreating(u) THEN 1 ELSE 0)
    BY DEF IInv, CreatesOK
  <2> QED
    BY <2>1, <2>2
<1> QED
  BY <1>1, Invariance, PTL
=============================================================================
