------------------------- MODULE SyncDevicesProofs -------------------------
(***************************************************************************)
(* Synchronisation for any devices, records, contents, snapshots and any   *)
(* number of groups.  Four parts:                                          *)
(*                                                                         *)
(* - the graph of groups (parents come before their children, a lineage is *)
(*   the whole ancestry), from which follows what tips and heads can be;   *)
(* - one database: what reconciliation, a captured change and a review do  *)
(*   to rows, heads and conflicts (Progress, ReconcileKeeps);              *)
(* - the devices: IInv says of every device that its database is good,     *)
(*   that a job sends what is its own and goes on only when what was read  *)
(*   has been reconciled, and that a withdrawal goes where the finish it   *)
(*   took back in time goes;                                               *)
(* - the refinement of SyncLog, step by step, and what it brings.          *)
(***************************************************************************)
EXTENDS SyncDevices, FiniteSetTheorems, TLAPS

----------------------------------------------------------------------------
\* The graph of groups, for any sequence of groups G (the operators of the
\* specification speak of the current one).

KeysIn(G, g) == DOMAIN G[g].content
AcceptedIn(G, K) == {g \in K : G[g].past \subseteq K}
VersionsIn(G, K, k) == {g \in AcceptedIn(G, K) : k \in KeysIn(G, g)}
TipsIn(G, K, k) ==
    {g \in VersionsIn(G, K, k) : \A h \in VersionsIn(G, K, k) : g \notin G[h].base[k]}

Partial(T) == UNION {[K -> T] : K \in SUBSET Key}
GroupRec ==
    [by : Device \cup {Migration}, content : Partial(Value \cup {Gone}),
     base : Partial(SUBSET Nat), notBefore : Nat, undoes : Nat,
     lineage : Partial(SUBSET Nat), past : SUBSET Nat]

\* Parents come before their children, and lineages hold whole ancestries.
Rooted(G, g) ==
    /\ DOMAIN G[g].base = KeysIn(G, g) /\ DOMAIN G[g].lineage = KeysIn(G, g)
    /\ G[g].past \subseteq 1..(g-1)
    /\ \A k \in KeysIn(G, g) : \A h \in G[g].base[k] :
          /\ h \in 1..(g-1)
          /\ h \in G[g].lineage[k]
          /\ G[h].lineage[k] \subseteq G[g].lineage[k]
GroupsOK(G) == G \in Seq(GroupRec) /\ \A g \in DOMAIN G : Rooted(G, g)

\* Induction up to n over a set.
LEMMA UpTo ==
    ASSUME NEW n \in Nat, NEW S, 0 \in S, \A i \in 0..(n-1) : i \in S => i + 1 \in S
    PROVE  0..n \subseteq S
<1> DEFINE T == (0..n) \ S
<1> DEFINE R == OpToRel(<, Nat)
<1>1. \A x, y \in Nat : x < y => <<x, y>> \in R
  BY DEF OpToRel
<1>2. IsWellFoundedOn(R, Nat)
  BY NatLessThanWellFounded
<1> HIDE DEF R
<1>3. SUFFICES ASSUME T # {} PROVE FALSE
  OBVIOUS
<1>4. PICK x \in T : \A y \in T : ~(<<y, x>> \in R)
  <2>1. T \subseteq Nat
    OBVIOUS
  <2> HIDE DEF T
  <2> QED
    BY <1>3, <2>1, <1>2, WFMin
<1>5. x # 0 /\ x - 1 \in 0..(n-1)
  OBVIOUS
<1>6. x - 1 \in T
  BY <1>5
<1>7. <<x - 1, x>> \in R
  BY <1>1, <1>5
<1> QED
  BY <1>4, <1>6, <1>7

LEMMA Largest ==
    ASSUME NEW n \in Nat, NEW S \in SUBSET (0..n), S # {}
    PROVE  \E m \in S : \A x \in S : x <= m
<1> DEFINE T == {i \in 0..n : (\E x \in S : x <= i) =>
                                \E m \in S : m <= i /\ \A x \in S : x <= i => x <= m}
<1>1. 0 \in T
  OBVIOUS
<1>2. ASSUME NEW i \in 0..(n-1), i \in T PROVE i + 1 \in T
  <2>1. CASE i + 1 \in S
    BY <2>1
  <2>2. CASE i + 1 \notin S
    <3>1. \A x \in S : x <= i + 1 <=> x <= i
      BY <2>2
    <3> QED
      BY <1>2, <3>1
  <2> QED
    BY <2>1, <2>2
<1>3. n \in T
  <2> HIDE DEF T
  <2> QED
    BY <1>1, <1>2, UpTo
<1>4. \A x \in S : x <= n
  OBVIOUS
<1>5. \E x \in S : x <= n
  BY <1>4
<1>6. PICK m \in S : m <= n /\ \A y \in S : y <= n => y <= m
  BY <1>3, <1>5
<1> QED
  BY <1>4, <1>6

LEMMA Smallest ==
    ASSUME NEW n \in Nat, NEW S \in SUBSET (0..n), S # {}
    PROVE  \E m \in S : \A x \in S : m <= x
<1> DEFINE T == {y \in 0..n : n - y \in S}
<1>1. \A x \in S : n - x \in T
  OBVIOUS
<1>2. T \in SUBSET (0..n) /\ T # {}
  BY <1>1
<1>3. PICK m \in T : \A x \in T : x <= m
  <2> HIDE DEF T
  <2> QED
    BY <1>2, Largest
<1>4. n - m \in S /\ m \in 0..n
  OBVIOUS
<1>5. \A x \in S : n - x <= m
  BY <1>1, <1>3
<1>6. \A x \in S : n - m <= x
  <2> HIDE DEF T
  <2> QED
    BY <1>4, <1>5
<1> QED
  BY <1>4, <1>6

\* Every version of a key is a current one or an ancestor of a current one.
LEMMA TipAbove ==
    ASSUME NEW G, GroupsOK(G), NEW K \in SUBSET DOMAIN G, NEW k,
           NEW h \in VersionsIn(G, K, k)
    PROVE  \E t \in TipsIn(G, K, k) : t = h \/ h \in G[t].lineage[k]
<1> DEFINE S == {v \in VersionsIn(G, K, k) : v = h \/ h \in G[v].lineage[k]}
<1>1. Len(G) \in Nat /\ DOMAIN G = 1..Len(G)
  BY DEF GroupsOK
<1>2. S \in SUBSET (0..Len(G)) /\ S # {}
  BY <1>1 DEF VersionsIn, AcceptedIn
<1>3. PICK m \in S : \A x \in S : x <= m
  <2> HIDE DEF S
  <2> QED
    BY <1>1, <1>2, Largest
<1>4. ASSUME NEW v \in VersionsIn(G, K, k), m \in G[v].base[k] PROVE FALSE
  <2>1. v \in DOMAIN G /\ k \in KeysIn(G, v)
    BY DEF VersionsIn, AcceptedIn
  <2>2. m \in 1..(v-1) /\ m \in G[v].lineage[k] /\ G[m].lineage[k] \subseteq G[v].lineage[k]
    BY <1>4, <2>1 DEF GroupsOK, Rooted
  <2>3. v \in S
    BY <2>2
  <2> QED
    BY <1>1, <1>3, <2>1, <2>2, <2>3
<1> QED
  BY <1>4 DEF TipsIn

LEMMA SoleTip ==
    ASSUME NEW G, GroupsOK(G), NEW K \in SUBSET DOMAIN G, NEW k, NEW t,
           TipsIn(G, K, k) = {t}, NEW h \in VersionsIn(G, K, k)
    PROVE  t = h \/ h \in G[t].lineage[k]
BY TipAbove

\* What is not more than one is none or one.
LEMMA AtMostOne ==
    ASSUME NEW n \in Nat, NEW S \in SUBSET (1..n), ~(Cardinality(S) > 1)
    PROVE  S = {} \/ \E t \in S : S = {t}
<1>1. IsFiniteSet(1..n)
  BY FS_Interval
<1>2. IsFiniteSet(S)
  BY <1>1, FS_Subset
<1>3. Cardinality(S) \in Nat
  BY <1>2, FS_CardinalityType
<1>4. Cardinality(S) = 0 \/ Cardinality(S) = 1
  BY <1>3
<1>5. CASE Cardinality(S) = 0
  BY <1>2, <1>5, FS_EmptySet
<1>6. CASE Cardinality(S) = 1
  BY <1>2, <1>6, FS_Singleton
<1> QED
  BY <1>4, <1>5, <1>6

----------------------------------------------------------------------------
\* The database of a device.

ConflictRec == [keys : SUBSET Key, changes : SUBSET (Nat \X Key),
                reason : {"concurrent_edit", "invalid_aggregate"}]
DbRec == [rows : [Key -> Row], known : SUBSET Nat, heads : [Key -> SUBSET Nat],
          acked : SUBSET Nat, conflicts : SUBSET ConflictRec, enabled : BOOLEAN,
          fresh : BOOLEAN]

\* Heads and the versions conflicts name are changes whose ancestry is stored.
Rowed(G, db, k) ==
    IF db.heads[k] = {} THEN db.rows[k] \in {Gone, Running}
    ELSE \E g \in db.known :
           /\ db.heads[k] = {g}
           /\ G[g].content[k] = IF db.rows[k] = Running THEN Gone ELSE db.rows[k]
HeadsIn(G, db) ==
    \A k \in Key : db.heads[k] \subseteq VersionsIn(G, db.known, k) /\ Rowed(G, db, k)
ConflictsIn(G, db) ==
    \A c \in db.conflicts : \A x \in c.changes :
        x[2] \in c.keys /\ x[1] \in VersionsIn(G, db.known, x[2])
DbGood(G, db) ==
    db \in DbRec /\ db.known \subseteq DOMAIN G /\ HeadsIn(G, db) /\ ConflictsIn(G, db)

Waits(G, db) == db.known # AcceptedIn(G, db.known)
Named(db, g, k) == \E c \in db.conflicts : <<g, k>> \in c.changes
Sighted(G, db, k) ==
    \A g \in TipsIn(G, db.known, k) : db.heads[k] = {g} \/ Named(db, g, k) \/ Waits(G, db)

\* What reconciliation does to a database: heads stay or become the only tip, and
\* nothing that was in sight gets lost.
Progress(G, db, to) ==
    /\ DbGood(G, to)
    /\ to.known = db.known /\ to.acked = db.acked /\ to.enabled = db.enabled
    /\ \A k \in Key : to.heads[k] = db.heads[k]
                        \/ \E t : to.heads[k] = {t} /\ TipsIn(G, db.known, k) = {t}
    /\ \A k \in Key : Sighted(G, db, k) => Sighted(G, to, k)

\* The operators of the specification are those of the current groups.
LEMMA Current ==
    /\ \A g : Keys(g) = KeysIn(group, g)
    /\ \A K : Accepted(K) = AcceptedIn(group, K)
    /\ \A K, k : Tips(K, k) = TipsIn(group, K, k)
    /\ \A K, C : Versions(K, C) = {x \in K \X C : x[1] \in TipsIn(group, K, x[2])}
<1>1. \A g : Keys(g) = KeysIn(group, g)
  BY DEF Keys, KeysIn
<1>2. \A K : Accepted(K) = AcceptedIn(group, K)
  BY DEF Accepted, AcceptedIn
<1>3. \A K, k : Tips(K, k) = TipsIn(group, K, k)
  BY <1>1, <1>2 DEF Tips, TipsIn, VersionsIn
<1>4. \A K, C : Versions(K, C) = {x \in K \X C : x[1] \in TipsIn(group, K, x[2])}
  BY <1>3 DEF Versions
<1> QED
  BY <1>1, <1>2, <1>3, <1>4

LEMMA KnownVersions ==
    ASSUME NEW G, NEW K, NEW k
    PROVE  TipsIn(G, K, k) \subseteq VersionsIn(G, K, k) /\ VersionsIn(G, K, k) \subseteq K
BY DEF TipsIn, VersionsIn, AcceptedIn

\* A database with the same rows and history is as good, and shows as much.
Same(db, to) ==
    /\ to.rows = db.rows /\ to.known = db.known /\ to.heads = db.heads
    /\ to.conflicts = db.conflicts

LEMMA SameGood ==
    ASSUME NEW G, NEW db, DbGood(G, db), NEW to \in DbRec, Same(db, to)
    PROVE  DbGood(G, to) /\ \A k \in Key : Sighted(G, db, k) => Sighted(G, to, k)
<1>1. \A k \in Key : Rowed(G, db, k) => Rowed(G, to, k)
  BY DEF Rowed, Same
<1>2. HeadsIn(G, to) /\ ConflictsIn(G, to)
  BY <1>1 DEF DbGood, HeadsIn, ConflictsIn, Same
<1>3. DbGood(G, to)
  BY <1>2 DEF DbGood, Same
<1>4. \A k \in Key : Sighted(G, db, k) => Sighted(G, to, k)
  BY DEF Sighted, Named, Waits, Same
<1> QED
  BY <1>3, <1>4

\* The latest versions of some keys become a conflict.
LEMMA SaveConflictKeeps ==
    ASSUME NEW db, DbGood(group, db), NEW C \in SUBSET Key,
           NEW reason \in {"concurrent_edit", "invalid_aggregate"},
           NEW to, to = SaveConflict(db, C, Versions(db.known, C), reason)
    PROVE  Progress(group, db, to) /\ \A k \in C : Sighted(group, to, k)
<1> DEFINE new == [keys |-> C, changes |-> Versions(db.known, C), reason |-> reason]
<1>1. db \in DbRec /\ db.known \subseteq DOMAIN group
  BY DEF DbGood
<1>2. Versions(db.known, C) = {x \in db.known \X C : x[1] \in TipsIn(group, db.known, x[2])}
  BY Current
<1>3. new \in ConflictRec
  BY <1>1, <1>2 DEF ConflictRec, DbRec
<1>4. /\ to.rows = db.rows /\ to.known = db.known /\ to.heads = db.heads
      /\ to.acked = db.acked /\ to.enabled = db.enabled
      /\ to.conflicts = {c \in db.conflicts : ~(c.keys = C /\ c.reason = reason)} \cup {new}
      /\ to \in DbRec
  BY <1>1, <1>3 DEF SaveConflict, DbRec
<1> HIDE DEF new
<1>5. HeadsIn(group, to)
  BY <1>4 DEF DbGood, HeadsIn, Rowed
<1>6. \A x \in new.changes : x[2] \in new.keys /\ x[1] \in VersionsIn(group, db.known, x[2])
  BY <1>2, KnownVersions DEF new
<1>7. ConflictsIn(group, to)
  BY <1>4, <1>6 DEF DbGood, ConflictsIn
<1>8. \A k \in C : \A g \in TipsIn(group, db.known, k) : <<g, k>> \in new.changes
  BY <1>2, KnownVersions DEF new
<1>9. \A k \in C : Sighted(group, to, k)
  BY <1>4, <1>8 DEF Sighted, Named
<1>10. ASSUME NEW k \in Key, Sighted(group, db, k) PROVE Sighted(group, to, k)
  <2>1. SUFFICES ASSUME k \notin C PROVE Sighted(group, to, k)
    BY <1>9
  <2>2. ASSUME NEW g, Named(db, g, k) PROVE Named(to, g, k)
    <3>1. PICK c \in db.conflicts : <<g, k>> \in c.changes
      BY <2>2 DEF Named
    <3>2. k \in c.keys
      BY <3>1 DEF DbGood, ConflictsIn
    <3> QED
      BY <2>1, <3>1, <3>2, <1>4 DEF Named
  <2> QED
    BY <1>4, <1>10, <2>2 DEF Sighted, Waits
<1> QED
  BY <1>1, <1>4, <1>5, <1>7, <1>9, <1>10 DEF Progress, DbGood

LEMMA ContentTyped ==
    ASSUME NEW G, GroupsOK(G), NEW g \in DOMAIN G, NEW k \in KeysIn(G, g)
    PROVE  k \in Key /\ G[g].content[k] \in Value \cup {Gone}
<1>1. G[g] \in GroupRec
  BY DEF GroupsOK
<1>2. G[g].content \in Partial(Value \cup {Gone})
  BY <1>1 DEF GroupRec
<1>3. PICK K \in SUBSET Key : G[g].content \in [K -> Value \cup {Gone}]
  BY <1>2 DEF Partial
<1> QED
  BY <1>3 DEF KeysIn

\* The latest versions of some keys, each the only one, move rows and heads.
LEMMA ApplyKeeps ==
    ASSUME GroupsOK(group), NEW db, DbGood(group, db),
           NEW versions \in SUBSET {x \in db.known \X Key : TipsIn(group, db.known, x[2]) = {x[1]}},
           NEW to, to = [db EXCEPT !.rows = Applied(db, versions),
                                   !.heads = [k \in Key |-> IF \E x \in versions : x[2] = k
                                                            THEN Tips(db.known, k) ELSE @[k]]]
    PROVE  Progress(group, db, to)
<1> DEFINE moved(k) == \E x \in versions : x[2] = k
<1>1. db \in DbRec /\ db.known \subseteq DOMAIN group
  BY DEF DbGood
<1>2. ASSUME NEW k \in Key, moved(k)
      PROVE  \E g \in db.known : /\ TipsIn(group, db.known, k) = {g}
                                 /\ <<g, k>> \in versions
                                 /\ Applied(db, versions)[k] = group[g].content[k]
                                 /\ Applied(db, versions)[k] \in Value \cup {Gone}
  <2>1. PICK x \in versions : x[2] = k
    BY <1>2
  <2>2. x = <<x[1], k>> /\ x[1] \in db.known /\ TipsIn(group, db.known, k) = {x[1]}
    BY <2>1
  <2>3. \A h \in db.known : <<h, k>> \in versions => h = x[1]
    BY <2>2
  <2>4. Applied(db, versions)[k] = group[x[1]].content[k]
    BY <2>1, <2>2, <2>3 DEF Applied
  <2>5. k \in KeysIn(group, x[1])
    BY <2>2 DEF TipsIn, VersionsIn
  <2>6. group[x[1]].content[k] \in Value \cup {Gone}
    BY <1>1, <2>2, <2>5, ContentTyped
  <2> QED
    BY <2>1, <2>2, <2>4, <2>6
<1>3. ASSUME NEW k \in Key, ~moved(k) PROVE Applied(db, versions)[k] = db.rows[k]
  BY <1>3 DEF Applied
<1>4. Applied(db, versions) \in [Key -> Row]
  <2>1. Applied(db, versions) = [k \in Key |-> Applied(db, versions)[k]]
    BY DEF Applied
  <2>2. \A k \in Key : Applied(db, versions)[k] \in Row
    BY <1>1, <1>2, <1>3 DEF Row, DbRec
  <2> QED
    BY <2>1, <2>2
<1>5. /\ to.rows = Applied(db, versions) /\ to.known = db.known
      /\ to.heads = [k \in Key |-> IF moved(k) THEN Tips(db.known, k) ELSE db.heads[k]]
      /\ to.acked = db.acked /\ to.enabled = db.enabled /\ to.conflicts = db.conflicts
  BY <1>1 DEF DbRec
<1>6. \A k \in Key : Tips(db.known, k) = TipsIn(group, db.known, k)
  BY Current
<1>7. to.heads = [k \in Key |-> IF moved(k) THEN TipsIn(group, db.known, k) ELSE db.heads[k]]
  BY <1>5, <1>6
<1>8. \A k \in Key : to.heads[k] = IF moved(k) THEN TipsIn(group, db.known, k) ELSE db.heads[k]
  BY <1>7
<1>9. to.heads \in [Key -> SUBSET Nat]
  <2>1. \A k \in Key : db.heads[k] \in SUBSET Nat /\ db.known \in SUBSET Nat
    BY <1>1 DEF DbRec
  <2> HIDE DEF moved
  <2> QED
    BY <1>7, <2>1, KnownVersions
<1>10. to \in DbRec
  <2> HIDE DEF moved
  <2> QED
    BY <1>1, <1>4, <1>9 DEF DbRec
<1> HIDE DEF moved
<1>11. ASSUME NEW k \in Key PROVE to.heads[k] \subseteq VersionsIn(group, to.known, k) /\ Rowed(group, to, k)
  <2>1. CASE moved(k)
    <3>1. PICK g \in db.known : /\ TipsIn(group, db.known, k) = {g}
                                /\ Applied(db, versions)[k] = group[g].content[k]
                                /\ Applied(db, versions)[k] \in Value \cup {Gone}
      BY <1>2, <2>1
    <3>2. Applied(db, versions)[k] # Running
      BY <3>1, SyncDevicesAssumption DEF Gone, Running
    <3> QED
      BY <1>5, <1>8, <2>1, <3>1, <3>2, KnownVersions DEF Rowed
  <2>2. CASE ~moved(k)
    <3>1. db.heads[k] \subseteq VersionsIn(group, db.known, k) /\ Rowed(group, db, k)
      BY DEF DbGood, HeadsIn
    <3> QED
      BY <1>3, <1>5, <1>8, <2>2, <3>1 DEF Rowed
  <2> QED
    BY <2>1, <2>2
<1>12. HeadsIn(group, to)
  BY <1>11 DEF HeadsIn
<1>13. ConflictsIn(group, to)
  BY <1>5 DEF DbGood, ConflictsIn
<1>14. \A k \in Key : to.heads[k] = db.heads[k]
                      \/ \E t : to.heads[k] = {t} /\ TipsIn(group, db.known, k) = {t}
  BY <1>2, <1>8
<1>15. ASSUME NEW k \in Key, Sighted(group, db, k) PROVE Sighted(group, to, k)
  BY <1>5, <1>14, <1>15 DEF Sighted, Named, Waits
<1> QED
  BY <1>1, <1>5, <1>10, <1>12, <1>13, <1>14, <1>15 DEF Progress, DbGood

LEMMA TipsFew ==
    ASSUME NEW db, DbGood(group, db), GroupsOK(group), NEW k,
           ~(Cardinality(Tips(db.known, k)) > 1)
    PROVE  Tips(db.known, k) = {} \/ \E t \in db.known : Tips(db.known, k) = {t}
<1>1. Len(group) \in Nat /\ db.known \subseteq 1..Len(group)
  BY DEF GroupsOK, DbGood
<1>2. Tips(db.known, k) \subseteq db.known
  BY Current, KnownVersions
<1> QED
  BY <1>1, <1>2, AtMostOne

\* One component: whatever happens to it, its versions are in sight afterwards.
LEMMA SettleKeeps ==
    ASSUME GroupsOK(group), NEW db, DbGood(group, db), NEW C \in SUBSET Key
    PROVE  /\ Progress(group, db, Settle(db, C))
           /\ \A k \in C : Sighted(group, Settle(db, C), k)
<1> DEFINE versions == Versions(db.known, C)
           applicable == {x \in versions : db.heads[x[2]] # {x[1]}}
           to == Settle(db, C)
<1>1. versions = {x \in db.known \X C : x[1] \in TipsIn(group, db.known, x[2])}
  BY Current
<1>2. \A k : Tips(db.known, k) = TipsIn(group, db.known, k) /\ TipsIn(group, db.known, k) \subseteq db.known
  BY Current, KnownVersions
<1>3. Progress(group, db, db)
  BY DEF Progress
<1>4. CASE versions = {} \/ C \cap StagedKeys(db.known) # {}
  <2>1. to = db
    BY <1>4 DEF Settle
  <2>2. ASSUME C \cap StagedKeys(db.known) # {} PROVE Waits(group, db)
    BY <2>2, Current DEF StagedKeys, Waits
  <2>3. ASSUME versions = {}, NEW k \in C PROVE TipsIn(group, db.known, k) = {}
    <3>1. \A g \in TipsIn(group, db.known, k) : <<g, k>> \in versions
      BY <1>1, <1>2
    <3> QED
      BY <2>3, <3>1
  <2>4. \A k \in C : Sighted(group, db, k)
    BY <1>4, <2>2, <2>3 DEF Sighted
  <2> QED
    BY <1>3, <2>1, <2>4
<1>5. CASE /\ ~(versions = {} \/ C \cap StagedKeys(db.known) # {})
           /\ \E k \in C : Cardinality(Tips(db.known, k)) > 1
  <2>1. to = SaveConflict(db, C, versions, "concurrent_edit")
    BY <1>5 DEF Settle
  <2> QED
    BY <2>1, SaveConflictKeeps
<1>6. CASE /\ ~(versions = {} \/ C \cap StagedKeys(db.known) # {})
           /\ ~(\E k \in C : Cardinality(Tips(db.known, k)) > 1)
  <2>1. ASSUME NEW k \in C
        PROVE  TipsIn(group, db.known, k) = {} \/ \E t \in db.known : TipsIn(group, db.known, k) = {t}
    BY <1>6, <1>2, TipsFew
  <2>2. CASE applicable = {}
    <3>1. to = db
      BY <1>6, <2>2 DEF Settle
    <3>2. ASSUME NEW k \in C, NEW g \in TipsIn(group, db.known, k) PROVE db.heads[k] = {g}
      <4>1. <<g, k>> \in versions
        BY <1>1, <1>2
      <4> QED
        BY <2>2, <4>1
    <3>3. \A k \in C : Sighted(group, db, k)
      BY <3>2 DEF Sighted
    <3> QED
      BY <1>3, <3>1, <3>3
  <2>3. CASE applicable # {} /\ Acceptable(db, applicable)
    <3>1. to = [db EXCEPT !.rows = Applied(db, applicable),
                          !.heads = [k \in Key |-> IF \E x \in applicable : x[2] = k
                                                   THEN Tips(db.known, k) ELSE @[k]]]
      BY <1>6, <2>3 DEF Settle
    <3>2. applicable \in SUBSET {x \in db.known \X Key : TipsIn(group, db.known, x[2]) = {x[1]}}
      BY <1>1, <2>1
    <3>3. Progress(group, db, to)
      <4> HIDE DEF applicable, to
      <4> QED
        BY <3>1, <3>2, ApplyKeeps
    <3>4. ASSUME NEW k \in C, NEW g \in TipsIn(group, db.known, k) PROVE to.heads[k] = {g}
      <4>1. <<g, k>> \in versions /\ TipsIn(group, db.known, k) = {g}
        BY <1>1, <1>2, <2>1
      <4>2. CASE db.heads[k] = {g}
        BY <3>3, <4>1, <4>2 DEF Progress
      <4>3. CASE db.heads[k] # {g}
        <5>1. <<g, k>> \in applicable
          BY <4>1, <4>3
        <5>2. db \in DbRec
          BY DEF DbGood
        <5>3. to.heads = [j \in Key |-> IF \E x \in applicable : x[2] = j
                                        THEN Tips(db.known, j) ELSE db.heads[j]]
          <6> HIDE DEF applicable, to
          <6> QED
            BY <3>1, <5>2 DEF DbRec
        <5>4. to.heads[k] = Tips(db.known, k)
          <6>1. \E x \in applicable : x[2] = k
            BY <5>1
          <6> HIDE DEF applicable, to
          <6> QED
            BY <5>3, <6>1
        <5> QED
          BY <1>2, <4>1, <5>4
      <4> QED
        BY <4>2, <4>3
    <3>5. to.known = db.known
      BY <3>3 DEF Progress
    <3>6. \A k \in C : Sighted(group, to, k)
      <4> HIDE DEF to, applicable
      <4> QED
        BY <3>4, <3>5 DEF Sighted
    <3> QED
      BY <3>3, <3>6
  <2>4. CASE applicable # {} /\ ~Acceptable(db, applicable)
    <3>1. to = RefuseCandidate(db, C, applicable)
      BY <1>6, <2>4 DEF Settle
    <3>2. PICK near \in SUBSET Key :
            to = SaveConflict(db, C \cup near, Versions(db.known, C \cup near), "invalid_aggregate")
      <4> HIDE DEF applicable
      <4> QED
        BY <3>1 DEF RefuseCandidate
    <3>3. Progress(group, db, to) /\ \A k \in C \cup near : Sighted(group, to, k)
      <4> HIDE DEF to
      <4> QED
        BY <3>2, SaveConflictKeeps
    <3> QED
      BY <3>3
  <2> QED
    BY <2>2, <2>3, <2>4
<1> QED
  BY <1>4, <1>5, <1>6

\* A conflict is closed when what it named is materialised.
LEMMA CloseKeeps ==
    ASSUME GroupsOK(group), NEW db, DbGood(group, db)
    PROVE  Progress(group, db, CloseSuperseded(db))
<1> DEFINE to == CloseSuperseded(db)
<1>1. db \in DbRec
  BY DEF DbGood
<1>2. /\ to.rows = db.rows /\ to.known = db.known /\ to.heads = db.heads
      /\ to.acked = db.acked /\ to.enabled = db.enabled
      /\ to.conflicts = {c \in db.conflicts : ~Superseded(db, c)}
      /\ to \in DbRec
  BY <1>1 DEF CloseSuperseded, DbRec
<1> HIDE DEF to
<1>3. DbGood(group, to)
  BY <1>2 DEF DbGood, HeadsIn, Rowed, ConflictsIn
<1>4. ASSUME NEW k \in Key, Sighted(group, db, k) PROVE Sighted(group, to, k)
  <2>1. ASSUME NEW g \in TipsIn(group, db.known, k), Named(db, g, k), ~Named(to, g, k)
        PROVE  db.heads[k] = {g}
    <3>1. PICK c \in db.conflicts : <<g, k>> \in c.changes /\ Superseded(db, c)
      BY <1>2, <2>1 DEF Named
    <3>2. k \in {x[2] : x \in c.changes}
      BY <3>1
    <3>3. \E t : Tips(db.known, k) = {t} /\ db.heads[k] = {t}
      BY <3>1, <3>2 DEF Superseded
    <3> QED
      BY <2>1, <3>3, Current
  <2> QED
    BY <1>2, <1>4, <2>1 DEF Sighted, Waits
<1> QED
  BY <1>2, <1>3, <1>4 DEF Progress, to

LEMMA ProgressTrans ==
    ASSUME NEW G, NEW one, NEW two, NEW three, Progress(G, one, two), Progress(G, two, three)
    PROVE  Progress(G, one, three)
BY DEF Progress

\* Components do not overlap, and each has a first key.
LEMMA ComponentTurn ==
    ASSUME GroupsOK(group), NEW known \in SUBSET DOMAIN group, NEW k \in Key
    PROVE  \E i \in 1..Len(KeySeq) :
              /\ k \in Component(known, KeySeq[i])
              /\ ~(\E j \in Component(known, KeySeq[i]) : Before(j, KeySeq[i]))
<1> DEFINE joined == {Keys(g) : g \in {h \in known : \E j \in Keys(h) : h \in Tips(known, j)}}
           whole(S) == \A J \in joined : J \cap S # {} => J \subseteq S
           In(x, y) == \A S \in SUBSET Key : y \in S /\ whole(S) => x \in S
<1>1. \A x, y \in Key : x \in Component(known, y) <=> In(x, y)
  BY DEF Component
<1>2. \A y : Component(known, y) \subseteq Key
  BY DEF Component
<1>3. \A J \in joined : J \subseteq Key
  <2>1. \A g \in known : KeysIn(group, g) \subseteq Key
    BY ContentTyped
  <2> QED
    BY <2>1, Current
<1> HIDE DEF joined
<1>4. \A S \in SUBSET Key : whole(S) => whole(Key \ S)
  BY <1>3
<1> HIDE DEF whole
<1>5. ASSUME NEW x \in Key, NEW y \in Key, In(x, y) PROVE In(y, x)
  BY <1>4, <1>5
<1>6. \A x, y, z : In(x, y) /\ In(y, z) => In(x, z)
  OBVIOUS
<1>7. In(k, k)
  OBVIOUS
<1> HIDE DEF In
<1> DEFINE I == {i \in 1..Len(KeySeq) : KeySeq[i] \in Component(known, k)}
<1>8. Len(KeySeq) \in Nat /\ DOMAIN KeySeq = 1..Len(KeySeq) /\ \A i \in DOMAIN KeySeq : KeySeq[i] \in Key
  BY SyncDevicesAssumption
<1>9. \E i \in 1..Len(KeySeq) : KeySeq[i] = k
  BY <1>8 DEF Key, Range
<1>10. I \in SUBSET (0..Len(KeySeq)) /\ I # {}
  BY <1>1, <1>7, <1>8, <1>9
<1>11. PICK i \in I : \A x \in I : i <= x
  <2> HIDE DEF I
  <2> QED
    BY <1>8, <1>10, Smallest
<1>12. k \in Component(known, KeySeq[i])
  BY <1>1, <1>5, <1>8, <1>11
<1>13. ASSUME NEW j \in Component(known, KeySeq[i]), Before(j, KeySeq[i]) PROVE FALSE
  <2>1. PICK x, y \in DOMAIN KeySeq : x < y /\ KeySeq[x] = j /\ KeySeq[y] = KeySeq[i]
    BY <1>13 DEF Before
  <2>2. y = i
    BY <2>1, <1>8, SyncDevicesAssumption
  <2>3. j \in Component(known, k)
    <3>1. j \in Key /\ KeySeq[i] \in Key
      BY <1>2, <1>8
    <3>2. In(j, KeySeq[i]) /\ In(KeySeq[i], k)
      BY <1>1, <3>1
    <3> QED
      BY <1>1, <1>6, <3>1, <3>2
  <2>4. x \in I
    BY <1>8, <2>1, <2>3
  <2> QED
    BY <1>8, <1>11, <2>1, <2>2, <2>4
<1> QED
  BY <1>8, <1>12, <1>13

\* The passes are what their recursive definition says.
LEMMA PassesUnfold ==
    ASSUME NEW db
    PROVE  Passes(db) = [i \in 0..Len(KeySeq) |->
              IF i = 0 THEN db
              ELSE LET C == Component(db.known, KeySeq[i])
                   IN  IF \E j \in C : Before(j, KeySeq[i]) THEN Passes(db)[i-1]
                       ELSE Settle(Passes(db)[i-1], C)]
<1> DEFINE N == Len(KeySeq)
           Turn(f, i) ==
              IF i = 0 THEN db
              ELSE LET C == Component(db.known, KeySeq[i])
                   IN  IF \E j \in C : Before(j, KeySeq[i]) THEN f[i-1] ELSE Settle(f[i-1], C)
           Good(f, m) == f = [i \in 0..m |-> Turn(f, i)]
           S == {m \in 0..N : \E f : Good(f, m)}
<1>1. N \in Nat
  BY SyncDevicesAssumption
<1>2. \A f, g, i : f[i-1] = g[i-1] \/ i = 0 => Turn(f, i) = Turn(g, i)
  OBVIOUS
<1>3. Passes(db) = CHOOSE f : Good(f, N)
  BY DEF Passes
<1>4. \A f : Turn(f, 0) = db
  OBVIOUS
<1> HIDE DEF N, Turn
<1>5. 0 \in S
  <2>1. Good([i \in 0..0 |-> db], 0)
    BY <1>4
  <2> QED
    BY <2>1, <1>1
<1>6. ASSUME NEW m \in 0..(N-1), m \in S PROVE m + 1 \in S
  <2>1. PICK f : Good(f, m)
    BY <1>6
  <2> DEFINE g == [i \in 0..(m+1) |-> IF i = m + 1 THEN Turn(f, i) ELSE f[i]]
  <2>2. \A i \in 0..(m+1) : g[i] = Turn(g, i)
    <3> TAKE i \in 0..(m+1)
    <3>1. CASE i = m + 1
      <4>1. g[i] = Turn(f, i) /\ g[i-1] = f[i-1]
        BY <3>1, <1>1
      <4> QED
        BY <4>1, <1>2
    <3>2. CASE i # m + 1
      <4>1. i \in 0..m /\ g[i] = f[i]
        BY <3>2, <1>1
      <4>2. g[i-1] = f[i-1] \/ i = 0
        BY <4>1, <1>1
      <4>3. f[i] = Turn(f, i)
        BY <2>1, <4>1
      <4> QED
        BY <4>1, <4>2, <4>3, <1>2
    <3> QED
      BY <3>1, <3>2
  <2>3. Good(g, m + 1)
    BY <2>2
  <2>4. m + 1 \in 0..N
    BY <1>1
  <2> HIDE DEF Good, g
  <2> QED
    BY <2>3, <2>4
<1>7. N \in S
  <2> HIDE DEF S
  <2> QED
    BY <1>1, <1>5, <1>6, UpTo
<1>8. \E f : Good(f, N)
  BY <1>7
<1>9. Good(Passes(db), N)
  <2> HIDE DEF Good
  <2> QED
    BY <1>3, <1>8
<1> QED
  BY <1>9 DEF N, Turn

\* Reconciliation: every version the device knows is in sight afterwards.
LEMMA ReconcileKeeps ==
    ASSUME GroupsOK(group), NEW db, DbGood(group, db)
    PROVE  /\ Progress(group, db, Reconcile(db))
           /\ \A k \in Key : Sighted(group, Reconcile(db), k)
           /\ ~Reconcile(db).fresh
<1> DEFINE N == Len(KeySeq)
           P(i) == Passes(db)[i]
           T(i) == \E j \in Component(db.known, KeySeq[i]) : Before(j, KeySeq[i])
           Done(i) == /\ Progress(group, db, P(i))
                      /\ \A x \in 1..i : ~T(x) =>
                            \A k \in Component(db.known, KeySeq[x]) : Sighted(group, P(i), k)
           S == {i \in 0..N : Done(i)}
<1>1. N \in Nat
  BY SyncDevicesAssumption
<1>2. P(0) = db
  BY <1>1, PassesUnfold
<1>3. \A i \in 1..N : P(i) = IF T(i) THEN P(i-1) ELSE Settle(P(i-1), Component(db.known, KeySeq[i]))
  <2> TAKE i \in 1..N
  <2>1. i \in 0..Len(KeySeq) /\ i # 0
    BY <1>1
  <2> QED
    BY <2>1, PassesUnfold
<1>4. \A y : Component(db.known, y) \in SUBSET Key
  BY DEF Component
<1> HIDE DEF P, T
<1>5. 0 \in S
  <2>1. Progress(group, db, db)
    BY DEF Progress
  <2> QED
    BY <1>1, <1>2, <2>1
<1>6. ASSUME NEW i \in 0..(N-1), i \in S PROVE i + 1 \in S
  <2>1. i + 1 \in 1..N /\ i + 1 \in 0..N /\ (i + 1) - 1 = i
    BY <1>1
  <2>2. CASE T(i+1)
    <3>1. P(i+1) = P(i)
      BY <1>3, <2>1, <2>2
    <3>2. \A x \in 1..(i+1) : ~T(x) => x \in 1..i
      BY <2>2
    <3> QED
      BY <1>6, <2>1, <3>1, <3>2
  <2>3. CASE ~T(i+1)
    <3> DEFINE C == Component(db.known, KeySeq[i+1])
    <3>1. P(i+1) = Settle(P(i), C)
      BY <1>3, <2>1, <2>3
    <3>2. Progress(group, db, P(i))
      BY <1>6
    <3>3. DbGood(group, P(i)) /\ C \in SUBSET Key
      BY <3>2, <1>4 DEF Progress
    <3>4. Progress(group, P(i), P(i+1)) /\ \A k \in C : Sighted(group, P(i+1), k)
      BY <3>1, <3>3, SettleKeeps
    <3>5. Progress(group, db, P(i+1))
      BY <3>2, <3>4, ProgressTrans
    <3>6. ASSUME NEW x \in 1..(i+1), ~T(x), NEW k \in Component(db.known, KeySeq[x])
          PROVE  Sighted(group, P(i+1), k)
      <4>1. CASE x = i + 1
        BY <3>4, <4>1, <3>6
      <4>2. CASE x # i + 1
        <5>1. x \in 1..i
          BY <4>2
        <5>2. Sighted(group, P(i), k)
          BY <1>6, <3>6, <5>1
        <5>3. k \in Key
          BY <1>4
        <5> QED
          BY <3>4, <5>2, <5>3 DEF Progress
      <4> QED
        BY <4>1, <4>2
    <3> QED
      BY <2>1, <3>5, <3>6
  <2> QED
    BY <2>2, <2>3
<1>7. N \in S
  <2> HIDE DEF S, N
  <2> QED
    BY <1>1, <1>5, <1>6, UpTo
<1>8. Done(N)
  BY <1>7
<1>9. \A k \in Key : Sighted(group, P(N), k)
  <2> TAKE k \in Key
  <2>1. db.known \in SUBSET DOMAIN group
    BY DEF DbGood
  <2>2. PICK i \in 1..N : k \in Component(db.known, KeySeq[i]) /\ ~T(i)
    BY <2>1, ComponentTurn DEF T
  <2> QED
    BY <1>8, <2>2
<1> DEFINE done == CloseSuperseded(P(N))
           to == Reconcile(db)
<1>10. DbGood(group, P(N))
  BY <1>8 DEF Progress
<1>11. Progress(group, P(N), done)
  BY <1>10, CloseKeeps
<1>12. Progress(group, db, done)
  BY <1>8, <1>11, ProgressTrans
<1>13. \A k \in Key : Sighted(group, done, k)
  BY <1>9, <1>11 DEF Progress
<1>14. to \in DbRec /\ Same(done, to) /\ ~to.fresh
       /\ to.known = done.known /\ to.acked = done.acked /\ to.enabled = done.enabled
       /\ to.heads = done.heads
  <2>1. to = [db EXCEPT !.rows = done.rows, !.heads = done.heads, !.conflicts = done.conflicts,
                        !.fresh = FALSE]
    BY DEF Reconcile, P
  <2>2. db \in DbRec /\ done \in DbRec
    BY <1>12 DEF DbGood, Progress
  <2>3. done.known = db.known /\ done.acked = db.acked /\ done.enabled = db.enabled
    BY <1>12 DEF Progress
  <2> HIDE DEF done, to
  <2> QED
    BY <2>1, <2>2, <2>3 DEF DbRec, Same
<1> QED
  <2> HIDE DEF to, done
  <2>1. DbGood(group, done)
    BY <1>12 DEF Progress
  <2>2. DbGood(group, to) /\ \A k \in Key : Sighted(group, done, k) => Sighted(group, to, k)
    BY <1>14, <2>1, SameGood
  <2>3. Progress(group, db, to) /\ \A k \in Key : Sighted(group, to, k)
    BY <1>12, <1>13, <1>14, <2>2 DEF Progress
  <2> QED
    BY <1>14, <2>3 DEF to

----------------------------------------------------------------------------
\* A new group.

\* H holds the groups of G and maybe more.
Extends(H, G) == DOMAIN G \subseteq DOMAIN H /\ \A g \in DOMAIN G : H[g] = G[g]

LEMMA Extended ==
    ASSUME NEW G \in Seq(GroupRec), NEW r
    PROVE  LET n == Len(G) + 1
               H == Append(G, r)
           IN  /\ DOMAIN H = DOMAIN G \cup {n} /\ n \notin DOMAIN G /\ n \in Nat
               /\ DOMAIN G = 1..(n-1)
               /\ H[n] = r /\ \A g \in DOMAIN G : H[g] = G[g]
               /\ Extends(H, G)
BY DEF Extends

\* What databases held before a new group means the same after it.
LEMMA ExtendedViews ==
    ASSUME NEW G, NEW H, Extends(H, G), NEW K \in SUBSET DOMAIN G
    PROVE  /\ AcceptedIn(H, K) = AcceptedIn(G, K)
           /\ \A k : VersionsIn(H, K, k) = VersionsIn(G, K, k)
           /\ \A k : TipsIn(H, K, k) = TipsIn(G, K, k)
<1>1. \A g \in DOMAIN G : H[g] = G[g]
  BY DEF Extends
<1>2. AcceptedIn(H, K) = AcceptedIn(G, K)
  BY <1>1 DEF AcceptedIn
<1>3. \A k : VersionsIn(H, K, k) = VersionsIn(G, K, k)
  BY <1>1, <1>2 DEF VersionsIn, KeysIn, AcceptedIn
<1>4. \A k : TipsIn(H, K, k) = TipsIn(G, K, k)
  <2>1. \A k : \A h \in VersionsIn(G, K, k) : H[h] = G[h]
    BY <1>1, KnownVersions
  <2> QED
    BY <1>3, <2>1 DEF TipsIn
<1> QED
  BY <1>2, <1>3, <1>4

LEMMA ExtendedGood ==
    ASSUME NEW G, NEW H, Extends(H, G), NEW db, DbGood(G, db)
    PROVE  /\ DbGood(H, db)
           /\ \A k \in Key : Sighted(G, db, k) => Sighted(H, db, k)
<1>1. DOMAIN G \subseteq DOMAIN H /\ \A g \in DOMAIN G : H[g] = G[g]
  BY DEF Extends
<1>2. db.known \in SUBSET DOMAIN G
  BY DEF DbGood
<1>3. /\ AcceptedIn(H, db.known) = AcceptedIn(G, db.known)
      /\ \A k : VersionsIn(H, db.known, k) = VersionsIn(G, db.known, k)
      /\ \A k : TipsIn(H, db.known, k) = TipsIn(G, db.known, k)
  BY <1>2, ExtendedViews
<1>4. HeadsIn(H, db)
  <2>1. \A k \in Key : Rowed(G, db, k) => Rowed(H, db, k)
    BY <1>1, <1>2 DEF Rowed
  <2> QED
    BY <1>3, <2>1 DEF DbGood, HeadsIn
<1>5. ConflictsIn(H, db)
  BY <1>3 DEF DbGood, ConflictsIn
<1>6. DbGood(H, db)
  BY <1>1, <1>4, <1>5 DEF DbGood
<1>7. \A k \in Key : Sighted(G, db, k) => Sighted(H, db, k)
  BY <1>3 DEF Sighted, Waits
<1> QED
  BY <1>6, <1>7

\* H has one more group n, over the keys C, that descends from accepted versions of K.
Adds(H, n, d, C, content, base, deadline, undoes, K) ==
    /\ d \in Device \cup {Migration} /\ C \in SUBSET Key
    /\ content \in [C -> Value \cup {Gone}] /\ base \in [C -> SUBSET Nat]
    /\ deadline \in Nat /\ undoes \in Nat
    /\ K \in SUBSET DOMAIN group
    /\ \A k \in C : base[k] \subseteq VersionsIn(group, K, k)
    /\ n = Len(group) + 1 /\ H = Append(group, Group(d, content, base, deadline, undoes))

Added(H, n, d, C, content, base, deadline, undoes, K) ==
    /\ GroupsOK(H) /\ Extends(H, group) /\ DOMAIN H = DOMAIN group \cup {n}
    /\ n \notin DOMAIN group /\ n \in Nat /\ DOMAIN group = 1..(n-1)
    /\ DOMAIN content = C
    /\ H[n].past \subseteq K
    /\ \A k \in C : base[k] \subseteq H[n].lineage[k]
    /\ H[n].by = d /\ H[n].content = content /\ H[n].base = base
    /\ H[n].notBefore = deadline /\ H[n].undoes = undoes

LEMMA GroupRooted ==
    ASSUME GroupsOK(group), NEW d, NEW C, NEW content, NEW base, NEW deadline, NEW undoes, NEW K,
           NEW H, NEW n, Adds(H, n, d, C, content, base, deadline, undoes, K)
    PROVE  Added(H, n, d, C, content, base, deadline, undoes, K)
<1> DEFINE r == Group(d, content, base, deadline, undoes)
           lin == [k \in C |-> base[k] \cup UNION {group[h].lineage[k] : h \in base[k]}]
           past == UNION {base[k] \cup UNION {group[h].past : h \in base[k]} : k \in C}
<1>0. /\ d \in Device \cup {Migration} /\ C \in SUBSET Key
      /\ content \in [C -> Value \cup {Gone}] /\ base \in [C -> SUBSET Nat]
      /\ deadline \in Nat /\ undoes \in Nat
      /\ K \in SUBSET DOMAIN group
      /\ \A k \in C : base[k] \subseteq VersionsIn(group, K, k)
      /\ n = Len(group) + 1 /\ H = Append(group, r)
  BY DEF Adds
<1>1. DOMAIN base = C /\ DOMAIN content = C
  BY <1>0
<1>2. r = [by |-> d, content |-> content, base |-> base, notBefore |-> deadline,
           undoes |-> undoes, lineage |-> lin, past |-> past]
  BY <1>1 DEF Group
<1> HIDE DEF r
<1>3. DOMAIN group = 1..(n-1) /\ n \in Nat /\ group \in Seq(GroupRec)
  BY <1>0 DEF GroupsOK
<1>4. ASSUME NEW k \in C, NEW h \in base[k]
      PROVE  h \in K /\ h \in DOMAIN group /\ group[h].past \subseteq K /\ k \in KeysIn(group, h)
  BY <1>0, <1>4 DEF VersionsIn, AcceptedIn
<1>5. past \subseteq K
  BY <1>4
<1>6. ASSUME NEW k \in C, NEW h \in base[k] PROVE group[h].lineage[k] \in SUBSET Nat
  <2>1. h \in DOMAIN group /\ k \in KeysIn(group, h)
    BY <1>4
  <2>2. group[h] \in GroupRec /\ Rooted(group, h)
    BY <2>1 DEF GroupsOK
  <2>3. group[h].lineage \in Partial(SUBSET Nat) /\ k \in DOMAIN group[h].lineage
    BY <2>1, <2>2 DEF GroupRec, Rooted
  <2> QED
    BY <2>3 DEF Partial
<1>7. lin \in [C -> SUBSET Nat]
  <2>1. \A k \in C : base[k] \cup UNION {group[h].lineage[k] : h \in base[k]} \in SUBSET Nat
    BY <1>0, <1>6
  <2> QED
    BY <2>1
<1>8. r \in GroupRec
  <2>1. content \in Partial(Value \cup {Gone}) /\ base \in Partial(SUBSET Nat) /\ lin \in Partial(SUBSET Nat)
    BY <1>0, <1>7 DEF Partial
  <2>2. past \in SUBSET Nat
    <3>1. K \subseteq Nat
      BY <1>0, <1>3
    <3> QED
      BY <1>5, <3>1
  <2> HIDE DEF lin, past
  <2> QED
    BY <1>0, <1>2, <2>1, <2>2 DEF GroupRec
<1>9. H \in Seq(GroupRec)
  BY <1>0, <1>3, <1>8
<1>10. /\ DOMAIN H = DOMAIN group \cup {n} /\ n \notin DOMAIN group /\ Extends(H, group)
       /\ H[n] = r /\ \A g \in DOMAIN group : H[g] = group[g]
  BY <1>0, <1>3, Extended
<1>11. \A k \in C : base[k] \subseteq lin[k]
                    /\ \A h \in base[k] : group[h].lineage[k] \subseteq lin[k]
  OBVIOUS
<1>12. \A k \in C : \A h \in base[k] : h \in 1..(n-1)
  BY <1>3, <1>4
<1>13. past \subseteq 1..(n-1)
  BY <1>0, <1>3, <1>5
<1> HIDE DEF lin, past
<1>14. Rooted(H, n)
  <2>1. H[n].content = content /\ H[n].base = base /\ H[n].lineage = lin /\ H[n].past = past
    BY <1>2, <1>10
  <2>2. DOMAIN lin = C
    BY <1>7
  <2>3. \A k \in C : \A h \in base[k] : H[h] = group[h]
    BY <1>3, <1>10, <1>12
  <2>4. KeysIn(H, n) = C
    BY <1>1, <2>1 DEF KeysIn
  <2>5. \A k \in C : \A h \in base[k] : h \in lin[k] /\ H[h].lineage[k] \subseteq lin[k]
    BY <1>11, <2>3
  <2>6. DOMAIN H[n].base = C /\ DOMAIN H[n].lineage = C /\ H[n].past \subseteq 1..(n-1)
    BY <1>1, <1>13, <2>1, <2>2
  <2>7. ASSUME NEW k \in C, NEW h \in H[n].base[k]
        PROVE  h \in 1..(n-1) /\ h \in H[n].lineage[k] /\ H[h].lineage[k] \subseteq H[n].lineage[k]
    BY <1>12, <2>1, <2>5, <2>7
  <2> QED
    BY <2>4, <2>6, <2>7 DEF Rooted
<1>15. \A g \in DOMAIN group : Rooted(H, g)
  <2> TAKE g \in DOMAIN group
  <2>1. Rooted(group, g) /\ H[g] = group[g]
    BY <1>10 DEF GroupsOK
  <2>2. \A h \in 1..(g-1) : H[h] = group[h]
    BY <1>3, <1>10
  <2> QED
    BY <2>1, <2>2 DEF Rooted, KeysIn
<1>16. GroupsOK(H)
  BY <1>9, <1>10, <1>14, <1>15 DEF GroupsOK
<1>17. /\ r.past = past /\ r.lineage = lin /\ r.by = d /\ r.content = content /\ r.base = base
       /\ r.notBefore = deadline /\ r.undoes = undoes
  BY <1>2
<1>18. \A k \in C : base[k] \subseteq r.lineage[k]
  BY <1>11, <1>17
<1> QED
  BY <1>1, <1>3, <1>5, <1>10, <1>16, <1>17, <1>18 DEF Added

\* L is K with a group n whose ancestry is in K and that nothing descends from.
Grows(H, K, n, L) ==
    n \notin K /\ L = K \cup {n} /\ H[n].past \subseteq K /\ \A g \in K : n \notin H[g].past

LEMMA GraphGrows ==
    ASSUME NEW H, NEW K, NEW n, NEW L, Grows(H, K, n, L)
    PROVE  /\ AcceptedIn(H, L) = AcceptedIn(H, K) \cup {n}
           /\ \A k : VersionsIn(H, L, k)
                       = VersionsIn(H, K, k) \cup (IF k \in KeysIn(H, n) THEN {n} ELSE {})
           /\ \A k : \A g \in TipsIn(H, L, k) \ {n} :
                 g \in TipsIn(H, K, k) /\ (k \in KeysIn(H, n) => g \notin H[n].base[k])
<1>1. AcceptedIn(H, L) = AcceptedIn(H, K) \cup {n}
  BY DEF AcceptedIn, Grows
<1>2. \A k : VersionsIn(H, L, k) = VersionsIn(H, K, k) \cup (IF k \in KeysIn(H, n) THEN {n} ELSE {})
  BY <1>1 DEF VersionsIn
<1>3. \A k : \A g \in TipsIn(H, L, k) \ {n} :
         g \in TipsIn(H, K, k) /\ (k \in KeysIn(H, n) => g \notin H[n].base[k])
  BY <1>2 DEF TipsIn
<1> QED
  BY <1>1, <1>2, <1>3

\* The database db with group n written over C: it replaces the heads, and the
\* versions of the conflicts that it closes.
Replaces(db, C, content, base, n, to) ==
    /\ to \in DbRec /\ to.known = db.known \cup {n} /\ to.acked = db.acked /\ to.fresh = db.fresh
    /\ to.heads = [k \in Key |-> IF k \in C THEN {n} ELSE db.heads[k]]
    /\ \A k \in C : db.heads[k] \subseteq base[k]
    /\ \A k \in Key : to.rows[k] = db.rows[k] \/ k \in C
    /\ \A k \in C : content[k] = IF to.rows[k] = Running THEN Gone ELSE to.rows[k]
    /\ to.conflicts \subseteq db.conflicts
    /\ \A c \in db.conflicts \ to.conflicts :
          \A x \in c.changes : x[2] \in C /\ x[1] \in base[x[2]]

\* Everything else stays in sight, and what is written comes into it.
LEMMA WriteKeeps ==
    ASSUME GroupsOK(group), NEW db, DbGood(group, db),
           NEW d, NEW C, NEW content, NEW base, NEW deadline, NEW undoes, NEW H,
           NEW n, Adds(H, n, d, C, content, base, deadline, undoes, db.known),
           NEW to, Replaces(db, C, content, base, n, to)
    PROVE  /\ DbGood(H, to)
           /\ \A k \in Key : Sighted(group, db, k) => Sighted(H, to, k)
           /\ \A k \in C : db.heads[k] \subseteq H[n].lineage[k]
<1>0. /\ to \in DbRec /\ to.known = db.known \cup {n} /\ to.acked = db.acked
      /\ to.heads = [k \in Key |-> IF k \in C THEN {n} ELSE db.heads[k]]
      /\ \A k \in C : db.heads[k] \subseteq base[k]
      /\ \A k \in Key : to.rows[k] = db.rows[k] \/ k \in C
      /\ \A k \in C : content[k] = IF to.rows[k] = Running THEN Gone ELSE to.rows[k]
      /\ to.conflicts \subseteq db.conflicts
      /\ \A c \in db.conflicts \ to.conflicts :
            \A x \in c.changes : x[2] \in C /\ x[1] \in base[x[2]]
  BY DEF Replaces
<1> USE <1>0
<1>1. db.known \in SUBSET DOMAIN group
  BY DEF DbGood
<1>2. /\ GroupsOK(H) /\ Extends(H, group) /\ DOMAIN H = DOMAIN group \cup {n}
      /\ n \notin DOMAIN group /\ n \in Nat /\ DOMAIN group = 1..(n-1)
      /\ DOMAIN content = C
      /\ H[n].past \subseteq db.known
      /\ \A k \in C : base[k] \subseteq H[n].lineage[k]
      /\ H[n].content = content /\ H[n].base = base
  <2>1. Added(H, n, d, C, content, base, deadline, undoes, db.known)
    BY GroupRooted
  <2> QED
    BY ONLY <2>1 DEF Added
<1>3. DbGood(H, db) /\ \A k \in Key : Sighted(group, db, k) => Sighted(H, db, k)
  BY <1>2, ExtendedGood
<1>4. n \notin db.known
  BY <1>1, <1>2
<1>5. Grows(H, db.known, n, to.known)
  <2>1. \A g \in db.known : n \notin H[g].past
    BY <1>1, <1>2 DEF GroupsOK, Rooted
  <2> QED
    BY <1>2, <1>4, <2>1 DEF Grows
<1>6. /\ AcceptedIn(H, to.known) = AcceptedIn(H, db.known) \cup {n}
      /\ \A k : VersionsIn(H, to.known, k) = VersionsIn(H, db.known, k) \cup (IF k \in C THEN {n} ELSE {})
      /\ \A k : \A g \in TipsIn(H, to.known, k) \ {n} :
            g \in TipsIn(H, db.known, k) /\ (k \in C => g \notin base[k])
  <2>1. /\ KeysIn(H, n) = C /\ H[n].base = base
    BY <1>2 DEF KeysIn
  <2> QED
    BY ONLY <1>5, <2>1, GraphGrows
<1>7. ASSUME NEW k, NEW g \in TipsIn(H, to.known, k), g # n
      PROVE  g \in TipsIn(H, db.known, k) /\ (k \in C => g \notin base[k])
  BY <1>6, <1>7
<1>8. Waits(H, db) => Waits(H, to)
  <2>1. ASSUME Waits(H, db) PROVE Waits(H, to)
    <3>1. PICK g \in db.known : g \notin AcceptedIn(H, db.known)
      BY <2>1 DEF Waits, AcceptedIn
    <3> QED
      BY ONLY <1>4, <1>6, <3>1, to.known = db.known \cup {n} DEF Waits
  <2> QED
    BY <2>1
<1>9. HeadsIn(H, to)
  <2> SUFFICES ASSUME NEW k \in Key
               PROVE  to.heads[k] \subseteq VersionsIn(H, to.known, k) /\ Rowed(H, to, k)
    BY DEF HeadsIn
  <2>1. CASE k \in C
    <3>1. to.heads[k] = {n} /\ n \in to.known /\ n \in VersionsIn(H, to.known, k)
      BY <1>6, <2>1
    <3>2. H[n].content[k] = IF to.rows[k] = Running THEN Gone ELSE to.rows[k]
      BY <1>2, <2>1
    <3> QED
      BY <3>1, <3>2 DEF Rowed
  <2>2. CASE k \notin C
    <3>1. to.heads[k] = db.heads[k] /\ to.rows[k] = db.rows[k] /\ db.known \subseteq to.known
      BY <2>2
    <3>2. db.heads[k] \subseteq VersionsIn(H, db.known, k) /\ Rowed(H, db, k)
      BY <1>3 DEF DbGood, HeadsIn
    <3>3. Rowed(H, to, k)
      BY <3>1, <3>2 DEF Rowed
    <3>4. to.heads[k] \subseteq VersionsIn(H, to.known, k)
      BY ONLY <1>6, <3>1, <3>2
    <3> QED
      BY <3>3, <3>4
  <2> QED
    BY <2>1, <2>2
<1>10. ConflictsIn(H, to)
  <2>1. \A k : VersionsIn(H, db.known, k) \subseteq VersionsIn(H, to.known, k)
    BY ONLY <1>6
  <2>2. ConflictsIn(H, db)
    BY <1>3 DEF DbGood
  <2> QED
    BY ONLY <2>1, <2>2, to.conflicts \subseteq db.conflicts DEF ConflictsIn
<1>11. DbGood(H, to)
  BY <1>1, <1>2, <1>9, <1>10 DEF DbGood
<1>12. ASSUME NEW k \in Key, Sighted(group, db, k), NEW g \in TipsIn(H, to.known, k), g # n
       PROVE  to.heads[k] = {g} \/ Named(to, g, k) \/ Waits(H, to)
  <2>1. g \in TipsIn(H, db.known, k) /\ (k \in C => g \notin base[k])
    BY <1>7, <1>12
  <2>2. db.heads[k] = {g} \/ Named(db, g, k) \/ Waits(H, db)
    BY <1>3, <1>12, <2>1 DEF Sighted
  <2>3. CASE db.heads[k] = {g}
    BY <2>1, <2>3
  <2>4. CASE Named(db, g, k)
    <3>1. PICK c \in db.conflicts : <<g, k>> \in c.changes
      BY <2>4 DEF Named
    <3>2. c \in to.conflicts
      BY <2>1, <3>1
    <3> QED
      BY <3>1, <3>2 DEF Named
  <2> QED
    BY <1>8, <2>2, <2>3, <2>4
<1>13. ASSUME NEW k \in Key, n \in TipsIn(H, to.known, k) PROVE to.heads[k] = {n}
  <2>1. n \notin VersionsIn(H, db.known, k)
    BY <1>4, KnownVersions
  <2>2. k \in C
    BY ONLY <1>6, <1>13, <2>1, KnownVersions
  <2> QED
    BY <2>2
<1>14. \A k \in Key : Sighted(group, db, k) => Sighted(H, to, k)
  BY <1>12, <1>13 DEF Sighted
<1> QED
  BY <1>2, <1>11, <1>14

----------------------------------------------------------------------------
\* The inductive invariant.

Mine(G, d) == {g \in DOMAIN G : G[g].by = d}

\* A device knows what it wrote, and settles what the Sheet has. Once what it read is
\* reconciled, every version is in sight.
DeviceOK(G, L, db, d) ==
    /\ DbGood(G, db) /\ (db.fresh \/ \A k \in Key : Sighted(G, db, k))
    /\ Mine(G, d) \subseteq db.known
    /\ db.acked \subseteq L \cap Mine(G, d)

\* A job saw of its own groups what the Sheet has, sends its own only, and confirms
\* what the Sheet has.
JobRec == [at : {"idle", "staged", "collect", "append", "appended", "verify", "confirm", "resolve"},
           seen : SUBSET Nat, out : SUBSET Nat]
JobOK(G, L, j, d) ==
    /\ j \in JobRec /\ j.seen \subseteq L \cap Mine(G, d) /\ j.out \subseteq Mine(G, d)
    /\ j.at = "confirm" => j.out \subseteq L

\* It goes on only when what was read is reconciled.
Waiting == {"idle", "staged", "verify"}
Unread(db, j) == db.fresh => j.at \in Waiting

\* While Undo offers a group, nothing of the device has a later deadline.
UndoRec == [key : Key, finish : Nat]
UndoOK(G, u, d) ==
    u = None \/ /\ u \in UndoRec /\ u.finish \in Mine(G, d)
                /\ G[u.finish].notBefore = u.finish
                /\ \A g \in Mine(G, d) : G[g].notBefore <= u.finish

\* What is in a request, R, or in the Sheet, L.
Requests(T, J) == T \cup {J[d].out : d \in Device}
DeadlinesOK(G) == \A g \in DOMAIN G : G[g].notBefore <= g

\* A withdrawal is due when what it withdraws is, and sent with it.
Withdraws(G, L, R, w) ==
    LET f == G[w].undoes
    IN  f = 0 \/ /\ f \in 1..(w-1) /\ G[f].by = G[w].by /\ G[w].by \in Device
                 /\ G[w].notBefore <= G[f].notBefore
                 /\ f \in L => w \in L
                 /\ \A S \in R : f \in S => w \in S \cup L

IInv ==
    /\ GroupsOK(group) /\ DeadlinesOK(group)
    /\ log \subseteq DOMAIN group /\ transit \subseteq SUBSET DOMAIN group
    /\ store \in [Device -> DbRec] /\ over \in [Device -> Nat]
    /\ undo \in [Device -> {None} \cup UndoRec] /\ job \in [Device -> JobRec]
    /\ \A d \in Device : /\ DeviceOK(group, log, store[d], d)
                         /\ JobOK(group, log, job[d], d)
                         /\ UndoOK(group, undo[d], d)
                         /\ Unread(store[d], job[d])
    /\ \A w \in DOMAIN group : Withdraws(group, log, Requests(transit, job), w)

LEMMA HasMaximum ==
    ASSUME NEW m \in Nat, NEW S \in SUBSET (0..m), S # {}
    PROVE  Max(S) \in S /\ \A x \in S : x <= Max(S)
<1>1. \E x \in S : \A y \in S : x >= y
  <2>1. PICK x \in S : \A y \in S : y <= x
    BY Largest
  <2> QED
    BY <2>1
<1>2. Max(S) \in S /\ \A y \in S : Max(S) >= y
  BY <1>1 DEF Max
<1> QED
  BY <1>2

LEMMA GroupTyped ==
    ASSUME NEW G, GroupsOK(G), NEW g \in DOMAIN G
    PROVE  /\ g \in Nat /\ g \in 1..Len(G) /\ G[g].notBefore \in Nat /\ G[g].undoes \in Nat
           /\ G[g].by \in Device \cup {Migration}
<1>1. G \in Seq(GroupRec)
  BY DEF GroupsOK
<1>2. G[g] \in GroupRec
  BY <1>1
<1> QED
  BY <1>1, <1>2 DEF GroupRec

\* What a device waits for: its own deadline, or one of a group of its own.
LEMMA WaitBounds ==
    ASSUME IInv, NEW d \in Device, NEW C \in SUBSET Key, NEW deadline \in Nat
    PROVE  /\ Wait(d, C, deadline) \in Nat /\ deadline <= Wait(d, C, deadline)
           /\ Wait(d, C, deadline) = deadline
              \/ \E h \in Mine(group, d) : Wait(d, C, deadline) = group[h].notBefore
<1> DEFINE S == {deadline} \cup {group[h].notBefore :
                                  h \in (UNION {store[d].heads[k] : k \in C}) \cap Pending(d)}
           m == deadline + Len(group)
<1>1. Pending(d) \subseteq Mine(group, d)
  BY DEF Pending, Authored, Mine
<1>2. Mine(group, d) \subseteq DOMAIN group
  BY DEF Mine
<1>3. Len(group) \in Nat
  BY DEF IInv, GroupsOK
<1>4. \A h \in Mine(group, d) : group[h].notBefore \in 0..m
  <2>1. \A h \in Mine(group, d) : /\ h \in 1..Len(group) /\ group[h].notBefore \in Nat
                                  /\ group[h].notBefore <= h
    BY <1>2, GroupTyped DEF IInv, DeadlinesOK
  <2> QED
    BY <1>3, <2>1
<1>5. S \in SUBSET (0..m) /\ S # {} /\ m \in Nat
  BY <1>1, <1>3, <1>4
<1>6. Wait(d, C, deadline) = Max(S)
  BY DEF Wait
<1> HIDE DEF m
<1>7. Max(S) \in S /\ \A x \in S : x <= Max(S)
  <2> HIDE DEF S
  <2> QED
    BY <1>5, HasMaximum
<1>8. deadline \in S
  OBVIOUS
<1>9. \A x \in S : x = deadline \/ \E h \in Mine(group, d) : x = group[h].notBefore
  BY <1>1
<1> HIDE DEF S
<1>10. \A x \in S : x \in Nat
  BY <1>5
<1> QED
  BY <1>6, <1>7, <1>8, <1>9, <1>10

\* Heads only advance to a descendant.
Advances(G, old, new, k) ==
    new = old \/ \E g \in DOMAIN G : new = {g} /\ old \subseteq G[g].lineage[k]

LEMMA ProgressAdvances ==
    ASSUME GroupsOK(group), NEW db, DbGood(group, db), NEW to, Progress(group, db, to), NEW k \in Key
    PROVE  Advances(group, db.heads[k], to.heads[k], k)
<1>1. SUFFICES ASSUME to.heads[k] # db.heads[k]
               PROVE  \E g \in DOMAIN group : to.heads[k] = {g} /\ db.heads[k] \subseteq group[g].lineage[k]
  BY DEF Advances
<1>2. PICK t : to.heads[k] = {t} /\ TipsIn(group, db.known, k) = {t}
  BY <1>1 DEF Progress
<1>3. PICK K \in SUBSET DOMAIN group : K = db.known
  BY DEF DbGood
<1>4. t \in DOMAIN group
  BY <1>2, <1>3, KnownVersions
<1>5. ASSUME NEW h \in db.heads[k] PROVE h \in group[t].lineage[k]
  <2>1. h \in VersionsIn(group, K, k) /\ db.heads[k] = {h}
    BY <1>3, <1>5 DEF DbGood, HeadsIn, Rowed
  <2>2. t = h \/ h \in group[t].lineage[k]
    BY <1>2, <1>3, <2>1, SoleTip
  <2> QED
    BY <1>1, <1>2, <2>1, <2>2
<1> QED
  BY <1>2, <1>4, <1>5

\* One device wrote one group n, due at t, that takes back u.
Wrote(d, n, t, u) ==
    /\ n = Len(group) + 1 /\ n \in Nat /\ n \notin DOMAIN group
    /\ GroupsOK(group') /\ Extends(group', group) /\ DOMAIN group' = DOMAIN group \cup {n}
    /\ group'[n].by = d /\ group'[n].notBefore = t /\ group'[n].undoes = u
    /\ store' \in [Device -> DbRec]
    /\ \A e \in Device : store'[e].acked = store[e].acked /\ store'[e].fresh = store[e].fresh /\
          store'[e].known = IF e = d THEN store[e].known \cup {n} ELSE store[e].known
    /\ \A e \in Device : DeviceOK(group', log, store'[e], e)
    /\ \A e \in Device, k \in Key :
          Advances(group', store[e].heads[k], store'[e].heads[k], k)

\* Capture and resolution: a write over C.
LEMMA WriteStep ==
    ASSUME IInv, NEW d \in Device, NEW C, NEW content, NEW base, NEW t, NEW u, NEW n, NEW to,
           Adds(group', n, d, C, content, base, t, u, store[d].known),
           Replaces(store[d], C, content, base, n, to),
           store' = [store EXCEPT ![d] = to]
    PROVE  Wrote(d, n, t, u)
<1>0. PICK db : db = store[d]
  OBVIOUS
<1>1. GroupsOK(group) /\ DbGood(group, db) /\ DeviceOK(group, log, db, d)
  BY <1>0 DEF IInv, DeviceOK
<1>2. Added(group', n, d, C, content, base, t, u, db.known)
  BY <1>0, <1>1, GroupRooted
<1>3. /\ GroupsOK(group') /\ Extends(group', group) /\ DOMAIN group' = DOMAIN group \cup {n}
      /\ n \notin DOMAIN group /\ n \in Nat
      /\ group'[n].by = d /\ group'[n].notBefore = t /\ group'[n].undoes = u
      /\ DOMAIN content = C /\ group'[n].content = content /\ group'[n].base = base
      /\ \A k \in C : base[k] \subseteq group'[n].lineage[k]
  BY <1>2 DEF Added
<1>4. /\ DbGood(group', to) /\ \A k \in Key : Sighted(group, db, k) => Sighted(group', to, k)
  BY <1>0, <1>1, WriteKeeps
<1>5. /\ to \in DbRec /\ to.known = db.known \cup {n} /\ to.acked = db.acked /\ to.fresh = db.fresh
      /\ to.heads = [k \in Key |-> IF k \in C THEN {n} ELSE db.heads[k]]
      /\ \A k \in C : db.heads[k] \subseteq base[k]
  BY <1>0 DEF Replaces
<1>6. store \in [Device -> DbRec] /\ \A e \in Device : DeviceOK(group, log, store[e], e)
  BY DEF IInv
<1>7. store' \in [Device -> DbRec] /\ store'[d] = to /\ \A e \in Device : e # d => store'[e] = store[e]
  BY <1>5, <1>6
<1>8. \A e \in Device : Mine(group', e) = IF e = d THEN Mine(group, e) \cup {n} ELSE Mine(group, e)
  BY <1>3 DEF Mine, Extends
<1>9. DeviceOK(group', log, to, d)
  <2>1. Mine(group, d) \subseteq db.known /\ db.acked \subseteq log \cap Mine(group, d)
        /\ (db.fresh \/ \A k \in Key : Sighted(group, db, k))
    BY <1>1 DEF DeviceOK
  <2>2. Mine(group', d) \subseteq to.known /\ to.acked \subseteq log \cap Mine(group', d)
    BY <1>5, <1>8, <2>1
  <2> QED
    BY <1>4, <1>5, <2>1, <2>2 DEF DeviceOK
<1>10. ASSUME NEW e \in Device, e # d PROVE DeviceOK(group', log, store'[e], e)
  <2>1. DeviceOK(group, log, store[e], e)
    BY <1>6
  <2>2. /\ DbGood(group', store[e])
        /\ \A k \in Key : Sighted(group, store[e], k) => Sighted(group', store[e], k)
    BY <1>3, <2>1, ExtendedGood DEF DeviceOK
  <2> QED
    BY <1>7, <1>8, <1>10, <2>1, <2>2 DEF DeviceOK
<1>11. ASSUME NEW k \in Key PROVE Advances(group', db.heads[k], to.heads[k], k)
  <2>1. CASE k \notin C
    BY <1>5, <2>1 DEF Advances
  <2>2. CASE k \in C
    <3>1. to.heads[k] = {n} /\ db.heads[k] \subseteq group'[n].lineage[k]
      BY <1>3, <1>5, <2>2
    <3> QED
      BY <1>3, <3>1 DEF Advances
  <2> QED
    BY <2>1, <2>2
<1>12. \A e \in Device, k \in Key : Advances(group', store[e].heads[k], store'[e].heads[k], k)
  BY <1>0, <1>7, <1>11 DEF Advances
<1>13. \A e \in Device : DeviceOK(group', log, store'[e], e)
  BY <1>7, <1>9, <1>10
<1>14. n = Len(group) + 1
  BY DEF Adds
<1>15. \A e \in Device : store'[e].acked = store[e].acked /\ store'[e].fresh = store[e].fresh /\
          store'[e].known = IF e = d THEN store[e].known \cup {n} ELSE store[e].known
  BY <1>0, <1>5, <1>7
<1> QED
  BY <1>3, <1>7, <1>12, <1>13, <1>14, <1>15 DEF Wrote

\* The tables of a database, one by one.
Tables(rows, known, heads, acked, conflicts, enabled, fresh) ==
    [rows |-> rows, known |-> known, heads |-> heads, acked |-> acked,
     conflicts |-> conflicts, enabled |-> enabled, fresh |-> fresh]

LEMMA TablesOf ==
    ASSUME NEW db \in DbRec
    PROVE  db = Tables(db.rows, db.known, db.heads, db.acked, db.conflicts, db.enabled, db.fresh)
BY DEF DbRec, Tables

LEMMA TablesChange ==
    ASSUME NEW r, NEW s, NEW h, NEW a, NEW c, NEW e, NEW f
    PROVE  /\ \A x : [Tables(r, s, h, a, c, e, f) EXCEPT !.rows = x] = Tables(x, s, h, a, c, e, f)
           /\ \A x : [Tables(r, s, h, a, c, e, f) EXCEPT !.fresh = x] = Tables(r, s, h, a, c, e, x)
           /\ \A S : Observe(Tables(r, s, h, a, c, e, f), S) = Tables(r, s \cup S, h, a, c, e, f)
           /\ \A S : Acknowledge(Tables(r, s, h, a, c, e, f), S) = Tables(r, s, h, a \cup S, c, e, f)
           /\ \A K, n : SetHeads(Tables(r, s, h, a, c, e, f), K, n)
                        = Tables(r, s, [k \in Key |-> IF k \in K THEN {n} ELSE h[k]], a, c, e, f)
           /\ \A x : CloseConflict(Tables(r, s, h, a, c, e, f), x) = Tables(r, s, h, a, c \ {x}, e, f)
<1>1. \A x : [Tables(r, s, h, a, c, e, f) EXCEPT !.rows = x] = Tables(x, s, h, a, c, e, f)
  BY DEF Tables
<1>2. \A x : [Tables(r, s, h, a, c, e, f) EXCEPT !.fresh = x] = Tables(r, s, h, a, c, e, x)
  BY DEF Tables
<1>3. \A S : Observe(Tables(r, s, h, a, c, e, f), S) = Tables(r, s \cup S, h, a, c, e, f)
  <2>1. Tables(r, s, h, a, c, e, f).known = s
    BY DEF Tables
  <2>2. \A x : [Tables(r, s, h, a, c, e, f) EXCEPT !.known = x] = Tables(r, x, h, a, c, e, f)
    BY DEF Tables
  <2> QED
    BY <2>1, <2>2 DEF Observe
<1>4. \A S : Acknowledge(Tables(r, s, h, a, c, e, f), S) = Tables(r, s, h, a \cup S, c, e, f)
  BY DEF Tables, Acknowledge
<1>5. \A K, n : SetHeads(Tables(r, s, h, a, c, e, f), K, n)
               = Tables(r, s, [k \in Key |-> IF k \in K THEN {n} ELSE h[k]], a, c, e, f)
  BY DEF Tables, SetHeads
<1>6. \A x : CloseConflict(Tables(r, s, h, a, c, e, f), x) = Tables(r, s, h, a, c \ {x}, e, f)
  BY DEF Tables, CloseConflict
<1> QED
  BY <1>1, <1>2, <1>3, <1>4, <1>5, <1>6

LEMMA TablesFields ==
    ASSUME NEW r, NEW s, NEW h, NEW a, NEW c, NEW e, NEW f, NEW db, db = Tables(r, s, h, a, c, e, f)
    PROVE  /\ db.rows = r /\ db.known = s /\ db.heads = h /\ db.acked = a
           /\ db.conflicts = c /\ db.enabled = e /\ db.fresh = f
           /\ r \in [Key -> Row] /\ s \in SUBSET Nat /\ h \in [Key -> SUBSET Nat]
              /\ a \in SUBSET Nat /\ c \in SUBSET ConflictRec /\ e \in BOOLEAN /\ f \in BOOLEAN
              => db \in DbRec
BY DEF Tables, DbRec

\* Rows are written, heads set and the new group known, in one transaction.
Headed(heads, C, n) == [k \in Key |-> IF k \in C THEN {n} ELSE heads[k]]
Write(db, rows, C, n) == SetHeads(Observe([db EXCEPT !.rows = rows], {n}), C, n)

LEMMA TablesWritten ==
    ASSUME NEW db \in DbRec, NEW rows \in [Key -> Row], NEW C, NEW n \in Nat
    PROVE  /\ Write(db, rows, C, n)
                = Tables(rows, db.known \cup {n}, Headed(db.heads, C, n),
                         db.acked, db.conflicts, db.enabled, db.fresh)
           /\ Headed(db.heads, C, n) \in [Key -> SUBSET Nat]
           /\ db.known \cup {n} \in SUBSET Nat
<1>1. db = Tables(db.rows, db.known, db.heads, db.acked, db.conflicts, db.enabled, db.fresh)
  BY TablesOf
<1>2. [db EXCEPT !.rows = rows]
      = Tables(rows, db.known, db.heads, db.acked, db.conflicts, db.enabled, db.fresh)
  BY <1>1, TablesChange
<1>3. Write(db, rows, C, n)
      = Tables(rows, db.known \cup {n}, Headed(db.heads, C, n),
               db.acked, db.conflicts, db.enabled, db.fresh)
  BY <1>2, TablesChange DEF Write, Headed
<1>4. Headed(db.heads, C, n) \in [Key -> SUBSET Nat]
  BY DEF DbRec, Headed
<1> QED
  BY <1>3, <1>4 DEF DbRec

LEMMA CaptureStep ==
    ASSUME IInv, NEW d \in Device, NEW C \in SUBSET Key, NEW new \in [C -> Row],
           NEW deadline \in Nat, NEW u \in Nat, Capture(d, new, deadline, u)
    PROVE  Wrote(d, Len(group) + 1, Wait(d, C, deadline), u)
<1> DEFINE n == Len(group) + 1
           t == Wait(d, C, deadline)
           rows == Written(store[d].rows, new)
           content == Published(new)
           base == [k \in C |-> store[d].heads[k]]
<1>0. DOMAIN new = C /\ \A k \in C : new[k] \in Row
  OBVIOUS
<1>a. store' = [store EXCEPT ![d] =
                  SetHeads(Observe([store[d] EXCEPT !.rows = Written(@, new)], {Len(group) + 1}),
                           DOMAIN new, Len(group) + 1)]
  BY DEF Capture
<1>1. PICK db : db = store[d]
  OBVIOUS
<1> DEFINE to == Write(db, rows, C, n)
<1>2. DeviceOK(group, log, db, d) /\ GroupsOK(group)
  BY <1>1 DEF IInv
<1>3. DbGood(group, db)
  BY <1>2 DEF DeviceOK
<1>4. /\ db \in DbRec /\ db.known \in SUBSET DOMAIN group
      /\ \A k \in Key : db.heads[k] \subseteq VersionsIn(group, db.known, k)
  BY <1>3 DEF DbGood, HeadsIn
<1>5. t \in Nat /\ n \in Nat
  BY <1>2, WaitBounds DEF GroupsOK
<1>6. /\ content \in [C -> Value \cup {Gone}]
      /\ \A k \in C : content[k] = IF new[k] = Running THEN Gone ELSE new[k]
  BY <1>0 DEF Published, Row
<1>7. /\ rows \in [Key -> Row] /\ \A k \in Key \ C : rows[k] = db.rows[k]
      /\ \A k \in C : rows[k] = new[k]
  BY <1>0, <1>1, <1>4 DEF Written, DbRec
<1>8. /\ group' = Append(group, Group(d, content, base, t, u))
      /\ store' = [store EXCEPT ![d] = to]
  <2>1. group' = Append(group, Group(d, Published(new), [k \in DOMAIN new |-> store[d].heads[k]],
                                     Wait(d, DOMAIN new, deadline), u))
    BY DEF Capture
  <2>2. store' = [store EXCEPT ![d] =
                    SetHeads(Observe([db EXCEPT !.rows = Written(@, new)], {n}), DOMAIN new, n)]
    BY <1>a, <1>1
  <2>3. [db EXCEPT !.rows = Written(@, new)] = [db EXCEPT !.rows = rows]
    BY <1>1
  <2>4. store' = [store EXCEPT ![d] = to]
    <3> HIDE DEF n, rows
    <3> QED
      BY <1>0, <2>2, <2>3 DEF Write
  <2>5. group' = Append(group, Group(d, content, base, t, u))
    BY <1>0, <2>1
  <2> QED
    BY <2>4, <2>5
<1> HIDE DEF rows, content, t, to
<1>9. Adds(group', n, d, C, content, base, t, u, db.known)
  <2>1. base \in [C -> SUBSET Nat] /\ \A k \in C : base[k] \subseteq VersionsIn(group, db.known, k)
    BY <1>1, <1>4 DEF DbRec
  <2> HIDE DEF base, n
  <2>2. n = Len(group) + 1
    BY DEF n
  <2> QED
    BY <1>4, <1>5, <1>6, <1>8, <2>1, <2>2 DEF Adds
<1> DEFINE heads == Headed(db.heads, C, n)
<1>10. /\ to = Tables(rows, db.known \cup {n}, heads, db.acked, db.conflicts, db.enabled, db.fresh)
       /\ heads \in [Key -> SUBSET Nat] /\ db.known \cup {n} \in SUBSET Nat
  <2> HIDE DEF n
  <2> QED
    BY <1>4, <1>5, <1>7, TablesWritten DEF to
<1>11. /\ to.rows = rows /\ to.known = db.known \cup {n} /\ to.acked = db.acked
       /\ to.heads = heads /\ to.conflicts = db.conflicts /\ to.fresh = db.fresh /\ to \in DbRec
  <2>1. db.acked \in SUBSET Nat /\ db.conflicts \in SUBSET ConflictRec
        /\ db.enabled \in BOOLEAN /\ db.fresh \in BOOLEAN
    BY <1>4 DEF DbRec
  <2> HIDE DEF n, heads
  <2> QED
    BY <1>7, <1>10, <2>1, TablesFields
<1>12. Replaces(db, C, content, base, n, to)
  <2>1. \A k \in C : base[k] = db.heads[k]
    BY <1>1
  <2> HIDE DEF n, base
  <2> QED
    BY <1>6, <1>7, <1>11, <2>1 DEF Replaces, Headed
<1> HIDE DEF base, n
<1>13. Wrote(d, n, t, u)
  BY <1>1, <1>8, <1>9, <1>12, WriteStep
<1> QED
  BY <1>13 DEF n, t

LEMMA ResolveStep ==
    ASSUME IInv, NEW d \in Device, Resolve(d)
    PROVE  Wrote(d, Len(group) + 1, 0, 0)
<1> DEFINE n == Len(group) + 1
           c == review[d].conflict
           C == c.keys
<1>1. PICK db : db = store[d]
  OBVIOUS
<1> DEFINE base == [k \in C |-> db.heads[k] \cup {x[1] : x \in {y \in c.changes : y[2] = k}}]
<1>2. PICK content \in [C -> Value \cup {Gone}] :
        /\ group' = Append(group, Group(d, content, base, 0, 0))
        /\ store' = [store EXCEPT ![d] = CloseConflict(
                SetHeads(Observe([db EXCEPT !.rows = Written(@, content)], {n}), C, n), c)]
  BY <1>1 DEF Resolve
<1>3. c \in db.conflicts
  BY <1>1 DEF Resolve
<1>4. DbGood(group, db) /\ GroupsOK(group)
  BY <1>1 DEF IInv, DeviceOK
<1>5. /\ db \in DbRec /\ db.known \in SUBSET DOMAIN group
      /\ \A k \in Key : db.heads[k] \subseteq VersionsIn(group, db.known, k)
      /\ ConflictsIn(group, db)
  BY <1>4 DEF DbGood, HeadsIn
<1>6. c \in ConflictRec /\ C \in SUBSET Key
  <2>1. c \in ConflictRec
    BY <1>3, <1>5 DEF DbRec
  <2> QED
    BY <2>1 DEF ConflictRec
<1> DEFINE rows == Written(db.rows, content)
           written == Write(db, rows, C, n)
           to == CloseConflict(written, c)
<1>7. /\ n \in Nat
      /\ store' = [store EXCEPT ![d] = to]
  <2>1. n \in Nat
    BY <1>4 DEF GroupsOK
  <2>2. [db EXCEPT !.rows = Written(@, content)] = [db EXCEPT !.rows = rows]
    OBVIOUS
  <2> HIDE DEF n, c, rows
  <2> QED
    BY <1>2, <2>1, <2>2 DEF Write
<1> HIDE DEF n
<1>8. \A x \in c.changes : x[2] \in C /\ x[1] \in VersionsIn(group, db.known, x[2])
  BY <1>3, <1>5 DEF ConflictsIn
<1>9. \A k \in C : base[k] \subseteq VersionsIn(group, db.known, k)
  BY <1>5, <1>6, <1>8
<1>10. base \in [C -> SUBSET Nat]
  <2>1. \A k : VersionsIn(group, db.known, k) \subseteq Nat
    BY <1>5, KnownVersions DEF DbRec
  <2> QED
    BY <1>9, <2>1
<1>11. Adds(group', n, d, C, content, base, 0, 0, db.known)
  <2>1. group' = Append(group, Group(d, content, base, 0, 0))
    BY <1>2
  <2>2. n = Len(group) + 1
    BY DEF n
  <2> HIDE DEF base, C
  <2> QED
    BY <1>5, <1>6, <1>9, <1>10, <2>1, <2>2 DEF Adds
<1>12. /\ rows \in [Key -> Row] /\ \A k \in Key \ C : rows[k] = db.rows[k]
       /\ \A k \in C : rows[k] = content[k] /\ content[k] \in Value \cup {Gone}
  <2>1. DOMAIN content = C /\ \A k \in C : content[k] \in Value \cup {Gone}
    OBVIOUS
  <2>2. db.rows \in [Key -> Row] /\ Value \cup {Gone} \subseteq Row
    BY <1>5 DEF DbRec, Row
  <2> HIDE DEF C
  <2> QED
    BY <1>6, <2>1, <2>2 DEF Written
<1> HIDE DEF rows
<1> DEFINE heads == Headed(db.heads, C, n)
<1>13. /\ to = Tables(rows, db.known \cup {n}, heads, db.acked, db.conflicts \ {c}, db.enabled, db.fresh)
       /\ heads \in [Key -> SUBSET Nat] /\ db.known \cup {n} \in SUBSET Nat
  <2>1. /\ written = Tables(rows, db.known \cup {n}, heads, db.acked, db.conflicts, db.enabled, db.fresh)
        /\ heads \in [Key -> SUBSET Nat] /\ db.known \cup {n} \in SUBSET Nat
    <3> HIDE DEF C
    <3> QED
      BY <1>5, <1>7, <1>12, TablesWritten
  <2> HIDE DEF written, heads, c, C
  <2> QED
    BY <2>1, TablesChange DEF to
<1>14. /\ to.rows = rows /\ to.known = db.known \cup {n} /\ to.acked = db.acked
       /\ to.heads = heads /\ to.conflicts = db.conflicts \ {c} /\ to.fresh = db.fresh /\ to \in DbRec
  <2>1. db.acked \in SUBSET Nat /\ db.conflicts \ {c} \in SUBSET ConflictRec
        /\ db.enabled \in BOOLEAN /\ db.fresh \in BOOLEAN
    BY <1>5 DEF DbRec
  <2> HIDE DEF to, heads, c
  <2> QED
    BY <1>12, <1>13, <2>1, TablesFields
<1>15. Replaces(db, C, content, base, n, to)
  <2>1. \A k \in Key : to.rows[k] = db.rows[k] \/ k \in C
    BY <1>12, <1>14
  <2>2. \A k \in C : to.rows[k] = content[k] /\ to.rows[k] # Running
    BY <1>12, <1>14, SyncDevicesAssumption DEF Gone, Running
  <2>3. \A x \in c.changes : x[2] \in C /\ x[1] \in base[x[2]]
    BY <1>8
  <2>4. \A k \in C : db.heads[k] \subseteq base[k]
    OBVIOUS
  <2>5. \A cc \in db.conflicts \ to.conflicts : cc = c
    BY <1>14
  <2>6. to.conflicts \subseteq db.conflicts
    BY <1>14
  <2> HIDE DEF to, base, C, c
  <2> QED
    BY <1>14, <2>1, <2>2, <2>3, <2>4, <2>5, <2>6 DEF Replaces, Headed
<1> HIDE DEF to, base, C
<1>16. Wrote(d, n, 0, 0)
  BY <1>1, <1>7, <1>11, <1>15, WriteStep
<1> QED
  BY <1>16 DEF n

LEMMA WroteMine ==
    ASSUME NEW d, NEW n, NEW t, NEW u, Wrote(d, n, t, u), NEW e
    PROVE  Mine(group', e) = IF e = d THEN Mine(group, e) \cup {n} ELSE Mine(group, e)
BY DEF Wrote, Mine, Extends

\* What Undo offers stays the last deadline of its device.
LEMMA UndoKept ==
    ASSUME IInv, NEW d \in Device, NEW n, NEW t \in Nat, NEW u, Wrote(d, n, t, u),
           NEW e \in Device, e = d => undo[d] = None \/ t <= undo[d].finish
    PROVE  UndoOK(group', undo[e], e)
<1>1. UndoOK(group, undo[e], e)
  BY DEF IInv
<1>2. Mine(group', e) = IF e = d THEN Mine(group, e) \cup {n} ELSE Mine(group, e)
  BY WroteMine
<1>3. group'[n].notBefore = t /\ \A g \in Mine(group, e) : group'[g] = group[g]
  BY DEF Wrote, Extends, Mine
<1> QED
  BY <1>1, <1>2, <1>3 DEF UndoOK

\* One group more; it takes back only what no request has yet. A job may end.
LEMMA AfterWrite ==
    ASSUME IInv, NEW d \in Device, NEW n, NEW t \in Nat, NEW u \in Nat, Wrote(d, n, t, u), t <= n,
           u = 0 \/ (u \in Mine(group, d) /\ t <= group[u].notBefore /\ u \notin Requested(d)),
           undo' \in [Device -> {None} \cup UndoRec],
           \A e \in Device : UndoOK(group', undo'[e], e),
           job' \in [Device -> JobRec], \A e \in Device : job'[e] = job[e] \/ job'[e] = NoJob,
           UNCHANGED <<log, transit, over>>
    PROVE  IInv'
<1> DEFINE R == Requests(transit, job)
           Q == Requests(transit, job')
<1>1. /\ n = Len(group) + 1 /\ n \in Nat /\ n \notin DOMAIN group
      /\ GroupsOK(group') /\ Extends(group', group) /\ DOMAIN group' = DOMAIN group \cup {n}
      /\ group'[n].by = d /\ group'[n].notBefore = t /\ group'[n].undoes = u
      /\ store' \in [Device -> DbRec]
      /\ \A e \in Device : DeviceOK(group', log, store'[e], e) /\ store'[e].fresh = store[e].fresh
  BY DEF Wrote
<1>2. \A g \in DOMAIN group : group'[g] = group[g]
  BY <1>1 DEF Extends
<1>3. \A e : Mine(group', e) = IF e = d THEN Mine(group, e) \cup {n} ELSE Mine(group, e)
  BY WroteMine
<1>4. /\ GroupsOK(group) /\ DeadlinesOK(group) /\ log \subseteq DOMAIN group
      /\ transit \subseteq SUBSET DOMAIN group
      /\ \A e \in Device : JobOK(group, log, job[e], e) /\ Unread(store[e], job[e])
      /\ over \in [Device -> Nat] /\ job \in [Device -> JobRec]
      /\ \A w \in DOMAIN group : Withdraws(group, log, R, w)
  BY DEF IInv
<1>5. DeadlinesOK(group')
  BY <1>1, <1>2, <1>4 DEF DeadlinesOK
<1>6. \A e \in Device : JobOK(group', log, job'[e], e) /\ Unread(store'[e], job'[e])
  <2> TAKE e \in Device
  <2>1. job'[e] \in JobRec /\ Mine(group, e) \subseteq Mine(group', e)
    BY <1>3
  <2>2. JobOK(group, log, job[e], e) /\ Unread(store[e], job[e]) /\ store'[e].fresh = store[e].fresh
    BY <1>1, <1>4
  <2>3. CASE job'[e] = job[e]
    BY <2>1, <2>2, <2>3 DEF JobOK, Unread
  <2>4. CASE job'[e] = NoJob
    <3>1. NoJob.seen = {} /\ NoJob.out = {} /\ NoJob.at = "idle"
      BY DEF NoJob
    <3> QED
      BY <2>1, <2>4, <3>1 DEF JobOK, Unread, Waiting
  <2> QED
    BY <2>3, <2>4
<1>7. \A S \in Q : S \in R \/ S = {}
  BY DEF Requests, NoJob
<1>8. \A S \in R : S \subseteq DOMAIN group
  BY <1>4 DEF Requests, JobOK, Mine
<1>9. n \notin log
  BY <1>1, <1>4
<1> HIDE DEF R, Q
<1>10. ASSUME NEW w \in DOMAIN group PROVE Withdraws(group', log, Q, w)
  <2>1. Withdraws(group, log, R, w) /\ DOMAIN group = 1..Len(group) /\ Len(group) \in Nat
    BY <1>4 DEF GroupsOK
  <2>2. group[w].undoes \in 1..(w-1) => group[w].undoes \in DOMAIN group
    BY <2>1
  <2> QED
    BY <1>2, <1>7, <2>1, <2>2 DEF Withdraws
<1>11. Withdraws(group', log, Q, n)
  <2> SUFFICES ASSUME u # 0
               PROVE  /\ u \in 1..(n-1) /\ group'[u].by = group'[n].by /\ group'[n].by \in Device
                      /\ group'[n].notBefore <= group'[u].notBefore
                      /\ u \in log => n \in log
                      /\ \A S \in Q : u \in S => n \in S \cup log
    BY <1>1 DEF Withdraws
  <2>1. u \in Mine(group, d) /\ t <= group[u].notBefore /\ u \notin Requested(d)
    OBVIOUS
  <2>2. u \in DOMAIN group /\ group[u].by = d
    BY <2>1 DEF Mine
  <2>3. u \in 1..(n-1) /\ group'[u] = group[u]
    BY <1>1, <1>2, <1>4, <2>2, GroupTyped
  <2>4. u \notin log /\ u \notin job[d].out /\ \A S \in transit : u \notin S
    BY <2>1 DEF Requested
  <2>5. ASSUME NEW e \in Device, u \in job[e].out PROVE e = d
    BY <1>4, <2>2, <2>5 DEF JobOK, Mine
  <2>6. \A S \in R : u \notin S
    BY <2>4, <2>5 DEF R, Requests
  <2> QED
    BY <1>1, <1>7, <2>1, <2>2, <2>3, <2>4, <2>6
<1>12. log \subseteq DOMAIN group' /\ transit \subseteq SUBSET DOMAIN group'
  BY <1>1, <1>4
<1>13. \A w \in DOMAIN group' : Withdraws(group', log, Q, w)
  BY <1>1, <1>10, <1>11
<1> QED
  BY <1>1, <1>4, <1>5, <1>6, <1>12, <1>13 DEF IInv, Q

----------------------------------------------------------------------------
\* Commands.

\* A step that wrote at most one group; heads only advance.
Kept == IInv' /\ \A e \in Device, k \in Key :
                    Advances(group', store[e].heads[k], store'[e].heads[k], k)

\* Deadlines of the device lie behind a new group.
LEMMA EarlierDeadlines ==
    ASSUME IInv, NEW d \in Device
    PROVE  /\ Len(group) + 1 \in Nat
           /\ \A h \in Mine(group, d) :
                 group[h].notBefore \in Nat /\ group[h].notBefore < Len(group) + 1
<1>1. Len(group) \in Nat
  BY DEF IInv, GroupsOK
<1>2. \A h \in Mine(group, d) : h \in 1..Len(group) /\ group[h].notBefore \in Nat
                                /\ group[h].notBefore <= h
  BY GroupTyped DEF IInv, DeadlinesOK, Mine
<1> QED
  BY <1>1, <1>2

\* What is written with an entry: a function on some of the keys.
LEMMA DaysTyped ==
    ASSUME NEW d \in Device, NEW k \in Key, NEW v \in Row, NEW new \in WithDays(d, k, v)
    PROVE  \E C \in SUBSET Key : new \in [C -> Row]
<1> DEFINE written(days, office) == [j \in {k} \cup days |-> IF j = k THEN v ELSE office]
           Free == {j \in Key \ {k} : store[d].rows[j] = Gone}
<1>0. WithDays(d, k, v) = {written(days, office) : days \in SUBSET Free, office \in Value \ Wide}
  BY DEF WithDays
<1>1. PICK days \in SUBSET Free, office \in Value \ Wide : new = written(days, office)
  <2> HIDE DEF written, Free
  <2> QED
    BY <1>0
<1>2. {k} \cup days \in SUBSET Key /\ office \in Row
  BY <1>1 DEF Row
<1>3. new \in [{k} \cup days -> Row]
  BY <1>1, <1>2
<1> QED
  BY <1>2, <1>3

LEMMA FinishWrites ==
    ASSUME IInv, NEW d \in Device, NEW k \in Key, NEW v \in Value, Finish(d, k, v)
    PROVE  \E C \in SUBSET Key : Wrote(d, Len(group) + 1, Wait(d, C, Len(group) + 1), 0)
<1>1. PICK new \in WithDays(d, k, v) : Capture(d, new, Len(group) + 1, 0)
  BY DEF Finish
<1>2. v \in Row
  BY DEF Row
<1>3. PICK C \in SUBSET Key : new \in [C -> Row]
  BY <1>1, <1>2, DaysTyped
<1>4. Len(group) + 1 \in Nat
  BY EarlierDeadlines
<1> QED
  BY <1>1, <1>3, <1>4, CaptureStep

LEMMA EditWrites ==
    ASSUME IInv, NEW d \in Device, NEW k \in Key, NEW v \in Value \cup {Gone}, Edit(d, k, v)
    PROVE  \E C \in SUBSET Key : Wrote(d, Len(group) + 1, Wait(d, C, 0), 0)
<1>1. PICK new \in (IF v = Gone THEN {[j \in {k} |-> v]} ELSE WithDays(d, k, v)) : Capture(d, new, 0, 0)
  BY DEF Edit
<1>2. v \in Row
  BY DEF Row
<1>3. \E C \in SUBSET Key : new \in [C -> Row]
  <2>1. CASE new = [j \in {k} |-> v]
    <3>1. {k} \in SUBSET Key /\ new \in [{k} -> Row]
      BY <1>2, <2>1
    <3> QED
      BY <3>1
  <2>2. CASE new \in WithDays(d, k, v)
    BY <1>2, <2>2, DaysTyped
  <2> QED
    BY <1>1, <2>1, <2>2
<1>4. PICK C \in SUBSET Key : new \in [C -> Row]
  BY <1>3
<1> QED
  BY <1>1, <1>4, CaptureStep

LEMMA UndoWrites ==
    ASSUME IInv, NEW d \in Device, Undo(d)
    PROVE  /\ undo[d] \in UndoRec /\ TakenBack(d) \in Nat
           /\ \E C \in SUBSET Key : Wrote(d, Len(group) + 1, Wait(d, C, 0), TakenBack(d))
<1>1. undo[d] \in UndoRec
  BY DEF IInv, Undo
<1>2. undo[d].key \in Key /\ undo[d].finish \in Nat
  BY <1>1 DEF UndoRec
<1>3. TakenBack(d) \in Nat
  BY <1>2 DEF TakenBack
<1>4. PICK C \in SUBSET Key : C = {undo[d].key}
  BY <1>2
<1>5. Reopened(d) \in [C -> Row]
  BY <1>4 DEF Reopened, Row
<1>6. Capture(d, Reopened(d), 0, TakenBack(d))
  BY DEF Undo
<1>7. PICK u \in Nat : u = TakenBack(d)
  BY <1>3
<1> PICK new : new = Reopened(d)
  OBVIOUS
<1>8. Wrote(d, Len(group) + 1, Wait(d, C, 0), u)
  BY <1>5, <1>6, <1>7, CaptureStep
<1> QED
  BY <1>1, <1>3, <1>7, <1>8

\* The job is not touched.
LEMMA SameJobs ==
    ASSUME IInv, job' = job
    PROVE  job' \in [Device -> JobRec] /\ \A e \in Device : job'[e] = job[e] \/ job'[e] = NoJob
BY DEF IInv

LEMMA FinishKeeps ==
    ASSUME IInv, NEW d \in Device, NEW k \in Key, NEW v \in Value, Finish(d, k, v)
    PROVE  Kept
<1> DEFINE n == Len(group) + 1
<1>1. n \in Nat /\ \A h \in Mine(group, d) : group[h].notBefore \in Nat /\ group[h].notBefore < n
  BY EarlierDeadlines
<1>2. PICK C \in SUBSET Key : Wrote(d, n, Wait(d, C, n), 0)
  BY FinishWrites
<1> DEFINE t == Wait(d, C, n)
<1>3. t = n
  <2>1. /\ t \in Nat /\ n <= t
        /\ t = n \/ \E h \in Mine(group, d) : t = group[h].notBefore
    BY <1>1, WaitBounds
  <2> HIDE DEF t, n
  <2> QED
    BY <1>1, <2>1
<1>4. undo' = [undo EXCEPT ![d] = [key |-> k, finish |-> n]] /\ undo \in [Device -> {None} \cup UndoRec]
  BY DEF Finish, IInv
<1>5. PICK u \in Nat : u = 0
  OBVIOUS
<1>6. Wrote(d, n, t, u)
  BY <1>2, <1>5
<1> HIDE DEF t, n
<1>7. undo' \in [Device -> {None} \cup UndoRec]
  BY <1>1, <1>4 DEF UndoRec
<1>8. ASSUME NEW e \in Device PROVE UndoOK(group', undo'[e], e)
  <2>1. CASE e # d
    <3>1. UndoOK(group', undo[e], e)
      BY <1>1, <1>3, <1>6, <2>1, UndoKept
    <3> QED
      BY <1>4, <2>1, <3>1
  <2>2. CASE e = d
    <3>1. undo'[e] = [key |-> k, finish |-> n]
      BY <1>4, <2>2
    <3>2. Mine(group', e) = Mine(group, d) \cup {n}
      BY <1>6, <2>2, WroteMine
    <3>3. group'[n].notBefore = n /\ \A g \in Mine(group, d) : group'[g] = group[g]
      BY <1>3, <1>6 DEF Wrote, Extends, Mine
    <3>4. \A g \in Mine(group', e) : group'[g].notBefore <= n
      BY <1>1, <3>2, <3>3
    <3> QED
      BY <1>1, <3>1, <3>2, <3>3, <3>4 DEF UndoOK, UndoRec
  <2> QED
    BY <2>1, <2>2
<1>9. UNCHANGED <<log, transit, over>> /\ job' = job
  BY DEF Finish
<1>10. IInv'
  <2>1. t \in Nat /\ t <= n
    BY <1>1, <1>3
  <2> QED
    BY <1>5, <1>6, <1>7, <1>8, <1>9, <2>1, SameJobs, AfterWrite
<1> QED
  BY <1>6, <1>10 DEF Kept, Wrote

LEMMA UndoKeeps ==
    ASSUME IInv, NEW d \in Device, Undo(d)
    PROVE  Kept
<1> DEFINE n == Len(group) + 1
           f == undo[d].finish
<1>1. n \in Nat /\ \A h \in Mine(group, d) : group[h].notBefore \in Nat /\ group[h].notBefore < n
  BY EarlierDeadlines
<1>2. undo \in [Device -> {None} \cup UndoRec] /\ UndoOK(group, undo[d], d) /\ undo[d] # None
  BY DEF IInv, Undo
<1>3. /\ f \in Nat /\ f \in Mine(group, d) /\ group[f].notBefore = f
      /\ \A g \in Mine(group, d) : group[g].notBefore <= f
  BY <1>2 DEF UndoOK, UndoRec
<1>4. PICK u \in Nat : u = TakenBack(d)
  BY UndoWrites
<1>5. PICK C \in SUBSET Key : Wrote(d, n, Wait(d, C, 0), u)
  BY <1>4, UndoWrites
<1> DEFINE t == Wait(d, C, 0)
<1>6. t \in Nat /\ t <= f /\ t <= n
  <2>1. t \in Nat /\ (t = 0 \/ \E h \in Mine(group, d) : t = group[h].notBefore)
    BY WaitBounds
  <2> HIDE DEF t, f, n
  <2> QED
    BY <1>1, <1>3, <2>1
<1>7. u = 0 \/ (u \in Mine(group, d) /\ t <= group[u].notBefore /\ u \notin Requested(d))
  <2>1. u = 0 \/ (u = f /\ f \notin Requested(d))
    BY <1>4 DEF TakenBack
  <2> HIDE DEF t, f
  <2> QED
    BY <1>3, <1>6, <2>1
<1>8. undo' = [undo EXCEPT ![d] = None] /\ UNCHANGED <<log, transit, over>> /\ job' = job
  BY DEF Undo
<1> HIDE DEF t, n, f
<1>9. undo' \in [Device -> {None} \cup UndoRec]
  BY <1>2, <1>8
<1>10. Wrote(d, n, t, u)
  BY <1>5 DEF t
<1>11. ASSUME NEW e \in Device PROVE UndoOK(group', undo'[e], e)
  <2>1. CASE e # d
    <3>1. UndoOK(group', undo[e], e)
      BY <1>6, <1>10, <2>1, UndoKept
    <3> QED
      BY <1>2, <1>8, <2>1, <3>1
  <2>2. CASE e = d
    BY <1>2, <1>8, <2>2 DEF UndoOK
  <2> QED
    BY <2>1, <2>2
<1>12. IInv'
  BY <1>6, <1>7, <1>8, <1>9, <1>10, <1>11, SameJobs, AfterWrite
<1> QED
  BY <1>10, <1>12 DEF Kept, Wrote

LEMMA EditKeeps ==
    ASSUME IInv, NEW d \in Device, NEW k \in Key, NEW v \in Value \cup {Gone}, Edit(d, k, v)
    PROVE  Kept
<1> DEFINE n == Len(group) + 1
<1>1. n \in Nat /\ \A h \in Mine(group, d) : group[h].notBefore \in Nat /\ group[h].notBefore < n
  BY EarlierDeadlines
<1>2. undo \in [Device -> {None} \cup UndoRec] /\ UndoOK(group, undo[d], d)
  BY DEF IInv
<1>3. PICK u \in Nat : u = 0
  OBVIOUS
<1>4. PICK C \in SUBSET Key : Wrote(d, n, Wait(d, C, 0), u)
  BY <1>3, EditWrites
<1> DEFINE t == Wait(d, C, 0)
<1>5. t \in Nat /\ (t = 0 \/ \E h \in Mine(group, d) : t = group[h].notBefore)
  BY WaitBounds
<1>6. Wrote(d, n, t, u)
  BY <1>4
<1> HIDE DEF t, n
<1>7. t <= n
  BY <1>1, <1>5
<1>8. undo[d] = None \/ t <= undo[d].finish
  BY <1>2, <1>5 DEF UndoOK, UndoRec
<1>9. undo' = undo /\ UNCHANGED <<log, transit, over>> /\ job' = job
  BY DEF Edit
<1>10. \A e \in Device : UndoOK(group', undo[e], e)
  BY <1>5, <1>6, <1>8, UndoKept
<1>11. IInv'
  BY <1>2, <1>3, <1>5, <1>6, <1>7, <1>9, <1>10, SameJobs, AfterWrite
<1> QED
  BY <1>6, <1>11 DEF Kept, Wrote

LEMMA ResolveKeeps ==
    ASSUME IInv, NEW d \in Device, Resolve(d)
    PROVE  Kept
<1> DEFINE n == Len(group) + 1
<1>1. n \in Nat /\ undo \in [Device -> {None} \cup UndoRec] /\ UndoOK(group, undo[d], d)
  BY DEF IInv, GroupsOK
<1>2. PICK z \in Nat : z = 0
  OBVIOUS
<1>3. Wrote(d, n, z, z)
  BY <1>2, ResolveStep
<1> HIDE DEF n
<1>4. undo[d] = None \/ z <= undo[d].finish
  BY <1>1, <1>2 DEF UndoOK, UndoRec
<1>5. undo' = undo /\ UNCHANGED <<log, transit, over>> /\ job' = [job EXCEPT ![d] = NoJob]
  BY DEF Resolve, Go, NoJob
<1>6. \A e \in Device : UndoOK(group', undo[e], e)
  BY <1>3, <1>4, UndoKept
<1>7. job' \in [Device -> JobRec] /\ \A e \in Device : job'[e] = job[e] \/ job'[e] = NoJob
  <2>1. NoJob \in JobRec
    BY DEF NoJob, JobRec
  <2>2. job \in [Device -> JobRec]
    BY DEF IInv
  <2> QED
    BY <1>5, <2>1, <2>2
<1>8. z <= n
  BY <1>1, <1>2
<1>9. IInv'
  BY <1>1, <1>2, <1>3, <1>5, <1>6, <1>7, <1>8, AfterWrite
<1> QED
  BY <1>3, <1>9 DEF Kept, Wrote

----------------------------------------------------------------------------
\* Steps that write no group.

\* Nothing new is sent.
LEMMA QuietStep ==
    ASSUME IInv, group' = group, log' = log,
           transit' \subseteq Requests(transit, job),
           store' \in [Device -> DbRec], \A e \in Device : DeviceOK(group, log, store'[e], e),
           over' \in [Device -> Nat],
           undo' \in [Device -> {None} \cup UndoRec],
           \A e \in Device : undo'[e] = undo[e] \/ undo'[e] = None,
           job' \in [Device -> JobRec], \A e \in Device : JobOK(group, log, job'[e], e),
           \A e \in Device : Unread(store'[e], job'[e]),
           \A e \in Device : job'[e].out = {} \/ job'[e].out = job[e].out
    PROVE  IInv'
<1> DEFINE R == Requests(transit, job)
           Q == Requests(transit', job')
<1>1. /\ GroupsOK(group) /\ DeadlinesOK(group) /\ log \subseteq DOMAIN group
      /\ transit \subseteq SUBSET DOMAIN group
      /\ \A e \in Device : JobOK(group, log, job[e], e) /\ UndoOK(group, undo[e], e)
      /\ \A w \in DOMAIN group : Withdraws(group, log, R, w)
  BY DEF IInv
<1>2. \A S \in Q : S \in R \/ S = {}
  BY DEF Requests
<1>3. \A S \in R : S \subseteq DOMAIN group
  BY <1>1 DEF Requests, JobOK, Mine
<1> HIDE DEF R, Q
<1>4. \A w \in DOMAIN group : Withdraws(group, log, Q, w)
  BY <1>1, <1>2 DEF Withdraws
<1>5. \A e \in Device : UndoOK(group, undo'[e], e)
  BY <1>1 DEF UndoOK
<1>6. transit' \subseteq SUBSET DOMAIN group
  BY <1>3 DEF R
<1> QED
  BY <1>1, <1>4, <1>5, <1>6 DEF IInv, Q

\* A request is executed.
LEMMA PublishStep ==
    ASSUME IInv, group' = group, NEW S \in Requests(transit, job), log' = log \cup S,
           transit' \subseteq transit, UNCHANGED <<store, over, undo>>,
           job' \in [Device -> JobRec],
           \A e \in Device : /\ job'[e].out = job[e].out /\ job'[e].seen \subseteq job[e].seen
                             /\ job'[e].at = "confirm" => job[e].at = "confirm"
                             /\ Unread(store[e], job'[e])
    PROVE  IInv'
<1> DEFINE R == Requests(transit, job)
           Q == Requests(transit', job')
<1>1. /\ GroupsOK(group) /\ DeadlinesOK(group) /\ log \subseteq DOMAIN group
      /\ transit \subseteq SUBSET DOMAIN group
      /\ \A e \in Device : /\ JobOK(group, log, job[e], e) /\ UndoOK(group, undo[e], e)
                           /\ DeviceOK(group, log, store[e], e)
      /\ \A w \in DOMAIN group : Withdraws(group, log, R, w)
  BY DEF IInv
<1>2. Q \subseteq R
  BY DEF Requests
<1>3. S \subseteq DOMAIN group
  BY <1>1 DEF Requests, JobOK, Mine
<1>4. S \in R
  OBVIOUS
<1> HIDE DEF R, Q
<1>5. ASSUME NEW w \in DOMAIN group PROVE Withdraws(group, log', Q, w)
  <2>1. Withdraws(group, log, R, w)
    BY <1>1
  <2> QED
    BY <1>2, <1>4, <2>1 DEF Withdraws
<1>6. \A e \in Device : DeviceOK(group, log', store[e], e) /\ JobOK(group, log', job'[e], e)
  BY <1>1 DEF DeviceOK, JobOK
<1>7. log' \subseteq DOMAIN group /\ transit' \subseteq SUBSET DOMAIN group
  BY <1>1, <1>3
<1>8. store' \in [Device -> DbRec] /\ over' \in [Device -> Nat]
      /\ undo' \in [Device -> {None} \cup UndoRec]
  BY DEF IInv
<1> QED
  BY <1>1, <1>5, <1>6, <1>7, <1>8 DEF IInv, Q

\* What a step that is no write makes of the database of d.
Settles(d, S, A, to) ==
    /\ to \in DbRec /\ DeviceOK(group, log, to, d)
    /\ to.known = store[d].known \cup S /\ to.acked = store[d].acked \cup A
    /\ \A k \in Key : Advances(group, store[d].heads[k], to.heads[k], k)

\* What was read is stored: the reconciliation is still to come.
LEMMA StoreReadSettles ==
    ASSUME IInv, NEW d \in Device, NEW S \in SUBSET DOMAIN group
    PROVE  Settles(d, S, {}, StoreRead(store[d], S))
<1> DEFINE db == store[d]
           new == ~(S \subseteq db.known)
           to == StoreRead(db, S)
<1>1. GroupsOK(group) /\ DeviceOK(group, log, db, d) /\ db \in DbRec
  BY DEF IInv
<1>2. DbGood(group, db) /\ (db.fresh \/ \A k \in Key : Sighted(group, db, k))
  BY <1>1 DEF DeviceOK
<1> HIDE DEF db
<1>f. PICK f \in BOOLEAN : f = (db.fresh \/ new)
  OBVIOUS
<1>3. to = Tables(db.rows, db.known \cup S, db.heads, db.acked, db.conflicts, db.enabled, f)
  <2> HIDE DEF new
  <2>1. db = Tables(db.rows, db.known, db.heads, db.acked, db.conflicts, db.enabled, db.fresh)
    BY <1>1, TablesOf
  <2>2. PICK seen : seen = Observe(db, S)
    OBVIOUS
  <2>3. seen = Tables(db.rows, db.known \cup S, db.heads, db.acked, db.conflicts, db.enabled, db.fresh)
    BY <2>1, <2>2, TablesChange
  <2>4. seen.fresh = db.fresh
    BY <2>3, TablesFields
  <2>5. to = [seen EXCEPT !.fresh = db.fresh \/ new]
    BY <2>2, <2>4 DEF StoreRead, new
  <2>6. to = [seen EXCEPT !.fresh = f]
    BY <1>f, <2>5
  <2>7. ASSUME NEW x
        PROVE  [seen EXCEPT !.fresh = x]
               = Tables(db.rows, db.known \cup S, db.heads, db.acked, db.conflicts, db.enabled, x)
    BY ONLY <2>3, TablesChange
  <2> QED
    BY <2>6, <2>7
<1>4. S \subseteq Nat
  BY <1>1, GroupTyped
<1> HIDE DEF to
<1>5. /\ to.rows = db.rows /\ to.known = db.known \cup S /\ to.heads = db.heads
      /\ to.acked = db.acked /\ to.conflicts = db.conflicts /\ to.fresh = f
      /\ to \in DbRec
  <2> HIDE DEF new
  <2>1. /\ db.rows \in [Key -> Row] /\ db.known \cup S \in SUBSET Nat /\ db.heads \in [Key -> SUBSET Nat]
        /\ db.acked \in SUBSET Nat /\ db.conflicts \in SUBSET ConflictRec /\ db.enabled \in BOOLEAN
    BY <1>1, <1>4 DEF DbRec
  <2> QED
    BY <1>3, <2>1, TablesFields
<1>6. \A k : VersionsIn(group, db.known, k) \subseteq VersionsIn(group, to.known, k)
  BY <1>5 DEF VersionsIn, AcceptedIn
<1>7. HeadsIn(group, to)
  <2>1. \A k \in Key : Rowed(group, db, k) => Rowed(group, to, k)
    BY <1>5 DEF Rowed
  <2> QED
    BY <1>2, <1>5, <1>6, <2>1 DEF DbGood, HeadsIn
<1>8. ConflictsIn(group, to)
  BY <1>2, <1>5, <1>6 DEF DbGood, ConflictsIn
<1>9. DbGood(group, to)
  BY <1>2, <1>5, <1>7, <1>8 DEF DbGood
<1>10. to.fresh \/ \A k \in Key : Sighted(group, to, k)
  <2>1. SUFFICES ASSUME ~db.fresh, ~new PROVE \A k \in Key : Sighted(group, to, k)
    BY <1>f, <1>5
  <2>2. to.known = db.known
    BY <1>5, <2>1
  <2>3. Same(db, to)
    BY <1>5, <2>2 DEF Same
  <2> QED
    BY <1>2, <1>5, <2>1, <2>3, SameGood
<1>11. DeviceOK(group, log, to, d)
  BY <1>1, <1>5, <1>9, <1>10 DEF DeviceOK
<1>12. Settles(d, S, {}, to)
  BY <1>5, <1>11 DEF Settles, Advances, db
<1> QED
  BY <1>12 DEF to, db

\* A database after it was reconciled has nothing that was only read.
LEMMA ReconcileSettles ==
    ASSUME IInv, NEW d \in Device
    PROVE  Settles(d, {}, {}, Reconcile(store[d])) /\ ~Reconcile(store[d]).fresh
<1> DEFINE db == store[d]
           to == Reconcile(db)
<1>1. GroupsOK(group) /\ DeviceOK(group, log, db, d) /\ DbGood(group, db)
  BY DEF IInv, DeviceOK
<1>2. Progress(group, db, to) /\ (\A k \in Key : Sighted(group, to, k)) /\ ~to.fresh
  BY <1>1, ReconcileKeeps
<1>3. \A k \in Key : Advances(group, db.heads[k], to.heads[k], k)
  BY <1>1, <1>2, ProgressAdvances
<1> HIDE DEF to
<1>4. DbGood(group, to) /\ to.known = db.known /\ to.acked = db.acked
  BY <1>2 DEF Progress
<1>5. to \in DbRec
  BY <1>4 DEF DbGood
<1>6. DeviceOK(group, log, to, d)
  BY <1>1, <1>2, <1>4 DEF DeviceOK
<1>7. Settles(d, {}, {}, to)
  BY <1>3, <1>4, <1>5, <1>6 DEF Settles
<1> QED
  BY <1>2, <1>7 DEF to

\* Acknowledging what the Sheet has of the device's own.
LEMMA AcknowledgeSettles ==
    ASSUME IInv, NEW d \in Device, NEW A, A \subseteq log \cap Mine(group, d)
    PROVE  /\ Settles(d, {}, A, Acknowledge(store[d], A))
           /\ Acknowledge(store[d], A).fresh = store[d].fresh
<1> DEFINE db == store[d]
           to == Acknowledge(db, A)
<1>1. db \in DbRec /\ DeviceOK(group, log, db, d)
  BY DEF IInv
<1>2. A \subseteq Nat
  BY GroupTyped DEF Mine, IInv
<1> HIDE DEF db
<1>3. to = Tables(db.rows, db.known, db.heads, db.acked \cup A, db.conflicts, db.enabled, db.fresh)
  <2>1. db = Tables(db.rows, db.known, db.heads, db.acked, db.conflicts, db.enabled, db.fresh)
    BY <1>1, TablesOf
  <2> QED
    BY <2>1, TablesChange
<1> HIDE DEF to
<1>4. Same(db, to) /\ to.acked = db.acked \cup A /\ to.fresh = db.fresh /\ to \in DbRec
  <2>1. /\ db.rows \in [Key -> Row] /\ db.known \in SUBSET Nat /\ db.heads \in [Key -> SUBSET Nat]
        /\ db.acked \cup A \in SUBSET Nat /\ db.conflicts \in SUBSET ConflictRec
        /\ db.enabled \in BOOLEAN /\ db.fresh \in BOOLEAN
    BY <1>1, <1>2 DEF DbRec
  <2> QED
    BY <1>3, <2>1, TablesFields DEF Same
<1>5. DbGood(group, to) /\ (to.fresh \/ \A k \in Key : Sighted(group, to, k))
  BY <1>1, <1>4, SameGood DEF DeviceOK
<1>6. DeviceOK(group, log, to, d)
  BY <1>1, <1>4, <1>5 DEF DeviceOK, Same
<1>7. Settles(d, {}, A, to)
  BY <1>4, <1>6 DEF Settles, Same, Advances, db
<1> QED
  BY <1>4, <1>7 DEF to, db

LEMMA Typed ==
    ASSUME IInv, NEW d \in Device
    PROVE  /\ store \in [Device -> DbRec] /\ store[d] \in DbRec /\ store = [store EXCEPT ![d] = store[d]]
           /\ DeviceOK(group, log, store[d], d) /\ Settles(d, {}, {}, store[d])
           /\ job \in [Device -> JobRec] /\ job[d] \in JobRec /\ job = [job EXCEPT ![d] = job[d]]
           /\ JobOK(group, log, job[d], d) /\ Unread(store[d], job[d])
           /\ over \in [Device -> Nat]
           /\ GroupsOK(group) /\ log \subseteq DOMAIN group
           /\ transit \subseteq Requests(transit, job)
<1>1. store \in [Device -> DbRec] /\ job \in [Device -> JobRec] /\ over \in [Device -> Nat]
      /\ GroupsOK(group) /\ log \subseteq DOMAIN group /\ Unread(store[d], job[d])
      /\ DeviceOK(group, log, store[d], d) /\ JobOK(group, log, job[d], d)
  BY DEF IInv
<1>2. store = [store EXCEPT ![d] = store[d]] /\ job = [job EXCEPT ![d] = job[d]]
  BY <1>1
<1>3. transit \subseteq Requests(transit, job)
  BY DEF Requests
<1>4. store[d] \in DbRec /\ job[d] \in JobRec
  BY <1>1
<1>5. Settles(d, {}, {}, store[d])
  BY <1>1, <1>4 DEF Settles, Advances
<1> QED
  BY <1>1, <1>2, <1>3, <1>4, <1>5

\* A quiet step in which one database at most changes.
LEMMA QuietKeeps ==
    ASSUME IInv, group' = group, log' = log,
           transit' \subseteq Requests(transit, job),
           NEW d \in Device, NEW S, NEW A, NEW to, Settles(d, S, A, to),
           store' = [store EXCEPT ![d] = to],
           over' \in [Device -> Nat],
           undo' = undo \/ undo' = [undo EXCEPT ![d] = None],
           NEW j, JobOK(group, log, j, d), Unread(to, j), job' = [job EXCEPT ![d] = j],
           j.out = {} \/ j.out = job[d].out
    PROVE  Kept
<1>1. /\ store \in [Device -> DbRec] /\ job \in [Device -> JobRec]
      /\ undo \in [Device -> {None} \cup UndoRec]
      /\ \A e \in Device : /\ JobOK(group, log, job[e], e) /\ DeviceOK(group, log, store[e], e)
                           /\ Unread(store[e], job[e])
  BY DEF IInv
<1>2. /\ to \in DbRec /\ DeviceOK(group, log, to, d)
      /\ \A k \in Key : Advances(group, store[d].heads[k], to.heads[k], k)
  BY DEF Settles
<1>3. store' \in [Device -> DbRec] /\ store'[d] = to /\ \A e \in Device : e # d => store'[e] = store[e]
  BY <1>1, <1>2
<1>4. j \in JobRec
  BY DEF JobOK
<1>5. job' \in [Device -> JobRec] /\ job'[d] = j /\ \A e \in Device : e # d => job'[e] = job[e]
  BY <1>1, <1>4
<1>6. \A e \in Device : /\ DeviceOK(group, log, store'[e], e) /\ JobOK(group, log, job'[e], e)
                        /\ Unread(store'[e], job'[e])
  BY <1>1, <1>2, <1>3, <1>5
<1>7. undo' \in [Device -> {None} \cup UndoRec] /\ \A e \in Device : undo'[e] = undo[e] \/ undo'[e] = None
  BY <1>1
<1>8. \A e \in Device : job'[e].out = {} \/ job'[e].out = job[e].out
  BY <1>5
<1>9. IInv'
  BY <1>3, <1>5, <1>6, <1>7, <1>8, QuietStep
<1>10. \A e \in Device, k \in Key : Advances(group', store[e].heads[k], store'[e].heads[k], k)
  BY <1>2, <1>3 DEF Advances
<1> QED
  BY <1>9, <1>10 DEF Kept

\* No job asks for nothing.
LEMMA NoJobOK ==
    /\ NoJob \in JobRec /\ NoJob.seen = {} /\ NoJob.out = {}
    /\ \A db : Unread(db, NoJob)
    /\ \A G, L, d : JobOK(G, L, NoJob, d)
<1>1. NoJob \in JobRec /\ NoJob.seen = {} /\ NoJob.out = {} /\ NoJob.at = "idle"
  BY DEF NoJob, JobRec
<1> QED
  BY <1>1 DEF JobOK, Unread, Waiting

\* The steps of a job that only forget, and requests that are given up.
LEMMA ForgetKeeps ==
    ASSUME IInv, NEW d \in Device, UNCHANGED <<group, log, store, over>>,
           transit' = transit \/ transit' = transit \cup {job[d].out},
           undo' = undo \/ undo' = [undo EXCEPT ![d] = None],
           job' = [job EXCEPT ![d] = NoJob]
    PROVE  Kept
<1>1. PICK j : j = NoJob
  OBVIOUS
<1>2. JobOK(group, log, j, d) /\ Unread(store[d], j) /\ j.out = {}
  BY <1>1, NoJobOK
<1>3. PICK to : to = store[d]
  OBVIOUS
<1>4. store' = [store EXCEPT ![d] = to] /\ job' = [job EXCEPT ![d] = j]
      /\ Settles(d, {}, {}, to) /\ Unread(to, j)
  BY <1>1, <1>2, <1>3, Typed
<1>5. transit' \subseteq Requests(transit, job) /\ over' \in [Device -> Nat]
  BY Typed DEF Requests
<1> QED
  BY <1>2, <1>4, <1>5, QuietKeeps

LEMMA AppendUnansweredKeeps ==
    ASSUME IInv, NEW d \in Device, AppendUnanswered(d)
    PROVE  Kept
<1>1. job' = [job EXCEPT ![d] = NoJob]
  BY DEF AppendUnanswered, Go, NoJob
<1> QED
  BY <1>1, ForgetKeeps DEF AppendUnanswered

LEMMA FailJobKeeps ==
    ASSUME IInv, NEW d \in Device, FailJob(d)
    PROVE  Kept
<1>1. job' = [job EXCEPT ![d] = NoJob]
  BY DEF FailJob, Go, NoJob
<1> QED
  BY <1>1, ForgetKeeps DEF FailJob

LEMMA CrashKeeps ==
    ASSUME IInv, NEW d \in Device, Crash(d)
    PROVE  Kept
BY ForgetKeeps DEF Crash

\* A transaction of a job, or of a review.
LEMMA SettleStep ==
    ASSUME IInv, NEW d \in Device, NEW S, NEW A, NEW to, Settles(d, S, A, to),
           store' = [store EXCEPT ![d] = to],
           NEW j, JobOK(group, log, j, d), Unread(to, j), job' = [job EXCEPT ![d] = j],
           j.out = {} \/ j.out = job[d].out,
           UNCHANGED <<group, log, transit, over, undo>>
    PROVE  Kept
<1>1. transit' \subseteq Requests(transit, job) /\ over' \in [Device -> Nat]
  BY Typed
<1> QED
  BY <1>1, QuietKeeps

LEMMA ReviewKeeps ==
    ASSUME IInv, NEW d \in Device, Review(d)
    PROVE  Kept
<1>1. PICK to : to = Reconcile(store[d])
  OBVIOUS
<1>2. Settles(d, {}, {}, to) /\ ~to.fresh
  BY <1>1, ReconcileSettles
<1>3. store' = [store EXCEPT ![d] = to] /\ UNCHANGED <<group, log, transit, over, undo, job>>
  BY <1>1 DEF Review
<1>4. PICK j : j = job[d]
  OBVIOUS
<1>5. JobOK(group, log, j, d) /\ Unread(to, j) /\ job' = [job EXCEPT ![d] = j]
  BY <1>2, <1>3, <1>4, Typed DEF Unread
<1> QED
  BY <1>2, <1>3, <1>4, <1>5, SettleStep

\* What a job that goes on has seen is its own and in the Sheet.
LEMMA JobGoes ==
    ASSUME IInv, NEW d \in Device, NEW phase, NEW seen, NEW out, Go(d, phase, seen, out),
           phase \in {"idle", "staged", "collect", "append", "appended", "verify", "confirm", "resolve"},
           seen \subseteq log \cap Mine(group, d), out \subseteq Mine(group, d),
           phase = "confirm" => out \subseteq log
    PROVE  \E j : /\ j = [at |-> phase, seen |-> seen, out |-> out]
                  /\ j.at = phase /\ j.seen = seen /\ j.out = out
                  /\ JobOK(group, log, j, d) /\ job' = [job EXCEPT ![d] = j]
<1>1. Mine(group, d) \subseteq Nat
  BY Typed, GroupTyped DEF Mine
<1>2. PICK j : j = [at |-> phase, seen |-> seen, out |-> out]
  OBVIOUS
<1>3. j \in JobRec /\ j.at = phase /\ j.seen = seen /\ j.out = out
  BY <1>1, <1>2 DEF JobRec
<1>4. JobOK(group, log, j, d)
  BY <1>3 DEF JobOK
<1> QED
  BY <1>2, <1>3, <1>4 DEF Go

\* What was read is stored.
LEMMA StoreReadKeeps ==
    ASSUME IInv, NEW d \in Device, NEW phase \in {"staged", "verify"},
           NEW seen \in SUBSET (log \cap Mine(group, d)), NEW out, out = {} \/ out = job[d].out,
           store' = [store EXCEPT ![d] = StoreRead(@, log)], Go(d, phase, seen, out),
           UNCHANGED <<group, log, transit, over, undo>>
    PROVE  Kept
<1>1. PICK to : to = StoreRead(store[d], log)
  OBVIOUS
<1>2. Settles(d, log, {}, to) /\ store' = [store EXCEPT ![d] = to]
  BY <1>1, Typed, StoreReadSettles
<1>3. out \subseteq Mine(group, d)
  BY Typed DEF JobOK
<1>4. PICK j : /\ j.at = phase /\ j.out = out
               /\ JobOK(group, log, j, d) /\ job' = [job EXCEPT ![d] = j]
  BY <1>3, JobGoes
<1>5. Unread(to, j)
  BY <1>4 DEF Unread, Waiting
<1> QED
  BY <1>2, <1>4, <1>5, SettleStep

LEMMA ReadLogKeeps ==
    ASSUME IInv, NEW d \in Device, ReadLog(d)
    PROVE  Kept
<1>1. PICK seen \in SUBSET (log \cap Mine(group, d)) : seen = log \cap Authored(d)
  BY DEF Authored, Mine
<1>2. Go(d, "staged", seen, {})
  BY <1>1 DEF ReadLog
<1> QED
  BY <1>2, StoreReadKeeps DEF ReadLog

LEMMA ReadBackKeeps ==
    ASSUME IInv, NEW d \in Device, ReadBack(d)
    PROVE  Kept
<1>1. PICK out : out = job[d].out
  OBVIOUS
<1>2. PICK seen \in SUBSET (log \cap Mine(group, d)) : seen = log \cap out
  BY <1>1, Typed DEF JobOK
<1>3. Go(d, "verify", seen, out)
  BY <1>1, <1>2 DEF ReadBack
<1> QED
  BY <1>1, <1>3, StoreReadKeeps DEF ReadBack

\* What was read is reconciled; the job goes on or ends.
LEMMA ReconciledKeeps ==
    ASSUME IInv, NEW d \in Device,
           NEW phase \in {"idle", "staged", "collect", "append", "appended", "verify", "confirm", "resolve"},
           NEW seen \in SUBSET (log \cap Mine(group, d)), NEW out, out = {} \/ out = job[d].out,
           phase = "confirm" => out \subseteq log,
           store' = [store EXCEPT ![d] = Reconcile(@)], Go(d, phase, seen, out),
           UNCHANGED <<group, log, transit, over, undo>>
    PROVE  Kept
<1>1. PICK to : to = Reconcile(store[d])
  OBVIOUS
<1>2. Settles(d, {}, {}, to) /\ ~to.fresh /\ store' = [store EXCEPT ![d] = to]
  BY <1>1, Typed, ReconcileSettles
<1>3. out \subseteq Mine(group, d)
  BY Typed DEF JobOK
<1>4. PICK j : /\ j.out = out
               /\ JobOK(group, log, j, d) /\ job' = [job EXCEPT ![d] = j]
  BY <1>3, JobGoes
<1>5. Unread(to, j)
  BY <1>2 DEF Unread
<1> QED
  BY <1>2, <1>4, <1>5, SettleStep

LEMMA ReconcileReadKeeps ==
    ASSUME IInv, NEW d \in Device, ReconcileRead(d)
    PROVE  Kept
<1>1. PICK none : none = {}
  OBVIOUS
<1>2. job[d].seen \in SUBSET (log \cap Mine(group, d)) /\ none \in SUBSET (log \cap Mine(group, d))
  BY <1>1, Typed DEF JobOK
<1>3. store' = [store EXCEPT ![d] = Reconcile(@)] /\ UNCHANGED <<group, log, transit, over, undo>>
      /\ (Go(d, "idle", none, none) \/ Go(d, "collect", job[d].seen, none))
  BY <1>1 DEF ReconcileRead
<1> QED
  BY <1>1, <1>2, <1>3, ReconciledKeeps

LEMMA BeginResolveKeeps ==
    ASSUME IInv, NEW d \in Device, BeginResolve(d)
    PROVE  Kept
<1>1. PICK none : none = {}
  OBVIOUS
<1>2. none \in SUBSET (log \cap Mine(group, d))
  BY <1>1
<1>3. store' = [store EXCEPT ![d] = Reconcile(@)] /\ UNCHANGED <<group, log, transit, over, undo>>
      /\ Go(d, "resolve", none, none)
  BY <1>1 DEF BeginResolve
<1> QED
  BY <1>1, <1>2, <1>3, ReconciledKeeps

LEMMA VerifyKeeps ==
    ASSUME IInv, NEW d \in Device, Verify(d)
    PROVE  Kept
<1>1. PICK none : none = {}
  OBVIOUS
<1>2. PICK out : out = job[d].out
  OBVIOUS
<1>3. none \in SUBSET (log \cap Mine(group, d))
  BY <1>1
<1>4. store' = [store EXCEPT ![d] = Reconcile(@)] /\ UNCHANGED <<group, log, transit, over, undo>>
  BY DEF Verify
<1>5. Go(d, "idle", none, none) \/ (Go(d, "confirm", none, out) /\ out \subseteq job[d].seen)
  BY <1>1, <1>2 DEF Verify
<1>6. job[d].seen \subseteq log
  BY Typed DEF JobOK
<1>7. CASE Go(d, "idle", none, none)
  BY <1>1, <1>3, <1>4, <1>7, ReconciledKeeps
<1>8. CASE Go(d, "confirm", none, out) /\ out \subseteq job[d].seen
  <2>1. out \subseteq log
    BY <1>6, <1>8
  <2> QED
    BY <1>2, <1>3, <1>4, <1>8, <2>1, ReconciledKeeps
<1> QED
  BY <1>5, <1>7, <1>8

LEMMA ConfirmKeeps ==
    ASSUME IInv, NEW d \in Device, Confirm(d)
    PROVE  Kept
<1>1. PICK A : A = job[d].out
  OBVIOUS
<1>2. A \subseteq log \cap Mine(group, d)
  BY <1>1, Typed DEF JobOK, Confirm, At
<1>3. PICK to : to = Acknowledge(store[d], A)
  OBVIOUS
<1>4. Settles(d, {}, A, to) /\ store' = [store EXCEPT ![d] = to]
  BY <1>1, <1>2, <1>3, Typed, AcknowledgeSettles DEF Confirm
<1>5. PICK j : j = NoJob
  OBVIOUS
<1>6. JobOK(group, log, j, d) /\ Unread(to, j) /\ j.out = {}
  BY <1>5, NoJobOK
<1>7. job' = [job EXCEPT ![d] = j] /\ UNCHANGED <<group, log, transit, over, undo>>
  BY <1>5 DEF Confirm, Go, NoJob
<1> QED
  BY <1>4, <1>6, <1>7, SettleStep

LEMMA DisableKeeps ==
    ASSUME IInv, NEW d \in Device, Disable(d)
    PROVE  Kept
<1>1. PICK db \in DbRec : db = store[d] /\ DeviceOK(group, log, db, d)
  BY Typed
<1>2. PICK to : to = [db EXCEPT !.enabled = FALSE]
  OBVIOUS
<1>3. to \in DbRec /\ Same(db, to) /\ to.acked = db.acked /\ to.fresh = db.fresh
  BY <1>2 DEF DbRec, Same
<1>4. DeviceOK(group, log, to, d)
  BY <1>1, <1>3, SameGood DEF DeviceOK, Same
<1>5. store' = [store EXCEPT ![d] = to] /\ UNCHANGED <<group, log, transit, over, undo, job>>
  BY <1>1, <1>2, Typed DEF Disable
<1>6. Settles(d, {}, {}, to)
  BY <1>1, <1>3, <1>4 DEF Settles, Same, Advances
<1>7. PICK j : j = job[d]
  OBVIOUS
<1>8. JobOK(group, log, j, d) /\ Unread(to, j) /\ job' = [job EXCEPT ![d] = j]
  BY <1>1, <1>3, <1>5, <1>7, Typed DEF Unread
<1> QED
  BY <1>5, <1>6, <1>7, <1>8, SettleStep

LEMMA AppendLogKeeps ==
    ASSUME IInv, NEW d \in Device, AppendLog(d)
    PROVE  Kept
<1>1. PICK S \in Requests(transit, job) : S = job[d].out
  BY DEF Requests
<1>2. log' = log \cup S /\ transit' \subseteq transit /\ UNCHANGED <<group, store, over, undo>>
      /\ job' = [job EXCEPT ![d] = [at |-> "appended", seen |-> {}, out |-> S]]
  BY <1>1 DEF AppendLog, Go
<1>3. PICK j : j = [at |-> "appended", seen |-> {}, out |-> S]
  OBVIOUS
<1>4. j \in JobRec /\ j.at = "appended" /\ j.seen = {} /\ j.out = S
  BY <1>1, <1>3, Typed DEF JobRec
<1>5. Unread(store[d], j)
  BY <1>4, Typed DEF Unread, Waiting, AppendLog, At
<1>6. /\ job \in [Device -> JobRec] /\ \A e \in Device : Unread(store[e], job[e])
  BY DEF IInv
<1>7. job' \in [Device -> JobRec] /\ job'[d] = j /\ \A e \in Device : e # d => job'[e] = job[e]
  BY <1>2, <1>3, <1>4, <1>6
<1>8. \A e \in Device : /\ job'[e].out = job[e].out /\ job'[e].seen \subseteq job[e].seen
                        /\ job'[e].at = "confirm" => job[e].at = "confirm"
                        /\ Unread(store[e], job'[e])
  <2> TAKE e \in Device
  <2>1. CASE e = d
    BY <1>1, <1>4, <1>5, <1>7, <2>1
  <2>2. CASE e # d
    BY <1>6, <1>7, <2>2
  <2> QED
    BY <2>1, <2>2
<1>9. IInv'
  BY <1>2, <1>7, <1>8, PublishStep
<1> QED
  BY <1>2, <1>9 DEF Kept, Advances

LEMMA LandKeeps ==
    ASSUME IInv, Land
    PROVE  Kept
<1>1. PICK S \in transit : log' = log \cup S /\ transit' = transit \ {S}
  BY DEF Land
<1>2. S \in Requests(transit, job)
  BY DEF Requests
<1>3. UNCHANGED <<group, store, over, undo, job>>
  BY DEF Land
<1>4. job' \in [Device -> JobRec]
      /\ \A e \in Device : /\ job'[e].out = job[e].out /\ job'[e].seen \subseteq job[e].seen
                           /\ job'[e].at = "confirm" => job[e].at = "confirm"
                           /\ Unread(store[e], job'[e])
  BY <1>3 DEF IInv
<1>5. IInv'
  BY <1>1, <1>2, <1>3, <1>4, PublishStep
<1> QED
  BY <1>3, <1>5 DEF Kept, Advances

\* A withdrawal is taken with what it withdraws, however late the clock is read.
LEMMA CollectKeeps ==
    ASSUME IInv, NEW d \in Device, Collect(d)
    PROVE  Kept
<1> DEFINE P == Pending(d)
           present == P \cap job[d].seen
<1>1. CASE /\ Go(d, "idle", {}, {}) /\ UNCHANGED <<store, over>>
  <2>1. job' = [job EXCEPT ![d] = NoJob]
    BY <1>1 DEF Go, NoJob
  <2>2. UNCHANGED <<group, log, transit, undo>>
    BY DEF Collect
  <2> QED
    BY <1>1, <2>1, <2>2, ForgetKeeps
<1>2. ASSUME NEW r \in Readings(d), NEW out, out = Eligible(d, r),
             store' = [store EXCEPT ![d] = Acknowledge(@, present)],
             over' = [over EXCEPT ![d] = r.later],
             Go(d, "idle", {}, {}) \/ Go(d, "append", {}, out)
      PROVE  Kept
  <2> DEFINE R == Requests(transit, job)
             Q == Requests(transit', job')
  <2>1. UNCHANGED <<group, log, transit, undo>>
    BY DEF Collect
  <2>2. /\ GroupsOK(group) /\ over \in [Device -> Nat]
        /\ JobOK(group, log, job[d], d) /\ DeviceOK(group, log, store[d], d)
        /\ \A w \in DOMAIN group : Withdraws(group, log, R, w)
        /\ undo \in [Device -> {None} \cup UndoRec] /\ transit \subseteq SUBSET DOMAIN group
        /\ DeadlinesOK(group) /\ log \subseteq DOMAIN group
        /\ store \in [Device -> DbRec] /\ job \in [Device -> JobRec]
        /\ \A e \in Device : /\ DeviceOK(group, log, store[e], e) /\ JobOK(group, log, job[e], e)
                             /\ UndoOK(group, undo[e], e) /\ Unread(store[e], job[e])
    BY DEF IInv
  <2>3. P = (Mine(group, d) \cap store[d].known) \ store[d].acked /\ Mine(group, d) \subseteq store[d].known
    BY <2>2 DEF Pending, Authored, Mine, DeviceOK
  <2>4. present \subseteq log \cap Mine(group, d)
    BY <2>2, <2>3 DEF JobOK
  <2>5. PICK phase \in {"idle", "append"}, sent \in {{}, out} : Go(d, phase, {}, sent)
    BY <1>2
  <2>6. out = {g \in P \ job[d].seen : group[g].notBefore <= IF g <= r.cut THEN r.now ELSE r.later}
    BY <1>2 DEF Eligible
  <2>7. \A g \in Mine(group, d) : g \in Nat /\ group[g].notBefore \in Nat
    BY <2>2, GroupTyped DEF Mine
  <2>8. r.cut \in Nat /\ r.now \in Nat /\ r.later \in Nat /\ r.now <= r.later
    <3>1. Deadlines(d) \subseteq Nat
      <4>1. over[d] \in Nat /\ \A g \in Authored(d) : group[g].notBefore \in Nat
        BY <2>2, <2>7 DEF Authored, Mine
      <4> QED
        BY <4>1 DEF Deadlines
    <3>2. Len(group) \in Nat
      BY <2>2 DEF GroupsOK
    <3>3. r.cut \in 0..Len(group) /\ r.now \in Deadlines(d) /\ r.later \in Deadlines(d)
          /\ r.now <= r.later
      BY DEF Readings
    <3> QED
      BY <3>1, <3>2, <3>3
  <2>9. out \subseteq Mine(group, d)
    BY <2>3, <2>6
  <2>10. over' \in [Device -> Nat]
    BY <1>2, <2>2, <2>8
  <2> HIDE DEF P, present
  <2>11. PICK j : /\ j.at = phase /\ j.out = sent
                  /\ JobOK(group, log, j, d) /\ job' = [job EXCEPT ![d] = j]
    <3>1. PICK none : none = {}
      OBVIOUS
    <3>2. none \subseteq log \cap Mine(group, d) /\ sent \subseteq Mine(group, d)
          /\ phase # "confirm" /\ Go(d, phase, none, sent)
          /\ phase \in {"idle", "staged", "collect", "append", "appended", "verify", "confirm", "resolve"}
      BY <2>5, <2>9, <3>1
    <3> QED
      BY <3>2, JobGoes
  <2>12. j \in JobRec
    BY <2>11 DEF JobOK
  <2>13. job' \in [Device -> JobRec] /\ job'[d] = j /\ \A e \in Device : e # d => job'[e] = job[e]
    BY <2>2, <2>11, <2>12
  <2>14. \A e \in Device : JobOK(group, log, job'[e], e)
    BY <2>2, <2>11, <2>13
  <2>15. \A S \in Q : S \in R \/ S = {} \/ S = out
    BY <2>1, <2>5, <2>11, <2>13 DEF Requests
  <2> HIDE DEF R, Q
  <2>16. ASSUME NEW w \in DOMAIN group, group[w].undoes # 0, group[w].undoes \in out
         PROVE  w \in out \cup log
    <3> DEFINE f == group[w].undoes
    <3>1. /\ f \in 1..(w-1) /\ group[f].by = group[w].by /\ group[w].notBefore <= group[f].notBefore
      BY <2>2, <2>16 DEF Withdraws
    <3>2. w \in Mine(group, d) /\ f \in Mine(group, d)
      BY <2>9, <2>16, <3>1 DEF Mine
    <3>3. SUFFICES ASSUME w \in P \ job[d].seen PROVE w \in out
      <4>1. store[d].acked \subseteq log /\ job[d].seen \subseteq log
        BY <2>2 DEF DeviceOK, JobOK
      <4> QED
        BY <2>3, <3>2, <4>1
    <3>4. group[f].notBefore <= IF f <= r.cut THEN r.now ELSE r.later
      BY <2>6, <2>16
    <3>5. /\ w \in Nat /\ f \in Nat /\ f < w
          /\ group[w].notBefore \in Nat /\ group[f].notBefore \in Nat
      BY <2>7, <3>1, <3>2
    <3> HIDE DEF f
    <3>6. group[w].notBefore <= IF w <= r.cut THEN r.now ELSE r.later
      BY <2>8, <3>1, <3>4, <3>5
    <3> QED
      BY <2>6, <3>3, <3>6
  <2>17. ASSUME NEW w \in DOMAIN group PROVE Withdraws(group, log, Q, w)
    <3>1. Withdraws(group, log, R, w)
      BY <2>2
    <3> QED
      BY <2>15, <2>16, <3>1 DEF Withdraws
  <2>18. PICK to : to = Acknowledge(store[d], present)
    OBVIOUS
  <2>19. Settles(d, {}, present, to) /\ to.fresh = store[d].fresh
    BY <2>4, <2>18, AcknowledgeSettles
  <2>20. to \in DbRec /\ DeviceOK(group, log, to, d)
         /\ \A k \in Key : Advances(group, store[d].heads[k], to.heads[k], k)
    BY <2>19 DEF Settles
  <2>21. /\ store' \in [Device -> DbRec] /\ store'[d] = to
         /\ \A e \in Device : e # d => store'[e] = store[e]
    BY <1>2, <2>2, <2>18, <2>20
  <2>22. \A e \in Device : DeviceOK(group, log, store'[e], e)
    BY <2>2, <2>20, <2>21
  <2>23. \A e \in Device : Unread(store'[e], job'[e])
    <3>1. ~store[d].fresh
      BY <2>2 DEF Unread, Waiting, Collect, At
    <3> QED
      BY <2>2, <2>13, <2>19, <2>21, <3>1 DEF Unread
  <2>24. \A e \in Device, k \in Key : Advances(group', store[e].heads[k], store'[e].heads[k], k)
    BY <2>1, <2>20, <2>21 DEF Advances
  <2>25. IInv'
    BY <2>1, <2>2, <2>10, <2>13, <2>14, <2>17, <2>21, <2>22, <2>23 DEF IInv, Q
  <2> QED
    BY <2>24, <2>25 DEF Kept
<1> QED
  <2>1. CASE store[d].conflicts # {}
    BY <1>1, <2>1 DEF Collect
  <2>2. CASE store[d].conflicts = {}
    <3>1. store' = [store EXCEPT ![d] = Acknowledge(@, present)]
      BY <2>2 DEF Collect
    <3>2. PICK taken \in {<<Eligible(d, r), r.later>> : r \in Readings(d)} :
            /\ over' = [over EXCEPT ![d] = taken[2]]
            /\ IF taken[1] = {} THEN Go(d, "idle", {}, {}) ELSE Go(d, "append", {}, taken[1])
      BY <2>2 DEF Collect
    <3>3. PICK r \in Readings(d) : taken = <<Eligible(d, r), r.later>>
      BY <3>2
    <3>4. PICK out : out = Eligible(d, r)
      OBVIOUS
    <3>5. taken[1] = out /\ taken[2] = r.later
      BY <3>3, <3>4
    <3>6. over' = [over EXCEPT ![d] = r.later] /\ (Go(d, "idle", {}, {}) \/ Go(d, "append", {}, out))
      BY <3>2, <3>5
    <3> QED
      BY <1>2, <3>1, <3>4, <3>6
  <2> QED
    BY <2>1, <2>2


----------------------------------------------------------------------------
\* The migration.

\* One seed for each different record.
LEMMA SeedsTyped ==
    ASSUME NEW snapshot \in Snapshots
    PROVE  /\ \E n \in Nat : Seeds(snapshot) \in [1..n -> Key \X Value]
           /\ \A x, y \in DOMAIN Seeds(snapshot) :
                  Seeds(snapshot)[x] = Seeds(snapshot)[y] => x = y
           /\ \A d \in Device, k \in Key : snapshot[d][k] \in Value =>
                  \E i \in DOMAIN Seeds(snapshot) : Seeds(snapshot)[i] = <<k, snapshot[d][k]>>
<1> DEFINE S == {x \in Key \X Value : \E d \in Device : snapshot[d][x[1]] = x[2]}
           c == Cardinality(S)
           s == Seeds(snapshot)
<1>1. IsFiniteSet(Key)
  <2>1. Len(KeySeq) \in Nat /\ DOMAIN KeySeq = 1..Len(KeySeq)
    BY SyncDevicesAssumption
  <2>2. IsFiniteSet(1..Len(KeySeq))
    BY <2>1, FS_Interval
  <2>3. KeySeq \in Surjection(1..Len(KeySeq), Key)
    BY <2>1, SyncDevicesAssumption DEF Surjection, Key, Range
  <2> QED
    BY <2>2, <2>3, FS_Surjection
<1>2. IsFiniteSet(S)
  <2>1. IsFiniteSet(Key \X Value)
    BY <1>1, SyncDevicesAssumption, FS_Product
  <2>2. S \in SUBSET (Key \X Value)
    OBVIOUS
  <2> QED
    BY <2>1, <2>2, FS_Subset
<1>3. c \in Nat /\ ExistsBijection(1..c, S)
  BY <1>2, FS_CardinalityType
<1>4. s \in [1..c -> S] /\ IsInjective(s)
  <2>1. s = CHOOSE f \in [1..c -> S] : IsInjective(f)
    BY DEF Seeds, SetToSeq
  <2>2. \E f \in [1..c -> S] : IsInjective(f)
    BY <1>3 DEF ExistsBijection, Bijection, Injection
  <2> QED
    BY <2>1, <2>2
<1>5. s \in Surjection(1..c, S)
  <2>1. IsFiniteSet(1..c) /\ Cardinality(1..c) = c
    BY <1>3, FS_Interval
  <2>2. s \in Injection(1..c, S)
    BY <1>4 DEF Injection
  <2> QED
    BY <1>2, <2>1, <2>2, FS_Injection
<1> HIDE DEF s, c
<1>6. ASSUME NEW d \in Device, NEW k \in Key, snapshot[d][k] \in Value
      PROVE  \E i \in DOMAIN s : s[i] = <<k, snapshot[d][k]>>
  <2>1. <<k, snapshot[d][k]>> \in S
    BY <1>6
  <2> QED
    BY <1>4, <1>5, <2>1 DEF Surjection
<1> QED
  BY <1>3, <1>4, <1>6 DEF IsInjective, s


\* What one seed is in the history: the first version of its key.
First(G, i, k, v) ==
    /\ G[i].by = Migration /\ G[i].notBefore = 0 /\ G[i].undoes = 0
    /\ DOMAIN G[i].content = {k} /\ G[i].content[k] = v
    /\ DOMAIN G[i].base = {k} /\ G[i].base[k] = {}
    /\ DOMAIN G[i].lineage = {k} /\ G[i].past = {}

Migrated(G, s) ==
    /\ GroupsOK(G) /\ DOMAIN G = DOMAIN s
    /\ \A i \in DOMAIN s : First(G, i, s[i][1], s[i][2])

LEMMA SeedGroup ==
    ASSUME NEW k \in Key, NEW v \in Value
    PROVE  LET r == Group(Migration, [j \in {k} |-> v], [j \in {k} |-> {}], 0, 0)
           IN  r \in GroupRec /\ First([i \in {1} |-> r], 1, k, v)
<1> DEFINE lin == [j \in {k} |-> {}]
           r == Group(Migration, [j \in {k} |-> v], [j \in {k} |-> {}], 0, 0)
<1>1. /\ r.by = Migration /\ r.content = [j \in {k} |-> v] /\ r.base = lin
      /\ r.notBefore = 0 /\ r.undoes = 0 /\ DOMAIN r.lineage = {k}
  BY DEF Group
<1>2. r.past = {} /\ r.lineage = lin
  BY DEF Group
<1>3. r = [by |-> r.by, content |-> r.content, base |-> r.base, notBefore |-> r.notBefore,
           undoes |-> r.undoes, lineage |-> r.lineage, past |-> r.past]
  BY DEF Group
<1>4. lin \in Partial(SUBSET Nat) /\ [j \in {k} |-> v] \in Partial(Value \cup {Gone})
  <2>1. lin \in [{k} -> SUBSET Nat] /\ [j \in {k} |-> v] \in [{k} -> Value \cup {Gone}]
    OBVIOUS
  <2>2. {k} \in SUBSET Key
    OBVIOUS
  <2> QED
    BY <2>1, <2>2 DEF Partial
<1> HIDE DEF r
<1>5. r \in GroupRec
  <2> PICK f : f = lin
    OBVIOUS
  <2> PICK c : c = [j \in {k} |-> v]
    OBVIOUS
  <2>1. r = [by |-> Migration, content |-> c, base |-> f, notBefore |-> 0, undoes |-> 0,
             lineage |-> f, past |-> {}]
    BY <1>1, <1>2, <1>3
  <2>2. f \in Partial(SUBSET Nat) /\ c \in Partial(Value \cup {Gone})
    BY <1>4
  <2> QED
    BY ONLY <2>1, <2>2 DEF GroupRec
<1>6. [i \in {1} |-> r][1] = r
  OBVIOUS
<1>7. First([i \in {1} |-> r], 1, k, v)
  BY <1>1, <1>2, <1>6 DEF First
<1> QED
  BY <1>5, <1>7 DEF r

LEMMA MigrationGroups ==
    ASSUME NEW n \in Nat, NEW s \in [1..n -> Key \X Value],
           group = [i \in DOMAIN s |->
                LET k == s[i][1]
                IN  Group(Migration, [j \in {k} |-> s[i][2]], [j \in {k} |-> {}], 0, 0)]
    PROVE  Migrated(group, s)
<1>1. DOMAIN group = 1..n /\ DOMAIN s = 1..n
  OBVIOUS
<1>2. ASSUME NEW i \in 1..n
      PROVE  group[i] \in GroupRec /\ First(group, i, s[i][1], s[i][2])
  <2>1. PICK k \in Key, v \in Value : s[i] = <<k, v>>
    OBVIOUS
  <2>2. PICK r : r = Group(Migration, [j \in {k} |-> v], [j \in {k} |-> {}], 0, 0)
    OBVIOUS
  <2>3. group[i] = r
    <3>1. group[i] = LET x == s[i][1]
                     IN  Group(Migration, [j \in {x} |-> s[i][2]], [j \in {x} |-> {}], 0, 0)
      BY <1>1
    <3>2. s[i][1] = k /\ s[i][2] = v
      BY <2>1
    <3> QED
      BY ONLY <3>1, <3>2, <2>2
  <2>4. r \in GroupRec /\ First([x \in {1} |-> r], 1, k, v)
    BY <2>2, SeedGroup
  <2>5. [x \in {1} |-> r][1] = r
    OBVIOUS
  <2>6. First(group, i, k, v)
    BY <2>3, <2>4, <2>5 DEF First
  <2> QED
    BY <2>1, <2>3, <2>4, <2>6
<1>3. group \in Seq(GroupRec)
  <2>1. group \in [1..n -> GroupRec]
    <3>1. \A i \in 1..n : group[i] \in GroupRec
      BY <1>2
    <3>2. group = [i \in 1..n |-> group[i]]
      BY <1>1
    <3> QED
      BY <3>1, <3>2
  <2>2. n \in Nat
    OBVIOUS
  <2> QED
    BY ONLY <2>1, <2>2
<1>4. ASSUME NEW g \in DOMAIN group PROVE Rooted(group, g)
  <2>1. PICK k : /\ DOMAIN group[g].content = {k} /\ DOMAIN group[g].base = {k}
                 /\ group[g].base[k] = {} /\ DOMAIN group[g].lineage = {k}
                 /\ group[g].past = {}
    BY <1>1, <1>2 DEF First
  <2> QED
    BY ONLY <2>1 DEF Rooted, KeysIn
<1> QED
  BY <1>1, <1>2, <1>3, <1>4 DEF Migrated, GroupsOK

LEMMA DatabaseGood ==
    ASSUME NEW n \in Nat, NEW s \in [1..n -> Key \X Value], Migrated(group, s),
           \A x, y \in DOMAIN s : s[x] = s[y] => x = y,
           NEW rows \in [Key -> Row],
           \A k \in Key : rows[k] \in Value => \E i \in DOMAIN s : s[i] = <<k, rows[k]>>
    PROVE  /\ DbGood(group, Database(s, rows))
           /\ Database(s, rows).known = DOMAIN s /\ Database(s, rows).acked = {}
<1> DEFINE heads == [k \in Key |-> {i \in DOMAIN s : s[i] = <<k, rows[k]>>}]
           db == Database(s, rows)
<1>1. /\ db.rows = rows /\ db.known = 1..n /\ db.heads = heads /\ db.acked = {}
      /\ db.conflicts = {} /\ db.enabled = TRUE /\ DOMAIN s = 1..n
  BY DEF Database
<1>2. db \in DbRec
  <2>1. heads \in [Key -> SUBSET Nat] /\ 1..n \in SUBSET Nat
    OBVIOUS
  <2> QED
    BY <2>1 DEF Database, DbRec
<1>3. DOMAIN group = 1..n /\ \A i \in 1..n : First(group, i, s[i][1], s[i][2])
  BY DEF Migrated
<1> HIDE DEF db
<1>4. ASSUME NEW k \in Key
      PROVE  db.heads[k] \subseteq VersionsIn(group, db.known, k) /\ Rowed(group, db, k)
  <2>1. PICK v \in Row : v = rows[k]
    OBVIOUS
  <2>2. PICK H : H = db.heads[k]
    OBVIOUS
  <2>3. H = {i \in 1..n : s[i] = <<k, v>>}
    BY <1>1, <2>1, <2>2
  <2>4. \A i \in H : i \in 1..n /\ First(group, i, k, v) /\ v \in Value
    BY <1>3, <2>3
  <2>5. H \subseteq VersionsIn(group, db.known, k)
    BY <1>1, <2>4 DEF VersionsIn, AcceptedIn, KeysIn, First
  <2>6. \A i, j \in H : i = j
    BY <1>1, <2>3
  <2>7. CASE H = {}
    <3>1. v \notin Value
      BY <1>1, <2>1, <2>3, <2>7
    <3> QED
      BY <1>1, <2>1, <2>2, <2>7, <3>1 DEF Rowed, Row
  <2>8. CASE H # {}
    <3>1. PICK i \in H : H = {i}
      BY <2>6, <2>8
    <3>2. group[i].content[k] = v /\ v # Running /\ i \in db.known
      BY <1>1, <2>4, <3>1, SyncDevicesAssumption DEF First
    <3> QED
      BY <1>1, <2>1, <2>2, <2>5, <3>1, <3>2 DEF Rowed
  <2> QED
    BY <2>2, <2>5, <2>7, <2>8
<1>5. DbGood(group, db)
  BY <1>1, <1>2, <1>3, <1>4 DEF DbGood, HeadsIn, ConflictsIn
<1> QED
  BY <1>1, <1>5 DEF db


LEMMA InitKeeps ==
    ASSUME Init
    PROVE  /\ IInv
           /\ log = Mine(group, Migration)
           /\ \A d \in Device : /\ Mine(group, d) = {}
                                /\ store[d].known = log /\ store[d].acked = {}
<1>1. PICK snapshot \in Snapshots :
        /\ group = [i \in DOMAIN Seeds(snapshot) |->
                LET k == Seeds(snapshot)[i][1]
                IN  Group(Migration, [j \in {k} |-> Seeds(snapshot)[i][2]], [j \in {k} |-> {}], 0, 0)]
        /\ log = DOMAIN Seeds(snapshot)
        /\ store = [d \in Device |-> Reconcile(Database(Seeds(snapshot), snapshot[d]))]
  BY DEF Init
<1>2. PICK n \in Nat : Seeds(snapshot) \in [1..n -> Key \X Value]
  BY SeedsTyped
<1>3. PICK s \in [1..n -> Key \X Value] : s = Seeds(snapshot)
  BY <1>2
<1>4. Migrated(group, s)
  BY <1>1, <1>3, MigrationGroups
<1>5. /\ log = DOMAIN s /\ DOMAIN s = 1..n /\ DOMAIN group = 1..n
      /\ \A d \in Device : store[d] = Reconcile(Database(s, snapshot[d]))
      /\ DOMAIN store = Device
      /\ \A g \in 1..n : First(group, g, s[g][1], s[g][2])
      /\ GroupsOK(group)
  BY <1>1, <1>3, <1>4 DEF Migrated
<1>6. /\ transit = {} /\ over = [d \in Device |-> 0] /\ undo = [d \in Device |-> None]
      /\ job = [d \in Device |-> NoJob]
  BY DEF Init
<1>7. \A d \in Device : Mine(group, d) = {}
  BY <1>5, SyncDevicesAssumption DEF Mine, First
<1>8. ASSUME NEW d \in Device
      PROVE  /\ store[d] \in DbRec /\ DeviceOK(group, log, store[d], d)
             /\ store[d].known = log /\ store[d].acked = {} /\ ~store[d].fresh
  <2>1. PICK rows \in [Key -> Row] : rows = snapshot[d]
    BY SyncDevicesAssumption
  <2>2. /\ \A x, y \in DOMAIN s : s[x] = s[y] => x = y
        /\ \A k \in Key : rows[k] \in Value => \E i \in DOMAIN s : s[i] = <<k, rows[k]>>
    <3>1. \A x, y \in DOMAIN s : s[x] = s[y] => x = y
      BY ONLY <1>3, SeedsTyped, snapshot \in Snapshots
    <3>2. ASSUME NEW k \in Key, rows[k] \in Value
          PROVE  \E i \in DOMAIN s : s[i] = <<k, rows[k]>>
      BY ONLY <1>3, <2>1, <3>2, SeedsTyped, snapshot \in Snapshots, d \in Device
    <3> QED
      BY <3>1, <3>2
  <2>3. PICK db : db = Database(s, rows)
    OBVIOUS
  <2>4. DbGood(group, db) /\ db.known = DOMAIN s /\ db.acked = {}
    BY <1>4, <2>2, <2>3, DatabaseGood
  <2>5. PICK to : to = Reconcile(db)
    OBVIOUS
  <2>6. Progress(group, db, to) /\ (\A k \in Key : Sighted(group, to, k)) /\ ~to.fresh
    BY <1>5, <2>4, <2>5, ReconcileKeeps
  <2>7. store[d] = to
    BY <1>5, <2>1, <2>3, <2>5
  <2>8. DbGood(group, to) /\ to.acked = {} /\ to.known = log
    BY <1>5, <2>4, <2>6 DEF Progress
  <2> QED
    BY <1>7, <2>6, <2>7, <2>8 DEF DeviceOK, DbGood
<1>9. store \in [Device -> DbRec]
  BY <1>1, <1>8
<1>10. /\ \A d \in Device : job[d] = NoJob /\ undo[d] = None
       /\ job \in [Device -> JobRec] /\ undo \in [Device -> {None} \cup UndoRec]
       /\ over \in [Device -> Nat]
  BY <1>6, NoJobOK
<1>11. \A d \in Device : /\ JobOK(group, log, job[d], d) /\ UndoOK(group, undo[d], d)
                         /\ Unread(store[d], job[d])
  BY <1>10, NoJobOK DEF UndoOK
<1>12. \A w \in DOMAIN group : Withdraws(group, log, Requests(transit, job), w)
  BY <1>5 DEF First, Withdraws
<1>13. DeadlinesOK(group)
  BY <1>5 DEF First, DeadlinesOK
<1>14. log \subseteq DOMAIN group /\ transit \subseteq SUBSET DOMAIN group
  BY <1>5, <1>6
<1>15. IInv
  BY <1>5, <1>8, <1>9, <1>10, <1>11, <1>12, <1>13, <1>14 DEF IInv
<1>16. log = Mine(group, Migration)
  BY <1>5 DEF First, Mine
<1> QED
  BY <1>7, <1>8, <1>15, <1>16

LEMMA CommandKeeps ==
    ASSUME IInv, NEW d \in Device, Command(d)
    PROVE  Kept
BY FinishKeeps, EditKeeps, UndoKeeps, ReviewKeeps, DisableKeeps DEF Command

LEMMA JobStepKeeps ==
    ASSUME IInv, NEW d \in Device, JobStep(d)
    PROVE  Kept
BY ReadLogKeeps, ReconcileReadKeeps, CollectKeeps, AppendLogKeeps, AppendUnansweredKeeps,
   ReadBackKeeps, VerifyKeeps, ConfirmKeeps, BeginResolveKeeps, ResolveKeeps, FailJobKeeps
   DEF JobStep

LEMMA NextKeeps ==
    ASSUME IInv, Next
    PROVE  Kept
BY CommandKeeps, JobStepKeeps, CrashKeeps, LandKeeps DEF Next

LEMMA StutterKeeps ==
    ASSUME IInv, UNCHANGED vars
    PROVE  Kept
<1>1. UNCHANGED <<group, log, transit, store, over, undo, job>>
  BY DEF vars
<1>2. IInv'
  BY <1>1 DEF IInv, DeviceOK, JobOK, UndoOK, Unread, Withdraws, Requests, DeadlinesOK, GroupsOK
<1> QED
  BY <1>1, <1>2 DEF Kept, Advances

LEMMA InductiveInvariant == Spec => []IInv
<1>1. Init => IInv
  BY InitKeeps
<1>2. IInv /\ [Next]_vars => IInv'
  BY NextKeeps, StutterKeeps DEF Kept
<1> QED
  BY <1>1, <1>2, PTL DEF Spec


----------------------------------------------------------------------------
\* The properties.

\* What a device shows of a record is what the head of the record says: commands
\* (captured_mutation), resolutions and reconciliation keep the rows and the heads
\* of the history together.
THEOREM RowsFollowHeads == Spec => []RowsMatchHeads
<1>1. IInv => RowsMatchHeads
  BY DEF IInv, DeviceOK, DbGood, HeadsIn, Rowed, RowsMatchHeads
<1> QED
  BY <1>1, InductiveInvariant, PTL

\* No version is lost from sight, although what a job reads is stored in one
\* transaction and reconciled in another (_stage and run_once), which may never come:
\* what reconciliation does not show, an open conflict names, unless the device waits
\* for ancestors or nobody has reconciled since; then no job publishes or confirms.
THEOREM VersionsStayInSight == Spec => []EveryVersionInSight
<1>1. IInv => EveryVersionInSight
  <2> SUFFICES ASSUME IInv, NEW d \in Device, NEW k \in Key, NEW g \in Tips(store[d].known, k)
               PROVE  \/ store[d].heads[k] = {g}
                      \/ \E c \in store[d].conflicts : <<g, k>> \in c.changes
                      \/ store[d].known # Accepted(store[d].known)
                      \/ /\ store[d].fresh
                         /\ job[d].at \notin {"collect", "append", "appended", "confirm", "resolve"}
    BY DEF EveryVersionInSight
  <2>1. g \in TipsIn(group, store[d].known, k)
    BY Current
  <2>2. CASE store[d].fresh
    BY <2>2 DEF IInv, Unread, Waiting
  <2>3. CASE ~store[d].fresh
    <3>1. Sighted(group, store[d], k)
      BY <2>3 DEF IInv, DeviceOK
    <3>2. store[d].heads[k] = {g} \/ Named(store[d], g, k) \/ Waits(group, store[d])
      BY <2>1, <3>1 DEF Sighted
    <3> QED
      BY <3>2, Current DEF Named, Waits
  <2> QED
    BY <2>2, <2>3
<1> QED
  BY <1>1, InductiveInvariant, PTL

\* A Finish work that Undo took back before a request had it never reaches the Sheet
\* without its withdrawal, whichever request is executed late or never and whenever the
\* clock that publish_once reads passes a deadline. What undo_last_work_action compares
\* with the clock is no deadline of a group, and nothing here depends on it.
THEOREM WithdrawnChangesPair == Spec => []WithdrawnTogether
<1>1. IInv => WithdrawnTogether
  <2> SUFFICES ASSUME IInv, NEW w \in DOMAIN group, group[w].undoes \in log
               PROVE  w \in log
    BY DEF WithdrawnTogether
  <2>1. Withdraws(group, log, Requests(transit, job), w)
    BY DEF IInv
  <2>2. group[w].undoes \in 1..Len(group)
    BY GroupTyped DEF IInv
  <2>3. group[w].undoes # 0
    <3>1. Len(group) \in Nat
      BY DEF IInv, GroupsOK
    <3> QED
      BY <2>2, <3>1
  <2> QED
    BY <2>1, <2>3 DEF Withdraws
<1> QED
  BY <1>1, InductiveInvariant, PTL

\* A device that reconciled what it read, waits for nothing and has no conflict shows
\* the only tips.
LEMMA HeadsAreTips ==
    ASSUME IInv, NEW d \in Device, ~Blocked(store[d]), ~store[d].fresh, NEW k \in Key
    PROVE  store[d].heads[k] = Tips(store[d].known, k)
<1>1. PICK db : db = store[d]
  OBVIOUS
<1>2. /\ DbGood(group, db) /\ Sighted(group, db, k) /\ GroupsOK(group)
  BY <1>1 DEF IInv, DeviceOK
<1>3. db.conflicts = {} /\ ~Waits(group, db)
  BY <1>1, Current DEF Blocked, Waits
<1>4. PICK K \in SUBSET DOMAIN group : K = db.known
  BY <1>2 DEF DbGood
<1>5. PICK T : T = TipsIn(group, K, k)
  OBVIOUS
<1>6. \A g \in T : db.heads[k] = {g}
  BY <1>2, <1>3, <1>4, <1>5 DEF Sighted, Named
<1>7. CASE T = {}
  <2>1. \A h \in VersionsIn(group, K, k) : FALSE
    BY <1>2, <1>5, <1>7, TipAbove
  <2>2. db.heads[k] \subseteq VersionsIn(group, K, k)
    BY <1>2, <1>4 DEF DbGood, HeadsIn
  <2>3. db.heads[k] = T
    BY <1>7, <2>1, <2>2
  <2> QED
    BY <1>1, <1>4, <1>5, <2>3, Current
<1>8. CASE T # {}
  <2>1. db.heads[k] = T
    BY <1>6, <1>8
  <2> QED
    BY <1>1, <1>4, <1>5, <2>1, Current
<1> QED
  BY <1>7, <1>8

\* A job that reports "synced" left nothing of its device unpublished, and the
\* device shows the only current version of every record it knows.
THEOREM SyncedIsPublished == Spec => []SyncedMeansPublished
<1>1. IInv => SyncedMeansPublished
  <2> SUFFICES ASSUME IInv, NEW d \in Device, ~store[d].fresh, Outcome(d) = "synced"
               PROVE  /\ Authored(d) \subseteq log
                      /\ \A k \in Key : store[d].heads[k] = Tips(store[d].known, k)
    BY DEF SyncedMeansPublished
  <2>1. store[d].conflicts = {} /\ Pending(d) = {} /\ ~Blocked(store[d])
    BY DEF Outcome, Blocked
  <2>2. Mine(group, d) \subseteq store[d].known /\ store[d].acked \subseteq log
    BY DEF IInv, DeviceOK
  <2>3. Authored(d) \subseteq log
    BY <2>1, <2>2 DEF Pending, Authored, Mine
  <2> QED
    BY <2>1, <2>3, HeadsAreTips
<1> QED
  BY <1>1, InductiveInvariant, PTL

\* Devices that know the same history and have nothing left to decide show the
\* same, in whatever order they read it.
THEOREM SameHistoryAgrees == Spec => []Agreement
<1>1. IInv => Agreement
  <2> SUFFICES ASSUME IInv, NEW d \in Device, NEW e \in Device,
                      store[d].known = store[e].known, Settled(d), Settled(e)
               PROVE  store[d].heads = store[e].heads
    BY DEF Agreement
  <2>1. ~Blocked(store[d]) /\ ~Blocked(store[e]) /\ ~store[d].fresh /\ ~store[e].fresh
    <3>1. ASSUME NEW x \in Device, Settled(x) PROVE ~Blocked(store[x]) /\ ~store[x].fresh
      <4>1. ~Blocked(store[x]) /\ Reconcile(store[x]) = store[x]
        BY <3>1 DEF Settled
      <4> QED
        BY <4>1, ReconcileSettles
    <3> QED
      BY <3>1
  <2>2. \A k \in Key : store[d].heads[k] = store[e].heads[k]
    BY <2>1, HeadsAreTips
  <2>3. store[d] \in DbRec /\ store[e] \in DbRec
    BY DEF IInv
  <2>4. store[d].heads \in [Key -> SUBSET Nat] /\ store[e].heads \in [Key -> SUBSET Nat]
    BY <2>3 DEF DbRec
  <2> QED
    BY <2>2, <2>4
<1> QED
  BY <1>1, InductiveInvariant, PTL

\* A version is only ever replaced by one that descends from it: no edit of another
\* device silently overwrites a local one.
THEOREM NothingOverwritten == Spec => NoSilentOverwrite
<1>1. ASSUME IInv, [Next]_vars
      PROVE  [\A d \in Device, k \in Key :
                store'[d].heads[k] = store[d].heads[k]
                \/ \E g \in DOMAIN group' : /\ store'[d].heads[k] = {g}
                                           /\ store[d].heads[k] \subseteq group'[g].lineage[k]]_vars
  <2>1. Kept
    BY <1>1, NextKeeps, StutterKeeps
  <2> QED
    BY <2>1 DEF Kept, Advances
<1> QED
  BY <1>1, InductiveInvariant, PTL DEF Spec, NoSilentOverwrite


\* Commands and jobs of a device leave the databases of the others alone.
LEMMA OthersAlone ==
    ASSUME IInv, NEW d \in Device, Command(d) \/ JobStep(d) \/ Crash(d), NEW e \in Device, e # d
    PROVE  store'[e] = store[e]
<1>1. store' = store \/ \E to : store' = [store EXCEPT ![d] = to]
  <2>1. ASSUME NEW new, NEW t, NEW u, Capture(d, new, t, u)
        PROVE  \E to : store' = [store EXCEPT ![d] = to]
    BY <2>1 DEF Capture
  <2>2. CASE Command(d)
    <3>1. ASSUME NEW k \in Key, NEW v, Finish(d, k, v) \/ Edit(d, k, v)
          PROVE  \E to : store' = [store EXCEPT ![d] = to]
      <4>1. \E new, t, u : Capture(d, new, t, u)
        BY <3>1 DEF Finish, Edit
      <4> QED
        BY <2>1, <4>1
    <3>2. CASE Undo(d)
      <4>1. \E new, t, u : Capture(d, new, t, u)
        BY <3>2 DEF Undo
      <4> QED
        BY <2>1, <4>1
    <3>3. CASE Review(d)
      BY <3>3 DEF Review
    <3>4. CASE Disable(d)
      BY <3>4 DEF Disable
    <3> QED
      BY <2>2, <3>1, <3>2, <3>3, <3>4 DEF Command
  <2>3. CASE JobStep(d)
    <3>1. ReadLog(d) \/ ReadBack(d) => \E to : store' = [store EXCEPT ![d] = to]
      BY DEF ReadLog, ReadBack
    <3>2. Collect(d) => store' = store \/ \E to : store' = [store EXCEPT ![d] = to]
      BY DEF Collect
    <3>3. ReconcileRead(d) \/ Verify(d) \/ BeginResolve(d) => \E to : store' = [store EXCEPT ![d] = to]
      BY DEF ReconcileRead, Verify, BeginResolve
    <3>4. Confirm(d) \/ Resolve(d) => \E to : store' = [store EXCEPT ![d] = to]
      BY DEF Confirm, Resolve
    <3>5. AppendLog(d) \/ AppendUnanswered(d) \/ FailJob(d) => store' = store
      BY DEF AppendLog, AppendUnanswered, FailJob
    <3> QED
      BY <2>3, <3>1, <3>2, <3>3, <3>4, <3>5 DEF JobStep
  <2>4. CASE Crash(d)
    BY <2>4 DEF Crash
  <2> QED
    BY <2>2, <2>3, <2>4
<1>2. store \in [Device -> DbRec]
  BY DEF IInv
<1> QED
  BY <1>1, <1>2

\* What a device whose connection is disabled still does changes no table.
LEMMA DisabledAlone ==
    ASSUME NEW d \in Device, Command(d) \/ JobStep(d) \/ Crash(d), ~store[d].enabled
    PROVE  store'[d] = store[d]
<1>1. ~Bound(d)
  BY DEF Bound
<1>2. CASE Command(d)
  <2>1. \A new, t, u : ~Capture(d, new, t, u)
    BY <1>1 DEF Capture
  <2>2. ~Undo(d) /\ (\A k, v : ~Finish(d, k, v) /\ ~Edit(d, k, v))
    BY <2>1 DEF Undo, Finish, Edit
  <2>3. ~Review(d) /\ ~Disable(d)
    BY <1>1 DEF Review, Disable
  <2> QED
    BY <1>2, <2>2, <2>3 DEF Command
<1>3. CASE JobStep(d)
  <2>1. ~ReadLog(d) /\ ~ReconcileRead(d) /\ ~Collect(d) /\ ~ReadBack(d)
    BY <1>1 DEF ReadLog, ReconcileRead, Collect, ReadBack
  <2>2. ~Verify(d) /\ ~Confirm(d) /\ ~BeginResolve(d) /\ ~Resolve(d)
    BY <1>1 DEF Verify, Confirm, BeginResolve, Resolve
  <2> QED
    BY <1>3, <2>1, <2>2 DEF JobStep, AppendLog, AppendUnanswered, FailJob
<1>4. CASE Crash(d)
  BY <1>4 DEF Crash
<1> QED
  BY <1>2, <1>3, <1>4

\* A job that outlives its connection stores nothing: every transaction checks
\* the binding again.
THEOREM ObsoleteStoresNothing == Spec => ObsoleteJobStoresNothing
<1>1. ASSUME IInv, [Next]_vars
      PROVE  [\A d \in Device : ~store[d].enabled =>
                store'[d] = [store[d] EXCEPT !.rows = store'[d].rows]]_vars
  <2> SUFFICES ASSUME NEW d \in Device, ~store[d].enabled
               PROVE  store'[d] = [store[d] EXCEPT !.rows = store'[d].rows]
    OBVIOUS
  <2>1. store'[d] = store[d]
    <3>1. CASE \E e \in Device : Command(e) \/ JobStep(e) \/ Crash(e)
      BY <1>1, <3>1, OthersAlone, DisabledAlone
    <3>2. CASE Land \/ UNCHANGED vars
      BY <3>2 DEF Land, vars
    <3> QED
      BY <1>1, <3>1, <3>2 DEF Next
  <2>2. store[d] \in DbRec
    BY <1>1 DEF IInv
  <2> QED
    BY <2>1, <2>2 DEF DbRec
<1> QED
  BY <1>1, InductiveInvariant, PTL DEF Spec, ObsoleteJobStoresNothing


----------------------------------------------------------------------------
\* The devices implement the abstract log, step by step.

LEMMA LogInit ==
    ASSUME Init
    PROVE  Log!Init
<1>1. /\ IInv /\ log = Mine(group, Migration)
      /\ \A d \in Device : Mine(group, d) = {} /\ store[d].known = log /\ store[d].acked = {}
  BY InitKeeps
<1>2. log \subseteq Nat
  BY <1>1, GroupTyped DEF IInv
<1>3. \A x \in Device \cup {Migration} : Authored(x) = IF x = Migration THEN log ELSE {}
  BY <1>1, SyncDevicesAssumption DEF Authored, Mine
<1> QED
  BY <1>1, <1>2, <1>3 DEF Log!Init, Log!Author

\* A device writes one group.
LEMMA LogWrite ==
    ASSUME IInv, NEW d \in Device, NEW n, NEW t, NEW u, Wrote(d, n, t, u), log' = log
    PROVE  Log!Write(d)
<1>1. /\ n \in Nat /\ n \notin DOMAIN group
      /\ \A e \in Device : store'[e].acked = store[e].acked /\
            store'[e].known = IF e = d THEN store[e].known \cup {n} ELSE store[e].known
  BY DEF Wrote
<1>2. \A x : Authored(x)' = IF x = d THEN Authored(x) \cup {n} ELSE Authored(x)
  BY WroteMine DEF Authored, Mine
<1> DEFINE A == [x \in Device \cup {Migration} |-> Authored(x)]
           B == [x \in Device \cup {Migration} |-> Authored(x)']
<1>3. B = [A EXCEPT ![d] = @ \cup {n}]
  BY <1>2
<1>4. n \in B[d] \ Log!Written
  <2>1. \A x \in Device \cup {Migration} : n \notin Authored(x)
    BY <1>1 DEF Authored
  <2> QED
    BY <1>2, <2>1 DEF Log!Written, Log!Author
<1>5. [e \in Device |-> store'[e].known] = [[e \in Device |-> store[e].known] EXCEPT ![d] = @ \cup {n}]
  BY <1>1
<1>6. [e \in Device |-> store'[e].acked] = [e \in Device |-> store[e].acked]
  BY <1>1
<1> QED
  BY <1>1, <1>3, <1>4, <1>5, <1>6 DEF Log!Write

\* A device stores what it read and settles what the Sheet has of its own.
LEMMA LogLearn ==
    ASSUME NEW d \in Device, NEW S \in SUBSET log, NEW A \in SUBSET (log \cap Mine(group, d)),
           group' = group, log' = log,
           \A e \in Device :
              /\ store'[e].known = IF e = d THEN store[e].known \cup S ELSE store[e].known
              /\ store'[e].acked = IF e = d THEN store[e].acked \cup A ELSE store[e].acked
    PROVE  Log!Learn(d)
<1>1. \A x : Authored(x)' = Authored(x)
  BY DEF Authored
<1>2. [x \in Device \cup {Migration} |-> Authored(x)'] = [x \in Device \cup {Migration} |-> Authored(x)]
  BY <1>1
<1>3. [e \in Device |-> store'[e].known] = [[e \in Device |-> store[e].known] EXCEPT ![d] = @ \cup S]
  OBVIOUS
<1>4. [e \in Device |-> store'[e].acked] = [[e \in Device |-> store[e].acked] EXCEPT ![d] = @ \cup A]
  OBVIOUS
<1>5. A \in SUBSET (log \cap [x \in Device \cup {Migration} |-> Authored(x)][d])
  BY DEF Authored, Mine
<1> QED
  BY <1>2, <1>3, <1>4, <1>5 DEF Log!Learn

\* A request reaches the Sheet, or nothing of the log changes.
LEMMA LogPublish ==
    ASSUME group' = group, store' = store, NEW S \in SUBSET Log!Written, log' = log \cup S
    PROVE  Log!Publish
BY DEF Log!Publish, Authored

LEMMA LogStutter ==
    ASSUME group' = group, log' = log,
           \A e \in Device : store'[e].known = store[e].known /\ store'[e].acked = store[e].acked
    PROVE  UNCHANGED Log!vars
<1>1. [e \in Device |-> store'[e].known] = [e \in Device |-> store[e].known]
  OBVIOUS
<1>2. [e \in Device |-> store'[e].acked] = [e \in Device |-> store[e].acked]
  OBVIOUS
<1> QED
  BY <1>1, <1>2 DEF Log!vars, Authored


LEMMA WritesOne ==
    ASSUME IInv, NEW d \in Device,
           \/ \E k \in Key, v \in Value : Finish(d, k, v)
           \/ \E k \in Key, v \in Value \cup {Gone} : Edit(d, k, v)
           \/ Undo(d) \/ Resolve(d)
    PROVE  Log!Write(d)
<1>1. log' = log /\ \E n, t, u : Wrote(d, n, t, u)
  <2>1. ASSUME NEW k \in Key, NEW v \in Value, Finish(d, k, v)
        PROVE  log' = log /\ \E n, t, u : Wrote(d, n, t, u)
    BY <2>1, FinishWrites DEF Finish
  <2>2. ASSUME NEW k \in Key, NEW v \in Value \cup {Gone}, Edit(d, k, v)
        PROVE  log' = log /\ \E n, t, u : Wrote(d, n, t, u)
    BY <2>2, EditWrites DEF Edit
  <2>3. CASE Undo(d)
    BY <2>3, UndoWrites DEF Undo
  <2>4. CASE Resolve(d)
    <3>1. log' = log
      BY <2>4 DEF Resolve
    <3> QED
      BY <2>4, <3>1, ResolveStep
  <2> QED
    BY <2>1, <2>2, <2>3, <2>4
<1> QED
  BY <1>1, LogWrite


\* What a step of one device that writes no group is to the abstract log.
LEMMA SettlesLogged ==
    ASSUME IInv, NEW d \in Device, NEW S \in SUBSET log, NEW A \in SUBSET (log \cap Mine(group, d)),
           NEW to, Settles(d, S, A, to), store' = [store EXCEPT ![d] = to],
           group' = group, log' = log
    PROVE  Log!Next \/ UNCHANGED Log!vars
<1>1. to.known = store[d].known \cup S /\ to.acked = store[d].acked \cup A
  BY DEF Settles
<1>2. store' = [store EXCEPT ![d] = to] /\ store \in [Device -> DbRec]
  BY Typed
<1>3. \A e \in Device :
        /\ store'[e].known = IF e = d THEN store[e].known \cup S ELSE store[e].known
        /\ store'[e].acked = IF e = d THEN store[e].acked \cup A ELSE store[e].acked
  BY <1>1, <1>2
<1>4. Log!Learn(d)
  BY <1>3, LogLearn
<1> QED
  BY <1>4 DEF Log!Next

LEMMA JobStepLogged ==
    ASSUME IInv, NEW d \in Device, JobStep(d)
    PROVE  Log!Next \/ UNCHANGED Log!vars
<1>1. log \subseteq DOMAIN group /\ JobOK(group, log, job[d], d)
  BY Typed
<1> PICK none : none = {}
  OBVIOUS
<1>2. none \in SUBSET log /\ none \in SUBSET (log \cap Mine(group, d)) /\ log \in SUBSET log
  OBVIOUS
<1>3. CASE ReadLog(d) \/ ReadBack(d)
  <2>1. PICK to : to = StoreRead(store[d], log)
    OBVIOUS
  <2>2. Settles(d, log, none, to)
    BY <1>1, <2>1, StoreReadSettles
  <2>3. store' = [store EXCEPT ![d] = to] /\ group' = group /\ log' = log
    BY <1>3, <2>1 DEF ReadLog, ReadBack
  <2> QED
    BY <1>2, <2>2, <2>3, SettlesLogged
<1>4. CASE ReconcileRead(d) \/ Verify(d) \/ BeginResolve(d)
  <2>1. PICK to : to = Reconcile(store[d])
    OBVIOUS
  <2>2. Settles(d, none, none, to)
    BY <2>1, ReconcileSettles
  <2>3. store' = [store EXCEPT ![d] = to] /\ group' = group /\ log' = log
    BY <1>4, <2>1 DEF ReconcileRead, Verify, BeginResolve
  <2> QED
    BY <1>2, <2>2, <2>3, SettlesLogged
<1>5. CASE Confirm(d) \/ (Collect(d) /\ store' # store)
  <2>1. PICK A : /\ store' = [store EXCEPT ![d] = Acknowledge(@, A)]
                 /\ A \in SUBSET (log \cap Mine(group, d))
    <3>1. CASE Confirm(d)
      BY <1>1, <3>1 DEF Confirm, At, JobOK
    <3>2. CASE Collect(d) /\ store' # store
      <4>1. store' = [store EXCEPT ![d] = Acknowledge(@, Pending(d) \cap job[d].seen)]
        BY <3>2 DEF Collect
      <4>2. Pending(d) \cap job[d].seen \in SUBSET (log \cap Mine(group, d))
        BY <1>1 DEF JobOK
      <4> QED
        BY <4>1, <4>2
    <3> QED
      BY <1>5, <3>1, <3>2
  <2>2. PICK to : to = Acknowledge(store[d], A)
    OBVIOUS
  <2>3. Settles(d, none, A, to)
    BY <2>1, <2>2, AcknowledgeSettles
  <2>4. store' = [store EXCEPT ![d] = to] /\ group' = group /\ log' = log
    BY <1>5, <2>1, <2>2 DEF Confirm, Collect
  <2> QED
    BY <1>2, <2>1, <2>3, <2>4, SettlesLogged
<1>6. CASE AppendLog(d)
  <2>1. job[d].out \in SUBSET Log!Written
    <3>1. job[d].out \subseteq Authored(d)
      BY <1>1 DEF JobOK, Mine, Authored
    <3> QED
      BY <3>1 DEF Log!Written, Log!Author
  <2>2. group' = group /\ store' = store /\ log' = log \cup job[d].out
    BY <1>6 DEF AppendLog
  <2> QED
    BY <2>1, <2>2, LogPublish DEF Log!Next
<1>7. CASE AppendUnanswered(d) \/ FailJob(d) \/ (Collect(d) /\ store' = store)
  <2>1. UNCHANGED <<group, log, store>>
    BY <1>7 DEF AppendUnanswered, FailJob, Collect
  <2> QED
    BY <2>1, LogStutter
<1>8. CASE Resolve(d)
  BY <1>8, WritesOne DEF Log!Next
<1> QED
  BY <1>3, <1>4, <1>5, <1>6, <1>7, <1>8 DEF JobStep

LEMMA NextLogged ==
    ASSUME IInv, Next
    PROVE  Log!Next \/ UNCHANGED Log!vars
<1>1. ASSUME NEW d \in Device, Command(d)
      PROVE  Log!Next \/ UNCHANGED Log!vars
  <2>1. CASE \/ \E k \in Key, v \in Value : Finish(d, k, v)
             \/ \E k \in Key, v \in Value \cup {Gone} : Edit(d, k, v)
             \/ Undo(d)
    BY <2>1, WritesOne DEF Log!Next
  <2>2. CASE Review(d)
    <3>1. PICK to : to = Reconcile(store[d])
      OBVIOUS
    <3>2. PICK none : none = {}
      OBVIOUS
    <3>3. none \in SUBSET log /\ none \in SUBSET (log \cap Mine(group, d))
      BY <3>2
    <3>4. Settles(d, none, none, to)
      BY <3>1, <3>2, ReconcileSettles
    <3>5. store' = [store EXCEPT ![d] = to] /\ group' = group /\ log' = log
      BY <2>2, <3>1 DEF Review
    <3> QED
      BY <3>3, <3>4, <3>5, SettlesLogged
  <2>3. CASE Disable(d)
    <3>1. \A e \in Device : store'[e].known = store[e].known /\ store'[e].acked = store[e].acked
      <4>1. store \in [Device -> DbRec]
        BY Typed
      <4>2. \A e \in Device : store'[e] = store[e] \/ store'[e] = [store[e] EXCEPT !.enabled = FALSE]
        BY <2>3, <4>1 DEF Disable
      <4> QED
        BY <4>1, <4>2 DEF DbRec
    <3> QED
      BY <2>3, <3>1, LogStutter DEF Disable
  <2> QED
    BY <1>1, <2>1, <2>2, <2>3 DEF Command
<1>2. ASSUME NEW d \in Device, Crash(d)
      PROVE  UNCHANGED Log!vars
  BY <1>2, LogStutter DEF Crash
<1>3. ASSUME Land PROVE Log!Next
  <2>1. PICK S \in transit : log' = log \cup S
    BY <1>3 DEF Land
  <2>2. ASSUME NEW g \in S PROVE g \in Log!Written
    <3>1. g \in DOMAIN group /\ group[g].by \in Device \cup {Migration}
      BY <2>1, <2>2, GroupTyped DEF IInv
    <3>2. g \in Authored(group[g].by)
      BY <3>1 DEF Authored
    <3> QED
      BY <3>1, <3>2 DEF Log!Written, Log!Author
  <2>3. S \in SUBSET Log!Written
    BY <2>2
  <2> QED
    BY <1>3, <2>1, <2>3, LogPublish DEF Land, Log!Next
<1> QED
  BY <1>1, <1>2, <1>3, JobStepLogged DEF Next

\* The devices implement the abstract log of SyncLog: whatever requests are lost,
\* repeated or late, the Sheet only grows by what somebody wrote, a device knows
\* what it wrote and read, and settles only what the Sheet has.
THEOREM DevicesImplementLog == Spec => LogImplemented
<1>1. Init => Log!Init
  BY LogInit
<1>2. IInv /\ [Next]_vars => [Log!Next]_(Log!vars)
  <2>1. IInv /\ UNCHANGED vars => UNCHANGED Log!vars
    BY LogStutter DEF vars
  <2> QED
    BY <2>1, NextLogged
<1> QED
  BY <1>1, <1>2, InductiveInvariant, PTL DEF Spec, LogImplemented, Log!Spec


\* What the abstract log guarantees, it guarantees of the devices.
LEMMA AccountedStep ==
    ASSUME Log!Accounted, Log!Next \/ UNCHANGED Log!vars
    PROVE  Log!Accounted'
<1> DEFINE A == Device \cup {Migration}
           W == [x \in A |-> Authored(x)]
           V == [d \in Device |-> store[d].known]
           Z == [d \in Device |-> store[d].acked]
<1>1. /\ log \subseteq UNION {W[x] : x \in A}
      /\ \A d \in Device : Z[d] \subseteq log /\ V[d] \subseteq log \cup W[d]
  BY DEF Log!Accounted, Log!Written, Log!Author
<1>2. SUFFICES /\ log' \subseteq UNION {W'[x] : x \in A}
               /\ \A d \in Device : Z'[d] \subseteq log' /\ V'[d] \subseteq log' \cup W'[d]
  BY DEF Log!Accounted, Log!Written, Log!Author
<1>3. DOMAIN W = A /\ DOMAIN V = Device /\ DOMAIN Z = Device
  OBVIOUS
<1>4. CASE \E d \in Device : Log!Write(d)
  <2>1. PICK d \in Device, c \in Nat : /\ W' = [W EXCEPT ![d] = @ \cup {c}] /\ V' = [V EXCEPT ![d] = @ \cup {c}]
                               /\ log' = log /\ Z' = Z
    BY <1>4 DEF Log!Write
  <2> HIDE DEF W, V, Z
  <2> QED
    BY <1>1, <1>3, <2>1
<1>5. CASE \E d \in Device : Log!Learn(d)
  <2>1. PICK d \in Device : Log!Learn(d)
    BY <1>5
  <2>2. PICK S \in SUBSET log, T \in SUBSET (log \cap W[d]) :
          /\ V' = [V EXCEPT ![d] = @ \cup S] /\ Z' = [Z EXCEPT ![d] = @ \cup T]
          /\ log' = log /\ W' = W
    BY <2>1 DEF Log!Learn
  <2> HIDE DEF W, V, Z
  <2> QED
    BY <1>1, <1>3, <2>2
<1>6. CASE Log!Publish
  <2>1. PICK S \in SUBSET UNION {W[x] : x \in A} : log' = log \cup S /\ W' = W /\ V' = V /\ Z' = Z
    BY <1>6 DEF Log!Publish, Log!Written, Log!Author
  <2> HIDE DEF W, V, Z
  <2> QED
    BY <1>1, <2>1
<1>7. CASE UNCHANGED Log!vars
  <2>1. log' = log /\ W' = W /\ V' = V /\ Z' = Z
    BY <1>7 DEF Log!vars
  <2> HIDE DEF W, V, Z
  <2> QED
    BY <1>1, <2>1
<1> QED
  BY <1>4, <1>5, <1>6, <1>7 DEF Log!Next

\* Nothing is in the Sheet that nobody wrote, a device gives up offering a change
\* only when the Sheet has it, and what it knows it wrote itself or the Sheet has.
THEOREM LogAccounted == Log!Spec => []Log!Accounted
<1>1. Log!Init => Log!Accounted
  <2> SUFFICES ASSUME Log!Init PROVE Log!Accounted
    OBVIOUS
  <2> DEFINE A == Device \cup {Migration}
             W == [x \in A |-> Authored(x)]
             V == [d \in Device |-> store[d].known]
             Z == [d \in Device |-> store[d].acked]
  <2>1. /\ W = [x \in A |-> IF x = Migration THEN log ELSE {}]
        /\ V = [d \in Device |-> log] /\ Z = [d \in Device |-> {}]
    BY DEF Log!Init, Log!Author
  <2> HIDE DEF W, V, Z
  <2>2. log \subseteq UNION {W[x] : x \in A}
    <3>1. Migration \in A /\ W[Migration] = log
      BY <2>1
    <3> QED
      BY <3>1
  <2>3. \A d \in Device : Z[d] \subseteq log /\ V[d] \subseteq log \cup W[d]
    BY <2>1
  <2> QED
    BY <2>2, <2>3 DEF Log!Accounted, Log!Written, Log!Author, W, V, Z
<1>2. Log!Accounted /\ [Log!Next]_(Log!vars) => Log!Accounted'
  BY AccountedStep
<1> QED
  BY <1>1, <1>2, PTL DEF Log!Spec

\* The same of the devices, which implement the log.
THEOREM DevicesAccounted == Spec => []Log!Accounted
BY DevicesImplementLog, LogAccounted, PTL DEF LogImplemented
=============================================================================
