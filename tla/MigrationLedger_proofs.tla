--------------------------- MODULE MigrationLedger_proofs ---------------------------
(***************************************************************************)
(* What the migration command guarantees for any manifests, bindings,      *)
(* settings and databases, and any number of operators that run it.        *)
(***************************************************************************)
EXTENDS MigrationLedger, FiniteSetTheorems, SequenceTheorems, TLAPS

(* Sorting by distinct keys lists every element of a finite set, in order. *)
LEMMA SortedLists ==
    ASSUME NEW S, IsFiniteSet(S), NEW key \in [S -> Int],
           \A x, y \in S : key[x] = key[y] => x = y
    PROVE  /\ Cardinality(S) \in Nat
           /\ Sorted(S, key) \in [1..Cardinality(S) -> S]
           /\ \A x \in S : \E i \in 1..Cardinality(S) : Sorted(S, key)[i] = x
           /\ \A i, j \in 1..Cardinality(S) : i < j => key[Sorted(S, key)[i]] < key[Sorted(S, key)[j]]
<1>. DEFINE n == Cardinality(S)
            Below(x) == {y \in S : key[y] < key[x]}
            rank == [x \in S |-> Cardinality(Below(x))]
<1>. HIDE DEF n, Below, rank
<1>0. n \in Nat
  BY FS_CardinalityType DEF n
<1>1. \A x \in S : IsFiniteSet(Below(x)) /\ Cardinality(Below(x)) \in 0..(n - 1)
  <2>. TAKE x \in S
  <2>1. Below(x) \in SUBSET S /\ x \notin Below(x)
    BY DEF Below
  <2>2. /\ IsFiniteSet(Below(x)) /\ Cardinality(Below(x)) <= n
        /\ Cardinality(S) = Cardinality(Below(x)) => S = Below(x)
    BY <2>1, FS_Subset DEF n
  <2>3. Cardinality(Below(x)) \in Nat
    BY <2>2, FS_CardinalityType
  <2>. QED BY <1>0, <2>1, <2>2, <2>3 DEF n
<1>2. \A x, y \in S : key[x] < key[y] => rank[x] < rank[y]
  <2>. SUFFICES ASSUME NEW x \in S, NEW y \in S, key[x] < key[y]
                PROVE  Cardinality(Below(x)) < Cardinality(Below(y))
    BY DEF rank
  <2>0. key[x] \in Int /\ key[y] \in Int
    OBVIOUS
  <2>1. Below(x) \in SUBSET Below(y) /\ x \in Below(y) /\ x \notin Below(x)
    BY <2>0 DEF Below
  <2>2. /\ Cardinality(Below(x)) <= Cardinality(Below(y))
        /\ Cardinality(Below(y)) = Cardinality(Below(x)) => Below(y) = Below(x)
    BY <1>1, <2>1, FS_Subset
  <2>3. Cardinality(Below(x)) \in Int /\ Cardinality(Below(y)) \in Int /\ Below(x) # Below(y)
    BY <1>0, <1>1, <2>1
  <2>. QED BY <2>2, <2>3
<1>3. rank \in [S -> 0..(n - 1)]
  BY <1>1 DEF rank
<1>4. rank \in Injection(S, 0..(n - 1))
  <2>1. \A x, y \in S : rank[x] = rank[y] => x = y
    <3>. SUFFICES ASSUME NEW x \in S, NEW y \in S, rank[x] = rank[y]
                  PROVE  x = y
      OBVIOUS
    <3>1. rank[x] \in Int /\ key[x] \in Int /\ key[y] \in Int
      BY <1>0, <1>3
    <3>2. ~(key[x] < key[y]) /\ ~(key[y] < key[x])
      BY <1>2, <3>1
    <3>. QED BY <3>1, <3>2
  <2>. QED BY <1>3, <2>1 DEF Injection, IsInjective
<1>5. IsFiniteSet(0..(n - 1)) /\ Cardinality(0..(n - 1)) = n
  BY <1>0, FS_Interval
<1>6. rank \in Surjection(S, 0..(n - 1))
  BY <1>4, <1>5, FS_Injection DEF n
<1>7. \A i \in 1..n : \E x \in S : rank[x] = i - 1
  <2>. SUFFICES ASSUME NEW i \in 1..n PROVE \E x \in S : rank[x] = i - 1
    OBVIOUS
  <2>1. i - 1 \in 0..(n - 1)
    BY <1>0
  <2>. QED BY <1>6, <2>1 DEF Surjection
<1>8. \A i \in 1..n : Sorted(S, key)[i] \in S /\ rank[Sorted(S, key)[i]] = i - 1
  BY <1>7 DEF Sorted, n, rank, Below
<1>9. Sorted(S, key) \in [1..n -> S]
  BY <1>8 DEF Sorted, n
<1>10. \A x \in S : \E i \in 1..n : Sorted(S, key)[i] = x
  <2>. SUFFICES ASSUME NEW x \in S PROVE \E i \in 1..n : Sorted(S, key)[i] = x
    OBVIOUS
  <2>1. rank[x] \in 0..(n - 1)
    BY <1>3
  <2>2. rank[x] + 1 \in 1..n /\ (rank[x] + 1) - 1 = rank[x]
    BY <1>0, <2>1
  <2>3. rank[Sorted(S, key)[rank[x] + 1]] = rank[x] /\ Sorted(S, key)[rank[x] + 1] \in S
    BY <1>8, <2>2
  <2>4. Sorted(S, key)[rank[x] + 1] = x
    BY <1>4, <2>3 DEF Injection, IsInjective
  <2>. QED BY <2>2, <2>4
<1>11. ASSUME NEW i \in 1..n, NEW j \in 1..n, i < j
       PROVE  key[Sorted(S, key)[i]] < key[Sorted(S, key)[j]]
  <2>. DEFINE x == Sorted(S, key)[i]
              y == Sorted(S, key)[j]
  <2>1. x \in S /\ y \in S /\ rank[x] < rank[y]
    BY <1>0, <1>8, <1>11
  <2>2. rank[x] \in Int /\ rank[y] \in Int /\ key[x] \in Int /\ key[y] \in Int
    BY <1>0, <1>3, <2>1
  <2>3. ~(key[y] < key[x]) /\ key[x] # key[y]
    BY <1>2, <2>1, <2>2
  <2>. QED BY <2>2, <2>3
<1>. QED BY <1>0, <1>9, <1>10, <1>11 DEF n

-----------------------------------------------------------------------------
(* The ledger of a profile and the order in which it is carried out. *)

LEMMA LedgerIsFinite ==
    ASSUME NEW m \in Manifests, NEW p
    PROVE  Ledger(m, p) \subseteq Files /\ IsFiniteSet(Ledger(m, p)) /\ Ledger(m, p) \subseteq DOMAIN m.files
<1>1. Ledger(m, p) \in SUBSET Files /\ Ledger(m, p) \subseteq DOMAIN m.files
  BY MigrationAssumption DEF Ledger
<1>. QED BY <1>1, LedgerAssumption, FS_Subset

LEMMA MigrationsListLedger ==
    ASSUME NEW m \in Manifests, GlobalOrder(m), NEW p
    PROVE  /\ MigrationsFor(m, p) \in Seq(Files)
           /\ {MigrationsFor(m, p)[i] : i \in 1..Len(MigrationsFor(m, p))} = Ledger(m, p)
<1>. DEFINE ledger == Ledger(m, p)
            key == [f \in ledger |-> f.time]
            s == Sorted(ledger, key)
            n == Cardinality(ledger)
<1>1. ledger \subseteq Files /\ IsFiniteSet(ledger) /\ ledger \subseteq DOMAIN m.files
  BY LedgerIsFinite
<1>2. key \in [ledger -> Int]
  BY <1>1, LedgerAssumption
<1>3. \A x, y \in ledger : key[x] = key[y] => x = y
  BY <1>1 DEF GlobalOrder
<1>. HIDE DEF ledger, key
<1>4. /\ n \in Nat /\ s \in [1..n -> ledger]
      /\ \A x \in ledger : \E i \in 1..n : s[i] = x
  BY <1>1, <1>2, <1>3, SortedLists
<1>. HIDE DEF s, n
<1>5. s \in Seq(Files) /\ Len(s) = n
  <2>1. s \in [1..n -> Files]
    BY <1>1, <1>4
  <2>. QED BY <1>4, <2>1
<1>6. {s[i] : i \in 1..n} = ledger
  BY <1>4
<1>7. MigrationsFor(m, p) = s
  BY DEF MigrationsFor, s, key, ledger
<1>. QED BY <1>5, <1>6, <1>7 DEF ledger

(* The fixed order of the logical targets. *)
LEMMA Ranks ==
    /\ Rank("auth") = 1 /\ Rank("graph") = 2 /\ Rank("coordination") = 3
    /\ \A c \in Components : Rank(c) \in 1..3
    /\ \A c, d \in Components : Rank(c) = Rank(d) => c = d
<1>1. /\ ComponentOrder[1] = "auth" /\ ComponentOrder[2] = "graph" /\ ComponentOrder[3] = "coordination"
  BY DEF ComponentOrder
<1>2. \A i \in 1..3 : i = 1 \/ i = 2 \/ i = 3
  OBVIOUS
<1>3. Rank("auth") = 1
  BY <1>1, <1>2 DEF Rank
<1>4. Rank("graph") = 2
  BY <1>1, <1>2 DEF Rank
<1>5. Rank("coordination") = 3
  BY <1>1, <1>2 DEF Rank
<1>. QED BY <1>3, <1>4, <1>5 DEF Components

LEMMA FirstBelongs ==
    ASSUME NEW cs \in SUBSET Components, cs # {}
    PROVE  First(cs) \in cs
<1>1. \E c \in cs : \A d \in cs : Rank(c) <= Rank(d)
  <2>0. \A d \in cs : d = "auth" \/ d = "graph" \/ d = "coordination"
    BY DEF Components
  <2>1. CASE "auth" \in cs
    <3>1. \A d \in cs : Rank("auth") <= Rank(d)
      BY <2>0, Ranks
    <3>. QED BY <2>1, <3>1
  <2>2. CASE "auth" \notin cs /\ "graph" \in cs
    <3>1. \A d \in cs : Rank("graph") <= Rank(d)
      BY <2>0, <2>2, Ranks
    <3>. QED BY <2>2, <3>1
  <2>3. CASE "auth" \notin cs /\ "graph" \notin cs
    <3>1. \A d \in cs : d = "coordination"
      BY <2>0, <2>3
    <3>2. "coordination" \in cs /\ \A d \in cs : Rank("coordination") <= Rank(d)
      BY <3>1, Ranks
    <3>. QED BY <3>2
  <2>. QED BY <2>1, <2>2, <2>3
<1>. QED BY <1>1 DEF First

LEMMA FiniteComponents == IsFiniteSet(SUBSET Components)
<1>1. IsFiniteSet({"auth"})
  BY FS_Singleton
<1>2. IsFiniteSet({"auth"} \cup {"graph"})
  BY <1>1, FS_AddElement
<1>3. IsFiniteSet(({"auth"} \cup {"graph"}) \cup {"coordination"})
  BY <1>2, FS_AddElement
<1>4. Components = ({"auth"} \cup {"graph"}) \cup {"coordination"}
  BY DEF Components
<1>. QED BY <1>3, <1>4, FS_SUBSET

(* Groups of aliases partition the configured targets, so their first      *)
(* targets order them.                                                     *)
LEMMA GroupsAreOrdered ==
    ASSUME NEW d, NEW urls, DOMAIN urls \subseteq Components
    PROVE  /\ Groups(d, urls) \in SUBSET (SUBSET (DOMAIN urls)) /\ IsFiniteSet(Groups(d, urls))
           /\ \A cs \in Groups(d, urls) : First(cs) \in cs
           /\ \A cs, ds \in Groups(d, urls) : Rank(First(cs)) = Rank(First(ds)) => cs = ds
<1>1. Groups(d, urls) \in SUBSET (SUBSET (DOMAIN urls))
  BY DEF Groups
<1>2. Groups(d, urls) \in SUBSET (SUBSET Components)
  BY <1>1
<1>3. IsFiniteSet(Groups(d, urls))
  BY <1>2, FiniteComponents, FS_Subset
<1>4. \A cs \in Groups(d, urls) : cs # {}
  BY DEF Groups
<1>5. \A cs \in Groups(d, urls) : First(cs) \in cs
  BY <1>2, <1>4, FirstBelongs
<1>6. ASSUME NEW cs \in Groups(d, urls), NEW ds \in Groups(d, urls), Rank(First(cs)) = Rank(First(ds))
      PROVE  cs = ds
  <2>1. First(cs) = First(ds)
    BY <1>2, <1>5, <1>6, Ranks
  <2>. DEFINE c == First(cs)
  <2>2. c \in cs /\ c \in ds
    BY <1>5, <2>1
  <2>. HIDE DEF c
  <2>. QED BY <2>2 DEF Groups
<1>. QED BY <1>1, <1>3, <1>5, <1>6

(* A plan has one entry for every group of aliases; each names a profile and
   a configured URL, and passed the write barrier. *)
LEMMA PlansAreWritable ==
    ASSUME NEW d \in Docs, NEW m, NEW cs \in SUBSET Components, NEW urls \in [cs -> Urls], cs # {},
           Plannable(d, m, urls), \A i \in 1..Len(PlanFor(d, urls)) : WriteAllowed(PlanFor(d, urls)[i])
    PROVE  /\ PlanFor(d, urls) \in Seq(PlannedTarget) /\ Len(PlanFor(d, urls)) \in Nat \ {0}
           /\ m = d.manifest
<1>. DEFINE groups == Groups(d, urls)
            key == [g \in groups |-> Rank(First(g))]
            n == Cardinality(groups)
            order == Sorted(groups, key)
            Entry(g) == Target(d, urls, g)
<1>0. DOMAIN urls = cs
  OBVIOUS
<1>1. /\ groups \in SUBSET (SUBSET cs) /\ IsFiniteSet(groups)
      /\ \A g \in groups : First(g) \in g
      /\ \A g, h \in groups : Rank(First(g)) = Rank(First(h)) => g = h
  BY <1>0, GroupsAreOrdered
<1>2. groups # {}
  <2>1. PICK c \in cs : TRUE
    OBVIOUS
  <2>2. {x \in DOMAIN urls : Binding(d, x).id = Binding(d, c).id} \in groups
    BY <1>0, <2>1 DEF Groups
  <2>. QED BY <2>2
<1>. HIDE DEF groups
<1>3. key \in [groups -> Int] /\ \A g, h \in groups : key[g] = key[h] => g = h
  BY <1>1, Ranks
<1>. HIDE DEF key
<1>4. n \in Nat /\ order \in [1..n -> groups]
  BY <1>1, <1>3, SortedLists
<1>5. n # 0
  BY <1>1, <1>2, FS_EmptySet
<1>. HIDE DEF order, n
<1>6. Len(order) = n
  BY <1>4
<1>7. PlanFor(d, urls) = [i \in 1..n |-> Entry(order[i])]
  BY <1>6 DEF PlanFor, order, key, groups
<1>8. Len(PlanFor(d, urls)) = n
  BY <1>4, <1>7
<1>9. ASSUME NEW i \in 1..n
      PROVE  Entry(order[i]) \in PlannedTarget
  <2>. DEFINE g == order[i]
              c == First(g)
  <2>1. g \in groups /\ g \subseteq cs /\ c \in g /\ c \in cs
    BY <1>1, <1>4
  <2>2. WriteAllowed(Entry(g))
    BY <1>7, <1>8
  <2>3. AliasesAgree(d, g) /\ c \in DOMAIN d.targets
    BY <1>0, <2>1 DEF Plannable, groups
  <2>. HIDE DEF g, c
  <2>4. ProfileOf(d, g) \in Profiles
    BY <2>1, <2>3 DEF AliasesAgree, ProfileOf, Profiles, Components, c
  <2>5. Binding(d, c).id \in Identities
    BY <2>3 DEF Identities
  <2>6. urls[c] \in Urls /\ {urls[x] : x \in g} \in SUBSET Urls /\ g \in SUBSET Components
    BY <2>1
  <2>7. Binding(d, c).lineage \in {"fresh-v1"} /\ Binding(d, c).class \in {"disposable", "loopback"}
    BY <2>2 DEF WriteAllowed, Target, c
  <2>. QED BY <2>4, <2>5, <2>6, <2>7 DEF Target, PlannedTarget, c, g
<1>. HIDE DEF Entry
<1>10. PlanFor(d, urls) \in Seq(PlannedTarget)
  BY <1>4, <1>7, <1>9
<1>11. m = d.manifest
  BY DEF Plannable
<1>. QED BY <1>4, <1>5, <1>8, <1>10, <1>11

-----------------------------------------------------------------------------
(* What every step leaves alone: versions and objects only come, and runs
   other than the stepping one stay as they are. *)

Stands(r) == ReviewedPlan(r) /\ LedgerExecuted(r) /\ VerifiedStands(r)
Grows == \A d \in Dbs : /\ history[d] \subseteq history'[d]
                        /\ \A c \in Components : /\ tables[d][c] # "absent" => tables'[d][c] # "absent"
                                                 /\ tables[d][c] \in Bytes => tables'[d][c] \in Bytes

UrlMaps == UNION {[cs -> Urls] : cs \in SUBSET Components}

LEMMA ConfiguredTypes ==
    ASSUME NEW s \in Settings
    PROVE  /\ ConfiguredUrls(s) \in UrlMaps /\ DOMAIN ConfiguredUrls(s) \in SUBSET Components
           /\ \A c \in DOMAIN ConfiguredUrls(s) : ConfiguredUrls(s)[c] \in Urls
           /\ "auth" \in DOMAIN ConfiguredUrls(s)
<1>. DEFINE coordination == IF s.coordination # "none" THEN s.coordination ELSE s.graph
            dropped == s.graph = "none" /\ coordination = s.auth
            url(c) == CASE c = "auth" -> s.auth
                        [] c = "graph" -> s.graph
                        [] OTHER -> IF dropped THEN "none" ELSE coordination
            cs == {c \in Components : url(c) # "none"}
<1>1. /\ s.auth \in Urls /\ s.graph \in Urls \cup {"none"} /\ s.coordination \in Urls \cup {"none"}
      /\ "none" \notin Urls
  BY MigrationAssumption DEF Urls
<1>2. \A c \in cs : url(c) \in Urls
  BY <1>1 DEF Components
<1>3. url("auth") \in Urls
  BY <1>1
<1>4. "auth" \in cs
  BY <1>1, <1>3 DEF Components
<1>. HIDE DEF coordination, dropped, url
<1>5. ConfiguredUrls(s) = [c \in cs |-> url(c)]
  BY DEF ConfiguredUrls, url, dropped, coordination
<1>6. [c \in cs |-> url(c)] \in [cs -> Urls] /\ cs \in SUBSET Components
  BY <1>2
<1>. QED BY <1>2, <1>4, <1>5, <1>6 DEF UrlMaps

LEMMA UrlMapOf ==
    ASSUME NEW urls \in UrlMaps
    PROVE  /\ DOMAIN urls \in SUBSET Components /\ \A c \in DOMAIN urls : urls[c] \in Urls
           /\ PostgresUrls(urls) \in [DOMAIN PostgresUrls(urls) -> Urls]
           /\ DOMAIN PostgresUrls(urls) \in SUBSET Components
           /\ StoreUrls(urls) \in SUBSET Urls
<1>1. PICK cs \in SUBSET Components : urls \in [cs -> Urls]
  BY DEF UrlMaps
<1>. QED BY <1>1 DEF PostgresUrls, StoreUrls

LEMMA RunTypes ==
    ASSUME LedgerTypeOK, NEW o \in Operators
    PROVE  /\ run[o] \in Run /\ run[o].urls \in UrlMaps
           /\ run[o].next \in 1..Len(run[o].plan) => CurrentTarget(run[o]) \in PlannedTarget
           /\ \A i \in 1..Len(run[o].plan) : DbOf[run[o].plan[i].url] \in Dbs
           /\ \A i \in 1..Len(run[o].pending) : run[o].pending[i] \in Files
<1>1. run[o] \in Run
  BY DEF LedgerTypeOK
<1>2. run[o].plan \in Seq(PlannedTarget) /\ run[o].pending \in Seq(Files)
  BY <1>1 DEF Run
<1>3. run[o].urls \in UrlMaps
  BY <1>1 DEF Run, UrlMaps
<1>4. \A i \in 1..Len(run[o].plan) : run[o].plan[i] \in PlannedTarget
  BY <1>2
<1>5. \A i \in 1..Len(run[o].plan) : run[o].plan[i].url \in Urls
  BY <1>4 DEF PlannedTarget
<1>6. \A i \in 1..Len(run[o].plan) : DbOf[run[o].plan[i].url] \in Dbs
  BY <1>5, MigrationAssumption DEF Urls
<1>. QED BY <1>1, <1>2, <1>3, <1>4, <1>6 DEF CurrentTarget

(* A run at rest stands whatever the databases hold. *)
LEMMA IdleStands == Idle \in Run /\ Stands(Idle)
<1>1. <<>> \in Seq(PlannedTarget) /\ <<>> \in Seq(Files)
  OBVIOUS
<1>2. <<>> \in UNION {[cs -> Urls] : cs \in SUBSET Components}
  <2>1. <<>> \in [{} -> Urls] /\ {} \in SUBSET Components
    OBVIOUS
  <2>. QED BY <2>1
<1>3. <<>> \in UNION {[fs -> Bytes] : fs \in SUBSET Files}
  <2>1. <<>> \in [{} -> Bytes] /\ {} \in SUBSET Files
    OBVIOUS
  <2>. QED BY <2>1
<1>4. Idle \in Run
  <2>1. 0 \in 0..3 /\ 0 \in 0..MaxEdits /\ 0 \in Nat /\ FALSE \in BOOLEAN
    BY MigrationAssumption
  <2>2. <<>> \in Settings \cup {<<>>} /\ <<>> \in Manifests \cup {<<>>} /\ {} \in SUBSET Urls
    OBVIOUS
  <2>. QED BY <1>1, <1>2, <1>3, <2>1, <2>2 DEF Idle, Run
<1>5. Idle.pc = "idle"
  BY DEF Idle
<1>6. ReviewedPlan(Idle)
  BY <1>5 DEF ReviewedPlan, Planning, Validating, Executing
<1>7. LedgerExecuted(Idle)
  BY <1>5 DEF LedgerExecuted, Executing
<1>8. VerifiedStands(Idle)
  BY <1>5 DEF VerifiedStands, Planning, Validating, Verifying
<1>. QED BY <1>4, <1>6, <1>7, <1>8 DEF Stands

(* The tree is at rest or an edit is counted. *)
TreeCounted == (edits' = edits /\ file' = file) \/ edits' = edits + 1

LEMMA OthersStand ==
    ASSUME LedgerTypeOK, Grows, doc' = doc, TreeCounted, NEW q \in Operators, run'[q] = run[q], Stands(run[q])
    PROVE  Stands(run[q])'
<1>. DEFINE r == run[q]
<1>1. run[q]' = r
  OBVIOUS
<1>2. ReviewedPlan(run[q])'
  <2>1. r.pc \in Validating =>
          /\ r.manifest \in Manifests /\ r.checking \in 1..3 /\ r.since <= edits'
          /\ edits' = r.since =>
               /\ \A f \in Inspected(r) : r.manifest.files[f] \in GuardedBytes
               /\ (r.pc = "guard" => \A f \in NamedFiles(r) : file'[f] = r.manifest.files[f])
    <3>1. r.since \in Nat /\ edits \in Nat
      BY RunTypes, MigrationAssumption DEF LedgerTypeOK, Run
    <3>2. CASE edits' = edits /\ file' = file
      BY <3>2 DEF ReviewedPlan, Stands
    <3>3. CASE edits' = edits + 1
      BY <3>1, <3>3 DEF ReviewedPlan, Stands
    <3>. QED BY <3>2, <3>3 DEF TreeCounted
  <2>2. NamedFiles(run[q])' = NamedFiles(r) /\ Inspected(run[q])' = Inspected(r)
    BY <1>1 DEF NamedFiles, Inspected
  <2>. QED BY <1>1, <2>1, <2>2 DEF ReviewedPlan, Stands
<1>3. VerifiedStands(run[q])'
  <2>1. r.pc \in Verifying => r.urls \in UrlMaps /\ r.urls = ConfiguredUrls(r.settings) /\ r.settings \in Settings
    BY RunTypes DEF Stands, ReviewedPlan, Verifying
  <2>2. r.pc \in Verifying => \A c \in DOMAIN r.urls : c \in Components /\ DbOf[r.urls[c]] \in Dbs
    BY <2>1, UrlMapOf, MigrationAssumption DEF Urls
  <2>3. r.pc \in Verifying =>
          \A u \in StoreUrls(r.urls) \ r.unverified : \A c \in StoreComponents(r.urls, u) : tables'[DbOf[u]][c] # "absent"
    <3>. SUFFICES ASSUME r.pc \in Verifying, NEW u \in StoreUrls(r.urls) \ r.unverified, NEW c \in StoreComponents(r.urls, u)
                  PROVE  tables'[DbOf[u]][c] # "absent"
      OBVIOUS
    <3>1. tables[DbOf[u]][c] # "absent"
      BY DEF Stands, VerifiedStands, HasTables
    <3>2. c \in Components /\ DbOf[u] \in Dbs
      BY <2>2 DEF StoreComponents
    <3>. QED BY <3>1, <3>2 DEF Grows
  <2>4. r.pc \in {"seed", "usable"} => r.unverified = {} /\ tables'[DbOf[r.urls["auth"]]]["auth"] # "absent"
    <3>. SUFFICES ASSUME r.pc \in {"seed", "usable"}
                  PROVE  r.unverified = {} /\ tables'[DbOf[r.urls["auth"]]]["auth"] # "absent"
      OBVIOUS
    <3>1. r.unverified = {} /\ tables[DbOf[r.urls["auth"]]]["auth"] # "absent"
      BY DEF Stands, VerifiedStands, HasTables
    <3>2. r.pc \in Verifying
      BY DEF Verifying
    <3>3. "auth" \in DOMAIN r.urls
      BY <2>1, <3>2, ConfiguredTypes
    <3>4. "auth" \in Components /\ DbOf[r.urls["auth"]] \in Dbs
      BY <2>2, <3>2, <3>3
    <3>. QED BY <3>1, <3>4 DEF Grows
  <2>5. r.pc \in {"manifest"} \cup Validating \cup Planning => r.unverified = StoreUrls(r.urls)
    BY DEF Stands, VerifiedStands
  <2>. QED BY <1>1, <2>3, <2>4, <2>5 DEF VerifiedStands, HasTables
<1>4. LedgerExecuted(run[q])'
  <2>. DEFINE t == CurrentTarget(r)
              ledger == Ledger(r.manifest, t.profile)
              left == Left(r)
              d == DbOf[t.url]
  <2>1. r.pc \in Executing => d \in Dbs /\ \A i \in 1..(r.next - 1) : DbOf[r.plan[i].url] \in Dbs
    <3>. SUFFICES ASSUME r.pc \in Executing
                  PROVE  d \in Dbs /\ \A i \in 1..(r.next - 1) : DbOf[r.plan[i].url] \in Dbs
      OBVIOUS
    <3>1. r.next \in 1..Len(r.plan) /\ Len(r.plan) \in Nat
      BY RunTypes DEF Stands, ReviewedPlan, Run
    <3>2. \A i \in 1..(r.next - 1) : i \in 1..Len(r.plan)
      BY <3>1
    <3>. QED BY <3>1, <3>2, RunTypes DEF CurrentTarget
  <2>2. r.pc \in {"apply", "record"} => ledger \ left \subseteq history'[d]
    BY <2>1 DEF Stands, LedgerExecuted, Grows, Executing
  <2>3. r.pc = "record" => r.pending # <<>> /\ tables'[d][Head(r.pending).component] \in Bytes
    <3>. SUFFICES ASSUME r.pc = "record"
                  PROVE  r.pending # <<>> /\ tables'[d][Head(r.pending).component] \in Bytes
      OBVIOUS
    <3>1. r.pending # <<>> /\ tables[d][Head(r.pending).component] \in Bytes
      BY DEF Stands, LedgerExecuted
    <3>2. r.pending \in Seq(Files)
      BY RunTypes DEF Run
    <3>3. Head(r.pending).component \in Components
      BY <3>1, <3>2, LedgerAssumption DEF Components
    <3>. QED BY <2>1, <3>1, <3>3 DEF Grows, Executing
  <2>4. r.pc \in Executing => \A i \in 1..(r.next - 1) : Ledger(r.manifest, r.plan[i].profile) \subseteq history'[DbOf[r.plan[i].url]]
    BY <2>1 DEF Stands, LedgerExecuted, Recorded, Grows
  <2>5. /\ r.pc \in {"list", "apply", "record"} =>
             /\ DOMAIN r.bytes = ledger /\ \A f \in ledger : r.bytes[f] = r.manifest.files[f]
             /\ left \subseteq ledger
        /\ r.pc = "list" => left = ledger
    BY DEF Stands, LedgerExecuted
  <2>. QED BY <1>1, <2>2, <2>3, <2>4, <2>5 DEF LedgerExecuted, Recorded, CurrentTarget
<1>. QED BY <1>2, <1>3, <1>4 DEF Stands

-----------------------------------------------------------------------------
(* One step of one operator's run. *)

DoneTarget == [profile : Profiles, files : SUBSET Files, url : Urls]
Keeps(o) ==
  /\ LedgerTypeOK' /\ RecordedExists' /\ Grows /\ doc' = doc /\ edits' = edits /\ file' = file
  /\ \A q \in Operators \ {o} : run'[q] = run[q] /\ report'[q] = report[q]
  /\ Stands(run[o])'
  /\ \A q \in Operators : \/ report'[q].completed = report[q].completed
                          \/ \A i \in 1..Len(report'[q].completed) :
                               report'[q].completed[i].files \subseteq history[DbOf[report'[q].completed[i].url]]

LEMMA UntouchedGrows == UNCHANGED <<history, tables>> => Grows
BY DEF Grows

LEMMA RunBecomes ==
    ASSUME LedgerTypeOK, NEW o \in Operators, NEW s \in Run, To(o, s)
    PROVE  /\ run' \in [Operators -> Run] /\ run'[o] = s
           /\ \A q \in Operators \ {o} : run'[q] = run[q]
BY DEF LedgerTypeOK, To

LEMMA RestStands ==
    ASSUME NEW o \in Operators, run'[o].pc = "idle"
    PROVE  Stands(run[o])'
<1>1. ReviewedPlan(run[o])'
  BY DEF ReviewedPlan, Planning, Validating, Executing
<1>2. LedgerExecuted(run[o])'
  BY DEF LedgerExecuted, Executing
<1>3. VerifiedStands(run[o])'
  BY DEF VerifiedStands, Planning, Validating, Verifying
<1>. QED BY <1>1, <1>2, <1>3 DEF Stands

(* A run that ends reports what it completed. *)
LEMMA FinishKeeps ==
    ASSUME LedgerTypeOK, RecordedExists, NEW o \in Operators,
           NEW outcome \in {"none", "refused", "incomplete", "failed", "success"},
           NEW completed \in Seq(DoneTarget), NEW failed \in Profiles \cup {"none"},
           \A i \in 1..Len(completed) : completed[i].files \subseteq history[DbOf[completed[i].url]],
           Finish(o, outcome, completed, failed), Stay, UNCHANGED <<history, creds>>,
           Grows, tables' \in [Dbs -> [Components -> Bytes \cup {"absent", "local"}]]
    PROVE  Keeps(o) /\ report'[o].outcome = outcome
<1>. DEFINE new == [outcome |-> outcome, completed |-> completed, failed |-> failed]
<1>1. /\ run' \in [Operators -> Run] /\ run'[o] = Idle
      /\ \A q \in Operators \ {o} : run'[q] = run[q]
  BY IdleStands, RunBecomes DEF Finish
<1>2. new \in Report
  BY DEF Report, DoneTarget
<1>3. report' = [report EXCEPT ![o] = new]
  BY DEF Finish
<1>. HIDE DEF new
<1>4. /\ report' \in [Operators -> Report] /\ report'[o] = new
      /\ \A q \in Operators \ {o} : report'[q] = report[q]
  BY <1>2, <1>3 DEF LedgerTypeOK
<1>5. LedgerTypeOK'
  BY <1>1, <1>4 DEF LedgerTypeOK, Stay
<1>6. RecordedExists'
  <2>. SUFFICES ASSUME NEW d \in Dbs, NEW f \in history'[d]
                PROVE  tables'[d][f.component] \in Bytes
    BY DEF RecordedExists
  <2>1. f \in history[d] /\ f \in Files
    BY DEF LedgerTypeOK
  <2>2. f.component \in Components
    BY <2>1, LedgerAssumption DEF Components
  <2>. QED BY <2>1, <2>2 DEF RecordedExists, Grows
<1>7. Stands(run[o])'
  <2>1. run'[o].pc = "idle"
    BY <1>1 DEF Idle
  <2>. QED BY <2>1, RestStands
<1>8. new.completed = completed /\ new.outcome = outcome
  BY DEF new
<1>. QED BY <1>1, <1>4, <1>5, <1>6, <1>7, <1>8 DEF Keeps, Stay

LEMMA RefuseKeeps ==
    ASSUME LedgerTypeOK, RecordedExists, NEW o \in Operators, Refuse(o)
    PROVE  Keeps(o) /\ report'[o].outcome # "success"
<1>1. <<>> \in Seq(DoneTarget) /\ Len(<<>>) = 0
  OBVIOUS
<1>2. Grows /\ tables' \in [Dbs -> [Components -> Bytes \cup {"absent", "local"}]]
  BY UntouchedGrows DEF Refuse, LedgerTypeOK
<1>3. \A i \in 1..Len(<<>>) : <<>>[i].files \subseteq history[DbOf[<<>>[i].url]]
  BY <1>1
<1>4. Finish(o, "refused", <<>>, "none") /\ Stay /\ UNCHANGED <<history, creds>>
  BY DEF Refuse
<1>5. Keeps(o) /\ report'[o].outcome = "refused"
  BY <1>1, <1>2, <1>3, <1>4, FinishKeeps
<1>. QED BY <1>5

LEMMA IncompleteKeeps ==
    ASSUME LedgerTypeOK, RecordedExists, NEW o \in Operators, Stands(run[o]), run[o].pc \in Executing,
           Incomplete(o), Stay, UNCHANGED <<history, tables, creds>>
    PROVE  Keeps(o) /\ report'[o].outcome # "success"
<1>. DEFINE r == run[o]
            n == r.next - 1
<1>1. r \in Run /\ r.next \in 1..Len(r.plan) /\ r.plan \in Seq(PlannedTarget) /\ r.manifest \in Manifests
  <2>1. r \in Run
    BY RunTypes
  <2>. QED BY <2>1 DEF Stands, ReviewedPlan, Run, Planning, Validating, Executing
<1>2. n \in Nat /\ \A i \in 1..n : i \in 1..Len(r.plan) /\ r.plan[i] \in PlannedTarget
  BY <1>1
<1>3. CurrentTarget(r).profile \in Profiles
  BY <1>1, RunTypes DEF PlannedTarget
<1>4. \A i \in 1..n : Done(r, r.plan[i]) \in DoneTarget
  <2>. SUFFICES ASSUME NEW i \in 1..n PROVE Done(r, r.plan[i]) \in DoneTarget
    OBVIOUS
  <2>1. r.plan[i].profile \in Profiles /\ r.plan[i].url \in Urls
    BY <1>2 DEF PlannedTarget
  <2>2. Ledger(r.manifest, r.plan[i].profile) \in SUBSET Files
    BY <1>1, LedgerIsFinite
  <2>. QED BY <2>1, <2>2 DEF Done, DoneTarget
<1>5. Completed(r) \in Seq(DoneTarget) /\ Len(Completed(r)) = n
  BY <1>2, <1>4 DEF Completed
<1>6. \A i \in 1..Len(Completed(r)) : Completed(r)[i].files \subseteq history[DbOf[Completed(r)[i].url]]
  <2>. SUFFICES ASSUME NEW i \in 1..n
                PROVE  Completed(r)[i].files \subseteq history[DbOf[Completed(r)[i].url]]
    BY <1>5
  <2>1. Recorded(r, r.plan[i])
    BY DEF Stands, LedgerExecuted
  <2>2. Completed(r)[i] = Done(r, r.plan[i])
    BY <1>2 DEF Completed
  <2>. QED BY <2>1, <2>2 DEF Recorded, Done
<1>7. Grows /\ tables' \in [Dbs -> [Components -> Bytes \cup {"absent", "local"}]]
  BY UntouchedGrows DEF LedgerTypeOK
<1>8. Finish(o, "incomplete", Completed(r), CurrentTarget(r).profile)
  BY DEF Incomplete
<1>. HIDE DEF r
<1>9. Keeps(o) /\ report'[o].outcome = "incomplete"
  BY <1>3, <1>5, <1>6, <1>7, <1>8, FinishKeeps
<1>. QED BY <1>9

(* A run that goes on, and leaves the databases alone. *)
LEMMA QuietKeeps ==
    ASSUME LedgerTypeOK, RecordedExists, NEW o \in Operators, NEW s \in Run, To(o, s),
           doc' = doc, manifest' = manifest, file' = file, edits' = edits, runs' \in 0..MaxRuns,
           report' = report, UNCHANGED <<history, tables, creds>>,
           Stands(run[o])'
    PROVE  Keeps(o)
<1>1. /\ run' \in [Operators -> Run] /\ run'[o] = s
      /\ \A q \in Operators \ {o} : run'[q] = run[q]
  BY RunBecomes
<1>2. LedgerTypeOK'
  BY <1>1 DEF LedgerTypeOK
<1>3. RecordedExists'
  BY DEF RecordedExists
<1>. QED BY <1>1, <1>2, <1>3, UntouchedGrows DEF Keeps

LEMMA StartKeeps ==
    ASSUME LedgerTypeOK, RecordedExists, NEW o \in Operators, Start(o)
    PROVE  Keeps(o) /\ report'[o].outcome # "success"
<1>1. PICK s \in Settings :
        LET urls == ConfiguredUrls(s)
        IN  To(o, [Idle EXCEPT !.pc = IF DOMAIN PostgresUrls(urls) = {} THEN "verify" ELSE "manifest",
                               !.settings = s, !.urls = urls, !.unverified = StoreUrls(urls)])
  BY DEF Start
<1>. DEFINE urls == ConfiguredUrls(s)
            at == IF DOMAIN PostgresUrls(urls) = {} THEN "verify" ELSE "manifest"
            new == [Idle EXCEPT !.pc = at, !.settings = s, !.urls = urls, !.unverified = StoreUrls(urls)]
            blank == [outcome |-> "none", completed |-> <<>>, failed |-> "none"]
<1>2. To(o, new)
  BY <1>1
<1>3. urls \in UrlMaps /\ StoreUrls(urls) \in SUBSET Urls
  BY ConfiguredTypes, UrlMapOf
<1>. HIDE DEF urls
<1>4. at \in {"verify", "manifest"}
  OBVIOUS
<1>5. new \in Run /\ new.pc = at /\ new.settings = s /\ new.urls = urls /\ new.unverified = StoreUrls(urls)
  BY <1>3, <1>4, IdleStands DEF Run, UrlMaps, Verifying
<1>. HIDE DEF new
<1>6. /\ run' \in [Operators -> Run] /\ run'[o] = new
      /\ \A q \in Operators \ {o} : run'[q] = run[q]
  BY <1>2, <1>5, RunBecomes
<1>7. blank \in Report /\ blank.completed = <<>> /\ blank.outcome = "none"
  BY DEF Report
<1>8. report' = [report EXCEPT ![o] = blank]
  BY DEF Start, NoReport
<1>. HIDE DEF blank
<1>9. /\ report' \in [Operators -> Report] /\ report'[o] = blank
      /\ \A q \in Operators \ {o} : report'[q] = report[q]
  BY <1>7, <1>8 DEF LedgerTypeOK
<1>10. runs' \in 0..MaxRuns
  BY MigrationAssumption DEF Start, LedgerTypeOK
<1>11. LedgerTypeOK'
  BY <1>6, <1>9, <1>10 DEF LedgerTypeOK, Start
<1>12. RecordedExists' /\ doc' = doc /\ edits' = edits /\ file' = file
  BY DEF RecordedExists, Start
<1>13. Grows
  BY UntouchedGrows DEF Start
<1>14. ReviewedPlan(run[o])'
  BY <1>4, <1>5, <1>6 DEF ReviewedPlan, Planning, Validating, Executing, urls
<1>15. LedgerExecuted(run[o])'
  BY <1>4, <1>5, <1>6 DEF LedgerExecuted, Executing
<1>16. VerifiedStands(run[o])'
  BY <1>4, <1>5, <1>6 DEF VerifiedStands
<1>17. Stands(run[o])'
  BY <1>14, <1>15, <1>16 DEF Stands
<1>. QED BY <1>6, <1>7, <1>9, <1>11, <1>12, <1>13, <1>17 DEF Keeps

(* One read of the validation that finds what it asks for. *)
LEMMA ValidationStands ==
    ASSUME LedgerTypeOK, RecordedExists, NEW o \in Operators, Stands(run[o]),
           run[o].pc \in {"manifest"} \cup Validating,
           NEW s \in Run, To(o, s), UNCHANGED report, Stay, UNCHANGED <<history, tables, creds>>,
           s.settings = run[o].settings, s.urls = run[o].urls, s.unverified = run[o].unverified,
           s.pc \in Validating \cup {"plan"}, s.manifest \in Manifests,
           s.pc \in Validating =>
             /\ s.checking \in 1..3 /\ s.since <= edits
             /\ edits = s.since =>
                  /\ \A f \in Inspected(s) : s.manifest.files[f] \in GuardedBytes
                  /\ (s.pc = "guard" => \A f \in NamedFiles(s) : file[f] = s.manifest.files[f]),
           s.pc = "plan" =>
             /\ GlobalOrder(s.manifest)
             /\ s.settled => \A f \in DOMAIN s.manifest.files : s.manifest.files[f] \in GuardedBytes
    PROVE  Keeps(o)
<1>1. run'[o] = s /\ run[o]' = s
  BY RunBecomes
<1>2. NamedFiles(run[o])' = NamedFiles(s) /\ Inspected(run[o])' = Inspected(s)
  BY <1>1 DEF NamedFiles, Inspected
<1>3. ReviewedPlan(run[o])'
  BY <1>1, <1>2 DEF ReviewedPlan, Stands, Executing, Planning, Validating, Stay
<1>4. LedgerExecuted(run[o])'
  BY <1>1 DEF LedgerExecuted, Executing, Validating
<1>5. VerifiedStands(run[o])'
  BY <1>1 DEF VerifiedStands, Verifying, Planning, Validating, Stands
<1>6. Stands(run[o])'
  BY <1>3, <1>4, <1>5 DEF Stands
<1>7. runs' \in 0..MaxRuns
  BY DEF Stay, LedgerTypeOK
<1>. QED BY <1>6, <1>7, QuietKeeps DEF Stay

LEMMA LoadManifestKeeps ==
    ASSUME LedgerTypeOK, RecordedExists, NEW o \in Operators, Stands(run[o]), LoadManifest(o)
    PROVE  Keeps(o) /\ (report' = report \/ report'[o].outcome # "success")
<1>1. CASE Refuse(o)
  BY <1>1, RefuseKeeps
<1>2. CASE ~Refuse(o)
  <2>. DEFINE r == run[o]
              new == [r EXCEPT !.pc = "digest", !.manifest = manifest, !.checking = 1, !.since = edits]
  <2>1. /\ r.pc = "manifest" /\ To(o, new)
        /\ report' = report /\ Stay /\ UNCHANGED <<history, tables, creds>>
    BY <1>2 DEF LoadManifest
  <2>2. r \in Run /\ manifest \in Manifests /\ edits \in 0..MaxEdits
    BY RunTypes DEF LedgerTypeOK
  <2>3. /\ new \in Run /\ new.pc = "digest" /\ new.manifest = manifest /\ new.settings = r.settings
        /\ new.urls = r.urls /\ new.unverified = r.unverified /\ new.checking = 1 /\ new.since = edits
    <3>1. 1 \in 0..3
      OBVIOUS
    <3>. QED BY <2>2, <3>1 DEF Run, Validating
  <2>. HIDE DEF new
  <2>4. Inspected(new) = {}
    <3>. SUFFICES ASSUME NEW f \in Inspected(new) PROVE FALSE
      OBVIOUS
    <3>1. f \in Files
      BY <2>2, <2>3, MigrationAssumption DEF Inspected
    <3>2. Rank(f.component) \in 1..3
      BY <3>1, LedgerAssumption, Ranks DEF Components
    <3>. QED BY <2>3, <3>2 DEF Inspected
  <2>5. edits <= edits
    BY <2>2, MigrationAssumption
  <2>. QED BY <2>1, <2>2, <2>3, <2>4, <2>5, ValidationStands DEF Validating
<1>. QED BY <1>1, <1>2

LEMMA ValidatingRun ==
    ASSUME LedgerTypeOK, NEW o \in Operators, Stands(run[o]), run[o].pc \in Validating
    PROVE  /\ run[o] \in Run /\ run[o].manifest \in Manifests /\ run[o].checking \in 1..3 /\ run[o].since <= edits
           /\ \A f \in DOMAIN run[o].manifest.files :
                f \in Files /\ run[o].manifest.files[f] \in Bytes /\ Rank(f.component) \in 1..3
           /\ \A f \in DOMAIN run[o].manifest.files :
                f \in NamedFiles(run[o]) <=> Rank(f.component) = run[o].checking
<1>1. /\ run[o] \in Run /\ run[o].manifest \in Manifests /\ run[o].checking \in 1..3 /\ run[o].since <= edits
  BY RunTypes DEF Stands, ReviewedPlan
<1>2. ASSUME NEW f \in DOMAIN run[o].manifest.files
      PROVE  /\ f \in Files /\ run[o].manifest.files[f] \in Bytes /\ Rank(f.component) \in 1..3
             /\ f \in NamedFiles(run[o]) <=> Rank(f.component) = run[o].checking
  <2>1. f \in Files /\ run[o].manifest.files[f] \in Bytes
    BY <1>1, MigrationAssumption
  <2>2. f.component \in Components
    BY <2>1, LedgerAssumption DEF Components
  <2>3. Rank(f.component) \in 1..3 /\ (ComponentOrder[run[o].checking] = f.component <=> Rank(f.component) = run[o].checking)
    BY <1>1, <2>2, Ranks DEF Components, ComponentOrder
  <2>. QED BY <2>1, <2>3 DEF NamedFiles, Named
<1>. QED BY <1>1, <1>2

LEMMA CheckDigestKeeps ==
    ASSUME LedgerTypeOK, RecordedExists, NEW o \in Operators, Stands(run[o]), CheckDigest(o)
    PROVE  Keeps(o) /\ (report' = report \/ report'[o].outcome # "success")
<1>1. CASE Refuse(o)
  BY <1>1, RefuseKeeps
<1>2. CASE ~Refuse(o)
  <2>. DEFINE r == run[o]
              new == [r EXCEPT !.pc = "guard"]
  <2>1. /\ r.pc = "digest" /\ To(o, new) /\ \A f \in NamedFiles(r) : DigestMatches(r.manifest, file, f)
        /\ report' = report /\ Stay /\ UNCHANGED <<history, tables, creds>>
    BY <1>2 DEF CheckDigest, Check
  <2>2. r.pc \in Validating
    BY <2>1 DEF Validating
  <2>3. r \in Run /\ r.manifest \in Manifests /\ r.checking \in 1..3 /\ r.since <= edits
    BY <2>2, ValidatingRun
  <2>4. /\ new \in Run /\ new.pc = "guard" /\ new.manifest = r.manifest /\ new.settings = r.settings
        /\ new.urls = r.urls /\ new.unverified = r.unverified /\ new.checking = r.checking /\ new.since = r.since
    BY <2>3 DEF Run, Validating
  <2>. HIDE DEF new
  <2>5. NamedFiles(new) = NamedFiles(r) /\ Inspected(new) = Inspected(r)
    BY <2>1, <2>4 DEF NamedFiles, Inspected
  <2>6. edits = r.since => \A f \in Inspected(r) : r.manifest.files[f] \in GuardedBytes
    BY <2>2 DEF Stands, ReviewedPlan
  <2>7. \A f \in NamedFiles(r) : file[f] = r.manifest.files[f]
    BY <2>1 DEF DigestMatches
  <2>. QED BY <2>1, <2>2, <2>3, <2>4, <2>5, <2>6, <2>7, ValidationStands DEF Validating
<1>. QED BY <1>1, <1>2

LEMMA CheckSqlKeeps ==
    ASSUME LedgerTypeOK, RecordedExists, NEW o \in Operators, Stands(run[o]), CheckSql(o)
    PROVE  Keeps(o) /\ (report' = report \/ report'[o].outcome # "success")
<1>1. CASE Refuse(o)
  BY <1>1, RefuseKeeps
<1>2. CASE ~Refuse(o)
  <2>. DEFINE r == run[o]
              new == [r EXCEPT !.pc = "inventory"]
  <2>1. /\ r.pc = "guard" /\ To(o, new) /\ \A f \in NamedFiles(r) : SqlPasses(file, f)
        /\ report' = report /\ Stay /\ UNCHANGED <<history, tables, creds>>
    BY <1>2 DEF CheckSql, Check
  <2>2. r.pc \in Validating
    BY <2>1 DEF Validating
  <2>3. r \in Run /\ r.manifest \in Manifests /\ r.checking \in 1..3 /\ r.since <= edits
    BY <2>2, ValidatingRun
  <2>4. /\ new \in Run /\ new.pc = "inventory" /\ new.manifest = r.manifest /\ new.settings = r.settings
        /\ new.urls = r.urls /\ new.unverified = r.unverified /\ new.checking = r.checking /\ new.since = r.since
    BY <2>3 DEF Run, Validating
  <2>. HIDE DEF new
  <2>5. ASSUME edits = r.since, NEW f \in Inspected(new)
        PROVE  r.manifest.files[f] \in GuardedBytes
    <3>1. f \in DOMAIN r.manifest.files /\ (f \in Inspected(r) \/ Rank(f.component) = r.checking)
      BY <2>4 DEF Inspected
    <3>2. CASE f \in Inspected(r)
      BY <2>2, <2>5, <3>2 DEF Stands, ReviewedPlan
    <3>3. CASE Rank(f.component) = r.checking
      <4>1. f \in NamedFiles(r) /\ r.manifest.files[f] \in Bytes
        BY <2>2, <3>1, <3>3, ValidatingRun
      <4>2. file[f] = r.manifest.files[f]
        BY <2>1, <2>2, <2>5, <4>1 DEF Stands, ReviewedPlan
      <4>. QED BY <2>1, <4>1, <4>2 DEF SqlPasses, GuardedBytes
    <3>. QED BY <3>1, <3>2, <3>3
  <2>. QED BY <2>1, <2>2, <2>3, <2>4, <2>5, ValidationStands DEF Validating
<1>. QED BY <1>1, <1>2

LEMMA CheckInventoryKeeps ==
    ASSUME LedgerTypeOK, RecordedExists, NEW o \in Operators, Stands(run[o]), CheckInventory(o)
    PROVE  Keeps(o) /\ (report' = report \/ report'[o].outcome # "success")
<1>. DEFINE r == run[o]
            more == [r EXCEPT !.pc = "digest", !.checking = @ + 1]
            over == [r EXCEPT !.pc = "plan", !.checking = 0, !.since = 0, !.settled = (edits = r.since)]
<1>1. CASE Refuse(o)
  BY <1>1, RefuseKeeps
<1>2. CASE ~Refuse(o)
  <2>1. /\ r.pc = "inventory" /\ report' = report /\ Stay /\ UNCHANGED <<history, tables, creds>>
        /\ \/ r.checking < 3 /\ To(o, more)
           \/ ~(r.checking < 3) /\ To(o, over) /\ GlobalOrder(r.manifest)
    BY <1>2 DEF CheckInventory, Check
  <2>2. r.pc \in Validating
    BY <2>1 DEF Validating
  <2>3. r \in Run /\ r.manifest \in Manifests /\ r.checking \in 1..3 /\ r.since <= edits
    BY <2>2, ValidatingRun
  <2>4. edits = r.since => \A f \in DOMAIN r.manifest.files : Rank(f.component) <= r.checking => r.manifest.files[f] \in GuardedBytes
    <3>. SUFFICES ASSUME edits = r.since, NEW f \in DOMAIN r.manifest.files, Rank(f.component) <= r.checking
                  PROVE  r.manifest.files[f] \in GuardedBytes
      OBVIOUS
    <3>1. Rank(f.component) \in 1..3
      BY <2>2, ValidatingRun
    <3>2. f \in Inspected(r)
      BY <2>1, <2>3, <3>1 DEF Inspected
    <3>. QED BY <2>2, <3>2 DEF Stands, ReviewedPlan
  <2>5. CASE r.checking < 3 /\ To(o, more)
    <3>1. /\ more \in Run /\ more.pc = "digest" /\ more.manifest = r.manifest /\ more.settings = r.settings
          /\ more.urls = r.urls /\ more.unverified = r.unverified /\ more.checking = r.checking + 1
          /\ more.checking \in 1..3 /\ more.since = r.since
      <4>1. r.checking + 1 \in 0..3 /\ r.checking + 1 \in 1..3
        BY <2>3, <2>5
      <4>. DEFINE next == r.checking + 1
                  other == [r EXCEPT !.pc = "digest", !.checking = next]
      <4>2. more = other
        BY <2>3 DEF Run
      <4>. HIDE DEF more, next
      <4>3. next \in 0..3 /\ next \in 1..3 /\ next = r.checking + 1
        BY <4>1 DEF next
      <4>. QED BY <2>3, <4>2, <4>3 DEF Run, Validating
    <3>. HIDE DEF more
    <3>2. ASSUME edits = r.since, NEW f \in Inspected(more)
          PROVE  r.manifest.files[f] \in GuardedBytes
      <4>1. f \in DOMAIN r.manifest.files /\ Rank(f.component) < r.checking + 1
        BY <3>1 DEF Inspected
      <4>2. Rank(f.component) \in 1..3
        BY <2>2, <4>1, ValidatingRun
      <4>. QED BY <2>3, <2>4, <3>2, <4>1, <4>2
    <3>. QED BY <2>1, <2>2, <2>3, <2>5, <3>1, <3>2, ValidationStands DEF Validating
  <2>6. CASE ~(r.checking < 3) /\ To(o, over) /\ GlobalOrder(r.manifest)
    <3>1. /\ over \in Run /\ over.pc = "plan" /\ over.manifest = r.manifest /\ over.settings = r.settings
          /\ over.urls = r.urls /\ over.unverified = r.unverified /\ over.settled = (edits = r.since)
      <4>1. 0 \in 0..3 /\ 0 \in 0..MaxEdits
        BY MigrationAssumption
      <4>. DEFINE still == (edits = r.since)
      <4>2. still \in BOOLEAN
        OBVIOUS
      <4>. HIDE DEF still
      <4>3. over.settled = still
        BY <2>3 DEF Run, still
      <4>4. over \in Run /\ over.pc = "plan" /\ over.manifest = r.manifest /\ over.settings = r.settings
            /\ over.urls = r.urls /\ over.unverified = r.unverified
        BY <2>3, <4>1, <4>2 DEF Run, Planning, still
      <4>. QED BY <4>3, <4>4 DEF still
    <3>. HIDE DEF over
    <3>2. over.settled => \A f \in DOMAIN r.manifest.files : r.manifest.files[f] \in GuardedBytes
      <4>. SUFFICES ASSUME edits = r.since, NEW f \in DOMAIN r.manifest.files
                    PROVE  r.manifest.files[f] \in GuardedBytes
        BY <3>1
      <4>1. Rank(f.component) \in 1..3
        BY <2>2, ValidatingRun
      <4>. QED BY <2>3, <2>4, <2>6, <4>1
    <3>. QED BY <2>1, <2>2, <2>3, <2>6, <3>1, <3>2, ValidationStands DEF Validating
  <2>. QED BY <2>1, <2>5, <2>6
<1>. QED BY <1>1, <1>2

LEMMA ResolvePlanKeeps ==
    ASSUME LedgerTypeOK, RecordedExists, NEW o \in Operators, Stands(run[o]), ResolvePlan(o)
    PROVE  Keeps(o) /\ (report' = report \/ report'[o].outcome # "success")
<1>1. CASE Refuse(o)
  BY <1>1, RefuseKeeps
<1>2. CASE ~Refuse(o)
  <2>. DEFINE r == run[o]
              urls == PostgresUrls(r.urls)
              plan == PlanFor(doc, urls)
              new == [r EXCEPT !.pc = "project", !.plan = plan, !.next = 1]
  <2>1. /\ r.pc = "plan" /\ Plannable(doc, r.manifest, urls)
        /\ \A i \in 1..Len(plan) : WriteAllowed(plan[i])
        /\ To(o, new)
        /\ report' = report /\ Stay /\ UNCHANGED <<history, tables, creds>>
    BY <1>2 DEF ResolvePlan
  <2>2. r \in Run /\ r.urls \in UrlMaps
    BY RunTypes
  <2>3. urls \in [DOMAIN urls -> Urls] /\ DOMAIN urls \in SUBSET Components /\ DOMAIN urls # {}
    BY <2>1, <2>2, UrlMapOf DEF Stands, ReviewedPlan, Planning, Validating
  <2>. HIDE DEF urls
  <2>4. plan \in Seq(PlannedTarget) /\ Len(plan) \in Nat \ {0} /\ r.manifest = doc.manifest
    BY <2>1, <2>3, PlansAreWritable DEF LedgerTypeOK
  <2>. HIDE DEF plan
  <2>5. /\ new \in Run /\ new.pc = "project" /\ new.manifest = r.manifest /\ new.settings = r.settings
        /\ new.urls = r.urls /\ new.unverified = r.unverified /\ new.plan = plan /\ new.next = 1
        /\ new.settled = r.settled
    BY <2>2, <2>4 DEF Run, Planning, Validating
  <2>. HIDE DEF new
  <2>6. run'[o] = new
    BY <2>1, <2>5, RunBecomes
  <2>7. ReviewedPlan(run[o])'
    BY <2>1, <2>4, <2>5, <2>6 DEF ReviewedPlan, Stands, Planning, Validating, Stay
  <2>8. LedgerExecuted(run[o])'
    BY <2>5, <2>6 DEF LedgerExecuted
  <2>9. VerifiedStands(run[o])'
    BY <2>1, <2>5, <2>6 DEF VerifiedStands, Verifying, Planning, Validating, Stands
  <2>10. Stands(run[o])'
    BY <2>7, <2>8, <2>9 DEF Stands
  <2>11. runs' \in 0..MaxRuns
    BY <2>1 DEF Stay, LedgerTypeOK
  <2>. QED BY <2>1, <2>5, <2>10, <2>11, QuietKeeps DEF Stay
<1>. QED BY <1>1, <1>2

-----------------------------------------------------------------------------
(* The steps that carry out a target. *)

LEMMA HeadAndTail ==
    ASSUME NEW s \in Seq(Files), s # <<>>
    PROVE  /\ Tail(s) \in Seq(Files) /\ Head(s) \in Files
           /\ Head(s) \in {s[i] : i \in 1..Len(s)}
           /\ {Tail(s)[i] : i \in 1..Len(Tail(s))} \subseteq {s[i] : i \in 1..Len(s)}
           /\ {s[i] : i \in 1..Len(s)} \subseteq {Tail(s)[i] : i \in 1..Len(Tail(s))} \cup {Head(s)}
<1>1. /\ Len(s) \in Nat \ {0} /\ Tail(s) \in Seq(Files) /\ Head(s) = s[1] /\ Head(s) \in Files
      /\ Len(Tail(s)) = Len(s) - 1 /\ \A i \in 1..(Len(s) - 1) : Tail(s)[i] = s[i + 1]
  OBVIOUS
<1>2. \A i \in 1..(Len(s) - 1) : i + 1 \in 1..Len(s)
  BY <1>1
<1>3. \A i \in 1..Len(s) : i = 1 \/ (i - 1 \in 1..(Len(s) - 1) /\ (i - 1) + 1 = i)
  BY <1>1
<1>4. ASSUME NEW i \in 1..Len(s)
      PROVE  s[i] = Head(s) \/ \E j \in 1..Len(Tail(s)) : s[i] = Tail(s)[j]
  BY <1>1, <1>3
<1>5. Head(s) \in {s[i] : i \in 1..Len(s)}
  BY <1>1
<1>6. {Tail(s)[i] : i \in 1..Len(Tail(s))} \subseteq {s[i] : i \in 1..Len(s)}
  <2>. SUFFICES ASSUME NEW i \in 1..Len(Tail(s)) PROVE \E j \in 1..Len(s) : Tail(s)[i] = s[j]
    OBVIOUS
  <2>. QED BY <1>1, <1>2
<1>7. {s[i] : i \in 1..Len(s)} \subseteq {Tail(s)[i] : i \in 1..Len(Tail(s))} \cup {Head(s)}
  BY <1>4, Zenon
<1>. QED BY <1>1, <1>5, <1>6, <1>7

LEMMA RestOf ==
    ASSUME NEW s \in Seq(Files), NEW k \in Nat, k <= Len(s)
    PROVE  LET rest == SubSeq(s, k + 1, Len(s))
           IN  /\ rest \in Seq(Files)
               /\ {rest[i] : i \in 1..Len(rest)} \subseteq {s[i] : i \in 1..Len(s)}
               /\ {s[i] : i \in 1..Len(s)} \subseteq {rest[i] : i \in 1..Len(rest)} \cup {s[i] : i \in 1..k}
<1>. DEFINE rest == SubSeq(s, k + 1, Len(s))
            n == Len(s) - k
<1>1. n \in Nat /\ Len(s) \in Nat
  OBVIOUS
<1>2. /\ rest \in Seq(Files) /\ Len(rest) = n
      /\ \A i \in 1..n : rest[i] = s[k + i]
  <2>1. rest = [i \in 1..n |-> s[k + i]]
    BY <1>1
  <2>2. \A i \in 1..n : k + i \in 1..Len(s) /\ s[k + i] \in Files
    BY <1>1
  <2>. HIDE DEF rest
  <2>. QED BY <1>1, <2>1, <2>2
<1>. HIDE DEF rest
<1>3. \A i \in 1..n : k + i \in 1..Len(s)
  BY <1>1
<1>4. \A i \in 1..Len(s) : i \in 1..k \/ (i - k \in 1..n /\ k + (i - k) = i)
  BY <1>1
<1>5. ASSUME NEW i \in 1..Len(s)
      PROVE  i \in 1..k \/ \E j \in 1..n : s[i] = rest[j]
  BY <1>2, <1>4
<1>6. {rest[i] : i \in 1..n} \subseteq {s[i] : i \in 1..Len(s)}
  BY <1>2, <1>3
<1>7. {s[i] : i \in 1..Len(s)} \subseteq {rest[i] : i \in 1..n} \cup {s[i] : i \in 1..k}
  BY <1>5
<1>. QED BY <1>2, <1>6, <1>7 DEF rest

LEMMA ExecutingRun ==
    ASSUME LedgerTypeOK, NEW o \in Operators, Stands(run[o]), run[o].pc \in Executing
    PROVE  /\ run[o] \in Run /\ run[o].plan \in Seq(PlannedTarget) /\ run[o].pending \in Seq(Files)
           /\ run[o].manifest \in Manifests /\ GlobalOrder(run[o].manifest)
           /\ \A f \in DOMAIN run[o].manifest.files : run[o].manifest.files[f] \in Bytes
           /\ run[o].settled => \A f \in DOMAIN run[o].manifest.files : run[o].manifest.files[f] \in GuardedBytes
           /\ run[o].manifest = doc.manifest
           /\ run[o].next \in 1..Len(run[o].plan) /\ Len(run[o].plan) \in Nat
           /\ CurrentTarget(run[o]) \in PlannedTarget /\ DbOf[CurrentTarget(run[o]).url] \in Dbs
<1>1. run[o] \in Run
  BY RunTypes
<1>2. run[o].plan \in Seq(PlannedTarget) /\ run[o].pending \in Seq(Files) /\ Len(run[o].plan) \in Nat
  BY <1>1 DEF Run
<1>3. /\ run[o].manifest \in Manifests /\ GlobalOrder(run[o].manifest)
      /\ run[o].settled => \A f \in DOMAIN run[o].manifest.files : run[o].manifest.files[f] \in GuardedBytes
      /\ run[o].manifest = doc.manifest /\ run[o].next \in 1..Len(run[o].plan)
  BY DEF Stands, ReviewedPlan, Planning, Validating, Executing
<1>4. CurrentTarget(run[o]) \in PlannedTarget
  BY <1>3, RunTypes
<1>5. DbOf[CurrentTarget(run[o]).url] \in Dbs
  BY <1>3, RunTypes DEF CurrentTarget
<1>6. \A f \in DOMAIN run[o].manifest.files : run[o].manifest.files[f] \in Bytes
  BY <1>3, MigrationAssumption
<1>. QED BY <1>1, <1>2, <1>3, <1>4, <1>5, <1>6

(* A run that carries out a target keeps its manifest, plan and place in it. *)
LEMMA ExecutionStands ==
    ASSUME LedgerTypeOK, NEW o \in Operators, Stands(run[o]), run[o].pc \in Executing, doc' = doc,
           run'[o].pc \in Executing, run'[o].settings = run[o].settings, run'[o].urls = run[o].urls,
           run'[o].manifest = run[o].manifest, run'[o].settled = run[o].settled, run'[o].plan = run[o].plan,
           run'[o].next \in 1..Len(run[o].plan), run'[o].unverified = run[o].unverified
    PROVE  ReviewedPlan(run[o])' /\ VerifiedStands(run[o])'
<1>1. ReviewedPlan(run[o])'
  BY DEF ReviewedPlan, Stands, Planning, Validating, Executing
<1>2. VerifiedStands(run[o])'
  BY DEF VerifiedStands, Stands, Planning, Validating, Executing, Verifying
<1>. QED BY <1>1, <1>2

LEMMA ExecutedNext ==
    ASSUME NEW o \in Operators, NEW s, run'[o] = s,
           DOMAIN s.bytes = Ledger(s.manifest, CurrentTarget(s).profile),
           \A f \in DOMAIN s.bytes : s.bytes[f] = s.manifest.files[f], Left(s) \subseteq DOMAIN s.bytes,
           s.pc = "list" => Left(s) = DOMAIN s.bytes,
           s.pc \in {"apply", "record"} => DOMAIN s.bytes \ Left(s) \subseteq history'[DbOf[CurrentTarget(s).url]],
           s.pc = "record" => s.pending # <<>> /\ tables'[DbOf[CurrentTarget(s).url]][Head(s.pending).component] \in Bytes,
           \A i \in 1..(s.next - 1) : Ledger(s.manifest, s.plan[i].profile) \subseteq history'[DbOf[s.plan[i].url]]
    PROVE  LedgerExecuted(run[o])'
<1>1. run[o]' = s
  OBVIOUS
<1>. QED BY <1>1 DEF LedgerExecuted, Recorded

LEMMA ProjectingNext ==
    ASSUME NEW o \in Operators, NEW s, run'[o] = s, s.pc = "project",
           \A i \in 1..(s.next - 1) : Ledger(s.manifest, s.plan[i].profile) \subseteq history'[DbOf[s.plan[i].url]]
    PROVE  LedgerExecuted(run[o])'
<1>1. run[o]' = s
  OBVIOUS
<1>. QED BY <1>1 DEF LedgerExecuted, Recorded

LEMMA ProjectKeeps ==
    ASSUME LedgerTypeOK, RecordedExists, NEW o \in Operators, Stands(run[o]), Project(o)
    PROVE  Keeps(o) /\ (report' = report \/ report'[o].outcome # "success")
<1>. DEFINE r == run[o]
            selected == MigrationsFor(r.manifest, CurrentTarget(r).profile)
            names == {selected[i] : i \in 1..Len(selected)}
            bytes == [f \in names |-> file[f]]
            new == [r EXCEPT !.pc = "list", !.pending = selected, !.bytes = bytes]
<1>0. r.pc = "project" /\ r.pc \in Executing
  BY DEF Project, Executing
<1>1. CASE Incomplete(o)
  BY <1>0, <1>1, IncompleteKeeps DEF Project
<1>2. CASE ~Incomplete(o)
  <2>1. /\ \A f \in names : file[f] = r.manifest.files[f]
        /\ To(o, new) /\ report' = report /\ Stay /\ UNCHANGED <<history, tables, creds>>
    BY <1>2 DEF Project
  <2>. DEFINE ledger == Ledger(r.manifest, CurrentTarget(r).profile)
  <2>2. selected \in Seq(Files) /\ names = ledger
    BY <1>0, ExecutingRun, MigrationsListLedger
  <2>3. ledger \in SUBSET Files /\ \A f \in ledger : file[f] = r.manifest.files[f] /\ file[f] \in Bytes
    BY <1>0, <2>1, <2>2, ExecutingRun, LedgerIsFinite, MigrationAssumption
  <2>. HIDE DEF selected
  <2>4. bytes \in UNION {[fs -> Bytes] : fs \in SUBSET Files} /\ DOMAIN bytes = ledger
        /\ \A f \in ledger : bytes[f] = r.manifest.files[f]
    <3>1. bytes \in [ledger -> Bytes]
      BY <2>2, <2>3
    <3>. QED BY <2>2, <2>3, <3>1
  <2>5. {selected[i] : i \in 1..Len(selected)} = ledger
    BY <2>2
  <2>. HIDE DEF bytes, ledger
  <2>6. /\ new \in Run /\ new.pc = "list" /\ new.manifest = r.manifest /\ new.settings = r.settings
        /\ new.urls = r.urls /\ new.unverified = r.unverified /\ new.plan = r.plan /\ new.next = r.next
        /\ new.settled = r.settled /\ new.bytes = bytes /\ new.pending = selected
    BY <1>0, <2>2, <2>4, ExecutingRun DEF Run, Planning, Validating
  <2>. HIDE DEF new
  <2>7. run'[o] = new /\ doc' = doc /\ new.pc \in Executing
    BY <2>1, <2>6, RunBecomes DEF Stay, Executing
  <2>8. ReviewedPlan(run[o])' /\ VerifiedStands(run[o])'
    BY <1>0, <2>6, <2>7, ExecutingRun, ExecutionStands
  <2>9. \A i \in 1..(r.next - 1) : Recorded(r, r.plan[i])
    BY <1>0 DEF Stands, LedgerExecuted
  <2>10. LedgerExecuted(run[o])'
    <3>1. CurrentTarget(new) = CurrentTarget(r) /\ Left(new) = ledger
      BY <2>5, <2>6 DEF CurrentTarget, Left
    <3>2. \A i \in 1..(new.next - 1) : Ledger(new.manifest, new.plan[i].profile) \subseteq history'[DbOf[new.plan[i].url]]
      BY <2>1, <2>6, <2>9 DEF Recorded
    <3>3. ledger = Ledger(new.manifest, CurrentTarget(new).profile)
      BY <2>6, <3>1 DEF ledger
    <3>4. DOMAIN new.bytes = ledger /\ \A f \in DOMAIN new.bytes : new.bytes[f] = new.manifest.files[f]
      BY <2>4, <2>6
    <3>5. run'[o] = new /\ new.pc = "list" /\ Left(new) = ledger
      BY <2>6, <2>7, <3>1
    <3>6. DOMAIN new.bytes = Ledger(new.manifest, CurrentTarget(new).profile) /\ Left(new) = DOMAIN new.bytes
      BY <3>3, <3>4, <3>5
    <3>. QED BY <3>2, <3>4, <3>5, <3>6, ExecutedNext
  <2>11. Stands(run[o])'
    BY <2>8, <2>10 DEF Stands
  <2>12. runs' \in 0..MaxRuns
    BY <2>1 DEF Stay, LedgerTypeOK
  <2>. QED BY <2>1, <2>6, <2>11, <2>12, QuietKeeps DEF Stay
<1>. QED BY <1>1, <1>2

LEMMA ListPendingKeeps ==
    ASSUME LedgerTypeOK, RecordedExists, NEW o \in Operators, Stands(run[o]), ListPending(o)
    PROVE  Keeps(o) /\ (report' = report \/ report'[o].outcome # "success")
<1>. DEFINE r == run[o]
            d == DbOf[CurrentTarget(r).url]
            applied == Cardinality(history[d])
            rest == SubSeq(r.pending, applied + 1, Len(r.pending))
            new == [r EXCEPT !.pc = "apply", !.pending = rest]
            ledger == Ledger(r.manifest, CurrentTarget(r).profile)
<1>0. r.pc = "list" /\ r.pc \in Executing
  BY DEF ListPending, Executing
<1>1. CASE Incomplete(o)
  BY <1>0, <1>1, IncompleteKeeps DEF ListPending
<1>2. CASE ~Incomplete(o)
  <2>1. /\ applied <= Len(r.pending) /\ history[d] = {r.pending[i] : i \in 1..applied}
        /\ To(o, new) /\ report' = report /\ Stay /\ UNCHANGED <<history, tables, creds>>
    BY <1>2 DEF ListPending
  <2>2. d \in Dbs /\ r.pending \in Seq(Files)
    BY <1>0, ExecutingRun
  <2>3. applied \in Nat
    <3>1. history[d] \in SUBSET Files
      BY <2>2 DEF LedgerTypeOK
    <3>2. IsFiniteSet(history[d])
      BY <3>1, LedgerAssumption, FS_Subset
    <3>. QED BY <3>2, FS_CardinalityType
  <2>4. /\ DOMAIN r.bytes = ledger /\ \A f \in ledger : r.bytes[f] = r.manifest.files[f]
        /\ {r.pending[i] : i \in 1..Len(r.pending)} = ledger
        /\ \A i \in 1..(r.next - 1) : Recorded(r, r.plan[i])
    BY <1>0 DEF Stands, LedgerExecuted, Left
  <2>. HIDE DEF applied
  <2>5. /\ rest \in Seq(Files) /\ {rest[i] : i \in 1..Len(rest)} \subseteq ledger
        /\ ledger \subseteq {rest[i] : i \in 1..Len(rest)} \cup history[d]
    BY <2>1, <2>2, <2>3, <2>4, RestOf
  <2>. HIDE DEF rest, ledger
  <2>6. /\ new \in Run /\ new.pc = "apply" /\ new.manifest = r.manifest /\ new.settings = r.settings
        /\ new.urls = r.urls /\ new.unverified = r.unverified /\ new.plan = r.plan /\ new.next = r.next
        /\ new.settled = r.settled /\ new.bytes = r.bytes /\ new.pending = rest
    BY <1>0, <2>5, ExecutingRun DEF Run, Planning, Validating
  <2>. HIDE DEF new
  <2>7. run'[o] = new /\ doc' = doc /\ new.pc \in Executing
    BY <2>1, <2>6, RunBecomes DEF Stay, Executing
  <2>8. ReviewedPlan(run[o])' /\ VerifiedStands(run[o])'
    BY <1>0, <2>6, <2>7, ExecutingRun, ExecutionStands
  <2>9. ledger \ {rest[i] : i \in 1..Len(rest)} \subseteq history[d]
    BY <2>5
  <2>10. LedgerExecuted(run[o])'
    <3>. DEFINE left == {rest[i] : i \in 1..Len(rest)}
    <3>1. CurrentTarget(new) = CurrentTarget(r) /\ Left(new) = left
      BY <2>6 DEF CurrentTarget, Left
    <3>2. \A i \in 1..(new.next - 1) : Ledger(new.manifest, new.plan[i].profile) \subseteq history'[DbOf[new.plan[i].url]]
      BY <2>1, <2>4, <2>6 DEF Recorded
    <3>3. ledger = Ledger(new.manifest, CurrentTarget(new).profile) /\ d = DbOf[CurrentTarget(new).url]
      BY <2>6, <3>1 DEF ledger
    <3>4. left \subseteq ledger /\ ledger \ left \subseteq history'[d]
      BY <2>1, <2>5, <2>9
    <3>. HIDE DEF left, d
    <3>5. DOMAIN new.bytes = ledger /\ \A f \in DOMAIN new.bytes : new.bytes[f] = new.manifest.files[f]
      BY <2>4, <2>6
    <3>6. run'[o] = new /\ new.pc = "apply" /\ Left(new) \subseteq ledger /\ ledger \ Left(new) \subseteq history'[d]
      BY <2>6, <2>7, <3>1, <3>4
    <3>7. /\ DOMAIN new.bytes = Ledger(new.manifest, CurrentTarget(new).profile) /\ Left(new) \subseteq DOMAIN new.bytes
          /\ DOMAIN new.bytes \ Left(new) \subseteq history'[DbOf[CurrentTarget(new).url]]
      BY <3>3, <3>5, <3>6
    <3>. QED BY <3>2, <3>5, <3>6, <3>7, ExecutedNext
  <2>11. Stands(run[o])'
    BY <2>8, <2>10 DEF Stands
  <2>12. runs' \in 0..MaxRuns
    BY <2>1 DEF Stay, LedgerTypeOK
  <2>. QED BY <2>1, <2>6, <2>11, <2>12, QuietKeeps DEF Stay
<1>. QED BY <1>1, <1>2

(* A run that goes on and has written to a database. *)
LEMMA WriteKeeps ==
    ASSUME LedgerTypeOK, NEW o \in Operators, NEW s \in Run, To(o, s), Stay, report' = report,
           history' \in [Dbs -> SUBSET Files], tables' \in [Dbs -> [Components -> Bytes \cup {"absent", "local"}]],
           creds' \in [Dbs -> {"none", "usable", "disabled"}],
           Grows, RecordedExists', Stands(run[o])'
    PROVE  Keeps(o)
<1>1. /\ run' \in [Operators -> Run] /\ run'[o] = s
      /\ \A q \in Operators \ {o} : run'[q] = run[q]
  BY RunBecomes
<1>2. LedgerTypeOK'
  BY <1>1 DEF LedgerTypeOK, Stay
<1>. QED BY <1>1, <1>2 DEF Keeps, Stay

LEMMA RecordedStays ==
    ASSUME LedgerTypeOK, RecordedExists, Grows, history' = history
    PROVE  RecordedExists'
<1>. SUFFICES ASSUME NEW d \in Dbs, NEW f \in history'[d]
              PROVE  tables'[d][f.component] \in Bytes
  BY DEF RecordedExists
<1>1. f \in history[d] /\ f \in Files
  BY DEF LedgerTypeOK
<1>2. f.component \in Components
  BY <1>1, LedgerAssumption DEF Components
<1>. QED BY <1>1, <1>2 DEF RecordedExists, Grows

LEMMA ApplyFileKeeps ==
    ASSUME LedgerTypeOK, RecordedExists, NEW o \in Operators, Stands(run[o]), ApplyFile(o)
    PROVE  Keeps(o) /\ (report' = report \/ report'[o].outcome # "success")
<1>. DEFINE r == run[o]
            d == DbOf[CurrentTarget(r).url]
            f == Head(r.pending)
            ledger == Ledger(r.manifest, CurrentTarget(r).profile)
            new == [r EXCEPT !.pc = "record"]
<1>0. r.pc = "apply" /\ r.pc \in Executing /\ r.pending # <<>>
  BY DEF ApplyFile, Executing
<1>1. CASE Incomplete(o) /\ UNCHANGED tables
  BY <1>0, <1>1, IncompleteKeeps DEF ApplyFile
<1>2. CASE ~(Incomplete(o) /\ UNCHANGED tables)
  <2>1. /\ tables[d][f.component] = "absent"
        /\ tables' = [tables EXCEPT ![d][f.component] = r.bytes[f]]
        /\ To(o, new) /\ report' = report /\ Stay /\ UNCHANGED <<history, creds>>
    BY <1>2 DEF ApplyFile
  <2>2. d \in Dbs /\ r.pending \in Seq(Files) /\ r.manifest \in Manifests
    BY <1>0, ExecutingRun
  <2>3. /\ DOMAIN r.bytes = ledger /\ \A g \in ledger : r.bytes[g] = r.manifest.files[g]
        /\ Left(r) \subseteq ledger /\ ledger \ Left(r) \subseteq history[d]
        /\ \A i \in 1..(r.next - 1) : Recorded(r, r.plan[i])
    BY <1>0 DEF Stands, LedgerExecuted
  <2>4. f \in Left(r) /\ f \in Files
    BY <1>0, <2>2, HeadAndTail DEF Left
  <2>5. f \in ledger /\ f \in DOMAIN r.manifest.files /\ r.bytes[f] = r.manifest.files[f]
    BY <2>2, <2>3, <2>4, LedgerIsFinite
  <2>6. r.bytes[f] \in Bytes /\ f.component \in Components
    BY <2>2, <2>4, <2>5, MigrationAssumption, LedgerAssumption DEF Components
  <2>. HIDE DEF f, d, ledger
  <2>7. /\ tables' \in [Dbs -> [Components -> Bytes \cup {"absent", "local"}]]
        /\ tables'[d][f.component] \in Bytes
        /\ \A e \in Dbs, c \in Components : (e # d \/ c # f.component) => tables'[e][c] = tables[e][c]
    BY <2>1, <2>2, <2>6 DEF LedgerTypeOK
  <2>8. Grows
    BY <2>1, <2>7 DEF Grows
  <2>9. /\ new \in Run /\ new.pc = "record" /\ new.manifest = r.manifest /\ new.settings = r.settings
        /\ new.urls = r.urls /\ new.unverified = r.unverified /\ new.plan = r.plan /\ new.next = r.next
        /\ new.settled = r.settled /\ new.bytes = r.bytes /\ new.pending = r.pending
    BY <1>0, ExecutingRun DEF Run, Planning, Validating
  <2>. HIDE DEF new
  <2>10. run'[o] = new /\ doc' = doc /\ new.pc \in Executing
    BY <2>1, <2>9, RunBecomes DEF Stay, Executing
  <2>11. ReviewedPlan(run[o])' /\ VerifiedStands(run[o])'
    BY <1>0, <2>9, <2>10, ExecutingRun, ExecutionStands
  <2>12. LedgerExecuted(run[o])'
    <3>1. CurrentTarget(new) = CurrentTarget(r) /\ Left(new) = Left(r)
      BY <2>9 DEF CurrentTarget, Left
    <3>2. \A i \in 1..(new.next - 1) : Ledger(new.manifest, new.plan[i].profile) \subseteq history'[DbOf[new.plan[i].url]]
      BY <2>1, <2>3, <2>9 DEF Recorded
    <3>3. ledger = Ledger(new.manifest, CurrentTarget(new).profile) /\ d = DbOf[CurrentTarget(new).url]
      BY <2>9, <3>1 DEF ledger, d
    <3>4. DOMAIN new.bytes = ledger /\ \A g \in DOMAIN new.bytes : new.bytes[g] = new.manifest.files[g]
      BY <2>3, <2>9
    <3>5. run'[o] = new /\ new.pc = "record" /\ Left(new) \subseteq ledger /\ ledger \ Left(new) \subseteq history'[d]
      BY <2>1, <2>3, <2>9, <2>10, <3>1
    <3>6. new.pending # <<>> /\ tables'[d][Head(new.pending).component] \in Bytes
      BY <1>0, <2>7, <2>9 DEF f
    <3>7. /\ DOMAIN new.bytes = Ledger(new.manifest, CurrentTarget(new).profile) /\ Left(new) \subseteq DOMAIN new.bytes
          /\ DOMAIN new.bytes \ Left(new) \subseteq history'[DbOf[CurrentTarget(new).url]]
          /\ tables'[DbOf[CurrentTarget(new).url]][Head(new.pending).component] \in Bytes
      BY <3>3, <3>4, <3>5, <3>6
    <3>. QED BY <3>2, <3>4, <3>5, <3>6, <3>7, ExecutedNext
  <2>13. Stands(run[o])'
    BY <2>11, <2>12 DEF Stands
  <2>14. RecordedExists'
    BY <2>1, <2>8, RecordedStays
  <2>. QED BY <2>1, <2>7, <2>8, <2>9, <2>13, <2>14, WriteKeeps DEF LedgerTypeOK
<1>. QED BY <1>1, <1>2

LEMMA RecordVersionKeeps ==
    ASSUME LedgerTypeOK, RecordedExists, NEW o \in Operators, Stands(run[o]), RecordVersion(o)
    PROVE  Keeps(o) /\ report' = report
<1>. DEFINE r == run[o]
            d == DbOf[CurrentTarget(r).url]
            f == Head(r.pending)
            rest == Tail(r.pending)
            ledger == Ledger(r.manifest, CurrentTarget(r).profile)
            new == [r EXCEPT !.pc = "apply", !.pending = rest]
<1>0. r.pc = "record" /\ r.pc \in Executing
  BY DEF RecordVersion, Executing
<1>1. /\ history' = [history EXCEPT ![d] = @ \cup {f}]
      /\ To(o, new) /\ report' = report /\ Stay /\ UNCHANGED <<tables, creds>>
  BY DEF RecordVersion
<1>2. d \in Dbs /\ r.pending \in Seq(Files) /\ r.manifest \in Manifests
  BY <1>0, ExecutingRun
<1>3. /\ DOMAIN r.bytes = ledger /\ \A g \in ledger : r.bytes[g] = r.manifest.files[g]
      /\ Left(r) \subseteq ledger /\ ledger \ Left(r) \subseteq history[d]
      /\ \A i \in 1..(r.next - 1) : Recorded(r, r.plan[i])
      /\ r.pending # <<>> /\ tables[d][f.component] \in Bytes
  BY <1>0 DEF Stands, LedgerExecuted
<1>4. /\ rest \in Seq(Files) /\ f \in Files
      /\ {rest[i] : i \in 1..Len(rest)} \subseteq Left(r)
      /\ Left(r) \subseteq {rest[i] : i \in 1..Len(rest)} \cup {f}
  BY <1>2, <1>3, HeadAndTail DEF Left
<1>. HIDE DEF f, d, ledger, rest
<1>5. /\ history' \in [Dbs -> SUBSET Files] /\ history'[d] = history[d] \cup {f}
      /\ \A e \in Dbs : e # d => history'[e] = history[e]
  BY <1>1, <1>2, <1>4 DEF LedgerTypeOK
<1>6. Grows
  BY <1>1, <1>5 DEF Grows
<1>7. RecordedExists'
  BY <1>1, <1>3, <1>5 DEF RecordedExists
<1>8. /\ new \in Run /\ new.pc = "apply" /\ new.manifest = r.manifest /\ new.settings = r.settings
      /\ new.urls = r.urls /\ new.unverified = r.unverified /\ new.plan = r.plan /\ new.next = r.next
      /\ new.settled = r.settled /\ new.bytes = r.bytes /\ new.pending = rest
  BY <1>0, <1>4, ExecutingRun DEF Run, Planning, Validating
<1>. HIDE DEF new
<1>9. run'[o] = new /\ doc' = doc /\ new.pc \in Executing
  BY <1>1, <1>8, RunBecomes DEF Stay, Executing
<1>10. ReviewedPlan(run[o])' /\ VerifiedStands(run[o])'
  BY <1>0, <1>8, <1>9, ExecutingRun, ExecutionStands
<1>11. LedgerExecuted(run[o])'
  <2>1. CurrentTarget(new) = CurrentTarget(r) /\ Left(new) = {rest[i] : i \in 1..Len(rest)}
    BY <1>8 DEF CurrentTarget, Left
  <2>2. \A i \in 1..(new.next - 1) : Ledger(new.manifest, new.plan[i].profile) \subseteq history'[DbOf[new.plan[i].url]]
    <3>. SUFFICES ASSUME NEW i \in 1..(r.next - 1)
                  PROVE  Ledger(r.manifest, r.plan[i].profile) \subseteq history'[DbOf[r.plan[i].url]]
      BY <1>8
    <3>1. Ledger(r.manifest, r.plan[i].profile) \subseteq history[DbOf[r.plan[i].url]]
      BY <1>3 DEF Recorded
    <3>2. i \in 1..Len(r.plan)
      BY <1>0, ExecutingRun
    <3>3. DbOf[r.plan[i].url] \in Dbs
      BY <3>2, RunTypes
    <3>. QED BY <1>6, <3>1, <3>3 DEF Grows
  <2>3. ledger = Ledger(new.manifest, CurrentTarget(new).profile) /\ d = DbOf[CurrentTarget(new).url]
    BY <1>8, <2>1 DEF ledger, d
  <2>4. DOMAIN new.bytes = ledger /\ \A g \in DOMAIN new.bytes : new.bytes[g] = new.manifest.files[g]
    BY <1>3, <1>8
  <2>5. Left(new) \subseteq ledger /\ ledger \ Left(new) \subseteq history'[d]
    BY <1>3, <1>4, <1>5, <2>1
  <2>6. run'[o] = new /\ new.pc = "apply"
    BY <1>8, <1>9
  <2>7. /\ DOMAIN new.bytes = Ledger(new.manifest, CurrentTarget(new).profile) /\ Left(new) \subseteq DOMAIN new.bytes
        /\ DOMAIN new.bytes \ Left(new) \subseteq history'[DbOf[CurrentTarget(new).url]]
    BY <2>3, <2>4, <2>5
  <2>. QED BY <2>2, <2>4, <2>6, <2>7, ExecutedNext
<1>12. Stands(run[o])'
  BY <1>10, <1>11 DEF Stands
<1>. QED BY <1>1, <1>5, <1>6, <1>7, <1>8, <1>12, WriteKeeps DEF LedgerTypeOK

LEMMA TargetDoneKeeps ==
    ASSUME LedgerTypeOK, RecordedExists, NEW o \in Operators, Stands(run[o]), TargetDone(o)
    PROVE  Keeps(o) /\ report' = report
<1>. DEFINE r == run[o]
            at == IF r.next = Len(r.plan) THEN "verify" ELSE "project"
            new == [r EXCEPT !.pc = at, !.next = @ + 1, !.bytes = <<>>]
<1>0. r.pc = "apply" /\ r.pc \in Executing /\ r.pending = <<>>
  BY DEF TargetDone, Executing
<1>1. To(o, new) /\ report' = report /\ Stay /\ UNCHANGED <<history, tables, creds>>
  BY DEF TargetDone
<1>2. r \in Run /\ r.next \in 1..Len(r.plan) /\ Len(r.plan) \in Nat
  BY <1>0, ExecutingRun
<1>3. <<>> \in UNION {[fs -> Bytes] : fs \in SUBSET Files}
  <2>1. <<>> \in [{} -> Bytes] /\ {} \in SUBSET Files
    OBVIOUS
  <2>. QED BY <2>1
<1>. DEFINE count == r.next + 1
<1>10. new = [r EXCEPT !.pc = at, !.next = count, !.bytes = <<>>] /\ count \in Nat /\ at \in {"verify", "project"}
  BY <1>2 DEF Run
<1>. HIDE DEF at, count, new
<1>4. /\ new \in Run /\ new.pc = at /\ new.manifest = r.manifest /\ new.settings = r.settings
      /\ new.urls = r.urls /\ new.unverified = r.unverified /\ new.plan = r.plan /\ new.next = count
      /\ new.settled = r.settled
  BY <1>2, <1>3, <1>10 DEF Run, Planning, Validating, Verifying
<1>5. run'[o] = new /\ doc' = doc
  BY <1>1, <1>4, RunBecomes DEF Stay
<1>6. \A i \in 1..((r.next + 1) - 1) : Recorded(r, r.plan[i])
  <2>1. Left(r) = {}
    BY <1>0 DEF Left
  <2>2. Recorded(r, CurrentTarget(r)) /\ \A i \in 1..(r.next - 1) : Recorded(r, r.plan[i])
    BY <1>0, <2>1 DEF Stands, LedgerExecuted, Recorded
  <2>3. \A i \in 1..((r.next + 1) - 1) : i \in 1..(r.next - 1) \/ i = r.next
    BY <1>2
  <2>. QED BY <2>2, <2>3 DEF CurrentTarget
<1>7. r.unverified = StoreUrls(r.urls) /\ r.settings \in Settings /\ r.urls = ConfiguredUrls(r.settings)
  BY <1>0 DEF Stands, VerifiedStands, ReviewedPlan, Planning, Validating, Executing
<1>8. CASE at = "verify"
  <2>1. ReviewedPlan(run[o])' /\ VerifiedStands(run[o])'
    BY <1>4, <1>5, <1>7, <1>8 DEF ReviewedPlan, VerifiedStands, Planning, Validating, Executing
  <2>2. LedgerExecuted(run[o])'
    BY <1>4, <1>5, <1>8 DEF LedgerExecuted, Executing
  <2>3. Stands(run[o])'
    BY <2>1, <2>2 DEF Stands
  <2>. QED BY <1>1, <1>4, <2>3, QuietKeeps DEF Stay, LedgerTypeOK
<1>9. CASE at = "project"
  <2>1. r.next # Len(r.plan)
    BY <1>9 DEF at
  <2>2. new.next \in 1..Len(r.plan)
    BY <1>2, <1>4, <2>1 DEF count
  <2>3. ReviewedPlan(run[o])' /\ VerifiedStands(run[o])'
    <3>1. new.pc \in Executing
      BY <1>4, <1>9 DEF Executing
    <3>. QED BY <1>0, <1>4, <1>5, <2>2, <3>1, ExecutionStands
  <2>4. \A i \in 1..(new.next - 1) : Ledger(new.manifest, new.plan[i].profile) \subseteq history'[DbOf[new.plan[i].url]]
    BY <1>1, <1>4, <1>6 DEF Recorded, count
  <2>5. LedgerExecuted(run[o])'
    BY <1>4, <1>5, <1>9, <2>4, ProjectingNext
  <2>6. Stands(run[o])'
    BY <2>3, <2>5 DEF Stands
  <2>. QED BY <1>1, <1>4, <2>6, QuietKeeps DEF Stay, LedgerTypeOK
<1>. QED BY <1>8, <1>9, <1>10

-----------------------------------------------------------------------------
(* Verification, the administrator, and the end of a run. *)

LEMMA VerifyingRun ==
    ASSUME LedgerTypeOK, NEW o \in Operators, Stands(run[o]), run[o].pc \in Verifying
    PROVE  /\ run[o] \in Run /\ run[o].settings \in Settings /\ run[o].urls = ConfiguredUrls(run[o].settings)
           /\ DOMAIN run[o].urls \in SUBSET Components /\ "auth" \in DOMAIN run[o].urls
           /\ \A c \in DOMAIN run[o].urls : run[o].urls[c] \in Urls /\ DbOf[run[o].urls[c]] \in Dbs
           /\ \A u \in run[o].unverified : u \in Urls /\ DbOf[u] \in Dbs
           /\ \A u \in StoreUrls(run[o].urls) : DbOf[u] \in Dbs
<1>1. run[o] \in Run
  BY RunTypes
<1>2. run[o].settings \in Settings /\ run[o].urls = ConfiguredUrls(run[o].settings)
  BY DEF Stands, ReviewedPlan, Verifying
<1>3. /\ DOMAIN run[o].urls \in SUBSET Components /\ "auth" \in DOMAIN run[o].urls
      /\ \A c \in DOMAIN run[o].urls : run[o].urls[c] \in Urls
  BY <1>2, ConfiguredTypes
<1>4. \A u \in Urls : DbOf[u] \in Dbs
  BY MigrationAssumption DEF Urls
<1>5. run[o].unverified \in SUBSET Urls
  BY <1>1 DEF Run
<1>6. \A u \in StoreUrls(run[o].urls) : u \in Urls
  BY <1>3 DEF StoreUrls
<1>. QED BY <1>1, <1>2, <1>3, <1>4, <1>5, <1>6

LEMMA TablesStay ==
    ASSUME Grows, NEW d \in Dbs, NEW cs \in SUBSET Components, HasTables(d, cs)
    PROVE  \A c \in cs : tables'[d][c] # "absent"
BY DEF Grows, HasTables

LEMMA VerifyingNext ==
    ASSUME NEW o \in Operators, NEW s, run'[o] = s, s.pc \in Verifying,
           s.settings \in Settings, s.urls = ConfiguredUrls(s.settings),
           \A u \in StoreUrls(s.urls) \ s.unverified : \A c \in StoreComponents(s.urls, u) : tables'[DbOf[u]][c] # "absent",
           s.pc # "verify" => s.unverified = {} /\ tables'[DbOf[s.urls["auth"]]]["auth"] # "absent"
    PROVE  Stands(run[o])'
<1>1. run[o]' = s
  OBVIOUS
<1>2. ReviewedPlan(run[o])'
  BY <1>1 DEF ReviewedPlan, Verifying, Planning, Validating, Executing
<1>3. LedgerExecuted(run[o])'
  BY <1>1 DEF LedgerExecuted, Verifying, Executing
<1>4. VerifiedStands(run[o])'
  BY <1>1 DEF VerifiedStands, HasTables, Verifying, Planning, Validating
<1>. QED BY <1>2, <1>3, <1>4 DEF Stands

LEMMA VerifyStoreKeeps ==
    ASSUME LedgerTypeOK, RecordedExists, NEW o \in Operators, Stands(run[o]), VerifyStore(o)
    PROVE  Keeps(o) /\ (report' = report \/ report'[o].outcome # "success")
<1>. DEFINE r == run[o]
<1>0. r.pc = "verify" /\ r.pc \in Verifying
  BY DEF VerifyStore, Verifying
<1>1. PICK u \in r.unverified :
        LET d == DbOf[u]
            made == IF u \in SqliteUrls
                    THEN [tables EXCEPT ![d] = [c \in Components |->
                            IF c # "auth" /\ @[c] = "absent" THEN "local" ELSE @[c]]]
                    ELSE tables
            ok == \A c \in StoreComponents(r.urls, u) : made[d][c] # "absent"
        IN  /\ tables' = made
            /\ \/ ok /\ To(o, [r EXCEPT !.unverified = @ \ {u}]) /\ UNCHANGED report
               \/ ~ok /\ Finish(o, "failed", <<>>, "none")
  BY DEF VerifyStore
<1>. DEFINE d == DbOf[u]
            local == [c \in Components |-> IF c # "auth" /\ tables[d][c] = "absent" THEN "local" ELSE tables[d][c]]
            rest == r.unverified \ {u}
            new == [r EXCEPT !.unverified = rest]
<1>2. d \in Dbs /\ u \in Urls
  BY <1>0, VerifyingRun
<1>3. /\ tables' \in [Dbs -> [Components -> Bytes \cup {"absent", "local"}]]
      /\ \A e \in Dbs, c \in Components : tables[e][c] # "absent" => tables'[e][c] = tables[e][c]
  <2>1. local \in [Components -> Bytes \cup {"absent", "local"}]
        /\ \A c \in Components : tables[d][c] # "absent" => local[c] = tables[d][c]
    BY <1>2 DEF LedgerTypeOK
  <2>2. tables' = tables \/ tables' = [tables EXCEPT ![d] = local]
    BY <1>1
  <2>. HIDE DEF local
  <2>. QED BY <1>2, <2>1, <2>2 DEF LedgerTypeOK
<1>4. Grows
  <2>1. history' = history
    BY DEF VerifyStore
  <2>2. \A e \in Dbs, c \in Components : tables[e][c] \in Bytes => tables'[e][c] \in Bytes
    BY <1>3, MigrationAssumption
  <2>. QED BY <1>3, <2>1, <2>2 DEF Grows
<1>5. Stay /\ UNCHANGED <<history, creds>>
  BY DEF VerifyStore
<1>6. CASE Finish(o, "failed", <<>>, "none")
  <2>1. <<>> \in Seq(DoneTarget) /\ \A i \in 1..Len(<<>>) : <<>>[i].files \subseteq history[DbOf[<<>>[i].url]]
    OBVIOUS
  <2>2. Keeps(o) /\ report'[o].outcome = "failed"
    BY <1>3, <1>4, <1>5, <1>6, <2>1, FinishKeeps
  <2>. QED BY <2>2
<1>7. CASE ~Finish(o, "failed", <<>>, "none")
  <2>1. /\ \A c \in StoreComponents(r.urls, u) : tables'[d][c] # "absent"
        /\ To(o, new) /\ report' = report
    BY <1>1, <1>7
  <2>2. /\ new \in Run /\ new.pc = "verify" /\ new.settings = r.settings /\ new.urls = r.urls
        /\ new.unverified = rest
    BY <1>0, VerifyingRun DEF Run
  <2>. HIDE DEF new
  <2>3. run'[o] = new
    BY <2>1, <2>2, RunBecomes
  <2>4. \A v \in StoreUrls(r.urls) \ rest : \A c \in StoreComponents(r.urls, v) : tables'[DbOf[v]][c] # "absent"
    <3>. SUFFICES ASSUME NEW v \in StoreUrls(r.urls), v \notin r.unverified
                  PROVE  \A c \in StoreComponents(r.urls, v) : tables'[DbOf[v]][c] # "absent"
      BY <2>1
    <3>1. HasTables(DbOf[v], StoreComponents(r.urls, v))
      BY <1>0 DEF Stands, VerifiedStands
    <3>2. DbOf[v] \in Dbs /\ StoreComponents(r.urls, v) \in SUBSET Components
      BY <1>0, VerifyingRun DEF StoreComponents
    <3>. QED BY <1>4, <3>1, <3>2, TablesStay
  <2>5. Stands(run[o])'
    BY <1>0, <2>2, <2>3, <2>4, VerifyingRun, VerifyingNext
  <2>6. RecordedExists'
    BY <1>4, <1>5, RecordedStays
  <2>. QED BY <1>3, <1>4, <1>5, <2>1, <2>2, <2>5, <2>6, WriteKeeps DEF LedgerTypeOK
<1>. QED BY <1>6, <1>7

LEMMA VerifyAuthKeeps ==
    ASSUME LedgerTypeOK, RecordedExists, NEW o \in Operators, Stands(run[o]), VerifyAuth(o)
    PROVE  Keeps(o) /\ (report' = report \/ report'[o].outcome # "success")
<1>. DEFINE r == run[o]
            d == DbOf[r.urls["auth"]]
            new == [r EXCEPT !.pc = "seed"]
<1>0. r.pc = "verify" /\ r.unverified = {} /\ r.pc \in Verifying /\ d \in Dbs
  BY VerifyingRun DEF VerifyAuth, Verifying
<1>1. tables' = tables \/ (tables[d]["auth"] = "absent" /\ tables' = [tables EXCEPT ![d]["auth"] = "local"])
  BY DEF VerifyAuth, HasTables
<1>2. /\ tables' \in [Dbs -> [Components -> Bytes \cup {"absent", "local"}]]
      /\ \A e \in Dbs, c \in Components : tables[e][c] # "absent" => tables'[e][c] = tables[e][c]
  <2>. HIDE DEF d
  <2>1. "auth" \in Components
    BY DEF Components
  <2>2. tables \in [Dbs -> [Components -> Bytes \cup {"absent", "local"}]]
    BY DEF LedgerTypeOK
  <2>3. CASE tables' = tables
    BY <2>2, <2>3
  <2>4. CASE tables[d]["auth"] = "absent" /\ tables' = [tables EXCEPT ![d]["auth"] = "local"]
    BY <1>0, <2>1, <2>2, <2>4
  <2>. QED BY <1>1, <2>3, <2>4
<1>3. Stay /\ UNCHANGED <<history, creds>>
  BY DEF VerifyAuth
<1>4. Grows
  <2>1. \A e \in Dbs, c \in Components : tables[e][c] \in Bytes => tables'[e][c] \in Bytes
    BY <1>2, MigrationAssumption
  <2>. QED BY <1>2, <1>3, <2>1 DEF Grows
<1>6. CASE Finish(o, "failed", <<>>, "none")
  <2>1. <<>> \in Seq(DoneTarget) /\ \A i \in 1..Len(<<>>) : <<>>[i].files \subseteq history[DbOf[<<>>[i].url]]
    OBVIOUS
  <2>2. Keeps(o) /\ report'[o].outcome = "failed"
    BY <1>2, <1>3, <1>4, <1>6, <2>1, FinishKeeps
  <2>. QED BY <2>2
<1>7. CASE ~Finish(o, "failed", <<>>, "none")
  <2>1. To(o, new) /\ report' = report /\ tables'[d]["auth"] # "absent"
    <3>1. To(o, new) /\ report' = report
      BY <1>7 DEF VerifyAuth
    <3>2. \/ HasTables(d, {"auth"}) /\ tables' = tables
          \/ tables' = [tables EXCEPT ![d]["auth"] = "local"]
      BY <1>7 DEF VerifyAuth
    <3>3. tables'[d]["auth"] # "absent"
      BY <1>0, <3>2 DEF HasTables, LedgerTypeOK, Components
    <3>. QED BY <3>1, <3>3
  <2>2. /\ new \in Run /\ new.pc = "seed" /\ new.settings = r.settings /\ new.urls = r.urls
        /\ new.unverified = {} /\ new.pc \in Verifying
    BY <1>0, VerifyingRun DEF Run, Verifying
  <2>. HIDE DEF new
  <2>3. run'[o] = new
    BY <2>1, <2>2, RunBecomes
  <2>4. \A v \in StoreUrls(r.urls) : \A c \in StoreComponents(r.urls, v) : tables'[DbOf[v]][c] # "absent"
    <3>. SUFFICES ASSUME NEW v \in StoreUrls(r.urls)
                  PROVE  \A c \in StoreComponents(r.urls, v) : tables'[DbOf[v]][c] # "absent"
      OBVIOUS
    <3>1. HasTables(DbOf[v], StoreComponents(r.urls, v))
      BY <1>0 DEF Stands, VerifiedStands
    <3>2. DbOf[v] \in Dbs /\ StoreComponents(r.urls, v) \in SUBSET Components
      BY <1>0, VerifyingRun DEF StoreComponents
    <3>. QED BY <1>4, <3>1, <3>2, TablesStay
  <2>5. Stands(run[o])'
    BY <1>0, <2>1, <2>2, <2>3, <2>4, VerifyingRun, VerifyingNext
  <2>6. RecordedExists'
    BY <1>3, <1>4, RecordedStays
  <2>. QED BY <1>2, <1>3, <1>4, <2>1, <2>2, <2>5, <2>6, WriteKeeps DEF LedgerTypeOK
<1>. QED BY <1>6, <1>7

LEMMA SeedKeeps ==
    ASSUME LedgerTypeOK, RecordedExists, NEW o \in Operators, Stands(run[o]), SeedCredentials(o)
    PROVE  Keeps(o) /\ report' = report
<1>. DEFINE r == run[o]
            d == DbOf[r.urls["auth"]]
            new == [r EXCEPT !.pc = "usable"]
<1>0. r.pc = "seed" /\ r.pc \in Verifying /\ d \in Dbs
  BY VerifyingRun DEF SeedCredentials, Verifying
<1>1. /\ To(o, new) /\ Stay /\ UNCHANGED <<history, tables, report>>
      /\ creds' = IF r.settings.admin = "none" THEN creds ELSE [creds EXCEPT ![d] = r.settings.admin]
  BY DEF SeedCredentials
<1>2. r.settings.admin \in {"none", "usable", "disabled"}
  BY <1>0, VerifyingRun, MigrationAssumption
<1>3. creds' \in [Dbs -> {"none", "usable", "disabled"}]
  BY <1>0, <1>1, <1>2 DEF LedgerTypeOK
<1>4. /\ new \in Run /\ new.pc = "usable" /\ new.settings = r.settings /\ new.urls = r.urls
      /\ new.unverified = r.unverified /\ new.pc \in Verifying
  BY <1>0, VerifyingRun DEF Run, Verifying
<1>. HIDE DEF new
<1>5. run'[o] = new
  BY <1>1, <1>4, RunBecomes
<1>6. /\ r.unverified = {} /\ tables'[d]["auth"] # "absent"
      /\ \A v \in StoreUrls(r.urls) : \A c \in StoreComponents(r.urls, v) : tables'[DbOf[v]][c] # "absent"
  BY <1>0, <1>1 DEF Stands, VerifiedStands, HasTables
<1>7. Stands(run[o])'
  BY <1>0, <1>4, <1>5, <1>6, VerifyingRun, VerifyingNext
<1>8. Grows /\ RecordedExists'
  BY <1>1, UntouchedGrows DEF RecordedExists
<1>. QED BY <1>1, <1>3, <1>4, <1>7, <1>8, WriteKeeps DEF LedgerTypeOK

LEMMA EndKeeps ==
    ASSUME LedgerTypeOK, RecordedExists, NEW o \in Operators, RequireUsable(o) \/ Crash(o)
    PROVE  Keeps(o) /\ (Crash(o) => report' = report)
<1>0. Grows /\ tables' \in [Dbs -> [Components -> Bytes \cup {"absent", "local"}]]
  BY UntouchedGrows DEF RequireUsable, Crash, LedgerTypeOK
<1>1. CASE RequireUsable(o) /\ ~Crash(o)
  <2>1. <<>> \in Seq(DoneTarget) /\ \A i \in 1..Len(<<>>) : <<>>[i].files \subseteq history[DbOf[<<>>[i].url]]
    OBVIOUS
  <2>2. Stay /\ UNCHANGED <<history, creds>>
    BY <1>1 DEF RequireUsable
  <2>3. CASE Finish(o, "success", <<>>, "none")
    BY <1>0, <1>1, <2>1, <2>2, <2>3, FinishKeeps
  <2>4. CASE Finish(o, "failed", <<>>, "none")
    BY <1>0, <1>1, <2>1, <2>2, <2>4, FinishKeeps
  <2>. QED BY <1>1, <2>3, <2>4 DEF RequireUsable
<1>2. CASE Crash(o)
  <2>1. To(o, Idle) /\ Stay /\ UNCHANGED <<history, tables, creds, report>>
    BY <1>2 DEF Crash
  <2>2. run'[o].pc = "idle"
    BY <2>1, IdleStands, RunBecomes DEF Idle
  <2>3. Stands(run[o])'
    BY <2>2, RestStands
  <2>4. runs' \in 0..MaxRuns
    BY <2>1 DEF Stay, LedgerTypeOK
  <2>5. Keeps(o)
    BY <2>1, <2>3, <2>4, IdleStands, QuietKeeps DEF Stay
  <2>. QED BY <2>1, <2>5
<1>. QED BY <1>1, <1>2

-----------------------------------------------------------------------------
(* The invariant holds in every reachable state. *)

AllStand == LedgerTypeOK /\ RecordedExists /\ \A o \in Operators : Stands(run[o])

LEMMA InvariantIsStanding == MigrationInvariant <=> AllStand
BY DEF MigrationInvariant, AllStand, Stands

OperatorStep(o) ==
  \/ Start(o) \/ LoadManifest(o) \/ CheckDigest(o) \/ CheckSql(o) \/ CheckInventory(o)
  \/ ResolvePlan(o) \/ Project(o) \/ ListPending(o)
  \/ ApplyFile(o) \/ RecordVersion(o) \/ TargetDone(o) \/ VerifyStore(o)
  \/ VerifyAuth(o) \/ SeedCredentials(o) \/ RequireUsable(o) \/ Crash(o)

LEMMA OperatorKeeps ==
    ASSUME AllStand, NEW o \in Operators, OperatorStep(o)
    PROVE  Keeps(o) /\ (RequireUsable(o) \/ report' = report \/ report'[o].outcome # "success")
<1>. USE DEF AllStand
<1>1. CASE Start(o)
  BY <1>1, StartKeeps
<1>2. CASE LoadManifest(o)
  BY <1>2, LoadManifestKeeps
<1>3. CASE ResolvePlan(o)
  BY <1>3, ResolvePlanKeeps
<1>4. CASE Project(o)
  BY <1>4, ProjectKeeps
<1>5. CASE ListPending(o)
  BY <1>5, ListPendingKeeps
<1>6. CASE ApplyFile(o)
  BY <1>6, ApplyFileKeeps
<1>7. CASE RecordVersion(o)
  BY <1>7, RecordVersionKeeps
<1>8. CASE TargetDone(o)
  BY <1>8, TargetDoneKeeps
<1>9. CASE VerifyStore(o)
  BY <1>9, VerifyStoreKeeps
<1>10. CASE VerifyAuth(o)
  BY <1>10, VerifyAuthKeeps
<1>11. CASE SeedCredentials(o)
  BY <1>11, SeedKeeps
<1>12. CASE RequireUsable(o) \/ Crash(o)
  BY <1>12, EndKeeps
<1>13. CASE CheckDigest(o)
  BY <1>13, CheckDigestKeeps
<1>14. CASE CheckSql(o)
  BY <1>14, CheckSqlKeeps
<1>15. CASE CheckInventory(o)
  BY <1>15, CheckInventoryKeeps
<1>. QED
  BY <1>1, <1>2, <1>3, <1>4, <1>5, <1>6, <1>7, <1>8, <1>9, <1>10, <1>11, <1>12, <1>13, <1>14, <1>15 DEF OperatorStep

LEMMA InitStands == Init => AllStand /\ ProgressIsTrue
<1>. SUFFICES ASSUME Init PROVE AllStand /\ ProgressIsTrue
  OBVIOUS
<1>1. <<>> \in Seq(DoneTarget) /\ Len(<<>>) = 0
  OBVIOUS
<1>2. NoReport \in Report /\ NoReport.completed = <<>>
  BY <1>1 DEF NoReport, Report, DoneTarget
<1>3. file \in [Files -> Bytes \cup {"missing"}]
  BY MigrationAssumption DEF Init
<1>4. LedgerTypeOK
  BY <1>2, <1>3, IdleStands, MigrationAssumption DEF Init, LedgerTypeOK
<1>5. RecordedExists
  BY DEF Init, RecordedExists
<1>6. \A o \in Operators : Stands(run[o])
  BY IdleStands DEF Init
<1>7. ProgressIsTrue
  BY <1>1, <1>2 DEF Init, ProgressIsTrue
<1>. QED BY <1>4, <1>5, <1>6, <1>7 DEF AllStand

LEMMA NextStands == AllStand /\ ProgressIsTrue /\ [Next]_vars => AllStand' /\ ProgressIsTrue'
<1>. SUFFICES ASSUME AllStand, ProgressIsTrue, [Next]_vars
              PROVE  AllStand' /\ ProgressIsTrue'
  OBVIOUS
<1>1. ASSUME NEW o \in Operators, OperatorStep(o)
      PROVE  AllStand' /\ ProgressIsTrue'
  <2>1. Keeps(o)
    BY <1>1, OperatorKeeps
  <2>2. LedgerTypeOK' /\ RecordedExists' /\ Grows /\ doc' = doc /\ TreeCounted
    BY <2>1 DEF Keeps, TreeCounted
  <2>3. ASSUME NEW q \in Operators
        PROVE  Stands(run[q])'
    <3>1. CASE q = o
      BY <2>1, <3>1 DEF Keeps
    <3>2. CASE q # o
      <4>1. run'[q] = run[q] /\ Stands(run[q]) /\ LedgerTypeOK
        BY <2>1, <3>2 DEF Keeps, AllStand
      <4>. QED BY <2>2, <4>1, OthersStand
    <3>. QED BY <3>1, <3>2
  <2>4. ASSUME NEW q \in Operators, NEW i \in 1..Len(report'[q].completed)
        PROVE  report'[q].completed[i].files \subseteq history'[DbOf[report'[q].completed[i].url]]
    <3>. DEFINE t == report'[q].completed[i]
    <3>1. report'[q].completed \in Seq(DoneTarget)
      BY <2>2 DEF LedgerTypeOK, Report, DoneTarget
    <3>2. t \in DoneTarget
      BY <3>1
    <3>3. DbOf[t.url] \in Dbs
      BY <3>2, MigrationAssumption DEF DoneTarget, Urls
    <3>4. t.files \subseteq history[DbOf[t.url]]
      BY <2>1 DEF Keeps, ProgressIsTrue
    <3>. QED BY <2>2, <3>3, <3>4 DEF Grows
  <2>5. ProgressIsTrue'
    BY <2>4 DEF ProgressIsTrue
  <2>. QED BY <2>2, <2>3, <2>5 DEF AllStand
<1>2. CASE EditFile \/ ReviseManifest \/ ReplaceBindings \/ UNCHANGED vars
  <2>1. UNCHANGED <<history, tables, creds, run, report, runs>>
    BY <1>2 DEF EditFile, ReviseManifest, ReplaceBindings, vars
  <2>2. manifest' \in Manifests /\ doc' \in Docs /\ file' \in [Files -> Bytes \cup {"missing"}] /\ edits' \in 0..MaxEdits
    BY <1>2, MigrationAssumption DEF EditFile, ReviseManifest, ReplaceBindings, vars, AllStand, LedgerTypeOK
  <2>3. LedgerTypeOK' /\ RecordedExists' /\ Grows
    BY <2>1, <2>2, UntouchedGrows DEF AllStand, LedgerTypeOK, RecordedExists
  <2>4. ASSUME NEW q \in Operators
        PROVE  Stands(run[q])'
    <3>1. CASE ReplaceBindings
      <4>1. run'[q].pc = "idle"
        BY <2>1, <3>1 DEF ReplaceBindings
      <4>. QED BY <4>1, RestStands
    <3>2. CASE ~ReplaceBindings
      <4>1. doc' = doc /\ TreeCounted /\ run'[q] = run[q] /\ Stands(run[q]) /\ LedgerTypeOK
        BY <1>2, <2>1, <3>2 DEF EditFile, ReviseManifest, vars, AllStand, TreeCounted
      <4>. QED BY <2>3, <4>1, OthersStand
    <3>. QED BY <3>1, <3>2
  <2>5. ProgressIsTrue'
    BY <2>1 DEF ProgressIsTrue
  <2>. QED BY <2>3, <2>4, <2>5 DEF AllStand
<1>. QED BY <1>1, <1>2 DEF Next, OperatorStep

(* Every run executes the manifest the operators have pinned, in full and   *)
(* target by target, and what is recorded exists (migrate_database.py,      *)
(* postgresql_ledger.py).                                                   *)
THEOREM Invariance == Spec => []MigrationInvariant
BY InitStands, NextStands, InvariantIsStanding, PTL DEF Spec

(* Every profile a run reports as completed is recorded in the database its *)
(* URL leads to, whatever others do there (PostgreSQLPlanApplyError).       *)
THEOREM ProgressReportsAreTrue == Spec => []ProgressIsTrue
BY InitStands, NextStands, PTL DEF Spec

LEMMA Standing == Spec => []AllStand
BY InitStands, NextStands, PTL DEF Spec

(* Only an executed file turns a component's tables into a migration's. *)
LEMMA OnlyApplyExecutes ==
    ASSUME AllStand, NEW o \in Operators, OperatorStep(o), ~ApplyFile(o),
           NEW d \in Dbs, NEW c \in Components, tables[d][c] \notin Bytes
    PROVE  tables'[d][c] \notin Bytes
<1>1. CASE VerifyStore(o)
  <2>1. PICK u \in run[o].unverified :
          tables' = tables
            \/ tables' = [tables EXCEPT ![DbOf[u]] = [e \in Components |->
                 IF e # "auth" /\ tables[DbOf[u]][e] = "absent" THEN "local" ELSE tables[DbOf[u]][e]]]
    BY <1>1 DEF VerifyStore
  <2>2. tables'[d][c] \in {"absent", "local"}
    BY <2>1 DEF AllStand, LedgerTypeOK
  <2>. QED BY <2>2, MigrationAssumption
<1>2. CASE VerifyAuth(o)
  <2>. DEFINE e == DbOf[run[o].urls["auth"]]
  <2>1. tables' = tables \/ tables' = [tables EXCEPT ![e]["auth"] = "local"]
    BY <1>2 DEF VerifyAuth
  <2>. HIDE DEF e
  <2>2. tables'[d][c] \in {"absent", "local"}
    BY <2>1 DEF AllStand, LedgerTypeOK
  <2>. QED BY <2>2, MigrationAssumption
<1>3. CASE ~VerifyStore(o) /\ ~VerifyAuth(o)
  <2>1. tables' = tables
    BY <1>3 DEF OperatorStep, Start, LoadManifest, CheckDigest, CheckSql, CheckInventory, Check, ResolvePlan, Project, ListPending, RecordVersion, TargetDone,
                SeedCredentials, RequireUsable, Crash, Refuse
  <2>. QED BY <2>1, MigrationAssumption
<1>. QED BY <1>1, <1>2, <1>3

LEMMA ApplyExecutesReviewed ==
    ASSUME AllStand, NEW o \in Operators, ApplyFile(o),
           NEW d \in Dbs, NEW c \in Components, tables[d][c] = "absent", tables'[d][c] \in Bytes
    PROVE  /\ \E f \in Named(doc.manifest, c) : tables'[d][c] = doc.manifest.files[f]
           /\ run[o].settled => Guarded(tables'[d][c])
<1>. DEFINE r == run[o]
            e == DbOf[CurrentTarget(r).url]
            f == Head(r.pending)
<1>0. r.pc \in Executing /\ r.pc = "apply" /\ r.pending # <<>>
  BY DEF ApplyFile, Executing
<1>1. LedgerTypeOK /\ Stands(r)
  BY DEF AllStand
<1>2. tables' = [tables EXCEPT ![e][f.component] = r.bytes[f]]
  <2>1. tables' # tables
    BY MigrationAssumption
  <2>. QED BY <2>1 DEF ApplyFile
<1>3. /\ r.pending \in Seq(Files) /\ r.manifest \in Manifests /\ r.manifest = doc.manifest
      /\ r.settled => \A g \in DOMAIN r.manifest.files : r.manifest.files[g] \in GuardedBytes
  BY <1>0, <1>1, ExecutingRun
<1>4. f \in Left(r)
  BY <1>0, <1>3, HeadAndTail DEF Left
<1>5. f \in DOMAIN r.manifest.files /\ r.bytes[f] = r.manifest.files[f]
  <2>1. /\ f \in Ledger(r.manifest, CurrentTarget(r).profile)
        /\ \A g \in Ledger(r.manifest, CurrentTarget(r).profile) : r.bytes[g] = r.manifest.files[g]
    BY <1>0, <1>1, <1>4 DEF Stands, LedgerExecuted
  <2>. QED BY <1>3, <2>1, LedgerIsFinite
<1>7. run[o].settled => r.settled
  OBVIOUS
<1>. HIDE DEF e, f, r
<1>6. e = d /\ f.component = c /\ tables'[d][c] = r.bytes[f]
  <2>1. tables \in [Dbs -> [Components -> Bytes \cup {"absent", "local"}]]
    BY <1>1 DEF LedgerTypeOK
  <2>2. ~(e = d /\ f.component = c) => tables'[d][c] = tables[d][c]
    BY <1>2, <2>1
  <2>3. e = d /\ f.component = c
    BY <2>2, MigrationAssumption
  <2>. QED BY <1>2, <2>1, <2>3
<1>. QED BY <1>3, <1>5, <1>6, <1>7 DEF Named, GuardedBytes

(* Only bytes that the pinned manifest reviewed ever create a table,        *)
(* whatever the working tree looks like by then                             *)
(* (disposable_migration_projection); and they are guarded when the tree    *)
(* was at rest while that run validated them (_validate_migration_sql).     *)
THEOREM ReviewedBytesOnly == Spec => OnlyReviewedBytesRun
<1>. DEFINE Reviewed == \A d \in Dbs, c \in Components :
       (tables[d][c] = "absent" /\ tables'[d][c] \in Bytes) =>
         /\ \E f \in Named(doc.manifest, c) : tables'[d][c] = doc.manifest.files[f]
         /\ \A o \in Operators : (run'[o] # run[o] /\ run[o].settled) => Guarded(tables'[d][c])
<1>1. AllStand /\ [Next]_vars => [Reviewed]_vars
  <2>. SUFFICES ASSUME AllStand, Next, NEW d \in Dbs, NEW c \in Components,
                       tables[d][c] = "absent", tables'[d][c] \in Bytes
                PROVE  /\ \E f \in Named(doc.manifest, c) : tables'[d][c] = doc.manifest.files[f]
                       /\ \A q \in Operators : (run'[q] # run[q] /\ run[q].settled) => Guarded(tables'[d][c])
    OBVIOUS
  <2>1. PICK o \in Operators : OperatorStep(o)
    <3>1. ~(EditFile \/ ReviseManifest \/ ReplaceBindings)
      BY MigrationAssumption DEF EditFile, ReviseManifest, ReplaceBindings
    <3>. QED BY <3>1 DEF Next, OperatorStep
  <2>2. ApplyFile(o)
    BY <2>1, OnlyApplyExecutes, MigrationAssumption
  <2>3. \A q \in Operators \ {o} : run'[q] = run[q]
    BY <2>1, OperatorKeeps DEF Keeps
  <2>. QED BY <2>2, <2>3, ApplyExecutesReviewed
<1>. QED BY <1>1, Standing, PTL DEF Spec, OnlyReviewedBytesRun

(* A run that reports success leaves every configured target with its       *)
(* tables and the credential database with an enabled user                  *)
(* (_verify_configured_targets, require_usable_credentials).                *)
THEOREM SuccessMeansProvisioned == Spec => SuccessIsProvisioned
<1>. DEFINE Provided == \A o \in Operators :
       (report[o].outcome # "success" /\ report'[o].outcome = "success") =>
         /\ \A c \in DOMAIN run[o].urls : tables[DbOf[run[o].urls[c]]][c] # "absent"
         /\ creds[DbOf[run[o].urls["auth"]]] = "usable"
<1>1. AllStand /\ [Next]_vars => [Provided]_vars
  <2>. SUFFICES ASSUME AllStand, Next, NEW o \in Operators,
                       report[o].outcome # "success", report'[o].outcome = "success"
                PROVE  /\ \A c \in DOMAIN run[o].urls : tables[DbOf[run[o].urls[c]]][c] # "absent"
                       /\ creds[DbOf[run[o].urls["auth"]]] = "usable"
    OBVIOUS
  <2>1. RequireUsable(o)
    <3>1. ~(EditFile \/ ReviseManifest \/ ReplaceBindings)
      BY DEF EditFile, ReviseManifest, ReplaceBindings
    <3>2. PICK q \in Operators : OperatorStep(q)
      BY <3>1 DEF Next, OperatorStep
    <3>3. Keeps(q) /\ (RequireUsable(q) \/ report' = report \/ report'[q].outcome # "success")
      BY <3>2, OperatorKeeps
    <3>4. q = o
      BY <3>3 DEF Keeps
    <3>. QED BY <3>3, <3>4
  <2>2. LedgerTypeOK /\ Stands(run[o]) /\ run[o].pc = "usable" /\ run[o].pc \in Verifying
    BY <2>1 DEF AllStand, RequireUsable, Verifying
  <2>3. creds[DbOf[run[o].urls["auth"]]] = "usable"
    <3>. DEFINE outcome == IF creds[DbOf[run[o].urls["auth"]]] = "usable" THEN "success" ELSE "failed"
    <3>1. report' = [report EXCEPT ![o] = [outcome |-> outcome, completed |-> <<>>, failed |-> "none"]]
      BY <2>1 DEF RequireUsable, Finish
    <3>. HIDE DEF outcome
    <3>2. report'[o].outcome = outcome
      BY <2>2, <3>1 DEF LedgerTypeOK
    <3>. QED BY <3>2 DEF outcome
  <2>4. ASSUME NEW c \in DOMAIN run[o].urls
        PROVE  tables[DbOf[run[o].urls[c]]][c] # "absent"
    <3>1. c \in Components
      BY <2>2, VerifyingRun
    <3>2. CASE c = "auth"
      BY <2>2, <3>2 DEF Stands, VerifiedStands, HasTables
    <3>3. CASE c # "auth"
      <4>1. run[o].urls[c] \in StoreUrls(run[o].urls) /\ c \in StoreComponents(run[o].urls, run[o].urls[c])
        BY <3>1, <3>3 DEF StoreUrls, StoreComponents, Components
      <4>. QED BY <2>2, <4>1 DEF Stands, VerifiedStands, HasTables
    <3>. QED BY <3>2, <3>3
  <2>. QED BY <2>3, <2>4
<1>. QED BY <1>1, Standing, PTL DEF Spec, SuccessIsProvisioned

-----------------------------------------------------------------------------
(* A history stays the beginning of one ledger: every run executes a profile
   aimed at the database, from its earliest file on, and of two profiles aimed
   at one database one begins the other. *)

InOrder(s) == \A i, j \in 1..Len(s) : i < j => s[i].time < s[j].time
Directed(r) ==
  /\ r.pc \in Executing => \A i \in 1..Len(r.plan) : Aimed(DbOf[r.plan[i].url], r.plan[i].profile)
  /\ r.pc \in {"list", "apply", "record"} => InOrder(r.pending)
Made(d) == {f \in DOMAIN manifest.files : tables[d][f.component] \in Bytes}
Follows(d, f) ==
  /\ \E p \in Profiles : Aimed(d, p) /\ f \in Ledger(manifest, p)
  /\ \A p \in Profiles : Aimed(d, p) /\ f \in Ledger(manifest, p) => Before(manifest, p, f) \subseteq history[d]
Prefixed(d) == history[d] \subseteq DOMAIN manifest.files /\ \A f \in Made(d) : Follows(d, f)

LEMMA MigrationsInOrder ==
    ASSUME NEW m \in Manifests, GlobalOrder(m), NEW p
    PROVE  InOrder(MigrationsFor(m, p))
<1>. DEFINE ledger == Ledger(m, p)
            key == [f \in ledger |-> f.time]
            s == Sorted(ledger, key)
            n == Cardinality(ledger)
<1>1. ledger \subseteq Files /\ IsFiniteSet(ledger) /\ ledger \subseteq DOMAIN m.files
  BY LedgerIsFinite
<1>2. key \in [ledger -> Int]
  BY <1>1, LedgerAssumption
<1>3. \A x, y \in ledger : key[x] = key[y] => x = y
  BY <1>1 DEF GlobalOrder
<1>3a. \A x \in ledger : key[x] = x.time
  OBVIOUS
<1>. HIDE DEF ledger, key
<1>4. /\ n \in Nat /\ s \in [1..n -> ledger]
      /\ \A i, j \in 1..n : i < j => key[s[i]] < key[s[j]]
  BY <1>1, <1>2, <1>3, SortedLists
<1>. HIDE DEF s, n
<1>5. Len(s) = n
  BY <1>4
<1>6. \A i \in 1..n : key[s[i]] = s[i].time
  BY <1>3a, <1>4
<1>7. MigrationsFor(m, p) = s
  BY DEF MigrationsFor, s, key, ledger
<1>. QED BY <1>4, <1>5, <1>6, <1>7 DEF InOrder

LEMMA RestInOrder ==
    ASSUME NEW s \in Seq(Files), InOrder(s)
    PROVE  /\ \A k \in Nat : k <= Len(s) => InOrder(SubSeq(s, k + 1, Len(s)))
           /\ s # <<>> => InOrder(Tail(s)) /\ \A i \in 1..Len(s) : s[i].time < Head(s).time => FALSE
<1>1. Len(s) \in Nat /\ \A i \in 1..Len(s) : s[i] \in Files /\ s[i].time \in Int
  BY LedgerAssumption
<1>2. ASSUME NEW k \in Nat, k <= Len(s)
      PROVE  InOrder(SubSeq(s, k + 1, Len(s)))
  <2>. DEFINE rest == SubSeq(s, k + 1, Len(s))
              n == Len(s) - k
  <2>1. rest = [i \in 1..n |-> s[k + i]] /\ n \in Nat
    BY <1>1, <1>2
  <2>2. Len(rest) = n /\ \A i \in 1..n : rest[i] = s[k + i] /\ k + i \in 1..Len(s)
    BY <1>1, <1>2, <2>1
  <2>. HIDE DEF rest, n
  <2>3. ASSUME NEW i \in 1..n, NEW j \in 1..n, i < j
        PROVE  rest[i].time < rest[j].time
    <3>1. k + i \in 1..Len(s) /\ k + j \in 1..Len(s)
      BY <2>2
    <3>2. k + i < k + j
      BY <2>1, <2>3
    <3>. QED BY <2>2, <3>1, <3>2 DEF InOrder
  <2>. QED BY <2>2, <2>3 DEF InOrder, rest
<1>3. ASSUME s # <<>>
      PROVE  InOrder(Tail(s))
  <2>1. Len(Tail(s)) = Len(s) - 1 /\ \A i \in 1..(Len(s) - 1) : Tail(s)[i] = s[i + 1] /\ i + 1 \in 1..Len(s)
    BY <1>1, <1>3
  <2>2. ASSUME NEW i \in 1..(Len(s) - 1), NEW j \in 1..(Len(s) - 1), i < j
        PROVE  Tail(s)[i].time < Tail(s)[j].time
    <3>1. i + 1 \in 1..Len(s) /\ j + 1 \in 1..Len(s) /\ i + 1 < j + 1
      BY <1>1, <2>1, <2>2
    <3>. QED BY <2>1, <3>1 DEF InOrder
  <2>. QED BY <2>1, <2>2 DEF InOrder
<1>4. ASSUME s # <<>>, NEW i \in 1..Len(s), s[i].time < Head(s).time
      PROVE  FALSE
  <2>1. Head(s) = s[1] /\ 1 \in 1..Len(s)
    BY <1>1, <1>4
  <2>2. i # 1 => s[1].time < s[i].time
    BY <1>1, <2>1 DEF InOrder
  <2>. QED BY <1>1, <1>4, <2>1, <2>2
<1>. QED BY <1>2, <1>3, <1>4

(* A step of a run keeps it aimed and in order. *)
LEMMA DirectedAfter ==
    ASSUME NEW o \in Operators, NEW s, run'[o] = s,
           s.pc \in Executing => \A i \in 1..Len(s.plan) : Aimed(DbOf[s.plan[i].url], s.plan[i].profile),
           s.pc \in {"list", "apply", "record"} => InOrder(s.pending)
    PROVE  Directed(run[o])'
<1>1. run[o]' = s
  OBVIOUS
<1>. QED BY <1>1 DEF Directed

LEMMA EndDirected ==
    ASSUME LedgerTypeOK, NEW o \in Operators, To(o, Idle)
    PROVE  Directed(run[o])'
<1>1. run'[o] = Idle
  BY IdleStands, RunBecomes
<1>2. Idle.pc = "idle"
  BY DEF Idle
<1>. QED BY <1>1, <1>2, DirectedAfter DEF Executing

LEMMA PlanDirected ==
    ASSUME LedgerTypeOK, NEW o \in Operators, Stands(run[o]), ResolvePlan(o), ~Refuse(o)
    PROVE  Directed(run[o])'
<1>. DEFINE r == run[o]
            urls == PostgresUrls(r.urls)
            plan == PlanFor(doc, urls)
            new == [r EXCEPT !.pc = "project", !.plan = plan, !.next = 1]
<1>1. /\ r.pc = "plan" /\ Plannable(doc, r.manifest, urls)
      /\ \A i \in 1..Len(plan) : WriteAllowed(plan[i])
      /\ To(o, new)
  BY DEF ResolvePlan
<1>2. r \in Run /\ r.urls \in UrlMaps
  BY RunTypes
<1>3. urls \in [DOMAIN urls -> Urls] /\ DOMAIN urls \in SUBSET Components /\ DOMAIN urls # {}
  BY <1>1, <1>2, UrlMapOf DEF Stands, ReviewedPlan, Planning, Validating
<1>4. doc \in Docs /\ r.settings \in Settings /\ urls = PostgresUrls(ConfiguredUrls(r.settings))
  BY <1>1 DEF Stands, ReviewedPlan, LedgerTypeOK
<1>. HIDE DEF urls
<1>5. plan \in Seq(PlannedTarget) /\ r.manifest = doc.manifest
  BY <1>1, <1>3, <1>4, PlansAreWritable
<1>6. plan = PlanOf(doc, r.settings)
  BY <1>4 DEF PlanOf
<1>. HIDE DEF plan
<1>7. Executable(doc, r.settings)
  BY <1>1, <1>3, <1>4, <1>5, <1>6 DEF Executable
<1>8. ASSUME NEW i \in 1..Len(plan)
      PROVE  Aimed(DbOf[plan[i].url], plan[i].profile)
  BY <1>4, <1>6, <1>7 DEF Aimed
<1>9. new \in Run /\ new.pc = "project" /\ new.plan = plan
  BY <1>2, <1>5 DEF Run, Planning, Validating
<1>. HIDE DEF new
<1>10. run'[o] = new
  BY <1>1, <1>9, RunBecomes
<1>. QED BY <1>8, <1>9, <1>10, DirectedAfter

LEMMA OutDirected ==
    ASSUME LedgerTypeOK, NEW o \in Operators, NEW s, To(o, s), s.pc \notin Executing
    PROVE  Directed(run[o])'
<1>1. run'[o] = s
  BY DEF To, LedgerTypeOK
<1>2. s.pc \notin {"list", "apply", "record"}
  BY DEF Executing
<1>. QED BY <1>1, <1>2, DirectedAfter

(* The steps that carry out a target keep the plan, and take files only from
   the front of those pending. *)
LEMMA OnDirected ==
    ASSUME LedgerTypeOK, NEW o \in Operators, NEW s, To(o, s), run[o].pc \in Executing, Directed(run[o]),
           s.plan = run[o].plan, s.pc \in {"list", "apply", "record"} => InOrder(s.pending)
    PROVE  Directed(run[o])'
<1>1. run'[o] = s
  BY DEF To, LedgerTypeOK
<1>2. \A i \in 1..Len(s.plan) : Aimed(DbOf[s.plan[i].url], s.plan[i].profile)
  BY DEF Directed
<1>. QED BY <1>1, <1>2, DirectedAfter

LEMMA StepDirected ==
    ASSUME AllStand, NEW o \in Operators, Directed(run[o]), OperatorStep(o)
    PROVE  Directed(run[o])'
<1>. DEFINE r == run[o]
<1>0. LedgerTypeOK /\ Stands(r) /\ r \in Run
  BY RunTypes DEF AllStand
<1>1. CASE To(o, Idle)
  BY <1>0, <1>1, EndDirected
<1>2. CASE Start(o)
  <2>1. PICK s \in Settings :
          LET urls == ConfiguredUrls(s)
          IN  To(o, [Idle EXCEPT !.pc = IF DOMAIN PostgresUrls(urls) = {} THEN "verify" ELSE "manifest",
                                 !.settings = s, !.urls = urls, !.unverified = StoreUrls(urls)])
    BY <1>2 DEF Start
  <2>. DEFINE urls == ConfiguredUrls(s)
              at == IF DOMAIN PostgresUrls(urls) = {} THEN "verify" ELSE "manifest"
              new == [Idle EXCEPT !.pc = at, !.settings = s, !.urls = urls, !.unverified = StoreUrls(urls)]
  <2>2. To(o, new) /\ at \notin Executing
    BY <2>1 DEF Executing
  <2>3. new.pc = at
    BY DEF Idle
  <2>. HIDE DEF new, at
  <2>. QED BY <1>0, <2>2, <2>3, OutDirected
<1>3. CASE LoadManifest(o) /\ ~To(o, Idle)
  <2>. DEFINE new == [r EXCEPT !.pc = "digest", !.manifest = manifest, !.checking = 1, !.since = edits]
  <2>1. To(o, new)
    BY <1>3 DEF LoadManifest, Refuse, Finish
  <2>2. new.pc = "digest"
    BY <1>0 DEF Run
  <2>3. new.pc \notin Executing
    BY <2>2 DEF Executing
  <2>. HIDE DEF new
  <2>. QED BY <1>0, <2>1, <2>3, OutDirected
<1>4. CASE ResolvePlan(o) /\ ~To(o, Idle)
  BY <1>0, <1>4, PlanDirected DEF Refuse, Finish
<1>5. CASE Project(o) /\ ~To(o, Idle)
  <2>. DEFINE selected == MigrationsFor(r.manifest, CurrentTarget(r).profile)
              bytes == [f \in {selected[i] : i \in 1..Len(selected)} |-> file[f]]
              new == [r EXCEPT !.pc = "list", !.pending = selected, !.bytes = bytes]
  <2>1. r.pc = "project" /\ r.pc \in Executing /\ To(o, new)
    BY <1>5 DEF Project, Incomplete, Finish, Executing
  <2>2. InOrder(selected)
    BY <1>0, <2>1, ExecutingRun, MigrationsInOrder
  <2>. HIDE DEF selected, bytes
  <2>3. new.plan = r.plan /\ new.pending = selected
    BY <1>0 DEF Run
  <2>. HIDE DEF new
  <2>. QED BY <1>0, <2>1, <2>2, <2>3, OnDirected
<1>6. CASE ListPending(o) /\ ~To(o, Idle)
  <2>. DEFINE d == DbOf[CurrentTarget(r).url]
              applied == Cardinality(history[d])
              rest == SubSeq(r.pending, applied + 1, Len(r.pending))
              new == [r EXCEPT !.pc = "apply", !.pending = rest]
  <2>1. r.pc = "list" /\ r.pc \in Executing /\ To(o, new) /\ applied <= Len(r.pending)
    BY <1>6 DEF ListPending, Incomplete, Finish, Executing
  <2>2. InOrder(r.pending) /\ r.pending \in Seq(Files) /\ d \in Dbs
    BY <1>0, <2>1, ExecutingRun DEF Directed
  <2>3. applied \in Nat
    <3>1. history[d] \in SUBSET Files
      BY <1>0, <2>2 DEF LedgerTypeOK
    <3>2. IsFiniteSet(history[d])
      BY <3>1, LedgerAssumption, FS_Subset
    <3>. QED BY <3>2, FS_CardinalityType
  <2>. HIDE DEF applied, d
  <2>4. InOrder(rest)
    BY <2>1, <2>2, <2>3, RestInOrder
  <2>. HIDE DEF rest
  <2>5. new.plan = r.plan /\ new.pending = rest
    BY <1>0 DEF Run
  <2>. HIDE DEF new
  <2>. QED BY <1>0, <2>1, <2>4, <2>5, OnDirected
<1>7. CASE ApplyFile(o) /\ ~To(o, Idle)
  <2>. DEFINE new == [r EXCEPT !.pc = "record"]
  <2>1. r.pc = "apply" /\ r.pc \in Executing /\ To(o, new) /\ InOrder(r.pending)
    BY <1>7 DEF ApplyFile, Incomplete, Finish, Executing, Directed
  <2>2. new.plan = r.plan /\ new.pending = r.pending
    BY <1>0 DEF Run
  <2>. HIDE DEF new
  <2>. QED BY <1>0, <2>1, <2>2, OnDirected
<1>8. CASE RecordVersion(o)
  <2>. DEFINE rest == Tail(r.pending)
              new == [r EXCEPT !.pc = "apply", !.pending = rest]
  <2>1. r.pc = "record" /\ r.pc \in Executing /\ To(o, new) /\ InOrder(r.pending)
    BY <1>8 DEF RecordVersion, Executing, Directed
  <2>2. r.pending \in Seq(Files) /\ r.pending # <<>>
    BY <1>0, <2>1, ExecutingRun DEF Stands, LedgerExecuted
  <2>3. InOrder(rest)
    BY <2>1, <2>2, RestInOrder
  <2>. HIDE DEF rest
  <2>4. new.plan = r.plan /\ new.pending = rest
    BY <1>0 DEF Run
  <2>. HIDE DEF new
  <2>. QED BY <1>0, <2>1, <2>3, <2>4, OnDirected
<1>9. CASE TargetDone(o)
  <2>. DEFINE at == IF r.next = Len(r.plan) THEN "verify" ELSE "project"
              new == [r EXCEPT !.pc = at, !.next = @ + 1, !.bytes = <<>>]
  <2>1. r.pc \in Executing /\ To(o, new) /\ at \notin {"list", "apply", "record"}
    BY <1>9 DEF TargetDone, Executing
  <2>. HIDE DEF at
  <2>2. new.plan = r.plan /\ new.pc = at
    BY <1>0 DEF Run
  <2>. HIDE DEF new
  <2>. QED BY <1>0, <2>1, <2>2, OnDirected
<1>10. CASE VerifyStore(o) /\ ~To(o, Idle)
  <2>1. r.pc = "verify" /\ \E u \in r.unverified : To(o, [r EXCEPT !.unverified = @ \ {u}])
    BY <1>10 DEF VerifyStore, Finish
  <2>2. PICK u \in r.unverified : To(o, [r EXCEPT !.unverified = @ \ {u}])
    BY <2>1
  <2>3. [r EXCEPT !.unverified = @ \ {u}].pc = "verify"
    BY <1>0, <2>1 DEF Run
  <2>. QED BY <1>0, <2>2, <2>3, OutDirected DEF Executing
<1>11. CASE VerifyAuth(o) /\ ~To(o, Idle)
  <2>1. To(o, [r EXCEPT !.pc = "seed"])
    BY <1>11 DEF VerifyAuth, Finish
  <2>2. [r EXCEPT !.pc = "seed"].pc = "seed"
    BY <1>0 DEF Run
  <2>. QED BY <1>0, <2>1, <2>2, OutDirected DEF Executing
<1>12. CASE SeedCredentials(o)
  <2>1. To(o, [r EXCEPT !.pc = "usable"])
    BY <1>12 DEF SeedCredentials
  <2>2. [r EXCEPT !.pc = "usable"].pc = "usable"
    BY <1>0 DEF Run
  <2>. QED BY <1>0, <2>1, <2>2, OutDirected DEF Executing
<1>13. CASE RequireUsable(o) \/ Crash(o)
  <2>1. To(o, Idle)
    BY <1>13 DEF RequireUsable, Crash, Finish
  <2>. QED BY <1>1, <2>1
<1>14. CASE (CheckDigest(o) \/ CheckSql(o)) /\ ~To(o, Idle)
  <2>. DEFINE guard == [r EXCEPT !.pc = "guard"]
              inventory == [r EXCEPT !.pc = "inventory"]
  <2>1. To(o, guard) \/ To(o, inventory)
    BY <1>14 DEF CheckDigest, CheckSql, Check, Refuse, Finish
  <2>2. guard.pc \notin Executing /\ inventory.pc \notin Executing
    BY <1>0 DEF Run, Executing
  <2>. HIDE DEF guard, inventory
  <2>. QED BY <1>0, <2>1, <2>2, OutDirected
<1>15. CASE CheckInventory(o) /\ ~To(o, Idle)
  <2>. DEFINE more == [r EXCEPT !.pc = "digest", !.checking = @ + 1]
              over == [r EXCEPT !.pc = "plan", !.checking = 0, !.since = 0, !.settled = (edits = r.since)]
  <2>1. To(o, more) \/ To(o, over)
    BY <1>15 DEF CheckInventory, Check, Refuse, Finish
  <2>2. more.pc \notin Executing /\ over.pc \notin Executing
    BY <1>0 DEF Run, Executing
  <2>. HIDE DEF more, over
  <2>. QED BY <1>0, <2>1, <2>2, OutDirected
<1>. QED
  BY <1>1, <1>2, <1>3, <1>4, <1>5, <1>6, <1>7, <1>8, <1>9, <1>10, <1>11, <1>12, <1>13, <1>14, <1>15 DEF OperatorStep

LEMMA SameLedgers ==
    ASSUME OneLedgerPerDatabase, NEW m \in Manifests, NEW n \in Manifests
    PROVE  /\ DOMAIN m.files = DOMAIN n.files
           /\ \A p : Ledger(m, p) = Ledger(n, p) /\ \A f : Before(m, p, f) = Before(n, p, f)
BY DEF OneLedgerPerDatabase, Ledger, Before

(* The file a run is about to execute is the earliest it has left, so that
   whatever precedes it in any ledger aimed at the database is recorded. *)
LEMMA HeadFollows ==
    ASSUME OneLedgerPerDatabase, AllStand, NEW o \in Operators, Directed(run[o]), run[o].pc = "apply",
           run[o].pending # <<>>, NEW d \in Dbs \ HostedDbs, d = DbOf[CurrentTarget(run[o]).url]
    PROVE  Follows(d, Head(run[o].pending))
<1>. DEFINE r == run[o]
            q == CurrentTarget(r).profile
            f == Head(r.pending)
<1>0. r.pc \in Executing /\ LedgerTypeOK /\ Stands(r) /\ manifest \in Manifests
  BY DEF Executing, AllStand, LedgerTypeOK
<1>1. r.pending \in Seq(Files) /\ r.manifest \in Manifests /\ r.next \in 1..Len(r.plan) /\ q \in Profiles
  BY <1>0, ExecutingRun DEF PlannedTarget
<1>2. Aimed(d, q)
  BY <1>0, <1>1 DEF Directed, CurrentTarget
<1>3. Left(r) \subseteq Ledger(r.manifest, q) /\ Ledger(r.manifest, q) \ Left(r) \subseteq history[d]
  BY <1>0 DEF Stands, LedgerExecuted
<1>4. f \in Left(r) /\ \A i \in 1..Len(r.pending) : ~(r.pending[i].time < f.time)
  BY <1>1, HeadAndTail, RestInOrder DEF Left, Directed
<1>5. Ledger(r.manifest, q) = Ledger(manifest, q)
  BY <1>0, <1>1, SameLedgers
<1>. HIDE DEF q, f, r
<1>6. f \in Ledger(manifest, q)
  BY <1>3, <1>4, <1>5
<1>7. ASSUME NEW p \in Profiles, Aimed(d, p), f \in Ledger(manifest, p), NEW g \in Before(manifest, p, f)
      PROVE  g \in history[d]
  <2>1. g \in Ledger(manifest, p) /\ g.time < f.time
    BY <1>7 DEF Before
  <2>2. Begins(q, p) \/ Begins(p, q)
    BY <1>1, <1>2, <1>7 DEF OneLedgerPerDatabase
  <2>3. g \in Ledger(manifest, q)
    BY <1>0, <1>6, <1>7, <2>1, <2>2 DEF Begins
  <2>4. g \notin Left(r)
    BY <1>4, <2>1 DEF Left
  <2>. QED BY <1>3, <1>5, <2>3, <2>4
<1>8. \A p \in Profiles : Aimed(d, p) /\ f \in Ledger(manifest, p) => Before(manifest, p, f) \subseteq history[d]
  BY <1>7
<1>. QED BY <1>1, <1>2, <1>6, <1>8 DEF Follows, f, r

LEMMA FollowsStays ==
    ASSUME NEW d, NEW f, Follows(d, f), history[d] \subseteq history'[d], DOMAIN manifest'.files = DOMAIN manifest.files
    PROVE  Follows(d, f)'
<1>1. \A p : Ledger(manifest, p)' = Ledger(manifest, p) /\ Before(manifest, p, f)' = Before(manifest, p, f)
  BY DEF Ledger, Before
<1>2. \A p : Aimed(d, p)' = Aimed(d, p)
  OBVIOUS
<1>. QED BY <1>1, <1>2 DEF Follows

LEMMA StepPrefixed ==
    ASSUME OneLedgerPerDatabase, AllStand, NEW o \in Operators, Directed(run[o]), OperatorStep(o),
           NEW d \in Dbs \ HostedDbs, Prefixed(d)
    PROVE  Prefixed(d)'
<1>. DEFINE r == run[o]
            e == DbOf[CurrentTarget(r).url]
            h == Head(r.pending)
<1>0. LedgerTypeOK /\ Stands(r) /\ manifest \in Manifests /\ d \in Dbs
  BY DEF AllStand, LedgerTypeOK
<1>1. manifest' = manifest
  BY DEF OperatorStep, Start, LoadManifest, CheckDigest, CheckSql, CheckInventory, Check, ResolvePlan, Project, ListPending, ApplyFile, RecordVersion, TargetDone,
         VerifyStore, VerifyAuth, SeedCredentials, RequireUsable, Crash, Refuse, Stay
<1>2. history[d] \subseteq history'[d]
  BY <1>0, OperatorKeeps DEF Keeps, Grows
<1>3. history'[d] \subseteq DOMAIN manifest.files
  <2>1. CASE RecordVersion(o)
    <3>1. r.pc = "record" /\ r.pc \in Executing /\ history' = [history EXCEPT ![e] = @ \cup {h}]
      BY <2>1 DEF RecordVersion, Executing
    <3>2. r.pending \in Seq(Files) /\ r.pending # <<>> /\ r.manifest \in Manifests
      BY <1>0, <3>1, ExecutingRun DEF Stands, LedgerExecuted
    <3>3. Left(r) \subseteq Ledger(r.manifest, CurrentTarget(r).profile)
      BY <1>0, <3>1 DEF Stands, LedgerExecuted
    <3>4. h \in Left(r)
      BY <3>2, HeadAndTail DEF Left
    <3>5. h \in DOMAIN manifest.files
      BY <1>0, <3>2, <3>3, <3>4, LedgerIsFinite, SameLedgers
    <3>. HIDE DEF e, h
    <3>6. history'[d] \subseteq history[d] \cup {h}
      BY <1>0, <3>1 DEF LedgerTypeOK
    <3>. QED BY <3>5, <3>6 DEF Prefixed
  <2>2. CASE ~RecordVersion(o)
    <3>1. history' = history
      BY <2>2 DEF OperatorStep, Start, LoadManifest, CheckDigest, CheckSql, CheckInventory, Check, ResolvePlan, Project, ListPending, ApplyFile, TargetDone,
                  VerifyStore, VerifyAuth, SeedCredentials, RequireUsable, Crash, Refuse
    <3>. QED BY <3>1 DEF Prefixed
  <2>. QED BY <2>1, <2>2
<1>4. ASSUME NEW f \in DOMAIN manifest.files, tables'[d][f.component] \in Bytes
      PROVE  Follows(d, f)
  <2>1. CASE tables[d][f.component] \in Bytes
    BY <2>1 DEF Prefixed, Made
  <2>2. CASE tables[d][f.component] \notin Bytes
    <3>0. f \in Files /\ f.component \in Components
      BY <1>0, MigrationAssumption, LedgerAssumption DEF Components
    <3>1. ApplyFile(o)
      BY <1>0, <1>4, <2>2, <3>0, OnlyApplyExecutes
    <3>2. r.pc = "apply" /\ r.pc \in Executing /\ r.pending # <<>>
      BY <3>1 DEF ApplyFile, Executing
    <3>3. tables' = [tables EXCEPT ![e][h.component] = r.bytes[h]]
      <4>1. tables' # tables
        BY <1>4, <2>2
      <4>. QED BY <3>1, <4>1 DEF ApplyFile
    <3>4. r.pending \in Seq(Files) /\ r.manifest \in Manifests
      BY <1>0, <3>2, ExecutingRun
    <3>5. h \in Left(r)
      BY <3>2, <3>4, HeadAndTail DEF Left
    <3>6. h \in DOMAIN manifest.files
      <4>1. Left(r) \subseteq Ledger(r.manifest, CurrentTarget(r).profile)
        BY <1>0, <3>2 DEF Stands, LedgerExecuted
      <4>. QED BY <1>0, <3>4, <3>5, <4>1, LedgerIsFinite, SameLedgers
    <3>7. e = d /\ h.component = f.component
      <4>. HIDE DEF e, h, r
      <4>1. tables \in [Dbs -> [Components -> Bytes \cup {"absent", "local"}]]
        BY <1>0 DEF LedgerTypeOK
      <4>2. ~(e = d /\ h.component = f.component) => tables'[d][f.component] = tables[d][f.component]
        BY <1>0, <3>0, <3>3, <4>1
      <4>. QED BY <1>4, <2>2, <4>2
    <3>8. h = f
      <4>. HIDE DEF h
      <4>1. \E x \in Files : Named(manifest, f.component) = {x}
        BY <1>0, <3>0, MigrationAssumption
      <4>2. h \in Named(manifest, f.component) /\ f \in Named(manifest, f.component)
        BY <3>6, <3>7 DEF Named
      <4>. QED BY <4>1, <4>2
    <3>. QED BY <3>2, <3>7, <3>8, HeadFollows
  <2>. QED BY <2>1, <2>2
<1>5. ASSUME NEW f \in Made(d)'
      PROVE  Follows(d, f)'
  <2>1. f \in DOMAIN manifest.files /\ tables'[d][f.component] \in Bytes
    BY <1>1 DEF Made
  <2>2. Follows(d, f)
    BY <1>4, <2>1
  <2>. QED BY <1>1, <1>2, <2>2, FollowsStays
<1>. QED BY <1>1, <1>3, <1>5 DEF Prefixed

LEMMA PrefixedIsPrefix ==
    ASSUME OneLedgerPerDatabase, AllStand, NEW d \in Dbs \ HostedDbs, Prefixed(d)
    PROVE  \E p \in Profiles :
             LET made == {f \in DOMAIN manifest.files : tables[d][f.component] \in Bytes}
             IN  /\ history[d] \subseteq made /\ made \subseteq Ledger(manifest, p)
                 /\ \A f \in made : Before(manifest, p, f) \subseteq history[d]
<1>0. manifest \in Manifests /\ d \in Dbs /\ RecordedExists
  BY DEF AllStand, LedgerTypeOK
<1>1. history[d] \subseteq Made(d)
  BY <1>0 DEF Prefixed, Made, RecordedExists
<1>2. \A f \in Made(d) : f \in DOMAIN manifest.files /\ f.component \in Components
  BY <1>0, MigrationAssumption, LedgerAssumption DEF Made, Components
<1>3. \E p \in Profiles : Made(d) \subseteq Ledger(manifest, p) /\ (Aimed(d, p) \/ Made(d) = {})
  <2>1. CASE Made(d) = {}
    BY <2>1 DEF Profiles
  <2>2. CASE Aimed(d, "combined")
    <3>1. Made(d) \subseteq Ledger(manifest, "combined")
      BY <1>2 DEF Ledger, ProfileComponents
    <3>. QED BY <2>2, <3>1 DEF Profiles
  <2>3. CASE Made(d) # {} /\ ~Aimed(d, "combined")
    <3>1. PICK f \in Made(d), p \in Profiles : Aimed(d, p) /\ f \in Ledger(manifest, p)
      BY <2>3 DEF Prefixed, Follows
    <3>2. ASSUME NEW g \in Made(d)
          PROVE  g \in Ledger(manifest, p)
      <4>1. PICK q \in Profiles : Aimed(d, q) /\ g \in Ledger(manifest, q)
        BY DEF Prefixed, Follows
      <4>2. p # "combined" /\ q # "combined"
        BY <2>3, <3>1, <4>1
      <4>3. f.component = p /\ g.component = q
        BY <3>1, <4>1, <4>2 DEF Ledger, ProfileComponents
      <4>4. Ledger(manifest, p) \subseteq Ledger(manifest, q) \/ Ledger(manifest, q) \subseteq Ledger(manifest, p)
        BY <1>0, <3>1, <4>1 DEF OneLedgerPerDatabase, Begins
      <4>5. p = q
        BY <3>1, <4>1, <4>2, <4>3, <4>4 DEF Ledger, ProfileComponents
      <4>. QED BY <4>1, <4>5
    <3>. QED BY <3>1, <3>2
  <2>. QED BY <2>1, <2>2, <2>3
<1>4. PICK p \in Profiles : Made(d) \subseteq Ledger(manifest, p) /\ (Aimed(d, p) \/ Made(d) = {})
  BY <1>3
<1>5. \A f \in Made(d) : Before(manifest, p, f) \subseteq history[d]
  BY <1>4 DEF Prefixed, Follows
<1>. QED BY <1>1, <1>4, <1>5 DEF Made

Lasting == (\A o \in Operators : Directed(run[o])) /\ \A d \in Dbs \ HostedDbs : Prefixed(d)

LEMMA InitLasting == Init => Lasting
<1>. SUFFICES ASSUME Init PROVE Lasting
  OBVIOUS
<1>1. ASSUME NEW o \in Operators PROVE Directed(run[o])
  <2>1. run[o] = Idle /\ Idle.pc = "idle"
    BY DEF Init, Idle
  <2>. QED BY <2>1 DEF Directed, Executing
<1>2. ASSUME NEW d \in Dbs PROVE Prefixed(d)
  <2>1. history[d] = {} /\ \A c \in Components : tables[d][c] = "absent"
    BY DEF Init
  <2>2. manifest \in Manifests
    BY DEF Init
  <2>3. Made(d) = {}
    BY <2>1, <2>2, MigrationAssumption, LedgerAssumption DEF Made, Components
  <2>. QED BY <2>1, <2>3 DEF Prefixed
<1>. QED BY <1>1, <1>2 DEF Lasting

LEMMA NextLasting ==
    ASSUME OneLedgerPerDatabase
    PROVE  AllStand /\ Lasting /\ [Next]_vars => Lasting'
<1>. SUFFICES ASSUME AllStand, Lasting, [Next]_vars PROVE Lasting'
  OBVIOUS
<1>1. ASSUME NEW o \in Operators, OperatorStep(o) PROVE Lasting'
  <2>1. ASSUME NEW q \in Operators PROVE Directed(run[q])'
    <3>1. CASE q = o
      BY <1>1, <3>1, StepDirected DEF Lasting
    <3>2. CASE q # o
      <4>1. run'[q] = run[q] /\ Directed(run[q])
        BY <1>1, <3>2, OperatorKeeps DEF Keeps, Lasting
      <4>2. run[q]' = run[q]
        BY <4>1
      <4>. QED BY <4>1, <4>2 DEF Directed
    <3>. QED BY <3>1, <3>2
  <2>2. ASSUME NEW d \in Dbs \ HostedDbs PROVE Prefixed(d)'
    BY <1>1, StepPrefixed DEF Lasting
  <2>. QED BY <2>1, <2>2 DEF Lasting
<1>2. CASE EditFile \/ ReviseManifest \/ ReplaceBindings \/ UNCHANGED vars
  <2>1. UNCHANGED <<history, tables, run>>
    BY <1>2 DEF EditFile, ReviseManifest, ReplaceBindings, vars
  <2>2. manifest \in Manifests /\ manifest' \in Manifests
    BY <1>2 DEF EditFile, ReviseManifest, ReplaceBindings, vars, AllStand, LedgerTypeOK
  <2>3. DOMAIN manifest'.files = DOMAIN manifest.files
    BY <2>2, SameLedgers
  <2>4. ASSUME NEW q \in Operators PROVE Directed(run[q])'
    BY <2>1 DEF Directed, Lasting
  <2>5. ASSUME NEW d \in Dbs \ HostedDbs PROVE Prefixed(d)'
    <3>1. Prefixed(d)
      BY DEF Lasting
    <3>2. ASSUME NEW f \in Made(d)' PROVE Follows(d, f)'
      <4>1. f \in Made(d)
        BY <2>1, <2>3 DEF Made
      <4>2. Follows(d, f)
        BY <3>1, <4>1 DEF Prefixed
      <4>. QED BY <2>1, <2>3, <4>2, FollowsStays
    <3>3. history'[d] \subseteq DOMAIN manifest'.files
      BY <2>1, <2>3, <3>1 DEF Prefixed
    <3>. QED BY <3>2, <3>3 DEF Prefixed
  <2>. QED BY <2>4, <2>5 DEF Lasting
<1>. QED BY <1>1, <1>2 DEF Next, OperatorStep

(* Where no two documents and settings bring diverging ledgers to one       *)
(* database, what the command leaves in it is always the beginning of one   *)
(* ledger: no interleaving of runs, failing file or crash lets a file be    *)
(* executed before an earlier one is recorded (_apply_postgresql_plan,      *)
(* disposable_migration_projection).                                        *)
THEOREM HistoriesArePrefixes ==
    ASSUME OneLedgerPerDatabase
    PROVE  Spec => []HistoryIsProfilePrefix
<1>1. AllStand /\ Lasting => HistoryIsProfilePrefix
  BY PrefixedIsPrefix DEF Lasting, HistoryIsProfilePrefix
<1>. QED BY <1>1, InitStands, NextStands, InitLasting, NextLasting, PTL DEF Spec

===============================================================================
