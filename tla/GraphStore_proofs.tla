--------------------------- MODULE GraphStore_proofs ---------------------------
(***************************************************************************)
(* What the tables of a graph guarantee for any assets, rules, events,     *)
(* predicates and assertions: whoever loads them gets relationships        *)
(* between assets that are there, saving what was loaded changes nothing,  *)
(* and of what predicates own the projection is the only source, which the *)
(* index explains.                                                         *)
(***************************************************************************)
EXTENDS GraphStore, FiniteSetTheorems, TLAPS

(* Relationships, rows and what identifies them. *)

LEMMA KeyIs ==
    ASSUME NEW e, NEW f
    PROVE  /\ Key(e) = Key(f) <=> e.src = f.src /\ e.tgt = f.tgt /\ e.type = f.type
           /\ Key(e) = ReverseKey(f) <=> e.src = f.tgt /\ e.tgt = f.src /\ e.type = f.type
BY DEF Key, ReverseKey

LEMMA MkEdgeIs ==
    ASSUME NEW x, NEW y, NEW type, NEW strength
    PROVE  LET e == MkEdge(x, y, type, strength) IN
           /\ e.src = x /\ e.tgt = y /\ e.type = type /\ e.strength = strength
           /\ x \in Asset /\ y \in Asset /\ type \in Type /\ strength \in Strength => e \in Edge
BY DEF MkEdge, Edge

LEMMA ForwardIs ==
    ASSUME NEW r
    PROVE  /\ Forward(r).src = r.src /\ Forward(r).tgt = r.tgt /\ Forward(r).type = r.type
           /\ Forward(r).strength = r.strength /\ Key(Forward(r)) = Key(r)
           /\ r \in Row => Forward(r) \in Edge
BY DEF Forward, MkEdge, Key, Row, Edge

LEMMA DirectedIs ==
    ASSUME NEW e \in Edge
    PROVE  /\ Directed(e) \in Row /\ Forward(Directed(e)) = e /\ ~ Directed(e).both
           /\ Directed(e).src = e.src /\ Directed(e).tgt = e.tgt /\ Directed(e).type = e.type
           /\ Key(Directed(e)) = Key(e)
<1>1. Directed(e).src = e.src /\ Directed(e).tgt = e.tgt /\ Directed(e).type = e.type
      /\ Directed(e).strength = e.strength /\ ~ Directed(e).both
  BY DEF Directed
<1>2. Forward(Directed(e)) = e
  BY <1>1 DEF Forward, MkEdge, Edge
<1>3. Directed(e) \in Row
  BY DEF Directed, Row, Edge
<1>. QED BY <1>1, <1>2, <1>3 DEF Key

-----------------------------------------------------------------------------
(* What the rules build. *)

LEMMA StrengthType ==
    /\ StrengthOf["same_sector"] \in Strength /\ StrengthOf["corporate_link"] \in Strength
    /\ \A e \in Event : StrengthOf[e] \in Strength
    /\ \A p \in Predicate : StrengthOf[p] \in Strength
BY StoreAssumption DEF Rule

LEMMA SectorEdgesAre ==
    ASSUME NEW assets \in SUBSET Asset, NEW e \in SectorEdges(assets)
    PROVE  /\ e \in Edge /\ e.src \in assets /\ e.tgt \in assets /\ e.type = "same_sector"
           /\ e.strength = StrengthOf["same_sector"]
<1>1. PICK x \in assets, y \in assets : e = MkEdge(x, y, "same_sector", StrengthOf["same_sector"])
  BY DEF SectorEdges
<1>2. "same_sector" \in Type
  BY DEF Type, Rule
<1>. QED BY <1>1, <1>2, MkEdgeIs, StrengthType

LEMMA IssuerEdgesAre ==
    ASSUME NEW assets \in SUBSET Asset, NEW e \in IssuerEdges(assets)
    PROVE  /\ e \in Edge /\ e.src \in assets /\ e.tgt \in assets /\ e.type = "corporate_link"
           /\ e.strength = StrengthOf["corporate_link"]
<1>1. PICK x \in assets, y \in assets : e = MkEdge(x, y, "corporate_link", StrengthOf["corporate_link"])
  BY DEF IssuerEdges
<1>2. "corporate_link" \in Type
  BY DEF Type, Rule
<1>. QED BY <1>1, <1>2, MkEdgeIs, StrengthType

LEMMA EventEdgesAre ==
    ASSUME NEW assets \in SUBSET Asset, NEW events \in SUBSET EventRow,
           NEW e \in EventEdges(assets, events)
    PROVE  \E v \in events :
              /\ e = MkEdge(v.about, e.tgt, "event_impact", StrengthOf[v.id])
              /\ v.about \in assets /\ e.tgt \in assets /\ e.tgt \in v.related
              /\ \A u \in events :
                    u.about = v.about /\ e.tgt \in u.related => EventRank[v.id] <= EventRank[u.id]
<1>. DEFINE Links(v) == {<<v.about, y>> : y \in IF v.about \in assets THEN v.related \intersect assets
                                                ELSE {}}
            First(v, l) == \A u \in events : l \in Links(u) => EventRank[v.id] <= EventRank[u.id]
<1>0. PICK v \in events : \E l \in Links(v) :
        First(v, l) /\ e = MkEdge(l[1], l[2], "event_impact", StrengthOf[v.id])
  BY DEF EventEdges
<1>1. PICK l \in Links(v) :
        First(v, l) /\ e = MkEdge(l[1], l[2], "event_impact", StrengthOf[v.id])
  BY <1>0
<1>2. PICK y \in assets : l = <<v.about, y>> /\ v.about \in assets /\ y \in v.related
  OBVIOUS
<1>3. l[1] = v.about /\ l[2] = y /\ e.tgt = y
  BY <1>1, <1>2, MkEdgeIs
<1>4. ASSUME NEW u \in events, u.about = v.about, y \in u.related
      PROVE  EventRank[v.id] <= EventRank[u.id]
  <2>1. l \in Links(u)
    BY <1>2, <1>4
  <2>. QED BY <1>1, <2>1
<1>. QED BY <1>1, <1>2, <1>3, <1>4

LEMMA BuildIsSound ==
    ASSUME NEW assets \in SUBSET Asset, NEW events \in SUBSET EventRow
    PROVE  /\ Build(assets, events) \in Graph
           /\ UniqueKeys(Build(assets, events).edges)
           /\ \A e \in Build(assets, events).edges : e.src \in assets /\ e.tgt \in assets
           /\ Build(assets, events).assets = assets /\ Build(assets, events).events = events
<1>. DEFINE graph == Build(assets, events)
<1>1. /\ graph.assets = assets /\ graph.events = events
      /\ graph.edges = SectorEdges(assets) \union IssuerEdges(assets) \union EventEdges(assets, events)
  BY DEF Build
<1>2. ASSUME NEW e \in EventEdges(assets, events)
      PROVE  e \in Edge /\ e.src \in assets /\ e.tgt \in assets /\ e.type = "event_impact"
  <2>1. PICK v \in events : /\ e = MkEdge(v.about, e.tgt, "event_impact", StrengthOf[v.id])
                            /\ v.about \in assets /\ e.tgt \in assets
    BY EventEdgesAre
  <2>2. v.id \in Event /\ "event_impact" \in Type
    BY DEF EventRow, Type, Rule
  <2>3. StrengthOf[v.id] \in Strength
    BY <2>2, StrengthType
  <2>. QED BY <2>1, <2>2, <2>3, MkEdgeIs
<1>3. ASSUME NEW e \in graph.edges PROVE e \in Edge /\ e.src \in assets /\ e.tgt \in assets
  BY <1>1, <1>2, <1>3, SectorEdgesAre, IssuerEdgesAre
<1>4. graph \in Graph
  BY <1>1, <1>3 DEF Build, Graph
<1>5. ASSUME NEW e \in graph.edges, NEW f \in graph.edges, Key(e) = Key(f) PROVE e = f
  <2>1. e \in Edge /\ f \in Edge /\ e.src = f.src /\ e.tgt = f.tgt /\ e.type = f.type
    BY <1>3, <1>5, KeyIs
  <2>2. SUFFICES e.strength = f.strength
    BY <2>1 DEF Edge
  <2>3. CASE e.type = "same_sector"
    <3>1. e \in SectorEdges(assets) /\ f \in SectorEdges(assets)
      BY <1>1, <1>2, <2>1, <2>3, SectorEdgesAre, IssuerEdgesAre
    <3>2. e.strength = StrengthOf["same_sector"] /\ f.strength = StrengthOf["same_sector"]
      BY <3>1, SectorEdgesAre
    <3>. QED BY <3>2
  <2>4. CASE e.type = "corporate_link"
    <3>1. e \in IssuerEdges(assets) /\ f \in IssuerEdges(assets)
      BY <1>1, <1>2, <2>1, <2>4, SectorEdgesAre, IssuerEdgesAre
    <3>2. e.strength = StrengthOf["corporate_link"] /\ f.strength = StrengthOf["corporate_link"]
      BY <3>1, IssuerEdgesAre
    <3>. QED BY <3>2
  <2>5. CASE e.type = "event_impact"
    <3>1. e \in EventEdges(assets, events) /\ f \in EventEdges(assets, events)
      BY <1>1, <2>1, <2>5, SectorEdgesAre, IssuerEdgesAre
    <3>2. PICK v \in events :
            /\ e = MkEdge(v.about, e.tgt, "event_impact", StrengthOf[v.id])
            /\ e.tgt \in v.related
            /\ \A u \in events :
                  u.about = v.about /\ e.tgt \in u.related => EventRank[v.id] <= EventRank[u.id]
      BY <3>1, EventEdgesAre
    <3>3. PICK w \in events :
            /\ f = MkEdge(w.about, f.tgt, "event_impact", StrengthOf[w.id])
            /\ f.tgt \in w.related
            /\ \A u \in events :
                  u.about = w.about /\ f.tgt \in u.related => EventRank[w.id] <= EventRank[u.id]
      BY <3>1, EventEdgesAre
    <3>4. e.src = v.about /\ f.src = w.about /\ e.strength = StrengthOf[v.id] /\ f.strength = StrengthOf[w.id]
      BY <3>2, <3>3, MkEdgeIs
    <3>5. EventRank[v.id] <= EventRank[w.id] /\ EventRank[w.id] <= EventRank[v.id]
      BY <2>1, <3>2, <3>3, <3>4
    <3>6. v.id \in Event /\ w.id \in Event
      BY DEF EventRow
    <3>7. EventRank \in [Event -> Nat] /\ \A x, y \in Event : EventRank[x] = EventRank[y] => x = y
      BY StoreAssumption
    <3>8. v.id = w.id
      BY <3>5, <3>6, <3>7
    <3>. QED BY <3>4, <3>8
  <2>6. e.type \in {"same_sector", "corporate_link", "event_impact"}
    BY <1>1, <1>2, SectorEdgesAre, IssuerEdgesAre
  <2>. QED BY <2>3, <2>4, <2>5, <2>6
<1>. QED BY <1>1, <1>3, <1>4, <1>5 DEF UniqueKeys

-----------------------------------------------------------------------------
(* What a load makes of the rows. *)

LEMMA AddsAre ==
    ASSUME NEW rels \in SUBSET Row, NEW r \in rels, NEW e \in Adds(r, rels)
    PROVE  /\ e \in Edge /\ e.type = r.type /\ e.strength = r.strength
           /\ \/ e = Forward(r) /\ e.src = r.src /\ e.tgt = r.tgt
              \/ /\ ReverseKey(r) \notin Keys(rels) /\ r.both
                 /\ e = MkEdge(r.tgt, r.src, r.type, r.strength) /\ e.src = r.tgt /\ e.tgt = r.src
<1>1. CASE e = Forward(r)
  BY <1>1, ForwardIs
<1>2. CASE e # Forward(r)
  <2>1. Expands(r, rels) /\ e = MkEdge(r.tgt, r.src, r.type, r.strength)
    BY <1>2 DEF Adds
  <2>2. r.src \in Asset /\ r.tgt \in Asset /\ r.type \in Type /\ r.strength \in Strength
    BY DEF Row
  <2>. QED BY <2>1, <2>2, MkEdgeIs DEF Expands
<1>. QED BY <1>1, <1>2

LEMMA LoadedAre ==
    ASSUME NEW rels \in SUBSET Row, NEW e \in LoadedEdges(rels)
    PROVE  \E r \in rels :
              /\ e \in Adds(r, rels)
              /\ \A s \in rels : Key(e) \in Keys(Adds(s, rels)) => Rank[r.src] <= Rank[s.src]
BY DEF LoadedEdges

LEMMA SameRank ==
    ASSUME NEW x \in Asset, NEW y \in Asset, Rank[x] <= Rank[y], Rank[y] <= Rank[x]
    PROVE  x = y
<1>1. Rank \in [Asset -> Nat] /\ \A u, v \in Asset : Rank[u] = Rank[v] => u = v
  BY StoreAssumption
<1>2. Rank[x] \in Nat /\ Rank[y] \in Nat
  BY <1>1
<1>3. Rank[x] = Rank[y]
  BY <1>2
<1>. QED BY <1>1, <1>3

(* Rows with unique keys become relationships with unique keys, between the same assets. *)
LEMMA LoadIsSound ==
    ASSUME NEW rels \in SUBSET Row, UniqueKeys(rels)
    PROVE  /\ LoadedEdges(rels) \in SUBSET Edge /\ UniqueKeys(LoadedEdges(rels))
           /\ \A e \in LoadedEdges(rels) : \E r \in rels : {e.src, e.tgt} = {r.src, r.tgt}
<1>1. ASSUME NEW e \in LoadedEdges(rels)
      PROVE  e \in Edge /\ \E r \in rels : {e.src, e.tgt} = {r.src, r.tgt}
  <2>1. PICK r \in rels : e \in Adds(r, rels)
    BY LoadedAre
  <2>2. e \in Edge /\ (\/ e.src = r.src /\ e.tgt = r.tgt
                       \/ e.src = r.tgt /\ e.tgt = r.src)
    BY <2>1, AddsAre
  <2>3. {e.src, e.tgt} = {r.src, r.tgt}
    BY <2>2
  <2>. QED BY <2>2, <2>3
<1>2. ASSUME NEW e \in LoadedEdges(rels), NEW f \in LoadedEdges(rels), Key(e) = Key(f)
      PROVE  e = f
  <2>1. PICK r \in rels :
          /\ e \in Adds(r, rels)
          /\ \A s \in rels : Key(e) \in Keys(Adds(s, rels)) => Rank[r.src] <= Rank[s.src]
    BY LoadedAre
  <2>2. PICK q \in rels :
          /\ f \in Adds(q, rels)
          /\ \A s \in rels : Key(f) \in Keys(Adds(s, rels)) => Rank[q.src] <= Rank[s.src]
    BY LoadedAre
  <2>3. Rank[r.src] <= Rank[q.src] /\ Rank[q.src] <= Rank[r.src]
    <3>1. Key(e) \in Keys(Adds(q, rels)) /\ Key(f) \in Keys(Adds(r, rels))
      BY <1>2, <2>1, <2>2 DEF Keys
    <3>. QED BY <2>1, <2>2, <3>1
  <2>4. r.src = q.src
    BY <2>3, SameRank DEF Row
  <2>5. e.src = f.src /\ e.tgt = f.tgt /\ e.type = f.type
    BY <1>2, KeyIs
  <2>6. r.type = e.type /\ q.type = f.type
    BY <2>1, <2>2, AddsAre
  <2>7. r.tgt = q.tgt
    BY <2>1, <2>2, <2>4, <2>5, AddsAre
  <2>8. r = q
    <3>1. Key(r) = Key(q)
      BY <2>4, <2>5, <2>6, <2>7, KeyIs
    <3>. QED BY <3>1 DEF UniqueKeys
  <2>9. e.strength = f.strength /\ e \in Edge /\ f \in Edge
    BY <2>1, <2>2, <2>8, AddsAre
  <2>. QED BY <2>5, <2>9 DEF Edge
<1>. QED BY <1>1, <1>2 DEF UniqueKeys

(* No row gives way to the reverse of another. *)
LEMMA RowsAreLoaded ==
    ASSUME NEW rels \in SUBSET Row, NEW r \in rels
    PROVE  Forward(r) \in LoadedEdges(rels)
<1>1. Forward(r) \in Adds(r, rels)
  BY DEF Adds
<1>2. ASSUME NEW s \in rels, Key(Forward(r)) \in Keys(Adds(s, rels))
      PROVE  Rank[r.src] <= Rank[s.src]
  <2>1. PICK f \in Adds(s, rels) : Key(Forward(r)) = Key(f)
    BY <1>2 DEF Keys
  <2>2. Key(r) = Key(f)
    BY <2>1, ForwardIs
  <2>3. f.src = s.src
    <3>1. SUFFICES ASSUME f.src = s.tgt, f.tgt = s.src, f.type = s.type, ReverseKey(s) \notin Keys(rels)
                   PROVE  FALSE
      BY <2>1, AddsAre
    <3>2. Key(f) = ReverseKey(s)
      BY <3>1, KeyIs
    <3>. QED BY <2>2, <3>1, <3>2 DEF Keys
  <2>4. r.src = s.src /\ r.src \in Asset
    BY <2>2, <2>3, KeyIs DEF Row
  <2>5. Rank[r.src] \in Nat
    BY <2>4, StoreAssumption
  <2>. QED BY <2>4, <2>5
<1>. QED BY <1>1, <1>2 DEF LoadedEdges

(* Rows of one direction are loaded as they are. *)
LEMMA OneWayLoad ==
    ASSUME NEW rels \in SUBSET Row, \A r \in rels : ~ r.both
    PROVE  LoadedEdges(rels) = {Forward(r) : r \in rels}
<1>1. ASSUME NEW e \in LoadedEdges(rels) PROVE e \in {Forward(r) : r \in rels}
  <2>1. PICK r \in rels : e \in Adds(r, rels)
    BY LoadedAre
  <2>2. e = Forward(r)
    BY <2>1, AddsAre
  <2>. QED BY <2>2
<1>2. ASSUME NEW r \in rels PROVE Forward(r) \in LoadedEdges(rels)
  BY RowsAreLoaded
<1>. QED BY <1>1, <1>2

LEMMA SavedIs ==
    ASSUME NEW tables \in Tables, NEW graph \in Graph
    PROVE  /\ Saved(tables, graph) \in Tables
           /\ Saved(tables, graph).assets = graph.assets
           /\ Saved(tables, graph).rels = {Directed(e) : e \in graph.edges}
           /\ Saved(tables, graph).events = graph.events
           /\ Load(Saved(tables, graph)) = graph
<1>. DEFINE rels == {Directed(e) : e \in graph.edges}
<1>1. Saved(tables, graph) = [assets |-> graph.assets, rels |-> rels, events |-> graph.events]
  <2>. DEFINE first == ReplaceAssets(tables, graph.assets)
              second == ReplaceRelationships(first, graph.edges)
  <2>1. first = [assets |-> graph.assets, rels |-> first.rels, events |-> first.events]
    BY DEF ReplaceAssets
  <2>. HIDE DEF first
  <2>2. second = [assets |-> graph.assets, rels |-> rels, events |-> first.events]
    BY <2>1 DEF ReplaceRelationships
  <2>. HIDE DEF second, rels
  <2>3. ReplaceEvents(second, graph.events) = [assets |-> graph.assets, rels |-> rels, events |-> graph.events]
    BY <2>2 DEF ReplaceEvents
  <2>. QED BY <2>3 DEF Saved, first, second
<1>2. graph.assets \in SUBSET Asset /\ graph.edges \in SUBSET Edge /\ graph.events \in SUBSET EventRow
  BY DEF Graph
<1>3. rels \in SUBSET Row /\ \A r \in rels : ~ r.both
  BY <1>2, DirectedIs
<1>4. {Forward(r) : r \in rels} = graph.edges
  BY <1>2, DirectedIs
<1>5. LoadedEdges(rels) = graph.edges
  BY <1>3, <1>4, OneWayLoad
<1>. HIDE DEF rels
<1>6. Load(Saved(tables, graph)) = [assets |-> graph.assets, edges |-> graph.edges, events |-> graph.events]
  BY <1>1, <1>5 DEF Load, LoadedAssets, LoadedEvents
<1>7. graph = [assets |-> graph.assets, edges |-> graph.edges, events |-> graph.events]
  BY DEF Graph
<1>. QED BY <1>1, <1>2, <1>3, <1>6, <1>7 DEF Tables, rels

-----------------------------------------------------------------------------
(* What a publication projects. *)

LEMMA ExpandIs ==
    ASSUME NEW a \in Assertion
    PROVE  /\ Expand(a) \in ProjectionEdge /\ Expand(a).assertion = a
           /\ Expand(a).type = EdgeType[Predicates[a]] /\ Predicates[a] \in Predicate
           /\ Expand(a).src # Expand(a).tgt
<1>1. /\ Predicates[a] \in Predicate /\ Subject[a] \in Asset /\ Object[a] \in Asset
      /\ Subject[a] # Object[a]
      /\ Direction[Predicates[a]] \in {"subject_to_object", "object_to_subject", "bidirectional"}
  BY StoreAssumption
<1>2. EdgeType[Predicates[a]] \in Type /\ StrengthOf[Predicates[a]] \in Strength
  BY <1>1, StrengthType DEF Type
<1>3. /\ Expand(a).assertion = a /\ Expand(a).type = EdgeType[Predicates[a]]
      /\ Expand(a).strength = StrengthOf[Predicates[a]] /\ Expand(a).direction = Direction[Predicates[a]]
      /\ \/ Expand(a).src = Object[a] /\ Expand(a).tgt = Subject[a]
         \/ Expand(a).src = Subject[a] /\ Expand(a).tgt = Object[a]
  BY DEF Expand
<1>4. Expand(a) \in ProjectionEdge
  BY <1>1, <1>2 DEF Expand, ProjectionEdge
<1>. QED BY <1>1, <1>3, <1>4

(* The relationships of a projection are those its edges have the keys of. *)
LEMMA RuntimeIs ==
    ASSUME NEW edges \in SUBSET ProjectionEdge
    PROVE  /\ \A e \in Runtime(edges) : \E p \in edges :
                 /\ e \in Edge /\ e.type = p.type /\ e.strength = p.strength
                 /\ Key(e) \in RuntimeKeys(p) /\ {e.src, e.tgt} = {p.src, p.tgt}
           /\ \A p \in edges : \A k \in RuntimeKeys(p) : \E e \in Runtime(edges) : Key(e) = k
<1>1. ASSUME NEW p \in edges
      PROVE  p.src \in Asset /\ p.tgt \in Asset /\ p.type \in Type /\ p.strength \in Strength
  BY DEF ProjectionEdge
<1>. DEFINE there(p) == MkEdge(p.src, p.tgt, p.type, p.strength)
            back(p) == MkEdge(p.tgt, p.src, p.type, p.strength)
<1>2. ASSUME NEW p \in edges
      PROVE  /\ there(p) \in Edge /\ there(p).type = p.type /\ there(p).strength = p.strength
             /\ Key(there(p)) = Key(p) /\ there(p).src = p.src /\ there(p).tgt = p.tgt
             /\ back(p) \in Edge /\ back(p).type = p.type /\ back(p).strength = p.strength
             /\ Key(back(p)) = ReverseKey(p) /\ back(p).src = p.tgt /\ back(p).tgt = p.src
  BY <1>1, MkEdgeIs DEF Key, ReverseKey
<1>3. Runtime(edges) = {there(p) : p \in edges}
                       \union {back(p) : p \in {q \in edges : q.direction = "bidirectional"}}
  BY DEF Runtime
<1>. HIDE DEF there, back
<1>4. ASSUME NEW e \in Runtime(edges)
      PROVE  \E p \in edges :
                 /\ e \in Edge /\ e.type = p.type /\ e.strength = p.strength
                 /\ Key(e) \in RuntimeKeys(p) /\ {e.src, e.tgt} = {p.src, p.tgt}
  <2>1. CASE e \in {there(p) : p \in edges}
    <3>1. PICK p \in edges : e = there(p)
      BY <2>1
    <3>2. Key(e) \in RuntimeKeys(p)
      BY <1>2, <3>1 DEF RuntimeKeys
    <3>3. {e.src, e.tgt} = {p.src, p.tgt}
      BY <1>2, <3>1
    <3>. QED BY <1>2, <3>1, <3>2, <3>3
  <2>2. CASE e \in {back(p) : p \in {q \in edges : q.direction = "bidirectional"}}
    <3>1. PICK p \in edges : e = back(p) /\ p.direction = "bidirectional"
      BY <2>2
    <3>2. Key(e) \in RuntimeKeys(p)
      BY <1>2, <3>1 DEF RuntimeKeys
    <3>3. {e.src, e.tgt} = {p.src, p.tgt}
      BY <1>2, <3>1
    <3>. QED BY <1>2, <3>1, <3>2, <3>3
  <2>. QED BY <1>3, <2>1, <2>2
<1>5. ASSUME NEW p \in edges, NEW k \in RuntimeKeys(p)
      PROVE  \E e \in Runtime(edges) : Key(e) = k
  <2>1. CASE k = Key(p)
    <3>1. there(p) \in Runtime(edges)
      BY <1>3
    <3>. QED BY <1>2, <2>1, <3>1
  <2>2. CASE k # Key(p)
    <3>1. k = ReverseKey(p) /\ p.direction = "bidirectional"
      BY <2>2 DEF RuntimeKeys
    <3>2. back(p) \in Runtime(edges)
      BY <1>3, <3>1
    <3>. QED BY <1>2, <3>1, <3>2
  <2>. QED BY <2>1, <2>2
<1>. QED BY <1>4, <1>5

LEMMA ProjectedIs ==
    ASSUME StoreTypeOK, NEW graph
    PROVE  /\ Candidates(graph) \in SUBSET Assertion
           /\ Projected(graph) \in SUBSET ProjectionEdge
           /\ Scopes(Candidates(graph)) \in SUBSET Predicate
           /\ \A p \in Projected(graph) : /\ p = Expand(p.assertion) /\ p.assertion \in Candidates(graph)
                                          /\ Predicates[p.assertion] \in Scopes(Candidates(graph))
                                          /\ p.type \in GovernedTypes(Scopes(Candidates(graph)))
<1>1. Candidates(graph) \in SUBSET Assertion
  BY DEF Candidates, StoreTypeOK
<1>2. \A a \in Candidates(graph) : Predicates[a] \in Predicate /\ Expand(a) \in ProjectionEdge
                                   /\ Expand(a).assertion = a /\ Expand(a).type = EdgeType[Predicates[a]]
  BY <1>1, ExpandIs
<1>3. Scopes(Candidates(graph)) \in SUBSET Predicate
      /\ \A a \in Candidates(graph) : Predicates[a] \in Scopes(Candidates(graph))
  BY <1>2 DEF Scopes, StoreTypeOK
<1>4. ASSUME NEW p \in Projected(graph)
      PROVE  /\ p \in ProjectionEdge /\ p = Expand(p.assertion) /\ p.assertion \in Candidates(graph)
             /\ Predicates[p.assertion] \in Scopes(Candidates(graph))
             /\ p.type \in GovernedTypes(Scopes(Candidates(graph)))
  <2>1. PICK a \in Candidates(graph) : p = Expand(a)
    BY DEF Projected
  <2>2. p.assertion = a /\ p.type = EdgeType[Predicates[a]]
    BY <1>2, <2>1
  <2>. QED BY <1>2, <1>3, <2>1, <2>2 DEF GovernedTypes
<1>. QED BY <1>1, <1>3, <1>4

(* What is published of a graph. *)
LEMMA PublicationIs ==
    ASSUME StoreTypeOK, NEW graph \in Graph
    PROVE  /\ Publication(graph) \in Graph
           /\ Publication(graph).assets = graph.assets /\ Publication(graph).events = graph.events
           /\ {e \in Publication(graph).edges : e.type \in GovernedTypes(Scopes(Candidates(graph)))}
                = Runtime(Projected(graph))
<1>. DEFINE owned == Scopes(Candidates(graph))
            edges == Overlay(graph.edges, Projected(graph), owned)
<1>1. graph = [assets |-> graph.assets, edges |-> graph.edges, events |-> graph.events]
      /\ graph.assets \in SUBSET Asset /\ graph.edges \in SUBSET Edge /\ graph.events \in SUBSET EventRow
  BY DEF Graph
<1>2. Publication(graph) = [graph EXCEPT !.edges = edges]
  BY DEF Publication
<1>3. \A e \in Runtime(Projected(graph)) : e \in Edge /\ e.type \in GovernedTypes(owned)
  BY ProjectedIs, RuntimeIs
<1>4. edges \in SUBSET Edge
  BY <1>1, <1>3 DEF Overlay
<1>5. {e \in edges : e.type \in GovernedTypes(owned)} = Runtime(Projected(graph))
  BY <1>3 DEF Overlay
<1>. HIDE DEF edges, owned
<1>6. Publication(graph) = [assets |-> graph.assets, edges |-> edges, events |-> graph.events]
  BY <1>1, <1>2
<1>. QED BY <1>1, <1>4, <1>5, <1>6 DEF Graph, owned

-----------------------------------------------------------------------------
(* The inductive invariant, without what it says of a load. *)

Stands == StoreTypeOK /\ TablesStand /\ PublicationStands

(* Every source of a graph gives a sound one. *)
LEMMA SourcesAreSound ==
    /\ SampleGraph \in Graph /\ Sound(SampleGraph)
    /\ \A answer : LiveGraph(answer) \in Graph /\ Sound(LiveGraph(answer))
<1>1. SampleAsset \in SUBSET Asset /\ SampleAsset # {} /\ {} \in SUBSET EventRow
  BY StoreAssumption
<1>2. SampleGraph \in Graph /\ Sound(SampleGraph)
  <2>1. SampleGraph.assets = SampleAsset
    BY <1>1, BuildIsSound DEF SampleGraph
  <2>. QED BY <1>1, <2>1, BuildIsSound DEF SampleGraph, Sound
<1>3. SyntheticEvents \in SUBSET EventRow /\ SyntheticEvents # {}
  <2>1. \A e \in Event : About[e] \in Asset /\ Related[e] \in SUBSET Asset
    BY StoreAssumption
  <2>2. Event # {}
    BY StoreAssumption
  <2>3. PICK e \in Event : TRUE
    BY <2>2
  <2>4. [id |-> e, about |-> About[e], related |-> Related[e]] \in SyntheticEvents
    BY DEF SyntheticEvents
  <2>5. SyntheticEvents \in SUBSET EventRow
    BY <2>1 DEF SyntheticEvents, EventRow
  <2>. QED BY <2>4, <2>5
<1>4. ASSUME NEW answer PROVE LiveGraph(answer) \in Graph /\ Sound(LiveGraph(answer))
  <2>1. Fetched(answer) \in SUBSET Asset
    BY StoreAssumption DEF Fetched, Securities, Contracts
  <2>2. LiveGraph(answer).events = SyntheticEvents /\ LiveGraph(answer).assets = Fetched(answer)
    BY <1>3, <2>1, BuildIsSound DEF LiveGraph
  <2>3. LiveGraph(answer).events # {}
    BY <1>3, <2>2
  <2>4. LiveGraph(answer) \in Graph /\ UniqueKeys(LiveGraph(answer).edges)
        /\ \A e \in LiveGraph(answer).edges : e.src \in Fetched(answer) /\ e.tgt \in Fetched(answer)
    BY <1>3, <2>1, BuildIsSound DEF LiveGraph
  <2>. QED BY <2>2, <2>3, <2>4 DEF Sound
<1>. QED BY <1>2, <1>4

LEMMA FileIs ==
    ASSUME NEW graph \in Graph
    PROVE  FromFile(ToFile(graph)) = graph
<1>1. graph = [assets |-> graph.assets, edges |-> graph.edges, events |-> graph.events]
  BY DEF Graph
<1>2. FromFile(ToFile(graph)) = [assets |-> graph.assets, events |-> graph.events, edges |-> graph.edges]
  BY DEF FromFile, ToFile
<1>. QED BY <1>1, <1>2

LEMMA CacheStands ==
    ASSUME StoreTypeOK, TablesStand, NEW graph \in Graph, Sound(graph), cache' \in CacheAfter(graph)
    PROVE  cache' # NoGraph => FromFile(cache') \in Graph /\ Sound(FromFile(cache'))
<1>1. CASE cache' = cache
  BY <1>1 DEF StoreTypeOK, TablesStand
<1>2. CASE cache' = ToFile(graph)
  <2>1. FromFile(cache') = graph
    BY <1>2, FileIs
  <2>. QED BY <2>1
<1>. QED BY <1>1, <1>2 DEF CacheAfter

LEMMA LoadType ==
    ASSUME StoreTypeOK, TablesStand
    PROVE  Load(rows) \in Graph
<1>1. rows.assets \in SUBSET Asset /\ rows.rels \in SUBSET Row /\ rows.events \in SUBSET EventRow
  BY DEF StoreTypeOK, Tables
<1>2. LoadedEdges(rows.rels) \in SUBSET Edge
  BY <1>1, LoadIsSound DEF TablesStand
<1>. QED BY <1>1, <1>2 DEF Load, LoadedAssets, LoadedEvents, Graph

LEMMA FallbackIsSound ==
    ASSUME StoreTypeOK, TablesStand, NEW graph \in Fallback
    PROVE  graph \in Graph /\ Sound(graph)
<1>1. graph = SampleGraph \/ graph \in FromCachePath \/ graph \in LiveGraphs
  BY DEF Fallback, FromFetcher
<1>2. CASE graph = SampleGraph
  BY <1>2, SourcesAreSound
<1>3. CASE graph \in FromCachePath
  BY <1>3 DEF FromCachePath, StoreTypeOK, TablesStand
<1>4. CASE graph \in LiveGraphs
  BY <1>4, SourcesAreSound DEF LiveGraphs
<1>. QED BY <1>1, <1>2, <1>3, <1>4

LEMMA InitStands == Init => Stands
<1>. SUFFICES ASSUME Init PROVE Stands
  OBVIOUS
<1>1. rows = [assets |-> {}, rels |-> {}, events |-> {}] /\ scopes = {} /\ pub = {} /\ untouched = FALSE
      /\ accepted = {} /\ cache = NoGraph /\ built = NoGraph
  BY DEF Init, EmptyTables
<1>2. StoreTypeOK
  BY <1>1 DEF StoreTypeOK, Tables
<1>3. TablesStand
  BY <1>1 DEF TablesStand, UniqueKeys
<1>4. PublicationStands
  BY <1>1 DEF PublicationStands
<1>. QED BY <1>2, <1>3, <1>4 DEF Stands

(* A step that leaves the tables and the publication alone. *)
LEMMA QuietStands ==
    ASSUME Stands, UNCHANGED Stored,
           accepted' \in SUBSET Assertion,
           built' # NoGraph => built' \in Graph /\ Sound(built'),
           cache' # NoGraph => FromFile(cache') \in Graph /\ Sound(FromFile(cache'))
    PROVE  Stands'
<1>1. StoreTypeOK'
  BY DEF Stands, StoreTypeOK, Stored
<1>2. TablesStand'
  BY DEF Stands, TablesStand, Stored
<1>3. PublicationStands'
  BY DEF Stands, PublicationStands, Stored
<1>. QED BY <1>1, <1>2, <1>3 DEF Stands

LEMMA BuildsStand ==
    ASSUME Stands,
           \/ ReadCache \/ UseSample \/ Abort
           \/ \E answer \in [Symbol -> Answer] : FetchLive(answer)
           \/ \E graph \in LiveGraphs : Boot(graph)
           \/ \E a \in Assertion : Accept(a) \/ Retract(a)
    PROVE  Stands'
<1>1. /\ accepted \in SUBSET Assertion
      /\ built # NoGraph => built \in Graph /\ Sound(built)
      /\ cache # NoGraph => FromFile(cache) \in Graph /\ Sound(FromFile(cache))
  BY DEF Stands, StoreTypeOK, TablesStand
<1>2. CASE ReadCache
  BY <1>1, <1>2, QuietStands DEF ReadCache
<1>3. CASE UseSample
  BY <1>1, <1>3, QuietStands, SourcesAreSound DEF UseSample
<1>4. CASE Abort
  BY <1>1, <1>4, QuietStands DEF Abort
<1>5. CASE \E answer \in [Symbol -> Answer] : FetchLive(answer)
  <2>1. PICK answer \in [Symbol -> Answer] : FetchLive(answer)
    BY <1>5
  <2>2. built' = LiveGraph(answer) /\ cache' \in CacheAfter(LiveGraph(answer))
        /\ UNCHANGED Stored /\ accepted' = accepted
    BY <2>1 DEF FetchLive, RunRebuild, LiveGraph
  <2>3. LiveGraph(answer) \in Graph /\ Sound(LiveGraph(answer))
    BY SourcesAreSound
  <2>4. cache' # NoGraph => FromFile(cache') \in Graph /\ Sound(FromFile(cache'))
    BY <2>2, <2>3, CacheStands DEF Stands
  <2>. QED BY <1>1, <2>2, <2>3, <2>4, QuietStands
<1>6. CASE \E graph \in LiveGraphs : Boot(graph)
  <2>1. PICK graph \in LiveGraphs : Boot(graph)
    BY <1>6
  <2>2. graph \in Graph /\ Sound(graph)
    BY SourcesAreSound DEF LiveGraphs
  <2>3. cache' # NoGraph => FromFile(cache') \in Graph /\ Sound(FromFile(cache'))
    BY <2>1, <2>2, CacheStands DEF Stands, Boot
  <2>. QED BY <1>1, <2>1, <2>3, QuietStands DEF Boot
<1>7. CASE \E a \in Assertion : Accept(a) \/ Retract(a)
  BY <1>1, <1>7, QuietStands DEF Accept, Retract
<1>. QED BY <1>2, <1>3, <1>4, <1>5, <1>6, <1>7

(* A publication. *)
LEMMA PublishStands ==
    ASSUME Stands, Publish
    PROVE  Stands'
<1>. DEFINE staged == Publication(built)
<1>1. built \in Graph /\ Publishable(built) /\ rows' = Saved(rows, staged)
      /\ scopes' = Scopes(Candidates(built)) /\ pub' = Projected(built) /\ untouched' = TRUE
      /\ built' = NoGraph /\ UNCHANGED <<accepted, cache>>
  BY DEF Publish, Stage, PersistRevision, Projected, Stands, StoreTypeOK
<1>2. StoreTypeOK /\ TablesStand /\ rows \in Tables
  BY DEF Stands, StoreTypeOK
<1>3. staged \in Graph /\ Accepts(staged)
      /\ {e \in staged.edges : e.type \in GovernedTypes(scopes')} = Runtime(pub')
  BY <1>1, <1>2, PublicationIs DEF Publishable
<1>. HIDE DEF staged
<1>4. rows' \in Tables /\ rows'.assets = staged.assets /\ rows'.rels = {Directed(e) : e \in staged.edges}
      /\ rows'.events = staged.events
  BY <1>1, <1>2, <1>3, SavedIs
<1>5. staged.edges \in SUBSET Edge
  BY <1>3 DEF Graph
<1>6. StoreTypeOK'
  BY <1>1, <1>2, <1>4, ProjectedIs DEF StoreTypeOK
<1>7. TablesStand'
  <2>1. UniqueKeys(rows'.rels)
    BY <1>3, <1>4, <1>5, DirectedIs DEF Accepts, UniqueKeys
  <2>2. \A r \in rows'.rels : r.src \in rows'.assets /\ r.tgt \in rows'.assets
    BY <1>3, <1>4, <1>5, DirectedIs DEF Accepts
  <2>3. \A e \in rows'.events : {e.about} \union e.related \subseteq rows'.assets
    BY <1>3, <1>4 DEF Accepts
  <2>. QED BY <1>1, <1>2, <2>1, <2>2, <2>3 DEF TablesStand
<1>8. PublicationStands'
  <2>1. \A p \in pub' : p = Expand(p.assertion) /\ Predicates[p.assertion] \in scopes'
    BY <1>1, <1>2, ProjectedIs
  <2>2. \A p, q \in pub' : p # q => RuntimeKeys(p) \intersect RuntimeKeys(q) = {}
    <3>1. ASSUME NEW p \in pub', NEW q \in pub', p # q
          PROVE  RuntimeKeys(p) \intersect RuntimeKeys(q) = {}
      <4>1. p = Expand(p.assertion) /\ q = Expand(q.assertion)
            /\ p.assertion \in Candidates(built) /\ q.assertion \in Candidates(built)
        BY <1>1, <1>2, ProjectedIs
      <4>2. p.assertion # q.assertion
        BY <3>1, <4>1
      <4>3. ~ FailsClosed(Candidates(built))
        BY <1>1 DEF Publishable
      <4>. HIDE DEF Stands
      <4>4. RuntimeKeys(Expand(p.assertion)) \intersect RuntimeKeys(Expand(q.assertion)) = {}
        BY <4>1, <4>2, <4>3 DEF FailsClosed
      <4>. QED BY <4>1, <4>4
    <3>. QED BY <3>1
  <2>3. \A r \in rows'.rels : ~ r.both
    BY <1>4, <1>5, DirectedIs
  <2>4. {Forward(r) : r \in {s \in rows'.rels : s.type \in GovernedTypes(scopes')}}
          = {e \in staged.edges : e.type \in GovernedTypes(scopes')}
    BY <1>4, <1>5, DirectedIs
  <2>5. {Forward(r) : r \in {s \in rows'.rels : s.type \in GovernedTypes(scopes')}} = Runtime(pub')
    BY <1>3, <2>4
  <2>. QED BY <2>1, <2>2, <2>3, <2>5 DEF PublicationStands
<1>. QED BY <1>6, <1>7, <1>8 DEF Stands

(* What a client of the repository writes by hand. *)
LEMMA HandsStand ==
    ASSUME Stands, NEW tables \in Tables, ByHand(tables), UniqueKeys(tables.rels),
           \A r \in tables.rels : r.src \in tables.assets /\ r.tgt \in tables.assets,
           \A e \in tables.events : {e.about} \union e.related \subseteq tables.assets
    PROVE  Stands'
<1>1. rows' = tables /\ untouched' = FALSE /\ UNCHANGED <<scopes, pub, accepted, cache, built>>
  BY DEF ByHand
<1>2. StoreTypeOK'
  BY <1>1 DEF Stands, StoreTypeOK
<1>3. TablesStand'
  BY <1>1 DEF Stands, TablesStand
<1>4. PublicationStands'
  BY <1>1 DEF Stands, PublicationStands
<1>. QED BY <1>2, <1>3, <1>4 DEF Stands

LEMMA TablesWith ==
    ASSUME NEW tables \in Tables, NEW new
    PROVE  /\ [tables EXCEPT !.rels = new]
                = [assets |-> tables.assets, rels |-> new, events |-> tables.events]
           /\ [tables EXCEPT !.events = new]
                = [assets |-> tables.assets, rels |-> tables.rels, events |-> new]
BY DEF Tables

LEMMA ClientsStand ==
    ASSUME Stands,
           \/ \E graph \in BootGraphs : SaveGraph(graph)
           \/ \E x \in Asset : UpsertAsset(x) \/ DeleteAsset(x)
           \/ \E r \in HandRow : UpsertRow(r) \/ DeleteRow(r)
           \/ \E e \in SyntheticEvents : UpsertEvent(e) \/ DeleteEvent(e)
    PROVE  Stands'
<1>1. /\ rows \in Tables /\ rows.assets \in SUBSET Asset /\ rows.rels \in SUBSET Row
      /\ rows.events \in SUBSET EventRow /\ UniqueKeys(rows.rels)
      /\ \A r \in rows.rels : r.src \in rows.assets /\ r.tgt \in rows.assets
      /\ \A e \in rows.events : {e.about} \union e.related \subseteq rows.assets
      /\ rows = [assets |-> rows.assets, rels |-> rows.rels, events |-> rows.events]
  BY DEF Stands, StoreTypeOK, TablesStand, Tables
<1>2. ASSUME NEW graph \in BootGraphs, SaveGraph(graph) PROVE Stands'
  <2>1. graph \in Graph
    BY LoadType, FallbackIsSound DEF BootGraphs, LoadPersisted, Stands
  <2>2. Accepts(graph) /\ ByHand(Saved(rows, graph))
    BY <1>2 DEF SaveGraph
  <2>. DEFINE saved == Saved(rows, graph)
  <2>3. saved \in Tables /\ saved.assets = graph.assets /\ saved.rels = {Directed(e) : e \in graph.edges}
        /\ saved.events = graph.events
    BY <1>1, <2>1, SavedIs
  <2>. HIDE DEF saved
  <2>4. graph.edges \in SUBSET Edge
    BY <2>1 DEF Graph
  <2>5. UniqueKeys(saved.rels)
    BY <2>2, <2>3, <2>4, DirectedIs DEF Accepts, UniqueKeys
  <2>6. \A r \in saved.rels : r.src \in saved.assets /\ r.tgt \in saved.assets
    BY <2>2, <2>3, <2>4, DirectedIs DEF Accepts
  <2>7. \A e \in saved.events : {e.about} \union e.related \subseteq saved.assets
    BY <2>2, <2>3 DEF Accepts
  <2>8. ByHand(saved)
    BY <2>2 DEF saved
  <2>. QED BY <2>3, <2>5, <2>6, <2>7, <2>8, HandsStand
<1>3. ASSUME NEW x \in Asset, UpsertAsset(x) PROVE Stands'
  <2>. DEFINE tables == [rows EXCEPT !.assets = @ \union {x}]
  <2>1. tables = [assets |-> rows.assets \union {x}, rels |-> rows.rels, events |-> rows.events]
    BY <1>1
  <2>2. ByHand(tables)
    BY <1>3 DEF UpsertAsset
  <2>. HIDE DEF tables
  <2>3. tables \in Tables /\ tables.assets = rows.assets \union {x} /\ tables.rels = rows.rels
        /\ tables.events = rows.events
    BY <1>1, <2>1 DEF Tables
  <2>. QED BY <1>1, <2>2, <2>3, HandsStand
<1>4. ASSUME NEW x \in Asset, DeleteAsset(x) PROVE Stands'
  <2>. DEFINE without(e) == [e EXCEPT !.related = @ \ {x}]
              tables == [assets |-> rows.assets \ {x},
                         rels |-> {r \in rows.rels : x \notin {r.src, r.tgt}},
                         events |-> {without(e) : e \in {f \in rows.events : f.about # x}}]
  <2>1. ByHand(tables)
    BY <1>4 DEF DeleteAsset
  <2>2. ASSUME NEW e \in rows.events
        PROVE  without(e) \in EventRow /\ without(e).about = e.about /\ without(e).related = e.related \ {x}
    BY <1>1 DEF EventRow
  <2>. HIDE DEF without
  <2>3. tables \in Tables
    BY <1>1, <2>2 DEF Tables
  <2>4. UniqueKeys(tables.rels)
    BY <1>1 DEF UniqueKeys
  <2>5. \A r \in tables.rels : r.src \in tables.assets /\ r.tgt \in tables.assets
    BY <1>1
  <2>6. ASSUME NEW e \in tables.events PROVE {e.about} \union e.related \subseteq tables.assets
    <3>1. PICK f \in rows.events : f.about # x /\ e = without(f)
      OBVIOUS
    <3>2. e.about = f.about /\ e.related = f.related \ {x} /\ {f.about} \union f.related \subseteq rows.assets
      BY <1>1, <2>2, <3>1
    <3>. QED BY <3>1, <3>2
  <2>. HIDE DEF tables
  <2>. QED BY <2>1, <2>3, <2>4, <2>5, <2>6, HandsStand
<1>5. ASSUME NEW r \in HandRow, UpsertRow(r) PROVE Stands'
  <2>. DEFINE rels == {s \in rows.rels : Key(s) # Key(r)} \union {r}
              tables == [rows EXCEPT !.rels = rels]
  <2>1. tables = [assets |-> rows.assets, rels |-> rels, events |-> rows.events]
    BY <1>1, TablesWith
  <2>2. ByHand(tables) /\ r.src \in rows.assets /\ r.tgt \in rows.assets
    BY <1>5 DEF UpsertRow
  <2>3. rels \in SUBSET Row /\ UniqueKeys(rels) /\ \A s \in rels : s.src \in rows.assets /\ s.tgt \in rows.assets
    BY <1>1, <2>2, HandRowAssumption DEF UniqueKeys
  <2>. HIDE DEF rels, tables
  <2>4. tables \in Tables /\ tables.assets = rows.assets /\ tables.rels = rels /\ tables.events = rows.events
    BY <1>1, <2>1, <2>3 DEF Tables
  <2>. QED BY <1>1, <2>2, <2>3, <2>4, HandsStand
<1>6. ASSUME NEW r \in HandRow, DeleteRow(r) PROVE Stands'
  <2>. DEFINE rels == rows.rels \ {r}
              tables == [rows EXCEPT !.rels = rels]
  <2>1. tables = [assets |-> rows.assets, rels |-> rels, events |-> rows.events]
    BY <1>1, TablesWith
  <2>2. ByHand(tables)
    BY <1>6 DEF DeleteRow
  <2>3. rels \in SUBSET Row /\ UniqueKeys(rels) /\ \A s \in rels : s.src \in rows.assets /\ s.tgt \in rows.assets
    BY <1>1 DEF UniqueKeys
  <2>. HIDE DEF rels, tables
  <2>4. tables \in Tables /\ tables.assets = rows.assets /\ tables.rels = rels /\ tables.events = rows.events
    BY <1>1, <2>1, <2>3 DEF Tables
  <2>. QED BY <1>1, <2>2, <2>3, <2>4, HandsStand
<1>7. ASSUME NEW e \in SyntheticEvents, UpsertEvent(e) \/ DeleteEvent(e) PROVE Stands'
  <2>. DEFINE events == IF UpsertEvent(e) THEN {f \in rows.events : f.id # e.id} \union {e}
                                          ELSE rows.events \ {e}
              tables == [rows EXCEPT !.events = events]
  <2>1. tables = [assets |-> rows.assets, rels |-> rows.rels, events |-> events]
    BY <1>1, TablesWith
  <2>2. ByHand(tables)
    <3>1. CASE UpsertEvent(e)
      BY <3>1 DEF UpsertEvent
    <3>2. CASE ~ UpsertEvent(e)
      BY <1>7, <3>2 DEF DeleteEvent
    <3>. QED BY <3>1, <3>2
  <2>3. UpsertEvent(e) => {e.about} \union e.related \subseteq rows.assets
    BY DEF UpsertEvent
  <2>4. e \in EventRow
    <3>1. About \in [Event -> Asset] /\ Related \in [Event -> SUBSET Asset]
      BY StoreAssumption
    <3>. QED BY <3>1 DEF SyntheticEvents, EventRow
  <2>5. events \in SUBSET EventRow /\ \A f \in events : {f.about} \union f.related \subseteq rows.assets
    <3>. HIDE DEF Stands
    <3>1. CASE UpsertEvent(e)
      BY <1>1, <2>3, <2>4, <3>1
    <3>2. CASE ~ UpsertEvent(e)
      BY <1>1, <3>2
    <3>. QED BY <3>1, <3>2
  <2>. HIDE DEF events, tables
  <2>6. tables \in Tables /\ tables.assets = rows.assets /\ tables.rels = rows.rels /\ tables.events = events
    BY <1>1, <2>1, <2>5 DEF Tables
  <2>. QED BY <1>1, <2>2, <2>5, <2>6, HandsStand
<1>. QED BY <1>2, <1>3, <1>4, <1>5, <1>6, <1>7

LEMMA NextStands ==
    ASSUME Stands, [Next]_vars
    PROVE  Stands'
<1>1. CASE UNCHANGED vars
  <2>1. UNCHANGED <<Stored, accepted, cache, built>>
    BY <1>1 DEF vars, Stored
  <2>2. /\ accepted \in SUBSET Assertion
        /\ built # NoGraph => built \in Graph /\ Sound(built)
        /\ cache # NoGraph => FromFile(cache) \in Graph /\ Sound(FromFile(cache))
    BY DEF Stands, StoreTypeOK, TablesStand
  <2>. QED BY <2>1, <2>2, QuietStands
<1>2. CASE Next
  BY <1>2, BuildsStand, PublishStands, ClientsStand DEF Next
<1>. QED BY <1>1, <1>2

-----------------------------------------------------------------------------
(* Whoever loads the tables, or starts without them, gets relationships and events about
   assets the graph has, and one relationship for a key. *)
LEMMA LoadHasNodes ==
    ASSUME Stands
    PROVE  EdgesHaveNodes
<1>. DEFINE graph == Load(rows)
<1>1. /\ rows.assets \in SUBSET Asset /\ rows.rels \in SUBSET Row /\ UniqueKeys(rows.rels)
      /\ \A r \in rows.rels : {r.src, r.tgt} \subseteq rows.assets
      /\ \A e \in rows.events : {e.about} \union e.related \subseteq rows.assets
  BY DEF Stands, StoreTypeOK, TablesStand, Tables
<1>2. graph.assets = rows.assets /\ graph.edges = LoadedEdges(rows.rels) /\ graph.events = rows.events
  BY DEF Load, LoadedAssets, LoadedEvents
<1>3. UniqueKeys(graph.edges) /\ \A e \in graph.edges : {e.src, e.tgt} \subseteq graph.assets
  BY <1>1, <1>2, LoadIsSound
<1>4. Participating(graph) = graph.assets
  BY <1>3 DEF Participating
<1>5. ASSUME NEW start \in Fallback
      PROVE  UniqueKeys(start.edges) /\ Participating(start) = start.assets
  BY <1>5, FallbackIsSound DEF Stands, Sound, Participating
<1>. QED BY <1>1, <1>2, <1>3, <1>4, <1>5 DEF EdgesHaveNodes

(* Every table, source and publication holds what it is supposed to, and whoever loads
   the tables gets a graph without loose ends. *)
THEOREM Invariance == Spec => []StoreInvariant
<1>1. Stands /\ [Next]_vars => Stands'
  BY NextStands
<1>2. Stands => StoreInvariant
  BY LoadHasNodes DEF StoreInvariant, Stands
<1>. QED BY <1>1, <1>2, InitStands, PTL DEF Spec

LEMMA StandsAlways == Spec => []Stands
<1>1. Stands /\ [Next]_vars => Stands'
  BY NextStands
<1>. QED BY <1>1, InitStands, PTL DEF Spec

(* No row gives way when it is loaded, and saving what was loaded changes nothing for the
   next reader. *)
THEOREM LoadingIsStable == Spec => []LoadIsStable
<1>1. Stands => LoadIsStable
  <2>. SUFFICES ASSUME Stands PROVE LoadIsStable
    OBVIOUS
  <2>1. rows \in Tables /\ rows.rels \in SUBSET Row /\ Load(rows) \in Graph
    BY LoadType DEF Stands, StoreTypeOK, Tables
  <2>2. \A r \in rows.rels : Forward(r) \in Load(rows).edges
    BY <2>1, RowsAreLoaded DEF Load
  <2>3. Load(Saved(rows, Load(rows))) = Load(rows)
    BY <2>1, SavedIs
  <2>. QED BY <2>2, <2>3 DEF LoadIsStable
<1>. QED BY <1>1, StandsAlways, PTL

-----------------------------------------------------------------------------
(* The index of a publication, and what is explained by it. *)

(* The bindings of a projection edge are as many as it has keys. *)
LEMMA IndexIs ==
    ASSUME NEW edges
    PROVE  /\ \A i \in Index(edges) : \E p \in edges :
                 /\ i.assertion = p.assertion /\ i.key \in RuntimeKeys(p)
                 /\ \/ /\ i = [key |-> Key(p), assertion |-> p.assertion, orientation |-> "canonical"]
                       /\ i.key = Key(p) /\ i.orientation = "canonical"
                    \/ /\ i = [key |-> ReverseKey(p), assertion |-> p.assertion, orientation |-> "reverse"]
                       /\ i.key = ReverseKey(p) /\ i.orientation = "reverse"
           /\ \A p \in edges : \A k \in RuntimeKeys(p) : \E i \in Index(edges) : i.key = k
<1>. DEFINE there(p) == [key |-> Key(p), assertion |-> p.assertion, orientation |-> "canonical"]
            back(p) == [key |-> ReverseKey(p), assertion |-> p.assertion, orientation |-> "reverse"]
<1>1. ASSUME NEW i \in Index(edges)
      PROVE  \E p \in edges :
                 /\ i.assertion = p.assertion /\ i.key \in RuntimeKeys(p)
                 /\ \/ i = there(p) /\ i.key = Key(p) /\ i.orientation = "canonical"
                    \/ i = back(p) /\ i.key = ReverseKey(p) /\ i.orientation = "reverse"
  <2>1. PICK p \in edges : i = there(p) \/ (p.direction = "bidirectional" /\ i = back(p))
    BY DEF Index, Bindings
  <2>2. CASE i = there(p)
    BY <2>2 DEF RuntimeKeys
  <2>3. CASE p.direction = "bidirectional" /\ i = back(p)
    BY <2>3 DEF RuntimeKeys
  <2>. QED BY <2>1, <2>2, <2>3
<1>2. ASSUME NEW p \in edges, NEW k \in RuntimeKeys(p)
      PROVE  \E i \in Index(edges) : i.key = k
  <2>1. CASE k = Key(p)
    <3>1. there(p) \in Index(edges)
      BY DEF Index, Bindings
    <3>. QED BY <2>1, <3>1
  <2>2. CASE k # Key(p)
    <3>1. k = ReverseKey(p) /\ p.direction = "bidirectional"
      BY <2>2 DEF RuntimeKeys
    <3>2. back(p) \in Index(edges)
      BY <3>1 DEF Index, Bindings
    <3>. QED BY <3>1, <3>2
  <2>. QED BY <2>1, <2>2
<1>. QED BY <1>1, <1>2

(* A key is bound once, by an edge that is the only one of its assertion. *)
LEMMA IndexIsUnique ==
    ASSUME Stands, NEW i \in Index(pub), NEW j \in Index(pub),
           \/ i.key = j.key
           \/ i.assertion = j.assertion /\ i.orientation = j.orientation
    PROVE  i = j
<1>1. /\ pub \in SUBSET ProjectionEdge
      /\ \A p \in pub : p = Expand(p.assertion) /\ p.assertion \in Assertion
      /\ \A p, q \in pub : p # q => RuntimeKeys(p) \intersect RuntimeKeys(q) = {}
  BY DEF Stands, StoreTypeOK, PublicationStands, ProjectionEdge
<1>2. PICK p \in pub :
        /\ i.assertion = p.assertion /\ i.key \in RuntimeKeys(p)
        /\ \/ /\ i = [key |-> Key(p), assertion |-> p.assertion, orientation |-> "canonical"]
              /\ i.key = Key(p) /\ i.orientation = "canonical"
           \/ /\ i = [key |-> ReverseKey(p), assertion |-> p.assertion, orientation |-> "reverse"]
              /\ i.key = ReverseKey(p) /\ i.orientation = "reverse"
  BY IndexIs
<1>3. PICK q \in pub :
        /\ j.assertion = q.assertion /\ j.key \in RuntimeKeys(q)
        /\ \/ /\ j = [key |-> Key(q), assertion |-> q.assertion, orientation |-> "canonical"]
              /\ j.key = Key(q) /\ j.orientation = "canonical"
           \/ /\ j = [key |-> ReverseKey(q), assertion |-> q.assertion, orientation |-> "reverse"]
              /\ j.key = ReverseKey(q) /\ j.orientation = "reverse"
  BY IndexIs
<1>4. p = q
  <2>1. CASE i.key = j.key
    BY <1>1, <1>2, <1>3, <2>1
  <2>2. CASE i.assertion = j.assertion
    BY <1>1, <1>2, <1>3, <2>2
  <2>. QED BY <2>1, <2>2
<1>5. Key(p) # ReverseKey(p)
  <2>1. p.src # p.tgt
    BY <1>1, ExpandIs
  <2>. QED BY <2>1, KeyIs
<1>. QED BY <1>2, <1>3, <1>4, <1>5

LEMMA EdgeIdIs ==
    ASSUME NEW e, NEW index
    PROVE  \/ \E i \in index : i.key = Key(e) /\ EdgeId(e, index) = <<"published", i.assertion, i.orientation>>
           \/ (\A i \in index : i.key # Key(e)) /\ EdgeId(e, index) = <<"legacy", Key(e)>>
<1>1. CASE \E i \in index : i.key = Key(e)
  <2>. DEFINE i == CHOOSE i \in index : i.key = Key(e)
  <2>1. i \in index /\ i.key = Key(e)
    BY <1>1
  <2>2. EdgeId(e, index) = <<"published", i.assertion, i.orientation>>
    BY <1>1 DEF EdgeId
  <2>. QED BY <2>1, <2>2
<1>2. CASE ~ \E i \in index : i.key = Key(e)
  BY <1>2 DEF EdgeId
<1>. QED BY <1>1, <1>2

(* The tables a publication has left. *)
LEMMA LoadOfPublication ==
    ASSUME Stands, untouched
    PROVE  LET edges == Load(rows).edges IN
           /\ {e \in edges : e.type \in GovernedTypes(scopes)} = Runtime(pub)
           /\ UniqueKeys(edges) /\ pub \in SUBSET ProjectionEdge
<1>1. /\ rows.rels \in SUBSET Row /\ UniqueKeys(rows.rels) /\ \A r \in rows.rels : ~ r.both
      /\ pub \in SUBSET ProjectionEdge
      /\ {Forward(r) : r \in {s \in rows.rels : s.type \in GovernedTypes(scopes)}} = Runtime(pub)
  BY DEF Stands, StoreTypeOK, TablesStand, PublicationStands, Tables
<1>2. Load(rows).edges = LoadedEdges(rows.rels) /\ LoadedEdges(rows.rels) = {Forward(r) : r \in rows.rels}
  BY <1>1, OneWayLoad DEF Load
<1>3. \A r \in rows.rels : Forward(r).type = r.type
  BY ForwardIs
<1>4. {e \in Load(rows).edges : e.type \in GovernedTypes(scopes)}
        = {Forward(r) : r \in {s \in rows.rels : s.type \in GovernedTypes(scopes)}}
  BY <1>2, <1>3
<1>5. UniqueKeys(Load(rows).edges)
  BY <1>1, <1>2, LoadIsSound
<1>. QED BY <1>1, <1>4, <1>5

LEMMA PublicationIsExplained ==
    ASSUME Stands
    PROVE  GovernedEdgesExplained
<1>. DEFINE edges == Load(rows).edges
            index == Index(pub)
            governed == {e \in edges : e.type \in GovernedTypes(scopes)}
<1>. SUFFICES ASSUME untouched
              PROVE  /\ IndexConsistent(pub, scopes)
                     /\ {Key(e) : e \in governed} = {i.key : i \in index}
                     /\ Runtime(pub) \subseteq edges
                     /\ \A e, f \in edges : EdgeId(e, index) = EdgeId(f, index) => e = f
                     /\ \A e \in governed : \E x \in Explanation(pub, EdgeId(e, index)) :
                           Key(e) \in x.keys /\ x.type = e.type /\ x.strength = e.strength
  BY DEF GovernedEdgesExplained
<1>1. governed = Runtime(pub) /\ UniqueKeys(edges) /\ pub \in SUBSET ProjectionEdge
  BY LoadOfPublication
<1>2. /\ \A p \in pub : p = Expand(p.assertion) /\ p.assertion \in Assertion
                        /\ Predicates[p.assertion] \in scopes
      /\ \A p, q \in pub : p # q => RuntimeKeys(p) \intersect RuntimeKeys(q) = {}
  BY DEF Stands, StoreTypeOK, PublicationStands, ProjectionEdge
<1>3. Runtime(pub) \subseteq edges
  BY <1>1
<1>. HIDE DEF edges, governed
<1>4. IndexConsistent(pub, scopes)
  <2>1. \A p \in pub : EdgeType[Predicates[p.assertion]] = p.type
    BY <1>2, ExpandIs
  <2>2. \A i, j \in Index(pub) : i.key = j.key => i = j
    BY IndexIsUnique
  <2>. QED BY <1>2, <2>1, <2>2 DEF IndexConsistent
<1>5. ASSUME NEW e \in governed
      PROVE  \E p \in pub, i \in index :
                /\ e.type = p.type /\ e.strength = p.strength /\ Key(e) \in RuntimeKeys(p)
                /\ i.key = Key(e) /\ i.assertion = p.assertion
                /\ EdgeId(e, index) = <<"published", p.assertion, i.orientation>>
  <2>1. PICK p \in pub : e.type = p.type /\ e.strength = p.strength /\ Key(e) \in RuntimeKeys(p)
    BY <1>1, RuntimeIs
  <2>2. PICK i \in index : i.key = Key(e)
    BY <2>1, IndexIs
  <2>3. PICK q \in pub : i.assertion = q.assertion /\ i.key \in RuntimeKeys(q)
    BY IndexIs
  <2>4. p = q
    BY <1>2, <2>1, <2>2, <2>3
  <2>5. PICK j \in index : j.key = Key(e) /\ EdgeId(e, index) = <<"published", j.assertion, j.orientation>>
    BY <2>2, EdgeIdIs
  <2>6. i = j
    BY <2>2, <2>5, IndexIsUnique
  <2>. QED BY <2>1, <2>2, <2>3, <2>4, <2>5, <2>6
<1>6. {Key(e) : e \in governed} = {i.key : i \in index}
  <2>1. ASSUME NEW e \in governed PROVE Key(e) \in {i.key : i \in index}
    <3>1. PICK i \in index : i.key = Key(e)
      BY <1>5
    <3>. QED BY <3>1
  <2>2. ASSUME NEW i \in index PROVE i.key \in {Key(e) : e \in governed}
    <3>1. PICK p \in pub : i.key \in RuntimeKeys(p)
      BY IndexIs
    <3>2. PICK e \in Runtime(pub) : Key(e) = i.key
      BY <1>1, <3>1, RuntimeIs
    <3>. QED BY <1>1, <3>2
  <2>. QED BY <2>1, <2>2
<1>7. ASSUME NEW e \in edges, NEW f \in edges, EdgeId(e, index) = EdgeId(f, index) PROVE e = f
  <2>1. Key(e) = Key(f)
    <3>1. CASE EdgeId(e, index) = <<"legacy", Key(e)>> /\ EdgeId(f, index) = <<"legacy", Key(f)>>
      <4>1. EdgeId(e, index)[2] = Key(e) /\ EdgeId(f, index)[2] = Key(f)
        <5>. HIDE DEF index
        <5>. QED BY <3>1
      <4>. QED BY <1>7, <4>1
    <3>2. CASE EdgeId(e, index) # <<"legacy", Key(e)>> /\ EdgeId(f, index) # <<"legacy", Key(f)>>
      <4>1. PICK i \in index :
              i.key = Key(e) /\ EdgeId(e, index) = <<"published", i.assertion, i.orientation>>
        BY <3>2, EdgeIdIs
      <4>2. PICK j \in index :
              j.key = Key(f) /\ EdgeId(f, index) = <<"published", j.assertion, j.orientation>>
        BY <3>2, EdgeIdIs
      <4>3. i.assertion = j.assertion /\ i.orientation = j.orientation
        <5>1. EdgeId(e, index)[2] = i.assertion /\ EdgeId(e, index)[3] = i.orientation
          BY <4>1
        <5>2. EdgeId(f, index)[2] = j.assertion /\ EdgeId(f, index)[3] = j.orientation
          BY <4>2
        <5>. QED BY <1>7, <5>1, <5>2
      <4>4. i = j
        BY <4>3, IndexIsUnique
      <4>. QED BY <4>1, <4>2, <4>4
    <3>3. CASE EdgeId(e, index) = <<"legacy", Key(e)>> /\ EdgeId(f, index) # <<"legacy", Key(f)>>
      <4>1. PICK j \in index : EdgeId(f, index) = <<"published", j.assertion, j.orientation>>
        BY <3>3, EdgeIdIs
      <4>2. EdgeId(e, index)[1] = "legacy" /\ EdgeId(f, index)[1] = "published"
        BY <3>3, <4>1
      <4>. QED BY <1>7, <4>2
    <3>4. CASE EdgeId(e, index) # <<"legacy", Key(e)>> /\ EdgeId(f, index) = <<"legacy", Key(f)>>
      <4>1. PICK j \in index : EdgeId(e, index) = <<"published", j.assertion, j.orientation>>
        BY <3>4, EdgeIdIs
      <4>2. EdgeId(f, index)[1] = "legacy" /\ EdgeId(e, index)[1] = "published"
        BY <3>4, <4>1
      <4>. QED BY <1>7, <4>2
    <3>. QED BY <3>1, <3>2, <3>3, <3>4
  <2>. QED BY <1>1, <2>1 DEF UniqueKeys
<1>8. ASSUME NEW e \in governed
      PROVE  \E x \in Explanation(pub, EdgeId(e, index)) :
                Key(e) \in x.keys /\ x.type = e.type /\ x.strength = e.strength
  <2>1. PICK p \in pub, i \in index :
          /\ e.type = p.type /\ e.strength = p.strength /\ Key(e) \in RuntimeKeys(p)
          /\ EdgeId(e, index) = <<"published", p.assertion, i.orientation>>
    BY <1>5
  <2>2. EdgeId(e, index)[2] = p.assertion
    BY <2>1
  <2>3. SingleEdge(pub, p.assertion) = {p}
    BY <1>2 DEF SingleEdge
  <2>4. PublishedEdge(pub, p.assertion) = {p}
    BY <2>3, FS_Singleton DEF PublishedEdge
  <2>5. [keys |-> RuntimeKeys(p), type |-> p.type, strength |-> p.strength]
           \in Explanation(pub, EdgeId(e, index))
    BY <2>2, <2>4 DEF Explanation
  <2>. QED BY <2>1, <2>5
<1>. QED BY <1>3, <1>4, <1>6, <1>7, <1>8

(* A process that loads what a publication has left can answer: its index is consistent,
   it serves of the types that predicates own what the index explains and nothing else, and
   the identity an edge is served with finds the explanation of that edge. *)
THEOREM PublicationsAreExplained == Spec => []GovernedEdgesExplained
<1>1. Stands => GovernedEdgesExplained
  BY PublicationIsExplained
<1>. QED BY <1>1, StandsAlways, PTL

(* What a predicate has owned once stays the projection's: no publication puts an edge of
   such a type back that the rules have found. *)
THEOREM GovernedStaysGoverned == Spec => LegacyStaysOut
<1>1. ASSUME Stands', Publish
      PROVE  \A r \in rows'.rels : r.type \in GovernedTypes(scopes) => Forward(r) \in Runtime(pub')
  <2>1. GovernedTypes(scopes) \subseteq GovernedTypes(scopes')
    BY <1>1 DEF Publish, PersistRevision, Scopes, GovernedTypes
  <2>2. {Forward(r) : r \in {s \in rows'.rels : s.type \in GovernedTypes(scopes')}} = Runtime(pub')
    BY <1>1 DEF Publish, Stands, PublicationStands
  <2>. QED BY <2>1, <2>2
<1>2. Stands' /\ [Next]_vars =>
        [Publish => \A r \in rows'.rels : r.type \in GovernedTypes(scopes) => Forward(r) \in Runtime(pub')]_vars
  BY <1>1
<1>. QED BY <1>2, StandsAlways, PTL DEF Spec, LegacyStaysOut

(* No outage of the provider empties the tables: what was fetched without assets has events
   about assets it lacks, and the foreign keys refuse it. *)
THEOREM OutagesAreRefused == Spec => NeverEmptied
<1>1. ASSUME Stands, Publish
      PROVE  rows'.assets # {}
  <2>1. rows \in Tables /\ built \in Graph /\ Sound(built)
    BY <1>1 DEF Stands, StoreTypeOK, TablesStand, Publish
  <2>2. Publication(built) \in Graph /\ Publication(built).assets = built.assets
        /\ Publication(built).events = built.events
    BY <1>1, <2>1, PublicationIs DEF Stands
  <2>3. rows'.assets = built.assets
    BY <1>1, <2>1, <2>2, SavedIs DEF Publish, Stage
  <2>4. \A e \in built.events : e.about \in built.assets
    BY <1>1, <2>2 DEF Publish, Publishable, Accepts
  <2>. QED BY <2>1, <2>3, <2>4 DEF Sound
<1>2. Stands /\ [Next]_vars => [Publish /\ rows.assets # {} => rows'.assets # {}]_vars
  BY <1>1
<1>. QED BY <1>2, StandsAlways, PTL DEF Spec, NeverEmptied

=============================================================================
