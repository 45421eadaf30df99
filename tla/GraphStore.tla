------------------------------- MODULE GraphStore -------------------------------
(***************************************************************************)
(* What a rebuild persists and what a process loads: the source of a       *)
(* rebuild (cache file, market data, sample), the relationship rules, the  *)
(* overlay of the governed projection, the snapshot in the tables assets,  *)
(* asset_relationships and regulatory_events, and its way back.            *)
(*                                                                         *)
(* When a rebuild runs is the subject of RebuildCoordination, when a       *)
(* process takes a graph over that of RuntimeGraph, how assertions come to *)
(* be accepted that of GovernedAssertions: here a publication is one step, *)
(* and the subject is what is in it.                                       *)
(***************************************************************************)
EXTENDS FiniteSets, Integers

CONSTANTS
    Asset,        \* every asset id
    Security,     \* the equities and bonds the fetcher asks the provider for
    Contract,     \* the commodities and currencies
    SampleAsset,  \* the assets of the sample graph
    Rank,         \* the order of asset ids
    Sector,       \* sector of an asset, "Unknown" counts as none
    Issuer,       \* issuer_id of a bond, or NoIssuer
    NoIssuer,
    Event,        \* the regulatory events every live fetch adds
    About,        \* the asset of an event
    Related,      \* its related assets
    EventRank,    \* the order in which events are added
    Predicate,    \* the predicates of the contract bundle
    EdgeType,     \* the edge type of a predicate
    Direction,    \* "subject_to_object", "object_to_subject" or "bidirectional"
    ConflictKey,  \* the fields of its conflict key, besides the predicate
    Assertion,    \* the assertions that may be accepted
    Subject,
    Object,
    Predicates,   \* the predicate of an assertion
    Strength,     \* the strengths of relationships
    StrengthOf,   \* the strength of a rule, an event or a predicate
    HandRow,      \* rows that clients of the repository write by hand
    RealData,     \* use_real_data_fetcher
    GraphCache,   \* graph_cache_path names the cache file of the fetcher
    NoGraph

Symbol == Security \union Contract

Rule == {"same_sector", "corporate_link", "event_impact"}

Type == Rule \union {EdgeType[p] : p \in Predicate}

ASSUME StoreAssumption ==
    /\ Security \union Contract \subseteq Asset /\ SampleAsset \subseteq Asset
    /\ Rank \in [Asset -> Nat]
    /\ \A x, y \in Asset : Rank[x] = Rank[y] => x = y
    /\ Issuer \in [Asset -> Asset \union {NoIssuer}]
    /\ NoIssuer \notin Asset
    /\ About \in [Event -> Asset] /\ Related \in [Event -> SUBSET Asset]
    /\ EventRank \in [Event -> Nat]
    /\ \A x, y \in Event : EventRank[x] = EventRank[y] => x = y
    /\ Direction \in [Predicate -> {"subject_to_object", "object_to_subject", "bidirectional"}]
    /\ ConflictKey \in [Predicate -> SUBSET {"subject", "object"}]
    /\ Subject \in [Assertion -> Asset] /\ Object \in [Assertion -> Asset]
    /\ \A a \in Assertion : Subject[a] # Object[a]
    /\ Predicates \in [Assertion -> Predicate]
    /\ StrengthOf \in [Rule \union Event \union Predicate -> Strength]
    /\ Event # {} /\ SampleAsset # {}
    /\ RealData \in BOOLEAN /\ GraphCache \in BOOLEAN

VARIABLES
    rows,      \* the tables: assets, relationship rows, events
    scopes,    \* the governed scopes of the latest publication
    pub,       \* the projection edges of the latest publication
    untouched, \* the tables are as a publication has left them
    accepted,  \* the assertions accepted at present
    cache,     \* the cache file
    built      \* the graph a rebuild has built

vars == <<rows, scopes, pub, untouched, accepted, cache, built>>

Edge == [src : Asset, tgt : Asset, type : Type, strength : Strength]

Row == [src : Asset, tgt : Asset, type : Type, strength : Strength, both : BOOLEAN]

EventRow == [id : Event, about : Asset, related : SUBSET Asset]

Tables == [assets : SUBSET Asset, rels : SUBSET Row, events : SUBSET EventRow]

ASSUME HandRowAssumption == HandRow \subseteq Row

Graph == [assets : SUBSET Asset, edges : SUBSET Edge, events : SUBSET EventRow]

(* The identity of a relationship, in memory and under uq_relationship. *)
Key(e) == <<e.src, e.tgt, e.type>>

ReverseKey(e) == <<e.tgt, e.src, e.type>>

Keys(edges) == {Key(e) : e \in edges}

-----------------------------------------------------------------------------
(* AssetRelationshipGraph *)

MkEdge(x, y, type, strength) == [src |-> x, tgt |-> y, type |-> type, strength |-> strength]

SectorEdges(assets) ==
    LET SameSector(x, y) == x # y /\ Sector[x] = Sector[y] /\ Sector[x] # "Unknown"
    IN  UNION {{MkEdge(x, y, "same_sector", StrengthOf["same_sector"]) :
                   y \in {z \in assets : SameSector(x, z)}} : x \in assets}

(* Each pair is looked at once: of two bonds that name each other the first one counts. *)
IssuerEdges(assets) ==
    LET Names(x, y) == /\ x # y
                       /\ Issuer[x] = y
                       /\ ~(Issuer[y] = x /\ Rank[y] < Rank[x])
    IN  UNION {{MkEdge(x, y, "corporate_link", StrengthOf["corporate_link"]) :
                   y \in {z \in assets : Names(x, z)}} : x \in assets}

(* Both ends have to be in the graph; the first event between two assets counts. *)
EventEdges(assets, events) ==
    LET Links(e) == {<<e.about, y>> : y \in IF e.about \in assets THEN e.related \intersect assets
                                            ELSE {}}
        First(e, link) == \A f \in events : link \in Links(f) => EventRank[e.id] <= EventRank[f.id]
    IN  UNION {{MkEdge(link[1], link[2], "event_impact", StrengthOf[e.id]) :
                   link \in {l \in Links(e) : First(e, l)}} : e \in events}

Build(assets, events) ==
    [assets |-> assets, events |-> events,
     edges |-> SectorEdges(assets) \union IssuerEdges(assets) \union EventEdges(assets, events)]

SyntheticEvents == {[id |-> e, about |-> About[e], related |-> Related[e]] : e \in Event}

SampleGraph == Build(SampleAsset, {})

-----------------------------------------------------------------------------
(* relationship_projection *)

(* An assertion about an asset that the graph lacks is not projected. *)
Candidates(graph) ==
    {a \in accepted : Subject[a] \in graph.assets /\ Object[a] \in graph.assets}

Expand(a) ==
    LET p == Predicates[a]
        turned == Direction[p] = "object_to_subject"
    IN  [src |-> IF turned THEN Object[a] ELSE Subject[a],
         tgt |-> IF turned THEN Subject[a] ELSE Object[a],
         type |-> EdgeType[p], strength |-> StrengthOf[p],
         direction |-> Direction[p], assertion |-> a]

ProjectionEdge ==
    [src : Asset, tgt : Asset, type : Type, strength : Strength,
     direction : {"subject_to_object", "object_to_subject", "bidirectional"},
     assertion : Assertion]

RuntimeKeys(e) == {Key(e)} \union IF e.direction = "bidirectional" THEN {ReverseKey(e)} ELSE {}

SameConflictKey(a, b) ==
    /\ Predicates[a] = Predicates[b]
    /\ "subject" \in ConflictKey[Predicates[a]] => Subject[a] = Subject[b]
    /\ "object" \in ConflictKey[Predicates[a]] => Object[a] = Object[b]

(* Conflicting assertions and ambiguous runtime relationships end the rebuild. *)
FailsClosed(candidates) ==
    \E a, b \in candidates :
        /\ a # b
        /\ SameConflictKey(a, b) \/ RuntimeKeys(Expand(a)) \intersect RuntimeKeys(Expand(b)) # {}

(* Mutant of Scopes: the scopes of what is accepted now. *)
ScopesOfNow(candidates) == {Predicates[a] : a \in candidates}

(* Published scopes are carried forward for good. *)
Scopes(candidates) == scopes \union {Predicates[a] : a \in candidates}

GovernedTypes(owned) == {EdgeType[p] : p \in owned}

(* Both directions of a bidirectional projection edge are relationships. *)
Runtime(edges) ==
    {MkEdge(e.src, e.tgt, e.type, e.strength) : e \in edges}
    \union {MkEdge(e.tgt, e.src, e.type, e.strength) :
               e \in {f \in edges : f.direction = "bidirectional"}}

(* Mutant of Overlay: governed edges come on top. *)
OverlayAdds(edges, projected, owned) == edges \union Runtime(projected)

(* overlay_governed_relationships: what a scope owns is replaced. *)
Overlay(edges, projected, owned) ==
    {e \in edges : e.type \notin GovernedTypes(owned)} \union Runtime(projected)

-----------------------------------------------------------------------------
(* AssetGraphRepository: save_graph and load_graph *)

EmptyTables == [assets |-> {}, rels |-> {}, events |-> {}]

Directed(e) == [src |-> e.src, tgt |-> e.tgt, type |-> e.type, strength |-> e.strength,
                both |-> FALSE]

(* Rows about assets that are no longer there go first. *)
ReplaceAssets(tables, assets) ==
    [assets |-> assets,
     rels |-> {r \in tables.rels : {r.src, r.tgt} \subseteq assets},
     events |-> {[e EXCEPT !.related = @ \intersect assets] :
                    e \in {f \in tables.events : f.about \in assets}}]

ReplaceRelationships(tables, edges) == [tables EXCEPT !.rels = {Directed(e) : e \in edges}]

ReplaceEvents(tables, events) == [tables EXCEPT !.events = events]

Saved(tables, graph) ==
    ReplaceEvents(ReplaceRelationships(ReplaceAssets(tables, graph.assets), graph.edges),
                  graph.events)

UniqueKeys(edges) == \A e, f \in edges : Key(e) = Key(f) => e = f

(* Mutant of Accepts: events are stored without a look at their assets. *)
AcceptsAnyEvent(graph) ==
    /\ UniqueKeys(graph.edges)
    /\ \A e \in graph.edges : e.src \in graph.assets /\ e.tgt \in graph.assets

(* uq_relationship and the foreign keys to assets. *)
Accepts(graph) ==
    /\ UniqueKeys(graph.edges)
    /\ \A e \in graph.edges : e.src \in graph.assets /\ e.tgt \in graph.assets
    /\ \A e \in graph.events : e.about \in graph.assets /\ e.related \subseteq graph.assets

(* Mutant of Expands: every bidirectional row is expanded. *)
ExpandsAlways(r, rels) == r.both

(* A legacy row is expanded unless its reverse is a row of its own. *)
Expands(r, rels) == r.both /\ ReverseKey(r) \notin Keys(rels)

Forward(r) == MkEdge(r.src, r.tgt, r.type, r.strength)

Adds(r, rels) ==
    {Forward(r)} \union
    IF Expands(r, rels) THEN {MkEdge(r.tgt, r.src, r.type, r.strength)} ELSE {}

(* Rows come ordered by source, and the first relationship of a key stays. *)
LoadedEdges(rels) ==
    {e \in UNION {Adds(r, rels) : r \in rels} :
        \E r \in rels :
            /\ e \in Adds(r, rels)
            /\ \A s \in rels : Key(e) \in Keys(Adds(s, rels)) => Rank[r.src] <= Rank[s.src]}

LoadedAssets(tables) == tables.assets

LoadedEvents(tables) == tables.events

Load(tables) ==
    [assets |-> LoadedAssets(tables), edges |-> LoadedEdges(tables.rels),
     events |-> LoadedEvents(tables)]

-----------------------------------------------------------------------------
(* relationship_index, and what the visualisation answers from it *)

Bindings(p) ==
    LET Binding(key, orientation) ==
            [key |-> key, assertion |-> p.assertion, orientation |-> orientation]
    IN  {Binding(Key(p), "canonical")}
        \union IF p.direction = "bidirectional" THEN {Binding(ReverseKey(p), "reverse")} ELSE {}

Index(published) == UNION {Bindings(p) : p \in published}

(* Otherwise the endpoints answer 503. *)
IndexConsistent(published, owned) ==
    /\ \A p \in published :
          /\ Predicates[p.assertion] \in owned
          /\ EdgeType[Predicates[p.assertion]] = p.type
    /\ \A i, j \in Index(published) : i.key = j.key => i = j

(* edge_id: the binding of a governed edge, the key of any other. *)
EdgeId(e, index) ==
    IF \E i \in index : i.key = Key(e)
    THEN LET i == CHOOSE i \in index : i.key = Key(e) IN <<"published", i.assertion, i.orientation>>
    ELSE <<"legacy", Key(e)>>

(* get_published_edge and the explanation of a governed edge, by the id it was served with. *)
SingleEdge(published, id) == {p \in published : p.assertion = id}

PublishedEdge(published, id) ==
    IF Cardinality(SingleEdge(published, id)) = 1 THEN SingleEdge(published, id) ELSE {}

Explanation(published, id) ==
    {[keys |-> RuntimeKeys(p), type |-> p.type, strength |-> p.strength] :
        p \in PublishedEdge(published, id[2])}

(* The assets that the metrics count, where the visualisation counts those of the graph. *)
Participating(graph) == graph.assets \union UNION {{e.src, e.tgt} : e \in graph.edges}

-----------------------------------------------------------------------------
(* Where a rebuild takes its graph from: build_rebuild_graph, RealDataFetcher *)

Init ==
    /\ rows = EmptyTables
    /\ scopes = {} /\ pub = {} /\ untouched = FALSE
    /\ accepted = {}
    /\ cache = NoGraph
    /\ built = NoGraph

Stored == <<rows, scopes, pub, untouched>>

(* The provider's answer about a symbol; one without a finite price is skipped, and so
   is one whose request fails. *)
Answer == {"price", "nothing", "error"}

HasPrice(answer, x) == answer[x] = "price"

Securities(answer) == {x \in Security : HasPrice(answer, x)}

Contracts(answer) == {x \in Contract : HasPrice(answer, x)}

Fetched(answer) == Securities(answer) \union Contracts(answer)

(* The cache file keeps the edges once more from their targets, and nobody reads that. *)
ToFile(graph) ==
    [assets |-> graph.assets, events |-> graph.events, relationships |-> graph.edges,
     incoming |-> {MkEdge(e.tgt, e.src, e.type, e.strength) : e \in graph.edges}]

FromFile(file) ==
    [assets |-> file.assets, events |-> file.events, edges |-> file.relationships]

ReadCache ==
    /\ built = NoGraph
    /\ GraphCache /\ cache # NoGraph
    /\ built' = FromFile(cache)
    /\ UNCHANGED <<Stored, accepted, cache>>

(* _try_live_fetch, outside of a rebuild *)
LiveGraph(answer) == Build(Fetched(answer), SyntheticEvents)

(* RebuildExecutor: the assets that a checkpoint names are added like the others, and
   what a cancellation interrupts is dropped (Abort). *)
RunRebuild(assets, events) == Build(assets, events)

(* The file is replaced at once or stays what it was. *)
CacheAfter(graph) == {cache, ToFile(graph)}

(* What was fetched is cached before it is persisted; a failure to write the file is only
   logged.  With a cache file in the way this happens when the file cannot be read. *)
FetchLive(answer) ==
    /\ built = NoGraph
    /\ RealData
    /\ built' = RunRebuild(Fetched(answer), SyntheticEvents)
    /\ cache' \in CacheAfter(built')
    /\ UNCHANGED <<Stored, accepted>>

(* Without a provider, or when neither the cache file nor the provider can be read. *)
UseSample ==
    /\ built = NoGraph
    /\ RealData => GraphCache /\ cache # NoGraph
    /\ built' = SampleGraph
    /\ UNCHANGED <<Stored, accepted, cache>>

-----------------------------------------------------------------------------
(* _prepare_projection_publication, stage_graph_snapshot and the commit *)

Projected(graph) == {Expand(a) : a \in Candidates(graph)}

Publication(graph) ==
    [graph EXCEPT !.edges = Overlay(@, Projected(graph), Scopes(Candidates(graph)))]

Publishable(graph) == ~FailsClosed(Candidates(graph)) /\ Accepts(Publication(graph))

Stage(graph) == rows' = Saved(rows, graph)

PersistRevision(candidates) ==
    /\ scopes' = Scopes(candidates)
    /\ pub' = {Expand(a) : a \in candidates}

Publish ==
    /\ built # NoGraph
    /\ Publishable(built)
    /\ Stage(Publication(built))
    /\ PersistRevision(Candidates(built))
    /\ untouched' = TRUE
    /\ built' = NoGraph
    /\ UNCHANGED <<accepted, cache>>

(* A conflict, a violated constraint, a lost lease, a cancellation: nothing is kept. *)
Abort ==
    /\ built # NoGraph
    /\ built' = NoGraph
    /\ UNCHANGED <<Stored, accepted, cache>>

Accept(a) ==
    /\ a \notin accepted
    /\ accepted' = accepted \union {a}
    /\ UNCHANGED <<Stored, cache, built>>

Retract(a) ==
    /\ a \in accepted
    /\ accepted' = accepted \ {a}
    /\ UNCHANGED <<Stored, cache, built>>

-----------------------------------------------------------------------------
(* What a process starts with: graph_lifecycle *)

LiveGraphs == {LiveGraph(answer) : answer \in [Symbol -> Answer]}

HasPersisted == rows.assets # {}

(* Any failure to read the tables ends the start. *)
LoadPersisted == {Load(rows)}

FromCachePath == IF cache # NoGraph THEN {FromFile(cache)} ELSE {}

FromFetcher == FromCachePath \union LiveGraphs

(* Without stored assets; each source may fail, and then the sample is served. *)
Fallback ==
    {SampleGraph}
    \union (IF GraphCache THEN FromCachePath ELSE {})
    \union (IF RealData THEN FromFetcher ELSE {})

BootGraphs == IF HasPersisted THEN LoadPersisted ELSE Fallback

(* The fallback leaves the tables empty; what it fetched goes to the cache file. *)
Boot(graph) ==
    /\ ~HasPersisted
    /\ RealData /\ graph \in LiveGraphs
    /\ cache' \in CacheAfter(graph)
    /\ UNCHANGED <<Stored, accepted, built>>

-----------------------------------------------------------------------------
(* Single rows and whole graphs, for clients of the repository *)

ByHand(tables) ==
    /\ rows' = tables
    /\ untouched' = FALSE
    /\ UNCHANGED <<scopes, pub, accepted, cache, built>>

(* save_graph_to_persistence, of a graph that a process has started with. *)
SaveGraph(graph) ==
    /\ graph \in BootGraphs
    /\ Accepts(graph)
    /\ ByHand(Saved(rows, graph))

UpsertAsset(x) ==
    /\ x \notin rows.assets
    /\ ByHand([rows EXCEPT !.assets = @ \union {x}])

(* Mutant of DeleteAsset: the lists of related assets keep it. *)
DeleteAssetOnly(x) ==
    /\ x \in rows.assets
    /\ ByHand([assets |-> rows.assets \ {x},
               rels |-> {r \in rows.rels : x \notin {r.src, r.tgt}},
               events |-> {f \in rows.events : f.about # x}])

(* The ORM and the foreign keys cascade. *)
DeleteAsset(x) ==
    /\ x \in rows.assets
    /\ ByHand([assets |-> rows.assets \ {x},
               rels |-> {r \in rows.rels : x \notin {r.src, r.tgt}},
               events |-> {[e EXCEPT !.related = @ \ {x}] :
                              e \in {f \in rows.events : f.about # x}}])

UpsertRow(r) ==
    /\ {r.src, r.tgt} \subseteq rows.assets
    /\ r \notin rows.rels
    /\ ByHand([rows EXCEPT !.rels = {s \in @ : Key(s) # Key(r)} \union {r}])

DeleteRow(r) ==
    /\ r \in rows.rels
    /\ ByHand([rows EXCEPT !.rels = @ \ {r}])

UpsertEvent(e) ==
    /\ {e.about} \union e.related \subseteq rows.assets
    /\ e \notin rows.events
    /\ ByHand([rows EXCEPT !.events = {f \in @ : f.id # e.id} \union {e}])

DeleteEvent(e) ==
    /\ e \in rows.events
    /\ ByHand([rows EXCEPT !.events = @ \ {e}])

Next ==
    \/ ReadCache \/ UseSample \/ Publish \/ Abort
    \/ \E answer \in [Symbol -> Answer] : FetchLive(answer)
    \/ \E graph \in LiveGraphs : Boot(graph)
    \/ \E graph \in BootGraphs : SaveGraph(graph)
    \/ \E a \in Assertion : Accept(a) \/ Retract(a)
    \/ \E x \in Asset : UpsertAsset(x) \/ DeleteAsset(x)
    \/ \E r \in HandRow : UpsertRow(r) \/ DeleteRow(r)
    \/ \E e \in SyntheticEvents : UpsertEvent(e) \/ DeleteEvent(e)

Spec == Init /\ [][Next]_vars

-----------------------------------------------------------------------------
(* Properties *)

StoreTypeOK ==
    /\ rows \in Tables
    /\ scopes \subseteq Predicate /\ pub \subseteq ProjectionEdge
    /\ untouched \in BOOLEAN
    /\ accepted \subseteq Assertion
    /\ cache # NoGraph => FromFile(cache) \in Graph
    /\ built \in Graph \union {NoGraph}

(* Whoever loads the tables gets a graph whose relationships and events are about assets
   it has: visualisation and explanations look both ends up without a check, and metrics
   and visualisation count the same assets.  A graph from another source, which a process
   serves while the tables are empty, has such relationships, too. *)
EdgesHaveNodes ==
    LET graph == Load(rows)
    IN  /\ UniqueKeys(graph.edges)
        /\ Participating(graph) = graph.assets
        /\ \A e \in graph.events : {e.about} \union e.related \subseteq graph.assets
        /\ ~HasPersisted => \A start \in Fallback :
                                UniqueKeys(start.edges) /\ Participating(start) = start.assets

(* What the rules and the fetcher build: one relationship for a key, between assets of the
   graph, and never nothing at all. *)
Sound(graph) ==
    /\ UniqueKeys(graph.edges)
    /\ \A e \in graph.edges : e.src \in graph.assets /\ e.tgt \in graph.assets
    /\ graph.assets # {} \/ graph.events # {}

TablesStand ==
    /\ UniqueKeys(rows.rels)
    /\ \A r \in rows.rels : r.src \in rows.assets /\ r.tgt \in rows.assets
    /\ \A e \in rows.events : {e.about} \union e.related \subseteq rows.assets
    /\ cache # NoGraph => Sound(FromFile(cache))
    /\ built # NoGraph => Sound(built)

(* The latest publication, and the tables as it has left them. *)
PublicationStands ==
    /\ \A p \in pub : p = Expand(p.assertion) /\ Predicates[p.assertion] \in scopes
    /\ \A p, q \in pub : p # q => RuntimeKeys(p) \intersect RuntimeKeys(q) = {}
    /\ untouched =>
          /\ \A r \in rows.rels : ~r.both
          /\ {Forward(r) : r \in {s \in rows.rels : s.type \in GovernedTypes(scopes)}} = Runtime(pub)

(* The inductive invariant, and what it says of a load. *)
StoreInvariant == StoreTypeOK /\ TablesStand /\ PublicationStands /\ EdgesHaveNodes

(* A row of its own keeps its strength, next to whatever legacy row points the other
   way, and saving what was loaded changes nothing for the next reader. *)
LoadIsStable ==
    LET graph == Load(rows)
    IN  /\ \A r \in rows.rels : Forward(r) \in graph.edges
        /\ Load(Saved(rows, graph)) = graph

(* A process that loads a publication can answer: its index is consistent, it serves of the
   edge types that predicates own what the index explains and nothing else, no two edges
   have the same id, and the explanation asked for by it is about that edge. *)
GovernedEdgesExplained ==
    LET edges == Load(rows).edges
        index == Index(pub)
    IN  untouched =>
          /\ IndexConsistent(pub, scopes)
          /\ {Key(e) : e \in {f \in edges : f.type \in GovernedTypes(scopes)}}
               = {i.key : i \in index}
          /\ Runtime(pub) \subseteq edges
          /\ \A e, f \in edges : EdgeId(e, index) = EdgeId(f, index) => e = f
          /\ \A e \in {f \in edges : f.type \in GovernedTypes(scopes)} :
                \E x \in Explanation(pub, EdgeId(e, index)) :
                    Key(e) \in x.keys /\ x.type = e.type /\ x.strength = e.strength

(* What a predicate has owned once stays the projection's: however assertions come and
   go, no publication puts an edge of such a type back that the rules have found. *)
LegacyStaysOut ==
    [][Publish => \A r \in rows'.rels :
                      r.type \in GovernedTypes(scopes) => Forward(r) \in Runtime(pub')]_vars

(* No outage of the provider empties the tables: a graph without assets is not accepted,
   because its synthetic events are about assets. *)
NeverEmptied == [][Publish /\ rows.assets # {} => rows'.assets # {}]_vars

=============================================================================
