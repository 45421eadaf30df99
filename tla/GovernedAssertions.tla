--------------------------- MODULE GovernedAssertions ---------------------------
(***************************************************************************)
(* Governed assertions in PostgreSQL: the transactions of                  *)
(* RelationshipAssertionRepository (propose, transition,                   *)
(* supersede_atomic, register_evidence), which run READ COMMITTED in any   *)
(* number of processes, and the publication transaction of a rebuild,      *)
(* REPEATABLE READ, which projects the accepted assertions.                *)
(*                                                                         *)
(* One action is one statement, or the statements and the planning between *)
(* two waits for a lock.  What a transaction has written stays in its log  *)
(* until it commits; a refused request is rolled back and leaves nothing.  *)
(* Publications follow one another: each holds the rebuild lock row to its *)
(* end, which is the subject of RebuildCoordination.                       *)
(***************************************************************************)
EXTENDS AssertionLifecycle

CONSTANTS
    Assertion,        \* the assertion ids, numbered in their order
    Predicate,        \* Predicate[a]: the predicate of a
    Subject,          \* Subject[a]: the subject of a
    EdgeRank,         \* EdgeRank[a]: the place of the edge of a in a revision
    Actor,            \* the users
    Operator,         \* those of them who may review
    Writer,           \* the transactions that may be open at a time
    Seed,             \* the streams the database starts with
    Operation,        \* bound: what the clients ask for
    Published,        \* the publications the database starts with
    Documented,       \* the assertions there is a piece of evidence for
    Start,            \* the database clock to begin with
    EligibleSet,      \* which assertions a graph and an instant may leave eligible
    Lag,              \* how far a reading may be behind the latest database clock
    MaxNow,           \* bound: the database clock
    MaxTime,          \* datetime.max
    MaxEvents,        \* bound: no request for a stream this long
    MaxPublications   \* bound: publications, those included

ASSUME AssertionAssumption ==
    /\ Assertion \subseteq Nat \ {NoSuccessor}
    /\ Operator \subseteq Actor
    /\ Operation \subseteq {"propose", "decide", "register", "supersede"}
    /\ Start \in Nat /\ MaxNow \in Nat /\ Lag \in Nat /\ MaxTime \in Nat
    /\ MaxEvents \in Nat /\ MaxPublications \in Nat
    /\ EligibleSet \subseteq SUBSET Assertion

VARIABLES
    now,     \* the database clock
    events,  \* events[a]: the committed events of a, in sequence
    links,   \* links[a]: the committed evidence links of a
    pubs,    \* the committed publications, in order
    step,    \* step[w]: what transaction w does next
    req,     \* req[w]: the request it serves
    todo,    \* todo[w]: the rows it has still to lock
    rows,    \* rows[w]: the rows it has locked FOR UPDATE
    log,     \* log[w][a]: the events it has written
    link,    \* link[w]: the evidence links it has written
    pub      \* the publication transaction

vars == <<now, events, links, pubs, step, req, todo, rows, log, link, pub>>
store == <<events, links, pubs>>
writers == <<step, req, todo, rows, log, link>>

-----------------------------------------------------------------------------
EventType ==
    [from : LifecycleState \union {"None"}, to : LifecycleState, actor : Actor,
     at : Nat, succ : Assertion \union {NoSuccessor}, seen : Nat]

(* The database starts with whatever the code may have left in it, except that
   nothing is superseded yet. *)
ASSUME SeedAssumption ==
    /\ Seed \in [Assertion -> Seq(EventType)]
    /\ \A a \in Assertion :
        /\ Resolves(Seed[a])
        /\ \A i \in DOMAIN Seed[a] :
            Seed[a][i].seen = 0 /\ Seed[a][i].succ = NoSuccessor

PublicationType ==
    [known : Nat, edges : SUBSET Assertion,
     scopes : SUBSET {Predicate[a] : a \in Assertion}]

(* There may have been a publication, whose past is closed already. *)
ASSUME PublishedAssumption ==
    /\ Published \in Seq(PublicationType)
    /\ Len(Published) <= 1
    /\ \A n \in DOMAIN Published :
        /\ {Predicate[a] : a \in Published[n].edges} \subseteq Published[n].scopes
        /\ \A a, b \in Published[n].edges :
              a # b => Predicate[a] # Predicate[b] \/ Subject[a] # Subject[b]

Nothing == [a \in Assertion |-> <<>>]

Ask(op, on, new, by) == [op |-> op, on |-> on, new |-> new, by |-> by]

Nobody == ""

NoRequest == Ask("none", 0, 0, Nobody)

NoPublication == [step |-> "none", known |-> 0, edges |-> {}, scopes |-> {}, keys |-> {}]

Staged(known, edges, scopes, keys) ==
    [step |-> "staged", known |-> known, edges |-> edges, scopes |-> scopes,
     keys |-> keys]

(* Steps at which the row that a request creates has been inserted. *)
Inserted == {"accepting", "handing", "writing"}

Evidential == {"Proposed", "Accepted", "Disputed"}

Init ==
    /\ now = Start
    /\ events = Seed
    /\ links = [a \in Assertion |-> {}]
    /\ pubs = Published
    /\ step = [w \in Writer |-> "idle"]
    /\ req = [w \in Writer |-> NoRequest]
    /\ todo = [w \in Writer |-> {}]
    /\ rows = [w \in Writer |-> {}]
    /\ log = [w \in Writer |-> Nothing]
    /\ link = [w \in Writer |-> {}]
    /\ pub = NoPublication

-----------------------------------------------------------------------------
(* Timestamps. *)

(* A clock read before the floor is queried, or on a host that is behind. *)
Reading == {t \in 0..now : t + Lag >= now}

(* Mutant: nobody asks when the last publication was. *)
KnownIgnored == {}

(* When the publications that have committed were. *)
Known == {pubs[n].known : n \in DOMAIN pubs}

(* Mutant: the events of the stream are not asked for their times. *)
FloorWithoutStream(w, a) == {l.at : l \in links[a]} \union Known

(* What the next timestamp of a must exceed, as w sees it. *)
Floor(w, a) ==
    {events[a][i].at : i \in DOMAIN events[a]}
        \union {log[w][a][i].at : i \in DOMAIN log[w][a]}
        \union {l.at : l \in links[a]}
        \union Known

(* The clock when it is past every floor, else one microsecond after them. *)
Stamp(floor) ==
    {at \in 0..MaxTime :
        \E clock \in Reading :
            IF \A t \in floor : clock > t
            THEN at = clock
            ELSE at - 1 \in floor /\ \A t \in floor : at > t}

Event(from, to, actor, at, succ) ==
    [from |-> from, to |-> to, actor |-> actor, at |-> at, succ |-> succ,
     seen |-> Len(pubs)]

-----------------------------------------------------------------------------
(* Transactions. *)

(* Mutant: the locks of rows are held by the session, not the transaction. *)
FinishHolding(w) ==
    /\ step' = [step EXCEPT ![w] = "idle"]
    /\ req' = [req EXCEPT ![w] = NoRequest]
    /\ todo' = [todo EXCEPT ![w] = {}]
    /\ log' = [log EXCEPT ![w] = Nothing]
    /\ link' = [link EXCEPT ![w] = {}]
    /\ UNCHANGED rows

Finish(w) ==
    /\ step' = [step EXCEPT ![w] = "idle"]
    /\ req' = [req EXCEPT ![w] = NoRequest]
    /\ todo' = [todo EXCEPT ![w] = {}]
    /\ rows' = [rows EXCEPT ![w] = {}]
    /\ log' = [log EXCEPT ![w] = Nothing]
    /\ link' = [link EXCEPT ![w] = {}]

(* The request is refused once it has locks, and session_scope rolls back. *)
Refuse(w) == Finish(w) /\ UNCHANGED <<now, store, pub>>

(* What w writes next, after which it waits for a lock, plans again or commits. *)
Write(w, a, e, next) ==
    /\ step' = [step EXCEPT ![w] = next]
    /\ log' = [log EXCEPT ![w][a] = Append(@, e)]
    /\ UNCHANGED <<now, store, pub, link>>

RowFree(w, a) == a \notin pub.keys /\ \A v \in Writer \ {w} : a \notin rows[v]

(* A request for an assertion that has a row gets the row FOR UPDATE.  One
   that is refused then leaves nothing, and is no step. *)
LockOnly(w, op, a) ==
    /\ step[w] = "idle"
    /\ events[a] # <<>>
    /\ RowFree(w, a)
    /\ req' = [req EXCEPT ![w] = Ask(op, a, 0, Nobody)]
    /\ rows' = [rows EXCEPT ![w] = {a}]
    /\ UNCHANGED todo

Proposer(a) == events[a][1].actor

(* The matrix, the actors, and the sequence that the client has seen. *)
Stands(a, to, actor, expected) ==
    /\ <<StateOf(events[a]), to>> \in Matrix
    /\ ActorMayMove(to, actor, Proposer(a))
    /\ expected = Len(events[a])
    /\ Len(events[a]) < MaxEvents

(* transition; only an operator decides, but for a withdrawal. *)
Decide(w, a, to, actor, expected) ==
    /\ to \notin {"Proposed", "Superseded"}
    /\ to = "Withdrawn" \/ actor \in Operator
    /\ LockOnly(w, "decide", a)
    /\ Stands(a, to, actor, expected)
    /\ \E at \in Stamp(Floor(w, a)) :
          Write(w, a, Event(StateOf(events[a]), to, actor, at, NoSuccessor),
                "writing")

(* register_evidence; one piece of evidence for an assertion, linked once. *)
RegisterEvidence(w, a) ==
    /\ LockOnly(w, "register", a)
    /\ StateOf(events[a]) \in Evidential
    /\ a \in Documented
    /\ links[a] = {}
    /\ \E at \in Stamp(Floor(w, a)) :
          link' = [link EXCEPT ![w] = {[at |-> at, seen |-> Len(pubs)]}]
    /\ step' = [step EXCEPT ![w] = "writing"]
    /\ UNCHANGED <<now, store, pub, log>>

(* supersede_atomic takes the advisory lock of the supersession graph, and the
   list of its rows. *)
LockGraph(w, a) ==
    /\ step[w] = "idle"
    /\ events[a] # <<>>
    /\ \A v \in Writer \ {w} : req[v].op # "supersede"
    /\ step' = [step EXCEPT ![w] = "locking"]
    /\ req' = [req EXCEPT ![w] = Ask("supersede", a, 0, Nobody)]
    /\ todo' = [todo EXCEPT ![w] = {b \in Assertion : events[b] # <<>>}]
    /\ UNCHANGED <<now, store, pub, rows, log, link>>

(* SELECT FOR UPDATE of all of them, in the order of the ids. *)
LockRow(w) ==
    /\ \E a \in todo[w] :
        /\ \A b \in todo[w] : a <= b
        /\ RowFree(w, a)
        /\ todo' = [todo EXCEPT ![w] = @ \ {a}]
        /\ rows' = [rows EXCEPT ![w] = @ \union {a}]
    /\ UNCHANGED <<now, store, pub, step, req, log, link>>

(* propose, unless the id has a row: then the proposal is reused or refused,
   and nothing is written. *)
Propose(w, a, actor) ==
    /\ step[w] = "idle"
    /\ events[a] = <<>>
    /\ req' = [req EXCEPT ![w] = Ask("propose", 0, a, Nobody)]
    /\ \E at \in Stamp(Floor(w, a)) :
          Write(w, a, Event("None", "Proposed", actor, at, NoSuccessor), "inserting")
    /\ UNCHANGED <<todo, rows>>

(* The successor must be another assertion, and new. *)
MaySupersede(a, new, reviewer, expected) ==
    /\ Stands(a, "Superseded", reviewer, expected)
    /\ a # new
    /\ events[new] = <<>>

(* supersede_atomic, once it has the rows.  The successor is stamped after the tail
   of the predecessor. *)
PlanSuccessor(w, new, proposer, reviewer, expected) ==
    LET a == req[w].on
        floor == Floor(w, new) \union {events[a][Len(events[a])].at}
        stands == MaySupersede(a, new, reviewer, expected)
    IN
    /\ step[w] = "locking"
    /\ todo[w] = {}
    /\ \/ /\ stands
          /\ req' = [req EXCEPT ![w] = Ask("supersede", a, new, reviewer)]
          /\ \E at \in Stamp(floor) :
                Write(w, new, Event("None", "Proposed", proposer, at, NoSuccessor),
                      "inserting")
          /\ UNCHANGED <<todo, rows>>
       \/ /\ ~ stands \/ Stamp(floor) = {}
          /\ Refuse(w)

(* Mutant: the successor may be the proposal that won the race for its id. *)
InsertOrAdopt(w) ==
    /\ step[w] = "inserting"
    /\ \A v \in Writer \ {w} : step[v] \in Inserted => req[v].new # req[w].new
    /\ step' = [step EXCEPT ![w] =
                   IF req[w].op = "propose" THEN "writing" ELSE "accepting"]
    /\ UNCHANGED <<now, store, pub, req, todo, rows, log, link>>

(* The insert waits for a transaction that has inserted the same id.  When
   that one has committed the proposal is reused or refused. *)
InsertProposal(w) ==
    LET new == req[w].new IN
    /\ step[w] = "inserting"
    /\ \A v \in Writer \ {w} : step[v] \in Inserted => req[v].new # new
    /\ IF events[new] = <<>>
       THEN /\ step' = [step EXCEPT ![w] =
                           IF req[w].op = "propose" THEN "writing" ELSE "accepting"]
            /\ UNCHANGED <<now, store, pub, req, todo, rows, log, link>>
       ELSE Refuse(w)

AcceptSuccessor(w) ==
    LET new == req[w].new
        reviewer == req[w].by
        stands == ActorMayMove("Accepted", reviewer, log[w][new][1].actor)
    IN
    /\ step[w] = "accepting"
    /\ \/ /\ stands
          /\ \E at \in Stamp(Floor(w, new)) :
                Write(w, new, Event("Proposed", "Accepted", reviewer, at, NoSuccessor),
                      "handing")
          /\ UNCHANGED <<req, todo, rows>>
       \/ /\ ~ stands \/ Stamp(Floor(w, new)) = {}
          /\ Refuse(w)

(* Mutant: superseded on the timeline of the predecessor alone. *)
HandOverAtOnce(w) ==
    LET a == req[w].on IN
    /\ step[w] = "handing"
    /\ \E at \in Stamp(Floor(w, a)) :
          Write(w, a, Event(StateOf(events[a]), "Superseded", req[w].by, at, req[w].new),
                "writing")
    /\ UNCHANGED <<req, todo, rows>>

(* The predecessor is superseded strictly after the successor is accepted. *)
HandOver(w) ==
    LET a == req[w].on
        new == req[w].new
        floor == Floor(w, a) \union {log[w][new][2].at}
    IN
    /\ step[w] = "handing"
    /\ \/ /\ \E at \in Stamp(floor) :
                Write(w, a, Event(StateOf(events[a]), "Superseded", req[w].by, at, new),
                      "writing")
          /\ UNCHANGED <<req, todo, rows>>
       \/ Stamp(floor) = {} /\ Refuse(w)

Commit(w) ==
    /\ step[w] = "writing"
    /\ events' = [a \in Assertion |-> events[a] \o log[w][a]]
    /\ links' = [a \in Assertion |->
                    IF a = req[w].on THEN links[a] \union link[w] ELSE links[a]]
    /\ Finish(w)
    /\ UNCHANGED <<now, pubs, pub>>

(* A lost connection, a crash, a client that goes away. *)
Abort(w) == step[w] # "idle" /\ Refuse(w)

-----------------------------------------------------------------------------
(* The publication of a rebuild. *)

Accepted(eligible, known) ==
    {a \in eligible : StateOf(AsOf(events[a], known)) = "Accepted"}

ConflictKey(a) == <<Predicate[a], Subject[a]>>

Unambiguous(edges) ==
    \A a, b \in edges : ConflictKey(a) = ConflictKey(b) => a = b

(* latest_published_scopes *)
LastScopes == IF pubs = <<>> THEN {} ELSE pubs[Len(pubs)].scopes

(* Mutant: a publication governs the subjects of its edges. *)
ScopesBySubject(edges) ==
    {Subject[a] : a \in edges}
        \union LastScopes

(* What the last publication governed, and what emits edges now. *)
GovernedScopes(edges) ==
    {Predicate[a] : a \in edges}
        \union LastScopes

(* next_publication_time: the start of the transaction, or just after the last one. *)
PublicationTime(clock) ==
    IF Len(pubs) > 0 /\ pubs[Len(pubs)].known >= clock
    THEN pubs[Len(pubs)].known + 1 ELSE clock

(* All reads are of one snapshot.  A conflict fails the rebuild and leaves
   nothing. *)
StagePublication(eligible) ==
    /\ pub.step = "none"
    /\ Len(pubs) < MaxPublications
    /\ \E clock \in Reading :
        LET known == PublicationTime(clock)
            edges == Accepted(eligible, known)
        IN  /\ known <= MaxTime
            /\ Unambiguous(edges)
            /\ pub' = Staged(known, edges, GovernedScopes(edges), {})
    /\ UNCHANGED <<now, store, writers>>

(* The foreign key of an edge takes a share lock on the row of its assertion,
   in the order of the edges. *)
InsertEdge ==
    /\ pub.step = "staged"
    /\ \E a \in pub.edges \ pub.keys :
        /\ \A b \in pub.edges \ pub.keys : EdgeRank[a] <= EdgeRank[b]
        /\ \A w \in Writer : a \notin rows[w]
        /\ pub' = Staged(pub.known, pub.edges, pub.scopes, pub.keys \union {a})
    /\ UNCHANGED <<now, store, writers>>

CommitPublication ==
    /\ pub.step = "staged"
    /\ pub.keys = pub.edges
    /\ pubs' = Append(pubs, [known |-> pub.known, edges |-> pub.edges,
                             scopes |-> pub.scopes])
    /\ pub' = NoPublication
    /\ UNCHANGED <<now, events, links, writers>>

AbortPublication ==
    /\ pub.step # "none"
    /\ pub' = NoPublication
    /\ UNCHANGED <<now, store, writers>>

(* Transaction w and the publication each wait for a row of the other. *)
Deadlock(w) ==
    /\ pub.step = "staged"
    /\ \E a \in todo[w] \intersect pub.keys : \A b \in todo[w] : a <= b
    /\ \E a \in (pub.edges \ pub.keys) \intersect rows[w] :
          \A b \in pub.edges \ pub.keys : EdgeRank[a] <= EdgeRank[b]

(* PostgreSQL finds the cycle and fails one of the two. *)
BreakDeadlock ==
    \E w \in Writer :
        /\ Deadlock(w)
        /\ \/ Refuse(w)
           \/ pub' = NoPublication /\ UNCHANGED <<now, store, writers>>

Tick ==
    /\ now < MaxNow
    /\ now' = now + 1
    /\ UNCHANGED <<store, writers, pub>>

-----------------------------------------------------------------------------
Request(w) ==
    \E a \in Assertion :
        \/ "register" \in Operation /\ RegisterEvidence(w, a)
        \/ "supersede" \in Operation /\ LockGraph(w, a)
        \/ "propose" \in Operation /\ \E p \in Actor : Propose(w, a, p)
        \/ /\ "decide" \in Operation
           /\ \E to \in LifecycleState, p \in Actor, n \in 1..MaxEvents :
                 Decide(w, a, to, p, n)

Proceed(w) ==
    \/ LockRow(w)
    \/ \E new \in Assertion, p \in Actor, r \in Operator, n \in 1..MaxEvents :
          PlanSuccessor(w, new, p, r, n)
    \/ InsertProposal(w) \/ AcceptSuccessor(w) \/ HandOver(w)
    \/ Commit(w)

Publish == InsertEdge \/ CommitPublication

Next ==
    \/ \E w \in Writer : Request(w) \/ Proceed(w) \/ Abort(w)
    \/ \E eligible \in EligibleSet : StagePublication(eligible)
    \/ Publish \/ AbortPublication \/ BreakDeadlock
    \/ Tick

Spec == Init /\ [][Next]_vars

(* PostgreSQL queues those who wait for a lock, and breaks deadlocks. *)
Fairness ==
    /\ \A w \in Writer : SF_vars(Proceed(w))
    /\ SF_vars(Publish)
    /\ WF_vars(BreakDeadlock)

FairSpec == Spec /\ Fairness

-----------------------------------------------------------------------------
RequestType ==
    [op : {"none", "propose", "decide", "register", "supersede"},
     on : Assertion \union {0}, new : Assertion \union {0}, by : Actor \union {Nobody}]

LinkType == [at : Nat, seen : Nat]

Step ==
    {"idle", "locking", "inserting"} \union Inserted

(* Every variable holds a value of its kind. *)
TypeOK ==
    /\ now \in Nat
    /\ events \in [Assertion -> Seq(EventType)]
    /\ links \in [Assertion -> SUBSET LinkType]
    /\ pubs \in Seq(PublicationType)
    /\ step \in [Writer -> Step]
    /\ req \in [Writer -> RequestType]
    /\ todo \in [Writer -> SUBSET Assertion]
    /\ rows \in [Writer -> SUBSET Assertion]
    /\ log \in [Writer -> [Assertion -> Seq(EventType)]]
    /\ link \in [Writer -> SUBSET LinkType]
    /\ pub \in [step : {"none", "staged"}, known : Nat, edges : SUBSET Assertion,
                 scopes : SUBSET {Predicate[a] : a \in Assertion},
                 keys : SUBSET Assertion]

(* Every committed stream is one that resolve_state accepts, however the transactions
   that wrote it overlapped and whatever their clocks said: a single proposal at its
   start, then no gap, no step outside the matrix, no decision by its own proposer and
   no time that does not advance.  A stream that is not could never be read again. *)
StreamsResolve == \A a \in Assertion : Resolves(events[a])

Superseded(a) == StateOf(events[a]) = "Superseded"

Successor(a) == IF Superseded(a) THEN events[a][Len(events[a])].succ ELSE NoSuccessor

(* supersede_atomic leaves no instant without a determination: by the time a
   reader sees the predecessor superseded he sees the successor accepted, and
   the successor was proposed only after all that happened to the predecessor.
   So no chain of successors comes back to where it started. *)
HandoverHasNoGap ==
    \A a \in Assertion :
        Superseded(a) =>
            LET new == events[Successor(a)]
                n == Len(events[a])
            IN  /\ Len(new) >= 2
                /\ new[2].to = "Accepted"
                /\ events[a][n - 1].at < new[1].at
                /\ new[2].at < events[a][n].at

(* Whoever stamped after a publication had committed stamped past it: the view
   as of a known_at can change after its publication only through transactions
   that were under way when it committed. *)
PublishedPastIsClosed ==
    \A a \in Assertion :
        /\ \A i \in DOMAIN events[a] : \A n \in 1..events[a][i].seen :
              events[a][i].at > pubs[n].known
        /\ \A l \in links[a] : \A n \in 1..l.seen : l.at > pubs[n].known

(* A transaction that waits for a lock, or goes on to write, serves a request that
   names what it writes. *)
RequestNamesRows ==
    \A w \in Writer :
        /\ step[w] \in {"locking", "accepting", "handing"} => req[w].on \in Assertion
        /\ step[w] \in {"inserting", "accepting", "handing"} => req[w].new \in Assertion
        /\ step[w] \in {"accepting", "handing"} => req[w].by \in Actor
        /\ step[w] = "inserting" => req[w].op \in {"propose", "supersede"}
        /\ step[w] = "inserting" /\ req[w].op = "supersede" =>
              req[w].on \in Assertion /\ req[w].by \in Actor

(* What a supersession has written of its successor: by the time it hands over, a
   proposal and its acceptance. *)
LogOfSuccessor ==
    \A w \in Writer :
        /\ step[w] = "inserting" /\ req[w].op = "supersede" =>
              Len(log[w][req[w].new]) >= 1
        /\ step[w] = "accepting" => Len(log[w][req[w].new]) >= 1
        /\ step[w] = "handing" => Len(log[w][req[w].new]) >= 2

(* After every publication that had committed when it got its time. *)
AfterPublished(r) ==
    /\ r.seen <= Len(pubs)
    /\ \A n \in 1..r.seen : r.at > pubs[n].known

(* What makes PublishedPastIsClosed inductive: it holds of what is written and not
   yet committed as well, and nothing has seen a publication that does not exist. *)
TimesFollowPublications ==
    /\ \A a \in Assertion :
        /\ \A i \in DOMAIN events[a] : AfterPublished(events[a][i])
        /\ \A l \in links[a] : AfterPublished(l)
    /\ \A w \in Writer :
        /\ \A a \in Assertion : \A i \in DOMAIN log[w][a] : AfterPublished(log[w][a][i])
        /\ \A l \in link[w] : AfterPublished(l)

(* Nobody has a row or the key of a new row that another transaction has. *)
RowsExclusive == \A v, w \in Writer : v # w => rows[v] \intersect rows[w] = {}

KeysExclusive ==
    \A v, w \in Writer :
        v # w /\ step[v] \in Inserted /\ step[w] \in Inserted /\ req[v].new = req[w].new
        => req[v].new = 0

(* What a transaction has planned still stands, though it read events before others
   committed: its row is locked, its key is taken, its log is what it planned. *)
WroteOnly(w, as) == \A b \in Assertion \ as : log[w][b] = <<>>

LockingStands(w) ==
    /\ step[w] \in {"idle", "locking"} => WroteOnly(w, {})
    /\ step[w] = "idle" <=> req[w].op = "none"
    /\ step[w] = "idle" => rows[w] = {}
    /\ step[w] # "locking" => todo[w] = {}
    /\ step[w] = "locking" => /\ req[w].op = "supersede"
                              /\ req[w].on \in todo[w] \union rows[w]
                              /\ events[req[w].on] # <<>>

ProposalStands(w) ==
    req[w].op = "propose" =>
        /\ step[w] \in {"inserting", "writing"} /\ rows[w] = {}
        /\ req[w].new \in Assertion /\ WroteOnly(w, {req[w].new})
        /\ Len(log[w][req[w].new]) = 1 /\ log[w][req[w].new][1].to = "Proposed"

DecisionStands(w) ==
    req[w].op = "decide" =>
        LET a == req[w].on IN
        /\ step[w] = "writing" /\ a \in rows[w] /\ req[w].new = 0 /\ WroteOnly(w, {a})
        /\ Len(log[w][a]) = 1
        /\ <<StateOf(events[a]), log[w][a][1].to>> \in Matrix
        /\ log[w][a][1].to # "Superseded"

RegistrationStands(w) ==
    req[w].op = "register" => step[w] = "writing" /\ req[w].new = 0 /\ WroteOnly(w, {})

SupersessionStands(w) ==
    req[w].op = "supersede" /\ step[w] # "locking" =>
        LET a == req[w].on
            new == req[w].new IN
        /\ step[w] \in {"inserting", "accepting", "handing", "writing"}
        /\ a \in rows[w] /\ new \in Assertion /\ a # new /\ WroteOnly(w, {a, new})
        /\ <<StateOf(events[a]), "Superseded">> \in Matrix
        /\ Len(log[w][new]) = IF step[w] \in {"inserting", "accepting"} THEN 1 ELSE 2
        /\ events[a][Len(events[a])].at < log[w][new][1].at
        /\ step[w] \in {"handing", "writing"} => log[w][new][2].to = "Accepted"
        /\ step[w] # "writing" => log[w][a] = <<>>
        /\ step[w] = "writing" =>
              /\ Len(log[w][a]) = 1
              /\ log[w][a][1].to = "Superseded" /\ log[w][a][1].succ = new
              /\ log[w][new][2].at < log[w][a][1].at

PlanStands(w) ==
    /\ LockingStands(w) /\ ProposalStands(w) /\ DecisionStands(w)
    /\ RegistrationStands(w) /\ SupersessionStands(w)

(* The id of the row that a transaction has inserted is nobody else's. *)
KeyStands(w) ==
    step[w] \in Inserted /\ req[w].new # 0 => events[req[w].new] = <<>>

PlansStand ==
    /\ RowsExclusive /\ KeysExclusive
    /\ \A w \in Writer : PlanStands(w) /\ KeyStands(w)

(* The inductive invariant: the types, the requests, the logs, the times and the plans. *)
AssertionInvariant ==
    TypeOK /\ RequestNamesRows /\ LogOfSuccessor /\ TimesFollowPublications /\ PlansStand

(* The transactions together do what AssertionBook promises, one commit a step. *)
Book == INSTANCE AssertionBook WITH
            state <- [a \in Assertion |-> StateOf(events[a])],
            successor <- [a \in Assertion |-> Successor(a)]

ImplementsBook == Book!BookSpec

(* No request waits for ever: row locks, the advisory lock, the unique key of a
   new assertion and the share locks of a publication never block one another
   beyond what the database's deadlock detector resolves. *)
RequestsFinish ==
    /\ \A w \in Writer : (step[w] # "idle") ~> (step[w] = "idle")
    /\ (pub.step # "none") ~> (pub.step = "none")

=============================================================================
