------------------------ MODULE GovernedAssertions_proofs ------------------------
(***************************************************************************)
(* What the transactions on governed assertions guarantee for any number   *)
(* of assertions, users and transactions, whatever the clocks say: every   *)
(* value is of its kind, the past of a publication is closed to all who    *)
(* get their time after it has committed, a supersession hands over        *)
(* without a gap, and the transactions implement the book of AssertionBook.*)
(***************************************************************************)
EXTENDS GovernedAssertions, SequenceTheorems, TLAPS

(* The state of a stream is one of the life cycle. *)
LEMMA StateOfType ==
    ASSUME NEW s \in Seq(EventType)
    PROVE  StateOf(s) \in LifecycleState \union {"None"}
<1>1. CASE s = <<>>
  BY <1>1 DEF StateOf
<1>2. CASE s # <<>>
  <2>1. s[Len(s)] \in EventType
    BY <1>2
  <2>. QED BY <1>2, <2>1 DEF StateOf, EventType
<1>. QED BY <1>1, <1>2

(* The entries of streams and of the list of publications. *)
LEMMA EventTimes ==
    ASSUME NEW s \in Seq(EventType), NEW i \in 1..Len(s)
    PROVE  s[i].at \in Nat /\ s[i].seen \in Nat
<1>1. s[i] \in EventType
  OBVIOUS
<1>. QED BY <1>1 DEF EventType

LEMMA PublicationTimes ==
    ASSUME TypeOK, NEW n \in 1..Len(pubs)
    PROVE  pubs[n].known \in Nat
<1>1. pubs[n] \in PublicationType
  BY DEF TypeOK
<1>. QED BY <1>1 DEF PublicationType

LEMMA ConcatEntries ==
    ASSUME NEW s \in Seq(EventType), NEW t \in Seq(EventType), NEW i \in DOMAIN (s \o t)
    PROVE  \/ i \in DOMAIN s /\ (s \o t)[i] = s[i]
           \/ \E j \in DOMAIN t : (s \o t)[i] = t[j]
<1>1. /\ Len(s) \in Nat /\ Len(t) \in Nat /\ i \in 1..(Len(s) + Len(t))
      /\ DOMAIN s = 1..Len(s) /\ DOMAIN t = 1..Len(t)
  BY ConcatProperties, LenProperties
<1>2. (s \o t)[i] = IF i <= Len(s) THEN s[i] ELSE t[i - Len(s)]
  BY <1>1, ConcatProperties
<1>3. CASE i <= Len(s)
  BY <1>1, <1>2, <1>3
<1>4. CASE ~ (i <= Len(s))
  <2>1. i - Len(s) \in DOMAIN t
    BY <1>1, <1>4
  <2>. QED BY <1>2, <1>4, <2>1
<1>. QED BY <1>3, <1>4

(* A time is a number, and comes after all that is in the floor. *)
LEMMA StampAfter ==
    ASSUME now \in Nat, NEW floor \in SUBSET Nat, NEW at \in Stamp(floor)
    PROVE  at \in Nat /\ \A t \in floor : at > t
<1>1. MaxTime \in Nat
  BY AssertionAssumption
<1>2. PICK clock \in Reading :
        IF \A t \in floor : clock > t
        THEN at = clock
        ELSE at - 1 \in floor /\ \A t \in floor : at > t
  BY DEF Stamp
<1>. QED BY <1>1, <1>2 DEF Stamp

LEMMA EventHasType ==
    ASSUME TypeOK, NEW from \in LifecycleState \union {"None"}, NEW to \in LifecycleState,
           NEW actor \in Actor, NEW at \in Nat, NEW succ \in Assertion \union {NoSuccessor}
    PROVE  Event(from, to, actor, at, succ) \in EventType
BY DEF TypeOK, Event, EventType

(* What a transaction leaves when it is over. *)
LEMMA FinishTypes ==
    ASSUME TypeOK, NEW w \in Writer, Finish(w)
    PROVE  /\ step' \in [Writer -> Step]
           /\ req' \in [Writer -> RequestType]
           /\ todo' \in [Writer -> SUBSET Assertion]
           /\ rows' \in [Writer -> SUBSET Assertion]
           /\ log' \in [Writer -> [Assertion -> Seq(EventType)]]
           /\ link' \in [Writer -> SUBSET LinkType]
<1>1. NoRequest \in RequestType
  BY DEF NoRequest, Ask, RequestType
<1>2. Nothing \in [Assertion -> Seq(EventType)]
  BY DEF Nothing
<1>. QED BY <1>1, <1>2 DEF TypeOK, Finish, Step

LEMMA RefuseTypeOK ==
    ASSUME TypeOK, NEW w \in Writer, Refuse(w)
    PROVE  TypeOK'
BY FinishTypes DEF Refuse, TypeOK, store

(* The log and the position after a write. *)
LEMMA WriteTypes ==
    ASSUME TypeOK, NEW w \in Writer, NEW a \in Assertion, NEW e \in EventType,
           NEW next \in Step, Write(w, a, e, next)
    PROVE  /\ step' \in [Writer -> Step]
           /\ log' \in [Writer -> [Assertion -> Seq(EventType)]]
           /\ UNCHANGED <<now, events, links, pubs, pub, link>>
<1>1. Append(log[w][a], e) \in Seq(EventType)
  BY DEF TypeOK
<1>. QED BY <1>1 DEF TypeOK, Write, store

(* Every floor is a set of times and holds those of the publications. *)
LEMMA FloorTimes ==
    ASSUME TypeOK, NEW w \in Writer, NEW a \in Assertion
    PROVE  /\ Floor(w, a) \in SUBSET Nat
           /\ \A n \in 1..Len(pubs) : pubs[n].known \in Floor(w, a)
<1>1. {events[a][i].at : i \in DOMAIN events[a]} \in SUBSET Nat
  <2>1. events[a] \in Seq(EventType)
    BY DEF TypeOK
  <2>. QED BY <2>1, EventTimes
<1>2. {log[w][a][i].at : i \in DOMAIN log[w][a]} \in SUBSET Nat
  <2>1. log[w][a] \in Seq(EventType)
    BY DEF TypeOK
  <2>. QED BY <2>1, EventTimes
<1>3. {l.at : l \in links[a]} \in SUBSET Nat
  BY DEF TypeOK, LinkType
<1>4. Known \in SUBSET Nat
  BY PublicationTimes DEF TypeOK, Known
<1>5. \A n \in 1..Len(pubs) : pubs[n].known \in Known
  BY DEF TypeOK, Known
<1>. QED BY <1>1, <1>2, <1>3, <1>4, <1>5 DEF Floor

-----------------------------------------------------------------------------
(* Type correctness: the initial state, requests, what follows them, the
   publication. *)

LEMMA InitTypeOK == Init => TypeOK
<1>. SUFFICES ASSUME Init PROVE TypeOK
  OBVIOUS
<1>1. NoRequest \in RequestType /\ Nothing \in [Assertion -> Seq(EventType)]
  BY DEF NoRequest, Ask, RequestType, Nothing
<1>2. events \in [Assertion -> Seq(EventType)]
  BY SeedAssumption DEF Init
<1>3. pubs \in Seq(PublicationType)
  BY PublishedAssumption DEF Init
<1>. QED BY AssertionAssumption, <1>1, <1>2, <1>3 DEF Init, TypeOK, Step, NoPublication

LEMMA DecideTypeOK ==
    ASSUME TypeOK, NEW w \in Writer, NEW a \in Assertion, NEW to \in LifecycleState,
           NEW actor \in Actor, NEW n, Decide(w, a, to, actor, n)
    PROVE  TypeOK'
<1>1. PICK at \in Stamp(Floor(w, a)) :
        Write(w, a, Event(StateOf(events[a]), to, actor, at, NoSuccessor), "writing")
  BY DEF Decide
<1>2. at \in Nat /\ StateOf(events[a]) \in LifecycleState \union {"None"}
  BY FloorTimes, StampAfter, StateOfType DEF TypeOK
<1>3. Event(StateOf(events[a]), to, actor, at, NoSuccessor) \in EventType
  BY <1>2, EventHasType
<1>4. req' \in [Writer -> RequestType] /\ rows' \in [Writer -> SUBSET Assertion]
      /\ UNCHANGED todo
  BY DEF TypeOK, Decide, LockOnly, Ask, RequestType
<1>. QED BY <1>1, <1>3, <1>4, WriteTypes DEF TypeOK, Step, Inserted

LEMMA RegisterTypeOK ==
    ASSUME TypeOK, NEW w \in Writer, NEW a \in Assertion, RegisterEvidence(w, a)
    PROVE  TypeOK'
<1>1. PICK at \in Stamp(Floor(w, a)) :
        link' = [link EXCEPT ![w] = {[at |-> at, seen |-> Len(pubs)]}]
  BY DEF RegisterEvidence
<1>2. at \in Nat
  BY FloorTimes, StampAfter DEF TypeOK
<1>3. link' \in [Writer -> SUBSET LinkType]
  BY <1>1, <1>2 DEF TypeOK, LinkType
<1>4. req' \in [Writer -> RequestType] /\ rows' \in [Writer -> SUBSET Assertion]
  BY DEF TypeOK, RegisterEvidence, LockOnly, Ask, RequestType
<1>. QED BY <1>3, <1>4 DEF TypeOK, RegisterEvidence, LockOnly, store, Step, Inserted

LEMMA LockTypeOK ==
    ASSUME TypeOK, NEW w \in Writer, LockRow(w) \/ \E a \in Assertion : LockGraph(w, a)
    PROVE  TypeOK'
<1>1. CASE LockRow(w)
  BY <1>1 DEF LockRow, TypeOK, store
<1>2. CASE \E a \in Assertion : LockGraph(w, a)
  <2>1. PICK a \in Assertion : LockGraph(w, a)
    BY <1>2
  <2>2. Ask("supersede", a, 0, Nobody) \in RequestType
    BY DEF Ask, RequestType
  <2>. QED BY <2>1, <2>2 DEF LockGraph, TypeOK, store, Step
<1>. QED BY <1>1, <1>2

LEMMA ProposeTypeOK ==
    ASSUME TypeOK, NEW w \in Writer, NEW a \in Assertion, NEW actor \in Actor,
           Propose(w, a, actor)
    PROVE  TypeOK'
<1>1. PICK at \in Stamp(Floor(w, a)) :
        Write(w, a, Event("None", "Proposed", actor, at, NoSuccessor), "inserting")
  BY DEF Propose
<1>2. at \in Nat
  BY FloorTimes, StampAfter DEF TypeOK
<1>3. Event("None", "Proposed", actor, at, NoSuccessor) \in EventType
  BY <1>2, EventHasType DEF LifecycleState
<1>4. req' \in [Writer -> RequestType] /\ UNCHANGED <<todo, rows>>
  BY DEF TypeOK, Propose, Ask, RequestType
<1>. QED BY <1>1, <1>3, <1>4, WriteTypes DEF TypeOK, Step

LEMMA SuccessorTypeOK ==
    ASSUME TypeOK, RequestNamesRows, NEW w \in Writer, NEW new \in Assertion,
           NEW proposer \in Actor, NEW reviewer \in Operator, NEW n,
           PlanSuccessor(w, new, proposer, reviewer, n)
    PROVE  TypeOK'
<1>. DEFINE a == req[w].on
            floor == Floor(w, new) \union {events[a][Len(events[a])].at}
<1>1. CASE Refuse(w)
  BY <1>1, RefuseTypeOK
<1>2. CASE ~ Refuse(w)
  <2>1. PICK at \in Stamp(floor) :
          Write(w, new, Event("None", "Proposed", proposer, at, NoSuccessor), "inserting")
    BY <1>2 DEF PlanSuccessor, MaySupersede
  <2>2. Stands(a, "Superseded", reviewer, n) /\ a \in Assertion
    BY <1>2 DEF PlanSuccessor, MaySupersede, RequestNamesRows
  <2>3. events[a] # <<>>
    BY <2>2 DEF Stands, StateOf, Matrix
  <2>4. events[a][Len(events[a])].at \in Nat
    <3>1. events[a] \in Seq(EventType) /\ Len(events[a]) \in 1..Len(events[a])
      BY <2>2, <2>3 DEF TypeOK
    <3>. QED BY <3>1, EventTimes
  <2>5. floor \in SUBSET Nat
    BY <2>4, FloorTimes
  <2>6. at \in Nat
    BY <2>5, StampAfter DEF TypeOK
  <2>7. Event("None", "Proposed", proposer, at, NoSuccessor) \in EventType
    BY <2>6, EventHasType DEF LifecycleState
  <2>8. req' \in [Writer -> RequestType] /\ UNCHANGED <<todo, rows>>
    <3>1. reviewer \in Actor
      BY AssertionAssumption
    <3>2. req' = [req EXCEPT ![w] = Ask("supersede", a, new, reviewer)]
      BY <1>2 DEF PlanSuccessor, MaySupersede
    <3>3. Ask("supersede", a, new, reviewer) \in RequestType
      BY <2>2, <3>1 DEF Ask, RequestType
    <3>. QED BY <1>2, <3>2, <3>3 DEF TypeOK, PlanSuccessor, MaySupersede
  <2>. QED BY <2>1, <2>7, <2>8, WriteTypes DEF TypeOK, Step
<1>. QED BY <1>1, <1>2

LEMMA InsertTypeOK ==
    ASSUME TypeOK, NEW w \in Writer, InsertProposal(w)
    PROVE  TypeOK'
<1>1. CASE Refuse(w)
  BY <1>1, RefuseTypeOK
<1>2. CASE ~ Refuse(w)
  BY <1>2 DEF InsertProposal, TypeOK, store, Step, Inserted
<1>. QED BY <1>1, <1>2

LEMMA AcceptTypeOK ==
    ASSUME TypeOK, RequestNamesRows, NEW w \in Writer, AcceptSuccessor(w)
    PROVE  TypeOK'
<1>. DEFINE new == req[w].new
            reviewer == req[w].by
<1>1. CASE Refuse(w)
  BY <1>1, RefuseTypeOK
<1>2. CASE ~ Refuse(w)
  <2>1. new \in Assertion /\ reviewer \in Actor
    BY DEF AcceptSuccessor, RequestNamesRows
  <2>2. PICK at \in Stamp(Floor(w, new)) :
          Write(w, new, Event("Proposed", "Accepted", reviewer, at, NoSuccessor), "handing")
    BY <1>2 DEF AcceptSuccessor
  <2>3. at \in Nat
    BY <2>1, FloorTimes, StampAfter DEF TypeOK
  <2>4. Event("Proposed", "Accepted", reviewer, at, NoSuccessor) \in EventType
    BY <2>1, <2>3, EventHasType DEF LifecycleState
  <2>5. UNCHANGED <<req, todo, rows>>
    BY <1>2 DEF AcceptSuccessor
  <2>. QED BY <2>1, <2>2, <2>4, <2>5, WriteTypes DEF TypeOK, Step, Inserted
<1>. QED BY <1>1, <1>2

LEMMA HandOverTypeOK ==
    ASSUME TypeOK, RequestNamesRows, LogOfSuccessor, NEW w \in Writer, HandOver(w)
    PROVE  TypeOK'
<1>. DEFINE a == req[w].on
            new == req[w].new
            floor == Floor(w, a) \union {log[w][new][2].at}
<1>1. CASE Refuse(w)
  BY <1>1, RefuseTypeOK
<1>2. CASE ~ Refuse(w)
  <2>1. a \in Assertion /\ new \in Assertion /\ req[w].by \in Actor
    BY DEF HandOver, RequestNamesRows
  <2>2. log[w][new][2].at \in Nat
    <3>1. log[w][new] \in Seq(EventType) /\ Len(log[w][new]) >= 2
      BY <2>1 DEF HandOver, LogOfSuccessor, TypeOK
    <3>. QED BY <3>1, EventTimes
  <2>3. floor \in SUBSET Nat
    BY <2>1, <2>2, FloorTimes
  <2>4. PICK at \in Stamp(floor) :
          Write(w, a, Event(StateOf(events[a]), "Superseded", req[w].by, at, new), "writing")
    BY <1>2 DEF HandOver
  <2>5. at \in Nat /\ StateOf(events[a]) \in LifecycleState \union {"None"}
    BY <2>1, <2>3, StampAfter, StateOfType DEF TypeOK
  <2>6. Event(StateOf(events[a]), "Superseded", req[w].by, at, new) \in EventType
    BY <2>1, <2>5, EventHasType DEF LifecycleState
  <2>7. UNCHANGED <<req, todo, rows>>
    BY <1>2 DEF HandOver
  <2>. QED BY <2>1, <2>4, <2>6, <2>7, WriteTypes DEF TypeOK, Step, Inserted
<1>. QED BY <1>1, <1>2

LEMMA CommitTypeOK ==
    ASSUME TypeOK, NEW w \in Writer, Commit(w)
    PROVE  TypeOK'
<1>1. events' \in [Assertion -> Seq(EventType)]
  BY DEF TypeOK, Commit
<1>2. links' \in [Assertion -> SUBSET LinkType]
  BY DEF TypeOK, Commit
<1>. QED BY <1>1, <1>2, FinishTypes DEF TypeOK, Commit

LEMMA ScopesType ==
    ASSUME TypeOK, NEW edges \in SUBSET Assertion
    PROVE  GovernedScopes(edges) \in SUBSET {Predicate[a] : a \in Assertion}
<1>1. CASE pubs = <<>>
  BY <1>1 DEF GovernedScopes, LastScopes
<1>2. CASE pubs # <<>>
  <2>1. pubs[Len(pubs)] \in PublicationType
    BY <1>2 DEF TypeOK
  <2>. QED BY <2>1, <1>2 DEF GovernedScopes, LastScopes, PublicationType
<1>. QED BY <1>1, <1>2

LEMMA StageTypeOK ==
    ASSUME TypeOK, NEW eligible \in EligibleSet, StagePublication(eligible)
    PROVE  TypeOK'
<1>. DEFINE knownAt(clock) == IF Len(pubs) > 0 /\ pubs[Len(pubs)].known >= clock
                              THEN pubs[Len(pubs)].known + 1 ELSE clock
<1>1. PICK clock \in Reading :
        pub' = Staged(knownAt(clock), Accepted(eligible, knownAt(clock)),
                      GovernedScopes(Accepted(eligible, knownAt(clock))), {})
  BY DEF StagePublication, PublicationTime
<1>2. knownAt(clock) \in Nat
  <2>1. clock \in Nat
    BY DEF Reading, TypeOK
  <2>2. Len(pubs) > 0 => pubs[Len(pubs)].known \in Nat
    BY PublicationTimes DEF TypeOK
  <2>. QED BY <2>1, <2>2
<1>3. Accepted(eligible, knownAt(clock)) \in SUBSET Assertion
  BY AssertionAssumption DEF Accepted
<1>4. GovernedScopes(Accepted(eligible, knownAt(clock)))
          \in SUBSET {Predicate[a] : a \in Assertion}
  BY <1>3, ScopesType
<1>. HIDE DEF knownAt
<1>. QED BY <1>1, <1>2, <1>3, <1>4 DEF TypeOK, StagePublication, Staged, store, writers

LEMMA PublicationTypeOK ==
    ASSUME TypeOK, InsertEdge \/ CommitPublication \/ AbortPublication
    PROVE  TypeOK'
<1>1. CASE InsertEdge
  BY <1>1 DEF InsertEdge, Staged, TypeOK, store, writers
<1>2. CASE CommitPublication
  <2>1. pubs' \in Seq(PublicationType)
    BY <1>2 DEF CommitPublication, TypeOK, PublicationType
  <2>. QED BY <1>2, <2>1 DEF CommitPublication, TypeOK, writers, NoPublication
<1>3. CASE AbortPublication
  BY <1>3 DEF AbortPublication, TypeOK, store, writers, NoPublication
<1>. QED BY <1>1, <1>2, <1>3

LEMMA OtherTypeOK ==
    ASSUME TypeOK, BreakDeadlock \/ Tick
    PROVE  TypeOK'
<1>1. CASE BreakDeadlock
  <2>1. PICK w \in Writer :
          Refuse(w) \/ (pub' = NoPublication /\ UNCHANGED <<now, store, writers>>)
    BY <1>1 DEF BreakDeadlock
  <2>2. CASE Refuse(w)
    BY <2>2, RefuseTypeOK
  <2>3. CASE pub' = NoPublication /\ UNCHANGED <<now, store, writers>>
    BY <2>3 DEF TypeOK, store, writers, NoPublication
  <2>. QED BY <2>1, <2>2, <2>3
<1>2. CASE Tick
  BY <1>2 DEF Tick, TypeOK, store, writers
<1>. QED BY <1>1, <1>2

LEMMA NextTypeOK ==
    ASSUME AssertionInvariant, [Next]_vars
    PROVE  TypeOK'
<1>. USE DEF AssertionInvariant
<1>1. ASSUME NEW w \in Writer, Request(w) PROVE TypeOK'
  BY <1>1, DecideTypeOK, RegisterTypeOK, LockTypeOK, ProposeTypeOK DEF Request
<1>2. ASSUME NEW w \in Writer, Proceed(w) PROVE TypeOK'
  BY <1>2, LockTypeOK, SuccessorTypeOK, InsertTypeOK, AcceptTypeOK, HandOverTypeOK,
     CommitTypeOK DEF Proceed
<1>3. ASSUME NEW w \in Writer, Abort(w) PROVE TypeOK'
  BY <1>3, RefuseTypeOK DEF Abort
<1>4. CASE UNCHANGED vars
  BY <1>4 DEF TypeOK, vars
<1>. QED BY <1>1, <1>2, <1>3, <1>4, StageTypeOK, PublicationTypeOK, OtherTypeOK DEF Next, Publish

-----------------------------------------------------------------------------
(* The requests and the logs of supersessions. *)

LEMMA RefuseKeepsRequests ==
    ASSUME TypeOK, RequestNamesRows, LogOfSuccessor, NEW w \in Writer, Finish(w)
    PROVE  RequestNamesRows' /\ LogOfSuccessor'
BY DEF Finish, TypeOK, RequestNamesRows, LogOfSuccessor

LEMMA NextKeepsRequests ==
    ASSUME AssertionInvariant, [Next]_vars
    PROVE  RequestNamesRows' /\ LogOfSuccessor'
<1>. USE DEF AssertionInvariant
<1>1. ASSUME NEW w \in Writer, Finish(w)
      PROVE  RequestNamesRows' /\ LogOfSuccessor'
  BY <1>1, RefuseKeepsRequests
<1>2. ASSUME UNCHANGED writers
      PROVE  RequestNamesRows' /\ LogOfSuccessor'
  BY <1>2 DEF writers, RequestNamesRows, LogOfSuccessor
<1>3. ASSUME NEW w \in Writer, NEW a \in Assertion,
             \/ RegisterEvidence(w, a)
             \/ LockGraph(w, a)
             \/ \E p \in Actor : Propose(w, a, p)
             \/ \E to \in LifecycleState, p \in Actor, n \in 1..MaxEvents :
                    Decide(w, a, to, p, n)
      PROVE  RequestNamesRows' /\ LogOfSuccessor'
  <2>1. CASE RegisterEvidence(w, a)
    BY <2>1 DEF RegisterEvidence, LockOnly, TypeOK, RequestNamesRows, LogOfSuccessor
  <2>2. CASE LockGraph(w, a)
    BY <2>2 DEF LockGraph, Ask, TypeOK, RequestNamesRows, LogOfSuccessor
  <2>3. CASE \E p \in Actor : Propose(w, a, p)
    <3>1. /\ step' = [step EXCEPT ![w] = "inserting"]
          /\ req' = [req EXCEPT ![w] = Ask("propose", 0, a, Nobody)]
          /\ \A v \in Writer \ {w} : log'[v] = log[v]
      BY <2>3 DEF Propose, Write, TypeOK
    <3>2. RequestNamesRows'
      BY <3>1 DEF Ask, TypeOK, RequestNamesRows
    <3>3. LogOfSuccessor'
      BY <3>1 DEF Ask, TypeOK, LogOfSuccessor
    <3>. QED BY <3>2, <3>3
  <2>4. CASE \E to \in LifecycleState, p \in Actor, n \in 1..MaxEvents :
                 Decide(w, a, to, p, n)
    BY <2>4 DEF Decide, LockOnly, Write, TypeOK, RequestNamesRows, LogOfSuccessor
  <2>. QED BY <1>3, <2>1, <2>2, <2>3, <2>4
<1>4. ASSUME NEW w \in Writer, LockRow(w)
      PROVE  RequestNamesRows' /\ LogOfSuccessor'
  BY <1>4 DEF LockRow, RequestNamesRows, LogOfSuccessor
<1>5. ASSUME NEW w \in Writer, InsertProposal(w), ~ Refuse(w)
      PROVE  RequestNamesRows' /\ LogOfSuccessor'
  BY <1>5 DEF InsertProposal, TypeOK, RequestNamesRows, LogOfSuccessor
<1>6. ASSUME NEW w \in Writer, HandOver(w), ~ Refuse(w)
      PROVE  RequestNamesRows' /\ LogOfSuccessor'
  BY <1>6 DEF HandOver, Write, TypeOK, RequestNamesRows, LogOfSuccessor
<1>7. ASSUME NEW w \in Writer, AcceptSuccessor(w), ~ Refuse(w)
      PROVE  RequestNamesRows' /\ LogOfSuccessor'
  <2>. DEFINE new == req[w].new
  <2>1. PICK e : Write(w, new, e, "handing")
    BY <1>7 DEF AcceptSuccessor
  <2>2. new \in Assertion /\ log[w][new] \in Seq(EventType) /\ Len(log[w][new]) >= 1
    BY <1>7 DEF AcceptSuccessor, RequestNamesRows, LogOfSuccessor, TypeOK
  <2>3. log'[w][new] = Append(log[w][new], e)
    BY <2>1, <2>2 DEF Write, TypeOK
  <2>4. Len(log'[w][new]) >= 2
    BY <2>2, <2>3
  <2>5. step' = [step EXCEPT ![w] = "handing"] /\ req' = req
    BY <1>7, <2>1 DEF AcceptSuccessor, Write
  <2>6. \A v \in Writer \ {w} : log'[v] = log[v]
    BY <2>1 DEF Write, TypeOK
  <2>7. RequestNamesRows'
    BY <1>7, <2>5 DEF AcceptSuccessor, TypeOK, RequestNamesRows
  <2>8. LogOfSuccessor'
    BY <2>4, <2>5, <2>6 DEF TypeOK, LogOfSuccessor
  <2>. QED BY <2>7, <2>8
<1>8. ASSUME NEW w \in Writer, NEW new \in Assertion, NEW p \in Actor, NEW r \in Operator,
             NEW n, PlanSuccessor(w, new, p, r, n), ~ Refuse(w)
      PROVE  RequestNamesRows' /\ LogOfSuccessor'
  <2>1. PICK e : Write(w, new, e, "inserting")
    BY <1>8 DEF PlanSuccessor, MaySupersede
  <2>2. log[w][new] \in Seq(EventType)
    BY DEF TypeOK
  <2>3. log'[w][new] = Append(log[w][new], e)
    BY <2>1 DEF Write, TypeOK
  <2>4. Len(log'[w][new]) >= 1
    BY <2>2, <2>3
  <2>5. /\ step' = [step EXCEPT ![w] = "inserting"]
        /\ req' = [req EXCEPT ![w] = Ask("supersede", req[w].on, new, r)]
    BY <1>8, <2>1 DEF PlanSuccessor, MaySupersede, Write
  <2>6. \A v \in Writer \ {w} : log'[v] = log[v]
    BY <2>1 DEF Write, TypeOK
  <2>7. req[w].on \in Assertion /\ r \in Actor
    BY <1>8, AssertionAssumption DEF PlanSuccessor, MaySupersede, RequestNamesRows
  <2>8. RequestNamesRows'
    BY <2>5, <2>7 DEF TypeOK, RequestNamesRows, Ask
  <2>9. LogOfSuccessor'
    BY <2>4, <2>5, <2>6 DEF TypeOK, LogOfSuccessor, Ask
  <2>. QED BY <2>8, <2>9
<1>9. ASSUME NEW w \in Writer, Refuse(w) \/ Commit(w) \/ Abort(w)
      PROVE  RequestNamesRows' /\ LogOfSuccessor'
  BY <1>9, <1>1 DEF Refuse, Commit, Abort
<1>10. ASSUME NEW w \in Writer, Proceed(w)
       PROVE  RequestNamesRows' /\ LogOfSuccessor'
  BY <1>10, <1>4, <1>5, <1>6, <1>7, <1>8, <1>9 DEF Proceed
<1>11. CASE BreakDeadlock
  BY <1>11, <1>2, <1>9 DEF BreakDeadlock
<1>12. CASE \/ \E eligible \in EligibleSet : StagePublication(eligible)
            \/ Publish \/ AbortPublication \/ Tick \/ UNCHANGED vars
  BY <1>12, <1>2 DEF StagePublication, Publish, InsertEdge, CommitPublication,
     AbortPublication, Tick, vars, writers
<1>13. ASSUME NEW w \in Writer, Request(w)
       PROVE  RequestNamesRows' /\ LogOfSuccessor'
  BY <1>13, <1>3 DEF Request
<1>. QED BY <1>9, <1>10, <1>11, <1>12, <1>13 DEF Next

-----------------------------------------------------------------------------
(* The times. *)

(* The sources of a time: it comes after every publication that w can see. *)
LEMMA StampFollows ==
    ASSUME TypeOK, NEW w \in Writer, NEW a \in Assertion, NEW floor \in SUBSET Nat,
           Floor(w, a) \subseteq floor, NEW at \in Stamp(floor)
    PROVE  /\ at \in Nat
           /\ \A n \in 1..Len(pubs) : at > pubs[n].known
BY FloorTimes, StampAfter DEF TypeOK

LEMMA EventFollows ==
    ASSUME TypeOK, NEW at \in Nat, \A n \in 1..Len(pubs) : at > pubs[n].known,
           NEW from, NEW to, NEW actor, NEW succ
    PROVE  AfterPublished(Event(from, to, actor, at, succ))
BY DEF TypeOK, Event, AfterPublished

(* Nothing that is written or committed changes its time or its place. *)
LEMMA QuietTimes ==
    ASSUME TimesFollowPublications, UNCHANGED <<events, links, pubs, log, link>>
    PROVE  TimesFollowPublications'
BY DEF TimesFollowPublications, AfterPublished

LEMMA FinishTimes ==
    ASSUME TypeOK, TimesFollowPublications, NEW w \in Writer, Finish(w),
           UNCHANGED <<events, links, pubs>>
    PROVE  TimesFollowPublications'
<1>1. \A v \in Writer :
        /\ \A a \in Assertion : \A i \in DOMAIN log'[v][a] :
              AfterPublished(log[v][a][i]) /\ log'[v][a] = log[v][a]
        /\ link'[v] \subseteq link[v]
  BY DEF Finish, Nothing, TypeOK, TimesFollowPublications
<1>. QED BY <1>1 DEF TimesFollowPublications, AfterPublished

LEMMA WriteTimes ==
    ASSUME TypeOK, TimesFollowPublications, NEW w \in Writer, NEW a \in Assertion,
           NEW e \in EventType, AfterPublished(e), NEW next, Write(w, a, e, next)
    PROVE  TimesFollowPublications'
<1>1. log[w][a] \in Seq(EventType)
  BY DEF TypeOK
<1>2. /\ log'[w][a] = Append(log[w][a], e)
      /\ \A v \in Writer, b \in Assertion : v # w \/ b # a => log'[v][b] = log[v][b]
  BY DEF Write, TypeOK
<1>3. \A i \in DOMAIN log'[w][a] : log'[w][a][i] = e \/
          (i \in DOMAIN log[w][a] /\ log'[w][a][i] = log[w][a][i])
  BY <1>1, <1>2
<1>4. UNCHANGED <<events, links, pubs, link>>
  BY DEF Write, store
<1>5. \A v \in Writer, b \in Assertion : \A i \in DOMAIN log'[v][b] :
          AfterPublished(log'[v][b][i])
  <2>. SUFFICES ASSUME NEW v \in Writer, NEW b \in Assertion, NEW i \in DOMAIN log'[v][b]
                PROVE  AfterPublished(log'[v][b][i])
    OBVIOUS
  <2>1. CASE v = w /\ b = a
    BY <2>1, <1>3 DEF TimesFollowPublications
  <2>2. CASE v # w \/ b # a
    BY <2>2, <1>2 DEF TimesFollowPublications
  <2>. QED BY <2>1, <2>2
<1>. QED BY <1>4, <1>5 DEF TimesFollowPublications, AfterPublished

(* What w has written becomes committed. *)
LEMMA CommitTimes ==
    ASSUME TypeOK, TimesFollowPublications, NEW w \in Writer, Commit(w)
    PROVE  TimesFollowPublications'
<1>1. \A a \in Assertion :
        /\ events[a] \in Seq(EventType) /\ log[w][a] \in Seq(EventType)
        /\ events'[a] = events[a] \o log[w][a]
        /\ links'[a] \subseteq links[a] \union link[w]
  BY DEF Commit, TypeOK
<1>2. \A a \in Assertion : \A i \in DOMAIN events'[a] : AfterPublished(events'[a][i])
  <2>. SUFFICES ASSUME NEW a \in Assertion, NEW i \in DOMAIN events'[a]
                PROVE  AfterPublished(events'[a][i])
    OBVIOUS
  <2>1. \/ i \in DOMAIN events[a] /\ events'[a][i] = events[a][i]
        \/ \E j \in DOMAIN log[w][a] : events'[a][i] = log[w][a][j]
    <3>1. events[a] \in Seq(EventType) /\ log[w][a] \in Seq(EventType)
      BY <1>1
    <3>2. events'[a] = events[a] \o log[w][a]
      BY <1>1
    <3>3. i \in DOMAIN (events[a] \o log[w][a])
      BY <3>2
    <3>4. \/ i \in DOMAIN events[a] /\ (events[a] \o log[w][a])[i] = events[a][i]
          \/ \E j \in DOMAIN log[w][a] : (events[a] \o log[w][a])[i] = log[w][a][j]
      BY <3>1, <3>3, ConcatEntries
    <3>. QED BY <3>2, <3>4
  <2>. QED BY <2>1 DEF TimesFollowPublications
<1>3. \A a \in Assertion : \A l \in links'[a] : AfterPublished(l)
  BY <1>1 DEF TimesFollowPublications
<1>4. \A v \in Writer :
        /\ \A a \in Assertion : \A i \in DOMAIN log'[v][a] :
              AfterPublished(log[v][a][i]) /\ log'[v][a] = log[v][a]
        /\ link'[v] \subseteq link[v]
  BY DEF Commit, Finish, Nothing, TypeOK, TimesFollowPublications
<1>5. pubs' = pubs
  BY DEF Commit
<1>. QED BY <1>2, <1>3, <1>4, <1>5 DEF TimesFollowPublications, AfterPublished

(* Nobody has seen the publication that commits. *)
LEMMA PublishTimes ==
    ASSUME TypeOK, TimesFollowPublications, CommitPublication
    PROVE  TimesFollowPublications'
<1>1. PICK p : pubs' = Append(pubs, p)
  BY DEF CommitPublication
<1>2. Len(pubs') = Len(pubs) + 1 /\ \A n \in 1..Len(pubs) : pubs'[n] = pubs[n]
  BY <1>1 DEF TypeOK
<1>3. \A s : s \in Nat /\ s <= Len(pubs) => s <= Len(pubs') /\ 1..s \subseteq 1..Len(pubs)
  BY <1>2 DEF TypeOK
<1>4. UNCHANGED <<events, links, log, link>>
  BY DEF CommitPublication, writers
<1>5. ASSUME NEW r, r.seen \in Nat, AfterPublished(r)
      PROVE  r.seen <= Len(pubs') /\ \A n \in 1..r.seen : r.at > pubs'[n].known
  BY <1>2, <1>3, <1>5 DEF AfterPublished
<1>6. ASSUME NEW a \in Assertion
      PROVE  /\ \A i \in DOMAIN events[a] : events[a][i].seen \in Nat
             /\ \A l \in links[a] : l.seen \in Nat
  <2>1. events[a] \in Seq(EventType) /\ links[a] \in SUBSET LinkType
    BY DEF TypeOK
  <2>. QED BY <2>1, EventTimes DEF LinkType
<1>7. ASSUME NEW w \in Writer
      PROVE  /\ \A a \in Assertion : \A i \in DOMAIN log[w][a] : log[w][a][i].seen \in Nat
             /\ \A l \in link[w] : l.seen \in Nat
  <2>1. link[w] \in SUBSET LinkType /\ \A a \in Assertion : log[w][a] \in Seq(EventType)
    BY DEF TypeOK
  <2>. QED BY <2>1, EventTimes DEF LinkType
<1>. QED BY <1>4, <1>5, <1>6, <1>7 DEF TimesFollowPublications, AfterPublished

LEMMA InitTimes == Init => TimesFollowPublications
<1>. SUFFICES ASSUME Init PROVE TimesFollowPublications
  OBVIOUS
<1>1. \A a \in Assertion : \A i \in DOMAIN events[a] : events[a][i].seen = 0
  BY SeedAssumption DEF Init
<1>2. Len(pubs) \in Nat
  BY PublishedAssumption DEF Init
<1>3. \A w \in Writer, a \in Assertion : log[w][a] = <<>>
  BY DEF Init, Nothing
<1>4. /\ \A a \in Assertion : links[a] = {}
      /\ \A w \in Writer : link[w] = {}
  BY DEF Init
<1>. QED BY <1>1, <1>2, <1>3, <1>4 DEF TimesFollowPublications, AfterPublished

(* The five writes: each gets its time from a floor that holds every publication
   known to the transaction. *)
LEMMA WritersKeepTimes ==
    ASSUME AssertionInvariant, NEW w \in Writer, Request(w) \/ Proceed(w)
    PROVE  TimesFollowPublications'
<1>. USE DEF AssertionInvariant
<1>1. ASSUME NEW a \in Assertion, RegisterEvidence(w, a)
      PROVE  TimesFollowPublications'
  <2>1. PICK at \in Stamp(Floor(w, a)) :
          link' = [link EXCEPT ![w] = {[at |-> at, seen |-> Len(pubs)]}]
    BY <1>1 DEF RegisterEvidence
  <2>2. at \in Nat /\ \A n \in 1..Len(pubs) : at > pubs[n].known
    BY FloorTimes, StampFollows
  <2>3. AfterPublished([at |-> at, seen |-> Len(pubs)])
    BY <2>2 DEF TypeOK, AfterPublished
  <2>4. \A v \in Writer : \A l \in link'[v] : AfterPublished(l)
    BY <2>1, <2>3 DEF TypeOK, TimesFollowPublications
  <2>5. UNCHANGED <<events, links, pubs, log>>
    BY <1>1 DEF RegisterEvidence, store
  <2>. QED BY <2>4, <2>5 DEF TimesFollowPublications, AfterPublished
<1>2. ASSUME NEW a \in Assertion, NEW p \in Actor, Propose(w, a, p)
      PROVE  TimesFollowPublications'
  <2>1. PICK at \in Stamp(Floor(w, a)) :
          Write(w, a, Event("None", "Proposed", p, at, NoSuccessor), "inserting")
    BY <1>2 DEF Propose
  <2>2. at \in Nat /\ \A n \in 1..Len(pubs) : at > pubs[n].known
    BY FloorTimes, StampFollows
  <2>3. Event("None", "Proposed", p, at, NoSuccessor) \in EventType
    BY <2>2, EventHasType DEF LifecycleState
  <2>. QED BY <2>1, <2>2, <2>3, EventFollows, WriteTimes
<1>3. ASSUME NEW a \in Assertion, NEW to \in LifecycleState, NEW p \in Actor, NEW n,
             Decide(w, a, to, p, n)
      PROVE  TimesFollowPublications'
  <2>1. PICK at \in Stamp(Floor(w, a)) :
          Write(w, a, Event(StateOf(events[a]), to, p, at, NoSuccessor), "writing")
    BY <1>3 DEF Decide
  <2>2. at \in Nat /\ \A m \in 1..Len(pubs) : at > pubs[m].known
    BY FloorTimes, StampFollows
  <2>3. StateOf(events[a]) \in LifecycleState \union {"None"}
    BY StateOfType DEF TypeOK
  <2>4. Event(StateOf(events[a]), to, p, at, NoSuccessor) \in EventType
    BY <2>2, <2>3, EventHasType
  <2>. QED BY <2>1, <2>2, <2>4, EventFollows, WriteTimes
<1>4. ASSUME NEW new \in Assertion, NEW p \in Actor, NEW r \in Operator, NEW n,
             PlanSuccessor(w, new, p, r, n), ~ Refuse(w)
      PROVE  TimesFollowPublications'
  <2>. DEFINE a == req[w].on
              floor == Floor(w, new) \union {events[a][Len(events[a])].at}
  <2>1. PICK at \in Stamp(floor) :
          Write(w, new, Event("None", "Proposed", p, at, NoSuccessor), "inserting")
    BY <1>4 DEF PlanSuccessor, MaySupersede
  <2>2. floor \in SUBSET Nat
    <3>1. Stands(a, "Superseded", r, n) /\ a \in Assertion
      BY <1>4 DEF PlanSuccessor, MaySupersede, RequestNamesRows
    <3>2. events[a] # <<>>
      BY <3>1 DEF Stands, StateOf, Matrix
    <3>3. events[a] \in Seq(EventType) /\ Len(events[a]) \in 1..Len(events[a])
      BY <3>1, <3>2 DEF TypeOK
    <3>. QED BY <3>3, EventTimes, FloorTimes
  <2>3. at \in Nat /\ \A m \in 1..Len(pubs) : at > pubs[m].known
    BY <2>2, StampFollows
  <2>4. Event("None", "Proposed", p, at, NoSuccessor) \in EventType
    BY <2>3, EventHasType DEF LifecycleState
  <2>. QED BY <2>1, <2>3, <2>4, EventFollows, WriteTimes
<1>5. ASSUME AcceptSuccessor(w), ~ Refuse(w)
      PROVE  TimesFollowPublications'
  <2>. DEFINE new == req[w].new
              r == req[w].by
  <2>1. new \in Assertion /\ r \in Actor
    BY <1>5 DEF AcceptSuccessor, RequestNamesRows
  <2>2. PICK at \in Stamp(Floor(w, new)) :
          Write(w, new, Event("Proposed", "Accepted", r, at, NoSuccessor), "handing")
    BY <1>5 DEF AcceptSuccessor
  <2>3. at \in Nat /\ \A m \in 1..Len(pubs) : at > pubs[m].known
    BY <2>1, FloorTimes, StampFollows
  <2>4. Event("Proposed", "Accepted", r, at, NoSuccessor) \in EventType
    BY <2>1, <2>3, EventHasType DEF LifecycleState
  <2>. QED BY <2>1, <2>2, <2>3, <2>4, EventFollows, WriteTimes
<1>6. ASSUME HandOver(w), ~ Refuse(w)
      PROVE  TimesFollowPublications'
  <2>. DEFINE a == req[w].on
              new == req[w].new
              r == req[w].by
              floor == Floor(w, a) \union {log[w][new][2].at}
  <2>1. a \in Assertion /\ new \in Assertion /\ r \in Actor
    BY <1>6 DEF HandOver, RequestNamesRows
  <2>2. PICK at \in Stamp(floor) :
          Write(w, a, Event(StateOf(events[a]), "Superseded", r, at, new), "writing")
    BY <1>6 DEF HandOver
  <2>3. floor \in SUBSET Nat
    <3>1. log[w][new] \in Seq(EventType) /\ Len(log[w][new]) >= 2
      BY <1>6, <2>1 DEF HandOver, LogOfSuccessor, TypeOK
    <3>. QED BY <2>1, <3>1, EventTimes, FloorTimes
  <2>4. at \in Nat /\ \A m \in 1..Len(pubs) : at > pubs[m].known
    BY <2>1, <2>3, StampFollows
  <2>5. StateOf(events[a]) \in LifecycleState \union {"None"}
    BY <2>1, StateOfType DEF TypeOK
  <2>6. Event(StateOf(events[a]), "Superseded", r, at, new) \in EventType
    BY <2>1, <2>4, <2>5, EventHasType DEF LifecycleState
  <2>. QED BY <2>1, <2>2, <2>4, <2>6, EventFollows, WriteTimes
<1>7. ASSUME Refuse(w)
      PROVE  TimesFollowPublications'
  BY <1>7, FinishTimes DEF Refuse, store
<1>8. ASSUME \/ LockRow(w)
             \/ \E a \in Assertion : LockGraph(w, a)
             \/ InsertProposal(w) /\ ~ Refuse(w)
      PROVE  TimesFollowPublications'
  BY <1>8, QuietTimes DEF LockRow, LockGraph, InsertProposal, store
<1>9. CASE Request(w)
  BY <1>9, <1>1, <1>2, <1>3, <1>8 DEF Request
<1>10. CASE Proceed(w)
  BY <1>10, <1>4, <1>5, <1>6, <1>7, <1>8, CommitTimes DEF Proceed
<1>. QED BY <1>9, <1>10

LEMMA NextKeepsTimes ==
    ASSUME AssertionInvariant, [Next]_vars
    PROVE  TimesFollowPublications'
<1>. USE DEF AssertionInvariant
<1>1. ASSUME NEW w \in Writer, Refuse(w) PROVE TimesFollowPublications'
  BY <1>1, FinishTimes DEF Refuse, store
<1>2. ASSUME NEW w \in Writer, Abort(w) PROVE TimesFollowPublications'
  BY <1>1, <1>2 DEF Abort
<1>3. CASE BreakDeadlock
  BY <1>3, <1>1, QuietTimes DEF BreakDeadlock, store, writers
<1>4. CASE \/ \E eligible \in EligibleSet : StagePublication(eligible)
           \/ InsertEdge \/ AbortPublication \/ Tick \/ UNCHANGED vars
  BY <1>4, QuietTimes DEF StagePublication, InsertEdge, AbortPublication, Tick, vars,
     store, writers
<1>5. CASE CommitPublication
  BY <1>5, PublishTimes
<1>. QED BY <1>2, <1>3, <1>4, <1>5, WritersKeepTimes DEF Next, Publish

-----------------------------------------------------------------------------
(* The plans: what a transaction has planned still stands when it goes on. *)

(* A stream's state after one more event. *)
LEMMA StateOfAppended ==
    ASSUME NEW s \in Seq(EventType), NEW e \in EventType
    PROVE  /\ s \o <<e>> = Append(s, e) /\ s \o <<e>> # <<>> /\ Len(s \o <<e>>) = Len(s) + 1
           /\ (s \o <<e>>)[Len(s) + 1] = e /\ StateOf(s \o <<e>>) = e.to
           /\ \A i \in 1..Len(s) : (s \o <<e>>)[i] = s[i]
<1>1. s \o <<e>> = Append(s, e)
  BY AppendIsConcat
<1>. QED BY <1>1 DEF StateOf

(* Only a stream that exists may be moved. *)
LEMMA SourceExists ==
    ASSUME NEW s, NEW to, <<StateOf(s), to>> \in Matrix
    PROVE  s # <<>> /\ StateOf(s) # "Superseded"
BY DEF StateOf, Matrix

(* What a write does to the log and the position of its transaction. *)
LEMMA WriteIs ==
    ASSUME TypeOK, NEW w \in Writer, NEW a \in Assertion, NEW e, NEW next, Write(w, a, e, next)
    PROVE  /\ step'[w] = next /\ UNCHANGED events
           /\ Len(log'[w][a]) = Len(log[w][a]) + 1 /\ log'[w][a][Len(log[w][a]) + 1] = e
           /\ \A i \in 1..Len(log[w][a]) : log'[w][a][i] = log[w][a][i]
           /\ \A b \in Assertion \ {a} : log'[w][b] = log[w][b]
           /\ \A v \in Writer \ {w} : step'[v] = step[v] /\ log'[v] = log[v]
<1>1. log[w][a] \in Seq(EventType)
  BY DEF TypeOK
<1>2. log'[w][a] = Append(log[w][a], e)
  BY DEF TypeOK, Write
<1>3. /\ Len(log'[w][a]) = Len(log[w][a]) + 1 /\ log'[w][a][Len(log[w][a]) + 1] = e
      /\ \A i \in 1..Len(log[w][a]) : log'[w][a][i] = log[w][a][i]
  BY <1>1, <1>2
<1>. QED BY <1>3 DEF TypeOK, Write, store

LEMMA FirstWrite ==
    ASSUME TypeOK, NEW w \in Writer, NEW a \in Assertion, NEW e, NEW next, Write(w, a, e, next),
           \A b \in Assertion : log[w][b] = <<>> /\ Len(log[w][b]) = 0
    PROVE  /\ step'[w] = next /\ UNCHANGED events /\ Len(log'[w][a]) = 1 /\ log'[w][a][1] = e
           /\ \A b \in Assertion \ {a} : log'[w][b] = <<>>
           /\ \A v \in Writer \ {w} : step'[v] = step[v] /\ log'[v] = log[v]
<1>1. Len(log[w][a]) = 0 /\ Len(log[w][a]) + 1 = 1
  OBVIOUS
<1>2. /\ step'[w] = next /\ UNCHANGED events
      /\ Len(log'[w][a]) = Len(log[w][a]) + 1 /\ log'[w][a][Len(log[w][a]) + 1] = e
      /\ \A b \in Assertion \ {a} : log'[w][b] = log[w][b]
      /\ \A v \in Writer \ {w} : step'[v] = step[v] /\ log'[v] = log[v]
  BY WriteIs
<1>3. Len(log'[w][a]) = 1 /\ log'[w][a][1] = e
  BY <1>1, <1>2
<1>4. \A b \in Assertion \ {a} : log'[w][b] = <<>>
  BY <1>2
<1>. QED BY <1>2, <1>3, <1>4

(* The plan of a transaction depends on its own variables and on the streams whose
   rows it has locked. *)
LEMMA PlanKept ==
    ASSUME TypeOK, NEW w \in Writer, PlanStands(w),
           step'[w] = step[w], req'[w] = req[w], todo'[w] = todo[w], rows'[w] = rows[w], log'[w] = log[w],
           \A a \in rows[w] : events[a] # <<>> => events'[a] = events[a],
           \A a \in Assertion : events[a] # <<>> => events'[a] # <<>>
    PROVE  PlanStands(w)'
<1>1. todo[w] \subseteq Assertion /\ rows[w] \subseteq Assertion
  BY DEF TypeOK
<1>2. LockingStands(w)'
  BY <1>1 DEF PlanStands, LockingStands, WroteOnly
<1>3. ProposalStands(w)'
  BY DEF PlanStands, ProposalStands, WroteOnly
<1>4. DecisionStands(w)'
  <2>. SUFFICES ASSUME req[w].op = "decide" PROVE DecisionStands(w)'
    BY DEF DecisionStands
  <2>1. DecisionStands(w) /\ req[w].on \in rows[w] /\ events[req[w].on] # <<>>
    BY SourceExists DEF PlanStands, DecisionStands
  <2>2. events'[req[w].on] = events[req[w].on]
    BY <2>1
  <2>. QED BY <2>1, <2>2 DEF DecisionStands, WroteOnly
<1>5. RegistrationStands(w)'
  BY DEF PlanStands, RegistrationStands, WroteOnly
<1>6. SupersessionStands(w)'
  <2>. SUFFICES ASSUME req[w].op = "supersede", step[w] # "locking" PROVE SupersessionStands(w)'
    BY DEF SupersessionStands
  <2>1. SupersessionStands(w) /\ req[w].on \in rows[w] /\ events[req[w].on] # <<>>
    BY SourceExists DEF PlanStands, SupersessionStands
  <2>2. events'[req[w].on] = events[req[w].on]
    BY <2>1
  <2>3. WroteOnly(w, {req[w].on, req[w].new})' <=> WroteOnly(w, {req[w].on, req[w].new})
    BY DEF WroteOnly
  <2>. QED BY <2>1, <2>2, <2>3 DEF SupersessionStands
<1>. QED BY <1>2, <1>3, <1>4, <1>5, <1>6 DEF PlanStands

(* A step of one transaction that commits nothing. *)
LEMMA OneWriterKeepsPlans ==
    ASSUME TypeOK, TypeOK', PlansStand, NEW w \in Writer, UNCHANGED events,
           \A v \in Writer \ {w} : /\ step'[v] = step[v] /\ req'[v] = req[v] /\ todo'[v] = todo[v]
                                   /\ rows'[v] = rows[v] /\ log'[v] = log[v],
           PlanStands(w)',
           \A v \in Writer \ {w} : rows'[w] \intersect rows[v] = {},
           step'[w] \in Inserted /\ req'[w].new # 0 =>
               /\ events[req'[w].new] = <<>>
               /\ \A v \in Writer \ {w} : step[v] \in Inserted => req[v].new # req'[w].new
    PROVE  PlansStand'
<1>1. RowsExclusive'
  BY DEF PlansStand, RowsExclusive
<1>2. KeysExclusive'
  <2>. SUFFICES ASSUME NEW u \in Writer, NEW v \in Writer, u # v, step'[u] \in Inserted, step'[v] \in Inserted,
                       req'[u].new = req'[v].new, req'[u].new # 0
                PROVE  FALSE
    BY DEF KeysExclusive
  <2>1. CASE u # w /\ v # w
    BY <2>1 DEF PlansStand, KeysExclusive
  <2>2. CASE u = w
    BY <2>2
  <2>3. CASE v = w
    BY <2>3
  <2>. QED BY <2>1, <2>2, <2>3
<1>3. \A v \in Writer : PlanStands(v)'
  <2>. SUFFICES ASSUME NEW v \in Writer, v # w PROVE PlanStands(v)'
    OBVIOUS
  <2>. QED BY PlanKept DEF PlansStand
<1>4. \A v \in Writer : KeyStands(v)'
  BY DEF PlansStand, KeyStands
<1>. QED BY <1>1, <1>2, <1>3, <1>4 DEF PlansStand

LEMMA IdlePlansNothing ==
    ASSUME TypeOK, PlansStand, NEW w \in Writer, step[w] = "idle"
    PROVE  /\ rows[w] = {} /\ todo[w] = {}
           /\ \A b \in Assertion : log[w][b] = <<>> /\ Len(log[w][b]) = 0
<1>1. LockingStands(w)
  BY DEF PlansStand, PlanStands
<1>2. \A b \in Assertion : log[w][b] = <<>>
  BY <1>1 DEF LockingStands, WroteOnly
<1>. QED BY <1>1, <1>2 DEF LockingStands

LEMMA FinishKeepsPlan ==
    ASSUME TypeOK, NEW w \in Writer, Finish(w)
    PROVE  /\ PlanStands(w)' /\ rows'[w] = {} /\ step'[w] = "idle"
           /\ \A v \in Writer \ {w} : /\ step'[v] = step[v] /\ req'[v] = req[v] /\ todo'[v] = todo[v]
                                      /\ rows'[v] = rows[v] /\ log'[v] = log[v]
<1>1. /\ step'[w] = "idle" /\ req'[w].op = "none" /\ rows'[w] = {} /\ todo'[w] = {}
      /\ \A b \in Assertion : log'[w][b] = <<>>
  BY DEF Finish, TypeOK, NoRequest, Ask, Nothing
<1>2. PlanStands(w)'
  BY <1>1 DEF PlanStands, LockingStands, ProposalStands, DecisionStands, RegistrationStands, SupersessionStands, WroteOnly
<1>3. \A v \in Writer \ {w} : /\ step'[v] = step[v] /\ req'[v] = req[v] /\ todo'[v] = todo[v]
                              /\ rows'[v] = rows[v] /\ log'[v] = log[v]
  BY DEF Finish, TypeOK
<1>. QED BY <1>1, <1>2, <1>3

LEMMA RefuseKeepsPlans ==
    ASSUME TypeOK, PlansStand, NEW w \in Writer, Refuse(w)
    PROVE  PlansStand'
<1>1. TypeOK' /\ UNCHANGED events
  BY RefuseTypeOK DEF Refuse, store
<1>2. step'[w] \notin Inserted
  BY FinishKeepsPlan DEF Refuse, Inserted
<1>. QED BY <1>1, <1>2, FinishKeepsPlan, OneWriterKeepsPlans DEF Refuse

(* A request that locks the row of its assertion. *)
LEMMA LockOnlyIs ==
    ASSUME TypeOK, NEW w \in Writer, NEW a \in Assertion, NEW op, LockOnly(w, op, a)
    PROVE  /\ step[w] = "idle" /\ events[a] # <<>>
           /\ req'[w].op = op /\ req'[w].on = a /\ req'[w].new = 0
           /\ rows'[w] = {a} /\ todo'[w] = todo[w]
           /\ \A v \in Writer \ {w} : /\ req'[v] = req[v] /\ todo'[v] = todo[v] /\ rows'[v] = rows[v]
                                      /\ rows'[w] \intersect rows[v] = {}
<1>1. req' = [req EXCEPT ![w] = Ask(op, a, 0, Nobody)] /\ rows' = [rows EXCEPT ![w] = {a}] /\ UNCHANGED todo
  BY DEF LockOnly
<1>2. req'[w] = Ask(op, a, 0, Nobody) /\ rows'[w] = {a}
  BY <1>1 DEF TypeOK
<1>3. req'[w].op = op /\ req'[w].on = a /\ req'[w].new = 0
  BY <1>2 DEF Ask
<1>4. todo'[w] = todo[w] /\ \A v \in Writer \ {w} : req'[v] = req[v] /\ todo'[v] = todo[v] /\ rows'[v] = rows[v]
  BY <1>1 DEF TypeOK
<1>. QED BY <1>2, <1>3, <1>4 DEF LockOnly, RowFree

LEMMA DecideKeepsPlans ==
    ASSUME TypeOK, PlansStand, NEW w \in Writer, NEW a \in Assertion, NEW to \in LifecycleState,
           NEW actor \in Actor, NEW n, Decide(w, a, to, actor, n)
    PROVE  PlansStand'
<1>1. PICK at : Write(w, a, Event(StateOf(events[a]), to, actor, at, NoSuccessor), "writing")
  BY DEF Decide
<1>. DEFINE e == Event(StateOf(events[a]), to, actor, at, NoSuccessor)
<1>2. e.to = to
  BY DEF Event
<1>3. to # "Superseded" /\ <<StateOf(events[a]), to>> \in Matrix
  BY DEF Decide, Stands
<1>4. LockOnly(w, "decide", a)
  BY DEF Decide
<1>5. todo[w] = {} /\ \A b \in Assertion : log[w][b] = <<>> /\ Len(log[w][b]) = 0
  BY <1>4, LockOnlyIs, IdlePlansNothing
<1>. HIDE DEF e
<1>6. /\ step'[w] = "writing" /\ UNCHANGED events /\ Len(log'[w][a]) = 1 /\ log'[w][a][1] = e
      /\ \A b \in Assertion \ {a} : log'[w][b] = <<>>
      /\ \A v \in Writer \ {w} : step'[v] = step[v] /\ log'[v] = log[v]
  <2>1. Write(w, a, e, "writing")
    BY <1>1 DEF e
  <2>. QED BY <2>1, <1>5, FirstWrite
<1>7. req'[w].op = "decide" /\ req'[w].on = a /\ req'[w].new = 0 /\ rows'[w] = {a} /\ todo'[w] = {}
  BY <1>4, <1>5, LockOnlyIs
<1>8. PlanStands(w)'
  BY <1>2, <1>3, <1>6, <1>7 DEF PlanStands, LockingStands, ProposalStands, DecisionStands, RegistrationStands,
     SupersessionStands, WroteOnly
<1>. QED BY <1>4, <1>6, <1>7, <1>8, LockOnlyIs, DecideTypeOK, OneWriterKeepsPlans

LEMMA RegisterKeepsPlans ==
    ASSUME TypeOK, PlansStand, NEW w \in Writer, NEW a \in Assertion, RegisterEvidence(w, a)
    PROVE  PlansStand'
<1>1. LockOnly(w, "register", a)
  BY DEF RegisterEvidence
<1>2. /\ step'[w] = "writing" /\ UNCHANGED <<events, log>>
      /\ \A v \in Writer \ {w} : step'[v] = step[v]
  BY DEF RegisterEvidence, TypeOK, store
<1>3. req'[w].op = "register" /\ req'[w].on = a /\ req'[w].new = 0 /\ rows'[w] = {a} /\ todo'[w] = todo[w]
  BY <1>1, LockOnlyIs
<1>4. todo[w] = {} /\ \A b \in Assertion : log[w][b] = <<>>
  BY <1>1, LockOnlyIs, IdlePlansNothing
<1>5. PlanStands(w)'
  BY <1>2, <1>3, <1>4 DEF PlanStands, LockingStands, ProposalStands, DecisionStands, RegistrationStands,
     SupersessionStands, WroteOnly
<1>. QED BY <1>1, <1>2, <1>3, <1>5, LockOnlyIs, RegisterTypeOK, OneWriterKeepsPlans

LEMMA LockKeepsPlans ==
    ASSUME TypeOK, PlansStand, NEW w \in Writer, LockRow(w) \/ \E a \in Assertion : LockGraph(w, a)
    PROVE  PlansStand'
<1>1. TypeOK'
  BY LockTypeOK
<1>2. CASE LockRow(w)
  <2>1. PICK a \in todo[w] : /\ RowFree(w, a)
                             /\ todo' = [todo EXCEPT ![w] = @ \ {a}]
                             /\ rows' = [rows EXCEPT ![w] = @ \union {a}]
    BY <1>2 DEF LockRow
  <2>2. UNCHANGED <<events, step, req, log>>
    BY <1>2 DEF LockRow, store
  <2>3. /\ todo'[w] = todo[w] \ {a} /\ rows'[w] = rows[w] \union {a}
        /\ \A v \in Writer \ {w} : todo'[v] = todo[v] /\ rows'[v] = rows[v]
    BY <2>1 DEF TypeOK
  <2>4. CASE rows[w] \subseteq rows'[w] /\ todo[w] \union rows[w] = todo'[w] \union rows'[w]
    <3>1. step[w] = "locking" /\ req[w].op = "supersede"
      BY <2>1 DEF PlansStand, PlanStands, LockingStands
    <3>2. PlanStands(w)'
      <4>1. LockingStands(w)'
        BY <2>2, <2>4, <3>1 DEF PlansStand, PlanStands, LockingStands, WroteOnly
      <4>2. ProposalStands(w)' /\ RegistrationStands(w)' /\ DecisionStands(w)' /\ SupersessionStands(w)'
        BY <2>2, <3>1 DEF ProposalStands, RegistrationStands, DecisionStands, SupersessionStands
      <4>. QED BY <4>1, <4>2 DEF PlanStands
    <3>3. \A v \in Writer \ {w} : rows'[w] \intersect rows[v] = {}
      BY <2>1, <2>3 DEF RowFree, PlansStand, RowsExclusive
    <3>4. step'[w] \in Inserted /\ req'[w].new # 0 =>
             /\ events[req'[w].new] = <<>>
             /\ \A v \in Writer \ {w} : step[v] \in Inserted => req[v].new # req'[w].new
      BY <2>2 DEF PlansStand, KeysExclusive, KeyStands
    <3>. QED BY <1>1, <2>2, <2>3, <3>2, <3>3, <3>4, OneWriterKeepsPlans
  <2>. QED BY <2>1, <2>3, <2>4
<1>3. CASE \E a \in Assertion : LockGraph(w, a)
  <2>1. PICK a \in Assertion : LockGraph(w, a)
    BY <1>3
  <2>2. /\ step'[w] = "locking" /\ req'[w].op = "supersede" /\ req'[w].on = a /\ req'[w].new = 0
        /\ a \in todo'[w] /\ events[a] # <<>> /\ UNCHANGED <<events, rows, log>> /\ step[w] = "idle"
        /\ \A v \in Writer \ {w} : step'[v] = step[v] /\ req'[v] = req[v] /\ todo'[v] = todo[v]
    BY <2>1 DEF LockGraph, Ask, TypeOK, store
  <2>3. rows[w] = {} /\ \A b \in Assertion : log[w][b] = <<>>
    BY <2>2, IdlePlansNothing
  <2>4. PlanStands(w)'
    BY <2>2, <2>3 DEF PlanStands, LockingStands, ProposalStands, DecisionStands, RegistrationStands,
       SupersessionStands, WroteOnly
  <2>. QED BY <1>1, <2>2, <2>3, <2>4, OneWriterKeepsPlans
<1>. QED BY <1>2, <1>3

LEMMA ProposeKeepsPlans ==
    ASSUME TypeOK, PlansStand, NEW w \in Writer, NEW a \in Assertion, NEW actor \in Actor,
           Propose(w, a, actor)
    PROVE  PlansStand'
<1>1. PICK at : Write(w, a, Event("None", "Proposed", actor, at, NoSuccessor), "inserting")
  BY DEF Propose
<1>. DEFINE e == Event("None", "Proposed", actor, at, NoSuccessor)
<1>2. e.to = "Proposed"
  BY DEF Event
<1>3. step[w] = "idle" /\ UNCHANGED <<todo, rows>>
  BY DEF Propose
<1>4. rows[w] = {} /\ todo[w] = {} /\ \A b \in Assertion : log[w][b] = <<>> /\ Len(log[w][b]) = 0
  BY <1>3, IdlePlansNothing
<1>. HIDE DEF e
<1>5. /\ step'[w] = "inserting" /\ UNCHANGED events /\ Len(log'[w][a]) = 1 /\ log'[w][a][1] = e
      /\ \A b \in Assertion \ {a} : log'[w][b] = <<>>
      /\ \A v \in Writer \ {w} : step'[v] = step[v] /\ log'[v] = log[v]
  <2>1. Write(w, a, e, "inserting")
    BY <1>1 DEF e
  <2>. QED BY <2>1, <1>4, FirstWrite
<1>6. req'[w].op = "propose" /\ req'[w].new = a /\ \A v \in Writer \ {w} : req'[v] = req[v]
  BY DEF Propose, Ask, TypeOK
<1>7. PlanStands(w)'
  BY <1>2, <1>3, <1>4, <1>5, <1>6 DEF PlanStands, LockingStands, ProposalStands, DecisionStands, RegistrationStands,
     SupersessionStands, WroteOnly
<1>. QED BY <1>3, <1>4, <1>5, <1>6, <1>7, ProposeTypeOK, OneWriterKeepsPlans DEF Inserted

(* The successor is written after all that happened to the predecessor. *)
LEMMA SuccessorIs ==
    ASSUME TypeOK, RequestNamesRows, NEW w \in Writer, NEW new \in Assertion,
           NEW proposer \in Actor, NEW reviewer \in Operator, NEW n,
           PlanSuccessor(w, new, proposer, reviewer, n), ~ Refuse(w)
    PROVE  LET a == req[w].on IN
           /\ a \in Assertion /\ step[w] = "locking" /\ todo[w] = {}
           /\ MaySupersede(a, new, reviewer, n) /\ UNCHANGED <<todo, rows>>
           /\ req' = [req EXCEPT ![w] = Ask("supersede", a, new, reviewer)]
           /\ \E at \in Nat :
                 /\ Write(w, new, Event("None", "Proposed", proposer, at, NoSuccessor), "inserting")
                 /\ events[a][Len(events[a])].at < at
<1>. DEFINE a == req[w].on
            floor == Floor(w, new) \union {events[a][Len(events[a])].at}
<1>1. a \in Assertion /\ step[w] = "locking" /\ todo[w] = {}
  BY DEF PlanSuccessor, RequestNamesRows
<1>2. /\ MaySupersede(a, new, reviewer, n) /\ UNCHANGED <<todo, rows>>
      /\ req' = [req EXCEPT ![w] = Ask("supersede", a, new, reviewer)]
      /\ \E at \in Stamp(floor) :
            Write(w, new, Event("None", "Proposed", proposer, at, NoSuccessor), "inserting")
  BY DEF PlanSuccessor
<1>3. events[a] # <<>>
  BY <1>2, SourceExists DEF MaySupersede, Stands
<1>4. events[a][Len(events[a])].at \in Nat
  <2>1. events[a] \in Seq(EventType) /\ Len(events[a]) \in 1..Len(events[a])
    BY <1>1, <1>3 DEF TypeOK
  <2>. QED BY <2>1, EventTimes
<1>5. floor \in SUBSET Nat
  BY <1>4, FloorTimes
<1>6. PICK at \in Stamp(floor) :
        Write(w, new, Event("None", "Proposed", proposer, at, NoSuccessor), "inserting")
  BY <1>2
<1>7. at \in Nat /\ events[a][Len(events[a])].at < at
  <2>1. at \in Nat /\ at > events[a][Len(events[a])].at
    BY <1>5, StampAfter DEF TypeOK
  <2>. QED BY <2>1, <1>4
<1>. QED BY <1>1, <1>2, <1>6, <1>7

LEMMA PlanSuccessorKeepsPlans ==
    ASSUME TypeOK, RequestNamesRows, PlansStand, NEW w \in Writer, NEW new \in Assertion,
           NEW proposer \in Actor, NEW reviewer \in Operator, NEW n,
           PlanSuccessor(w, new, proposer, reviewer, n)
    PROVE  PlansStand'
<1>1. CASE Refuse(w)
  BY <1>1, RefuseKeepsPlans
<1>2. CASE ~ Refuse(w)
  <2>. DEFINE a == req[w].on
  <2>1. /\ a \in Assertion /\ step[w] = "locking" /\ todo[w] = {}
        /\ MaySupersede(a, new, reviewer, n) /\ UNCHANGED <<todo, rows>>
        /\ req' = [req EXCEPT ![w] = Ask("supersede", a, new, reviewer)]
    BY <1>2, SuccessorIs
  <2>2. PICK at \in Nat :
          /\ Write(w, new, Event("None", "Proposed", proposer, at, NoSuccessor), "inserting")
          /\ events[a][Len(events[a])].at < at
    BY <1>2, SuccessorIs
  <2>. DEFINE e == Event("None", "Proposed", proposer, at, NoSuccessor)
  <2>3. e.at = at
    BY DEF Event
  <2>4. a \in rows[w] /\ \A b \in Assertion : log[w][b] = <<>> /\ Len(log[w][b]) = 0
    <3>1. LockingStands(w)
      BY DEF PlansStand, PlanStands
    <3>2. \A b \in Assertion : log[w][b] = <<>>
      BY <2>1, <3>1 DEF LockingStands, WroteOnly
    <3>. QED BY <2>1, <3>1, <3>2 DEF LockingStands
  <2>5. a # new /\ events[new] = <<>> /\ <<StateOf(events[a]), "Superseded">> \in Matrix
    BY <2>1 DEF MaySupersede, Stands
  <2>6. /\ req'[w].op = "supersede" /\ req'[w].on = a /\ req'[w].new = new
        /\ \A v \in Writer \ {w} : req'[v] = req[v]
    BY <2>1 DEF Ask, TypeOK
  <2>. HIDE DEF e
  <2>7. /\ step'[w] = "inserting" /\ UNCHANGED events /\ Len(log'[w][new]) = 1 /\ log'[w][new][1] = e
        /\ \A b \in Assertion \ {new} : log'[w][b] = <<>>
        /\ \A v \in Writer \ {w} : step'[v] = step[v] /\ log'[v] = log[v]
    <3>1. Write(w, new, e, "inserting")
      BY <2>2 DEF e
    <3>. QED BY <3>1, <2>4, FirstWrite
  <2>. HIDE DEF a
  <2>8. PlanStands(w)'
    <3>1. LockingStands(w)' /\ ProposalStands(w)' /\ DecisionStands(w)' /\ RegistrationStands(w)'
      BY <2>1, <2>6, <2>7 DEF LockingStands, ProposalStands, DecisionStands, RegistrationStands
    <3>2. SupersessionStands(w)'
      BY <2>1, <2>2, <2>3, <2>4, <2>5, <2>6, <2>7 DEF SupersessionStands, WroteOnly
    <3>. QED BY <3>1, <3>2 DEF PlanStands
  <2>9. \A v \in Writer \ {w} : rows'[w] \intersect rows[v] = {}
    BY <2>1 DEF PlansStand, RowsExclusive
  <2>10. TypeOK'
    BY SuccessorTypeOK
  <2>. QED BY <2>1, <2>6, <2>7, <2>8, <2>9, <2>10, OneWriterKeepsPlans DEF Inserted
<1>. QED BY <1>1, <1>2

LEMMA InsertKeepsPlans ==
    ASSUME TypeOK, RequestNamesRows, PlansStand, NEW w \in Writer, InsertProposal(w)
    PROVE  PlansStand'
<1>1. CASE Refuse(w)
  BY <1>1, RefuseKeepsPlans
<1>2. CASE ~ Refuse(w)
  <2>1. /\ step[w] = "inserting" /\ events[req[w].new] = <<>>
        /\ \A v \in Writer \ {w} : step[v] \in Inserted => req[v].new # req[w].new
        /\ step' = [step EXCEPT ![w] = IF req[w].op = "propose" THEN "writing" ELSE "accepting"]
        /\ UNCHANGED <<events, req, todo, rows, log>>
    BY <1>2 DEF InsertProposal, store
  <2>2. /\ step'[w] = IF req[w].op = "propose" THEN "writing" ELSE "accepting"
        /\ \A v \in Writer \ {w} : step'[v] = step[v]
    BY <2>1 DEF TypeOK
  <2>3. req[w].op \in {"propose", "supersede"} /\ todo[w] = {}
    BY <2>1 DEF RequestNamesRows, PlansStand, PlanStands, LockingStands
  <2>4. PlanStands(w)'
    <3>0. PlanStands(w)
      BY DEF PlansStand
    <3>1. LockingStands(w)' /\ DecisionStands(w)' /\ RegistrationStands(w)'
      BY <2>1, <2>2, <2>3 DEF LockingStands, DecisionStands, RegistrationStands
    <3>2. ProposalStands(w)'
      BY <3>0, <2>1, <2>2, <2>3 DEF PlanStands, ProposalStands, WroteOnly
    <3>3. SupersessionStands(w)'
      <4>. SUFFICES ASSUME req[w].op = "supersede" PROVE SupersessionStands(w)'
        BY <2>1 DEF SupersessionStands
      <4>1. /\ SupersessionStands(w) /\ step[w] = "inserting" /\ step'[w] = "accepting"
            /\ req'[w] = req[w] /\ rows'[w] = rows[w] /\ log'[w] = log[w] /\ UNCHANGED events
        BY <3>0, <2>1, <2>2 DEF PlanStands
      <4>. QED BY <4>1 DEF SupersessionStands, WroteOnly
    <3>. QED BY <3>1, <3>2, <3>3 DEF PlanStands
  <2>5. \A v \in Writer \ {w} : rows'[w] \intersect rows[v] = {}
    BY <2>1 DEF PlansStand, RowsExclusive
  <2>6. TypeOK'
    BY InsertTypeOK
  <2>. QED BY <2>1, <2>2, <2>4, <2>5, <2>6, OneWriterKeepsPlans
<1>. QED BY <1>1, <1>2

LEMMA AcceptKeepsPlans ==
    ASSUME TypeOK, RequestNamesRows, PlansStand, NEW w \in Writer, AcceptSuccessor(w)
    PROVE  PlansStand'
<1>1. CASE Refuse(w)
  BY <1>1, RefuseKeepsPlans
<1>2. CASE ~ Refuse(w)
  <2>. DEFINE a == req[w].on
              new == req[w].new
  <2>1. PICK at : Write(w, new, Event("Proposed", "Accepted", req[w].by, at, NoSuccessor), "handing")
    BY <1>2 DEF AcceptSuccessor
  <2>2. step[w] = "accepting" /\ UNCHANGED <<req, todo, rows>> /\ new \in Assertion
    BY <1>2 DEF AcceptSuccessor, RequestNamesRows
  <2>. DEFINE e == Event("Proposed", "Accepted", req[w].by, at, NoSuccessor)
  <2>3. e.to = "Accepted"
    BY DEF Event
  <2>4. req[w].op = "supersede" /\ todo[w] = {} /\ SupersessionStands(w)
    <3>1. PlanStands(w)
      BY DEF PlansStand
    <3>2. req[w].op \notin {"none", "propose", "decide", "register"}
      BY <2>2, <3>1 DEF PlanStands, LockingStands, ProposalStands, DecisionStands, RegistrationStands
    <3>. QED BY <2>2, <3>1, <3>2 DEF PlanStands, LockingStands, TypeOK, RequestType
  <2>. HIDE DEF e
  <2>5. Len(log[w][new]) = 1
    BY <2>2, <2>4 DEF SupersessionStands
  <2>6. /\ step'[w] = "handing" /\ UNCHANGED events
        /\ Len(log'[w][new]) = Len(log[w][new]) + 1 /\ log'[w][new][Len(log[w][new]) + 1] = e
        /\ \A i \in 1..Len(log[w][new]) : log'[w][new][i] = log[w][new][i]
        /\ \A b \in Assertion \ {new} : log'[w][b] = log[w][b]
        /\ \A v \in Writer \ {w} : step'[v] = step[v] /\ log'[v] = log[v]
    <3>1. Write(w, new, e, "handing")
      BY <2>1 DEF e
    <3>. QED BY <2>2, <3>1, WriteIs
  <2>7. Len(log'[w][new]) = 2 /\ log'[w][new][2] = e /\ log'[w][new][1] = log[w][new][1]
    BY <2>5, <2>6
  <2>8. PlanStands(w)'
    <3>1. LockingStands(w)' /\ ProposalStands(w)' /\ DecisionStands(w)' /\ RegistrationStands(w)'
      BY <2>2, <2>4, <2>6 DEF LockingStands, ProposalStands, DecisionStands, RegistrationStands
    <3>2. SupersessionStands(w)'
      <4>1. /\ SupersessionStands(w) /\ step[w] = "accepting" /\ step'[w] = "handing"
            /\ req'[w] = req[w] /\ rows'[w] = rows[w] /\ UNCHANGED events
        BY <2>2, <2>4, <2>6
      <4>2. a # new /\ log'[w][a] = <<>>
        <5>1. a \in rows[w] /\ a # new /\ log[w][a] = <<>>
          BY <2>4, <4>1 DEF SupersessionStands
        <5>. QED BY <5>1, <2>6 DEF TypeOK
      <4>3. \A b \in Assertion \ {a, new} : log'[w][b] = <<>>
        BY <2>4, <2>6, <4>1 DEF SupersessionStands, WroteOnly
      <4>4. /\ a \in rows[w] /\ <<StateOf(events[a]), "Superseded">> \in Matrix
            /\ events[a][Len(events[a])].at < log[w][new][1].at
        BY <2>4, <4>1 DEF SupersessionStands
      <4>. QED BY <2>2, <2>3, <2>7, <4>1, <4>2, <4>3, <4>4 DEF SupersessionStands, WroteOnly
    <3>. QED BY <3>1, <3>2 DEF PlanStands
  <2>9. \A v \in Writer \ {w} : rows'[w] \intersect rows[v] = {}
    BY <2>2 DEF PlansStand, RowsExclusive
  <2>10. TypeOK' /\ events[new] = <<>>
    <3>1. new # 0
      BY <2>2, AssertionAssumption DEF NoSuccessor
    <3>. QED BY <2>2, <3>1, AcceptTypeOK DEF PlansStand, KeyStands, Inserted
  <2>11. new # 0 => \A v \in Writer \ {w} : step[v] \in Inserted => req[v].new # new
    BY <2>2 DEF PlansStand, KeysExclusive, Inserted
  <2>. QED BY <2>2, <2>6, <2>8, <2>9, <2>10, <2>11, OneWriterKeepsPlans
<1>. QED BY <1>1, <1>2

(* Who hands over serves a supersession whose rows it has. *)
LEMMA SupersedesWhenHanding ==
    ASSUME TypeOK, PlansStand, NEW w \in Writer, step[w] \in {"accepting", "handing"}
    PROVE  req[w].op = "supersede" /\ todo[w] = {} /\ SupersessionStands(w)
<1>1. PlanStands(w)
  BY DEF PlansStand
<1>2. req[w].op \notin {"none", "propose", "decide", "register"}
  BY <1>1 DEF PlanStands, LockingStands, ProposalStands, DecisionStands, RegistrationStands
<1>. QED BY <1>1, <1>2 DEF PlanStands, LockingStands, TypeOK, RequestType

LEMMA HandOverKeepsPlans ==
    ASSUME TypeOK, RequestNamesRows, LogOfSuccessor, PlansStand, NEW w \in Writer, HandOver(w)
    PROVE  PlansStand'
<1>1. CASE Refuse(w)
  BY <1>1, RefuseKeepsPlans
<1>2. CASE ~ Refuse(w)
  <2>. DEFINE a == req[w].on
              new == req[w].new
              floor == Floor(w, a) \union {log[w][new][2].at}
  <2>1. PICK at \in Stamp(floor) :
          Write(w, a, Event(StateOf(events[a]), "Superseded", req[w].by, at, new), "writing")
    BY <1>2 DEF HandOver
  <2>2. step[w] = "handing" /\ UNCHANGED <<req, todo, rows>> /\ a \in Assertion /\ new \in Assertion
    BY <1>2 DEF HandOver, RequestNamesRows
  <2>. DEFINE e == Event(StateOf(events[a]), "Superseded", req[w].by, at, new)
  <2>3. e.to = "Superseded" /\ e.succ = new /\ e.at = at
    BY DEF Event
  <2>4. req[w].op = "supersede" /\ todo[w] = {} /\ SupersessionStands(w)
    BY <2>2, SupersedesWhenHanding
  <2>5. /\ a \in rows[w] /\ a # new /\ log[w][a] = <<>> /\ Len(log[w][new]) = 2
        /\ <<StateOf(events[a]), "Superseded">> \in Matrix
        /\ events[a][Len(events[a])].at < log[w][new][1].at /\ log[w][new][2].to = "Accepted"
        /\ \A b \in Assertion \ {a, new} : log[w][b] = <<>>
    BY <2>2, <2>4 DEF SupersessionStands, WroteOnly
  <2>6. log[w][new][2].at < at
    <3>1. log[w][new] \in Seq(EventType) /\ 2 \in 1..Len(log[w][new])
      BY <2>2, <2>5 DEF TypeOK
    <3>2. log[w][new][2].at \in Nat
      BY <3>1, EventTimes
    <3>3. floor \in SUBSET Nat
      BY <2>2, <3>2, FloorTimes
    <3>4. at \in Nat /\ at > log[w][new][2].at
      BY <3>3, StampAfter DEF TypeOK
    <3>. QED BY <3>2, <3>4
  <2>. HIDE DEF e, floor
  <2>7. /\ step'[w] = "writing" /\ UNCHANGED events
        /\ Len(log'[w][a]) = Len(log[w][a]) + 1 /\ log'[w][a][Len(log[w][a]) + 1] = e
        /\ \A b \in Assertion \ {a} : log'[w][b] = log[w][b]
        /\ \A v \in Writer \ {w} : step'[v] = step[v] /\ log'[v] = log[v]
    <3>1. Write(w, a, e, "writing")
      BY <2>1 DEF e
    <3>. QED BY <2>2, <3>1, WriteIs
  <2>8. Len(log'[w][a]) = 1 /\ log'[w][a][1] = e
    <3>1. Len(log[w][a]) = 0
      BY <2>5
    <3>. QED BY <3>1, <2>7
  <2>9. PlanStands(w)'
    <3>1. LockingStands(w)' /\ ProposalStands(w)' /\ DecisionStands(w)' /\ RegistrationStands(w)'
      BY <2>2, <2>4, <2>7 DEF LockingStands, ProposalStands, DecisionStands, RegistrationStands
    <3>2. SupersessionStands(w)'
      <4>1. step'[w] = "writing" /\ req'[w] = req[w] /\ rows'[w] = rows[w] /\ UNCHANGED events
        BY <2>2, <2>7
      <4>2. log'[w][new] = log[w][new] /\ \A b \in Assertion \ {a, new} : log'[w][b] = <<>>
        BY <2>2, <2>5, <2>7
      <4>. QED BY <2>2, <2>3, <2>5, <2>6, <2>8, <4>1, <4>2 DEF SupersessionStands, WroteOnly
    <3>. QED BY <3>1, <3>2 DEF PlanStands
  <2>10. \A v \in Writer \ {w} : rows'[w] \intersect rows[v] = {}
    BY <2>2 DEF PlansStand, RowsExclusive
  <2>11. TypeOK' /\ events[new] = <<>>
    <3>1. new # 0
      BY <2>2, AssertionAssumption DEF NoSuccessor
    <3>. QED BY <2>2, <3>1, HandOverTypeOK DEF PlansStand, KeyStands, Inserted
  <2>12. new # 0 => \A v \in Writer \ {w} : step[v] \in Inserted => req[v].new # new
    BY <2>2 DEF PlansStand, KeysExclusive, Inserted
  <2>. QED BY <2>2, <2>7, <2>9, <2>10, <2>11, <2>12, OneWriterKeepsPlans
<1>. QED BY <1>1, <1>2

LEMMA LongerExists ==
    ASSUME NEW s \in Seq(EventType), NEW t \in Seq(EventType), s # <<>>
    PROVE  s \o t # <<>>
<1>1. Len(s) \in Nat /\ Len(s) # 0 /\ Len(t) \in Nat
  OBVIOUS
<1>2. Len(s \o t) = Len(s) + Len(t)
  OBVIOUS
<1>3. Len(s \o t) # 0
  BY <1>1, <1>2
<1>. QED BY <1>3

(* What a commit does to the streams: it adds the log of its transaction, which is
   empty but for the streams of the assertions its request is on. *)
LEMMA CommitIs ==
    ASSUME TypeOK, PlansStand, NEW w \in Writer, Commit(w), NEW b \in Assertion
    PROVE  /\ events'[b] = events[b] \o log[w][b]
           /\ events[b] # <<>> => events'[b] # <<>>
           /\ b \notin rows[w] /\ b # req[w].new => events'[b] = events[b]
           /\ b = req[w].new => events[b] = <<>>
<1>1. step[w] = "writing" /\ events'[b] = events[b] \o log[w][b]
  BY DEF Commit
<1>2. events[b] \in Seq(EventType) /\ log[w][b] \in Seq(EventType)
  BY DEF TypeOK
<1>3. PlanStands(w) /\ KeyStands(w)
  BY DEF PlansStand
<1>4. b \notin rows[w] /\ b # req[w].new => log[w][b] = <<>>
  <2>1. req[w].op \in {"propose", "decide", "register", "supersede"}
    BY <1>1, <1>3 DEF TypeOK, RequestType, PlanStands, LockingStands
  <2>. QED BY <1>1, <1>3, <2>1 DEF PlanStands, ProposalStands, DecisionStands, RegistrationStands,
              SupersessionStands, WroteOnly
<1>5. log[w][b] = <<>> => events'[b] = events[b]
  BY <1>1, <1>2
<1>6. events[b] # <<>> => events'[b] # <<>>
  BY <1>1, <1>2, LongerExists
<1>7. b = req[w].new => events[b] = <<>>
  <2>1. b # 0
    BY AssertionAssumption DEF NoSuccessor
  <2>. QED BY <1>1, <1>3, <2>1 DEF KeyStands, Inserted
<1>. QED BY <1>1, <1>4, <1>5, <1>6, <1>7

LEMMA CommitKeepsPlans ==
    ASSUME TypeOK, PlansStand, NEW w \in Writer, Commit(w)
    PROVE  PlansStand'
<1>1. step[w] = "writing" /\ Finish(w)
  BY DEF Commit
<1>2. /\ PlanStands(w)' /\ rows'[w] = {} /\ step'[w] = "idle"
      /\ \A v \in Writer \ {w} : /\ step'[v] = step[v] /\ req'[v] = req[v] /\ todo'[v] = todo[v]
                                 /\ rows'[v] = rows[v] /\ log'[v] = log[v]
  BY <1>1, FinishKeepsPlan
<1>3. RowsExclusive'
  BY <1>2 DEF PlansStand, RowsExclusive
<1>4. KeysExclusive'
  BY <1>2 DEF PlansStand, KeysExclusive, Inserted
<1>5. ASSUME NEW v \in Writer, v # w PROVE PlanStands(v)'
  <2>1. PlanStands(v)
    BY DEF PlansStand
  <2>2. ASSUME NEW b \in rows[v], events[b] # <<>> PROVE events'[b] = events[b]
    <3>1. b \in Assertion /\ b \notin rows[w]
      BY <1>5 DEF TypeOK, PlansStand, RowsExclusive
    <3>. QED BY <2>2, <3>1, CommitIs
  <2>3. \A b \in Assertion : events[b] # <<>> => events'[b] # <<>>
    BY CommitIs
  <2>. QED BY <1>2, <1>5, <2>1, <2>2, <2>3, PlanKept
<1>6. ASSUME NEW v \in Writer, v # w PROVE KeyStands(v)'
  <2>. SUFFICES ASSUME step[v] \in Inserted, req[v].new # 0 PROVE events'[req[v].new] = <<>>
    BY <1>2, <1>6 DEF KeyStands
  <2>1. req[v].new \in Assertion /\ events[req[v].new] = <<>>
    BY DEF TypeOK, RequestType, PlansStand, KeyStands
  <2>2. req[v].new # req[w].new
    BY <1>1, <1>6 DEF PlansStand, KeysExclusive, Inserted
  <2>3. log[w][req[v].new] = <<>>
    <3>1. PlanStands(w)
      BY DEF PlansStand
    <3>2. req[w].op \in {"propose", "decide", "register", "supersede"}
      BY <1>1, <3>1 DEF TypeOK, RequestType, PlanStands, LockingStands
    <3>3. req[w].op \in {"decide", "supersede"} => req[v].new # req[w].on
      BY <1>1, <2>1, <3>1, SourceExists DEF PlanStands, DecisionStands, SupersessionStands
    <3>. QED BY <1>1, <2>1, <2>2, <3>1, <3>2, <3>3 DEF PlanStands, ProposalStands, DecisionStands,
                RegistrationStands, SupersessionStands, WroteOnly
  <2>4. events'[req[v].new] = <<>> \o <<>>
    BY <2>1, <2>3 DEF Commit
  <2>. QED BY <2>4
<1>7. KeyStands(w)'
  BY <1>2 DEF KeyStands, Inserted
<1>. QED BY <1>2, <1>3, <1>4, <1>5, <1>6, <1>7 DEF PlansStand

(* Steps that touch neither a transaction nor a stream. *)
LEMMA QuietPlans ==
    ASSUME PlansStand, UNCHANGED <<events, step, req, todo, rows, log>>
    PROVE  PlansStand'
<1>1. RowsExclusive' /\ KeysExclusive'
  BY DEF PlansStand, RowsExclusive, KeysExclusive
<1>2. ASSUME NEW w \in Writer PROVE PlanStands(w)' /\ KeyStands(w)'
  <2>1. PlanStands(w) /\ KeyStands(w)
    BY DEF PlansStand
  <2>2. LockingStands(w)' /\ ProposalStands(w)'
    BY <2>1 DEF PlanStands, LockingStands, ProposalStands, WroteOnly
  <2>3. DecisionStands(w)' /\ RegistrationStands(w)'
    BY <2>1 DEF PlanStands, DecisionStands, RegistrationStands, WroteOnly
  <2>4. SupersessionStands(w)'
    BY <2>1 DEF PlanStands, SupersessionStands, WroteOnly
  <2>. QED BY <2>1, <2>2, <2>3, <2>4 DEF PlanStands, KeyStands
<1>. QED BY <1>1, <1>2 DEF PlansStand

LEMMA InitPlans == Init => PlansStand
<1>. SUFFICES ASSUME Init PROVE PlansStand
  OBVIOUS
<1>1. \A w \in Writer : step[w] = "idle" /\ rows[w] = {} /\ todo[w] = {} /\ req[w].op = "none"
                        /\ \A b \in Assertion : log[w][b] = <<>>
  BY DEF Init, NoRequest, Ask, Nothing
<1>. QED BY <1>1 DEF PlansStand, RowsExclusive, KeysExclusive, PlanStands, KeyStands, LockingStands,
            ProposalStands, DecisionStands, RegistrationStands, SupersessionStands, WroteOnly, Inserted

LEMMA NextKeepsPlans ==
    ASSUME AssertionInvariant, [Next]_vars
    PROVE  PlansStand'
<1>. USE DEF AssertionInvariant
<1>1. ASSUME NEW w \in Writer, Request(w) PROVE PlansStand'
  BY <1>1, DecideKeepsPlans, RegisterKeepsPlans, LockKeepsPlans, ProposeKeepsPlans DEF Request
<1>2. ASSUME NEW w \in Writer, Proceed(w) PROVE PlansStand'
  BY <1>2, LockKeepsPlans, PlanSuccessorKeepsPlans, InsertKeepsPlans, AcceptKeepsPlans,
     HandOverKeepsPlans, CommitKeepsPlans DEF Proceed
<1>3. ASSUME NEW w \in Writer, Abort(w) PROVE PlansStand'
  BY <1>3, RefuseKeepsPlans DEF Abort
<1>4. CASE BreakDeadlock
  BY <1>4, RefuseKeepsPlans, QuietPlans DEF BreakDeadlock, store, writers
<1>5. CASE \/ \E eligible \in EligibleSet : StagePublication(eligible)
           \/ InsertEdge \/ CommitPublication \/ AbortPublication \/ Tick \/ UNCHANGED vars
  BY <1>5, QuietPlans DEF StagePublication, InsertEdge, CommitPublication, AbortPublication, Tick,
     vars, store, writers
<1>. QED BY <1>1, <1>2, <1>3, <1>4, <1>5 DEF Next, Publish

-----------------------------------------------------------------------------
(* The inductive invariant holds in every reachable state: the types, the
   requests that name what their transactions write, the logs of supersessions, every
   time, committed or not, after the publications its transaction could see, and what
   each transaction has planned, which still stands when it goes on. *)
THEOREM Invariance == Spec => []AssertionInvariant
<1>1. Init => AssertionInvariant
  <2>1. Init => RequestNamesRows /\ LogOfSuccessor
    BY DEF Init, RequestNamesRows, LogOfSuccessor
  <2>. QED BY <2>1, InitTypeOK, InitTimes, InitPlans DEF AssertionInvariant
<1>2. AssertionInvariant /\ [Next]_vars => AssertionInvariant'
  BY NextTypeOK, NextKeepsRequests, NextKeepsTimes, NextKeepsPlans DEF AssertionInvariant
<1>. QED BY <1>1, <1>2, PTL DEF Spec

(* What was stamped after a publication had committed lies past its known_at, so the
   view as of a known_at only changes through transactions that were under way. *)
THEOREM PastIsClosed == Spec => []PublishedPastIsClosed
<1>1. AssertionInvariant => PublishedPastIsClosed
  BY DEF AssertionInvariant, TimesFollowPublications, AfterPublished, PublishedPastIsClosed
<1>. QED BY <1>1, Invariance, PTL

-----------------------------------------------------------------------------
(* What the commits do to the streams, and what nothing else does. *)

(* The entries of a stream after a commit are those it had, and those of the log. *)
LEMMA Extended ==
    ASSUME NEW s \in Seq(EventType), NEW t \in Seq(EventType)
    PROVE  /\ Len(s \o t) \in Nat /\ Len(s) \in Nat /\ Len(s \o t) >= Len(s)
           /\ \A i \in 1..Len(s) : (s \o t)[i] = s[i]
BY ConcatProperties, LenProperties

LEMMA OneMore ==
    ASSUME NEW s \in Seq(EventType), NEW t \in Seq(EventType), Len(t) = 1
    PROVE  /\ Len(s \o t) = Len(s) + 1 /\ (s \o t)[Len(s) + 1] = t[1]
           /\ s \o t # <<>> /\ StateOf(s \o t) = t[1].to
           /\ \A i \in 1..Len(s) : (s \o t)[i] = s[i]
<1>1. Len(s) \in Nat /\ Len(s \o t) = Len(s) + 1 /\ (s \o t)[Len(s) + 1] = t[1]
      /\ \A i \in 1..Len(s) : (s \o t)[i] = s[i]
  <2>1. Len(s) \in Nat /\ Len(s \o t) = Len(s) + 1
        /\ \A i \in 1..(Len(s) + 1) : (s \o t)[i] = IF i <= Len(s) THEN s[i] ELSE t[i - Len(s)]
    BY ConcatProperties, LenProperties
  <2>2. Len(s) + 1 \in 1..(Len(s) + 1) /\ ~ (Len(s) + 1 <= Len(s)) /\ Len(s) + 1 - Len(s) = 1
    BY <2>1
  <2>. QED BY <2>1, <2>2
<1>2. s \o t # <<>>
  <2>1. Len(s) + 1 # 0
    BY <1>1
  <2>2. Len(s \o t) # 0
    BY <1>1, <2>1
  <2>. QED BY <2>2
<1>. QED BY <1>1, <1>2 DEF StateOf

LEMMA FromNothing ==
    ASSUME NEW s \in Seq(EventType)
    PROVE  <<>> \o s = s
OBVIOUS

(* A proposal that is committed. *)
ProposesOne ==
    \E new \in Assertion :
        /\ events[new] = <<>> /\ StateOf(events'[new]) = "Proposed"
        /\ \A b \in Assertion \ {new} : events'[b] = events[b]

(* A transition that is committed. *)
DecidesOne ==
    \E a \in Assertion, to \in LifecycleState :
        /\ <<StateOf(events[a]), to>> \in Matrix /\ to # "Superseded"
        /\ StateOf(events'[a]) = to
        /\ \A b \in Assertion \ {a} : events'[b] = events[b]

(* A supersession that is committed. *)
SupersedesOne ==
    \E a, new \in Assertion :
        LET n == Len(events'[a])
            first == events'[new][1]
            second == events'[new][2] IN
        /\ a # new /\ events[new] = <<>> /\ <<StateOf(events[a]), "Superseded">> \in Matrix
        /\ StateOf(events'[a]) = "Superseded" /\ events'[a][n].succ = new
        /\ Len(events'[new]) = 2 /\ StateOf(events'[new]) = "Accepted" /\ second.to = "Accepted"
        /\ events'[a][n - 1].at < first.at /\ second.at < events'[a][n].at
        /\ \A b \in Assertion \ {a, new} : events'[b] = events[b]

LEMMA CommitCases ==
    ASSUME TypeOK, PlansStand, NEW w \in Writer, Commit(w)
    PROVE  UNCHANGED events \/ ProposesOne \/ DecidesOne \/ SupersedesOne
<1>. DEFINE a == req[w].on
            new == req[w].new
<1>0. step[w] = "writing" /\ events \in [Assertion -> Seq(EventType)]
      /\ events' = [b \in Assertion |-> events[b] \o log[w][b]]
      /\ \A b \in Assertion : log[w][b] \in Seq(EventType)
  BY DEF Commit, TypeOK
<1>1. PlanStands(w)
  BY DEF PlansStand
<1>2. req[w].op \in {"propose", "decide", "register", "supersede"}
  BY <1>0, <1>1 DEF TypeOK, RequestType, PlanStands, LockingStands
<1>3. ASSUME NEW b \in Assertion, log[w][b] = <<>> PROVE events'[b] = events[b]
  BY <1>0, <1>3
<1>4. new \in Assertion => events[new] = <<>>
  BY CommitIs
<1>5. CASE req[w].op = "propose"
  <2>1. new \in Assertion /\ Len(log[w][new]) = 1 /\ log[w][new][1].to = "Proposed"
        /\ \A b \in Assertion \ {new} : log[w][b] = <<>>
    BY <1>1, <1>5 DEF PlanStands, ProposalStands, WroteOnly
  <2>2. events'[new] = events[new] \o log[w][new]
    BY <1>0, <2>1
  <2>3. StateOf(events'[new]) = "Proposed"
    BY <1>0, <2>1, <2>2, OneMore
  <2>4. \A b \in Assertion \ {new} : events'[b] = events[b]
    BY <1>3, <2>1
  <2>. QED BY <1>4, <2>1, <2>3, <2>4 DEF ProposesOne
<1>6. CASE req[w].op = "decide"
  <2>1. /\ a \in Assertion /\ Len(log[w][a]) = 1 /\ log[w][a][1].to # "Superseded"
        /\ <<StateOf(events[a]), log[w][a][1].to>> \in Matrix
        /\ \A b \in Assertion \ {a} : log[w][b] = <<>>
    BY <1>1, <1>6 DEF PlanStands, DecisionStands, WroteOnly, TypeOK
  <2>2. events'[a] = events[a] \o log[w][a]
    BY <1>0, <2>1
  <2>3. StateOf(events'[a]) = log[w][a][1].to
    BY <1>0, <2>1, <2>2, OneMore
  <2>4. \A b \in Assertion \ {a} : events'[b] = events[b]
    BY <1>3, <2>1
  <2>5. log[w][a][1].to \in LifecycleState
    <3>1. log[w][a][1] \in EventType
      BY <1>0, <2>1
    <3>. QED BY <3>1 DEF EventType
  <2>. QED BY <2>1, <2>3, <2>4, <2>5 DEF DecidesOne
<1>7. CASE req[w].op = "register"
  <2>1. \A b \in Assertion : events'[b] = events[b]
    BY <1>1, <1>3, <1>7 DEF PlanStands, RegistrationStands, WroteOnly
  <2>. QED BY <1>0, <2>1
<1>8. CASE req[w].op = "supersede"
  <2>1. /\ a \in Assertion /\ new \in Assertion /\ a # new
        /\ <<StateOf(events[a]), "Superseded">> \in Matrix
        /\ Len(log[w][new]) = 2 /\ log[w][new][2].to = "Accepted"
        /\ events[a][Len(events[a])].at < log[w][new][1].at
        /\ Len(log[w][a]) = 1 /\ log[w][a][1].to = "Superseded" /\ log[w][a][1].succ = new
        /\ log[w][new][2].at < log[w][a][1].at
        /\ \A b \in Assertion \ {a, new} : log[w][b] = <<>>
    BY <1>0, <1>1, <1>8 DEF PlanStands, SupersessionStands, WroteOnly, TypeOK
  <2>2. events'[new] = log[w][new]
    BY <1>0, <1>4, <2>1, FromNothing
  <2>3. StateOf(events'[new]) = "Accepted"
    <3>1. log[w][new] # <<>>
      BY <2>1
    <3>. QED BY <2>1, <2>2, <3>1 DEF StateOf
  <2>4. events'[a] = events[a] \o log[w][a]
    BY <1>0, <2>1
  <2>5. /\ StateOf(events'[a]) = "Superseded" /\ Len(events'[a]) = Len(events[a]) + 1
        /\ events'[a][Len(events[a]) + 1] = log[w][a][1]
        /\ \A i \in 1..Len(events[a]) : events'[a][i] = events[a][i]
    <3>. DEFINE s == events[a]
                t == log[w][a]
    <3>1. s \in Seq(EventType) /\ t \in Seq(EventType) /\ Len(t) = 1
      BY <1>0, <2>1
    <3>2. events'[a] = s \o t /\ t[1].to = "Superseded"
      BY <2>1, <2>4
    <3>. HIDE DEF s, t
    <3>3. /\ Len(s \o t) = Len(s) + 1 /\ (s \o t)[Len(s) + 1] = t[1] /\ StateOf(s \o t) = t[1].to
          /\ \A i \in 1..Len(s) : (s \o t)[i] = s[i]
      BY <3>1, OneMore
    <3>. QED BY <3>2, <3>3 DEF s, t
  <2>6. Len(events[a]) \in Nat /\ Len(events[a]) \in 1..Len(events[a])
    BY <1>0, <2>1, SourceExists
  <2>7. events'[a][Len(events[a])] = events[a][Len(events[a])] /\ Len(events'[a]) - 1 = Len(events[a])
    BY <2>5, <2>6
  <2>8. \A b \in Assertion \ {a, new} : events'[b] = events[b]
    BY <1>3, <2>1
  <2>9. events[new] = <<>> /\ Len(events'[new]) = 2 /\ events'[new][2].to = "Accepted"
    BY <1>4, <2>1, <2>2
  <2>10. /\ events'[a][Len(events'[a])].succ = new
         /\ events'[a][Len(events'[a]) - 1].at < events'[new][1].at
         /\ events'[new][2].at < events'[a][Len(events'[a])].at
    BY <2>1, <2>2, <2>5, <2>7
  <2>. HIDE DEF a, new
  <2>11. SupersedesOne
    BY <2>1, <2>3, <2>5, <2>8, <2>9, <2>10 DEF SupersedesOne
  <2>. QED BY <2>11
<1>. QED BY <1>2, <1>5, <1>6, <1>7, <1>8

(* Streams change when a transaction commits, and only grow. *)
LEMMA StreamsGrow ==
    ASSUME AssertionInvariant, [Next]_vars
    PROVE  /\ UNCHANGED events \/ ProposesOne \/ DecidesOne \/ SupersedesOne
           /\ \A a \in Assertion : /\ Len(events'[a]) \in Nat /\ Len(events[a]) \in Nat
                                   /\ Len(events'[a]) >= Len(events[a])
                                   /\ \A i \in 1..Len(events[a]) : events'[a][i] = events[a][i]
<1>. USE DEF AssertionInvariant
<1>1. ASSUME NEW w \in Writer, Commit(w)
      PROVE  \A a \in Assertion : /\ Len(events'[a]) \in Nat /\ Len(events[a]) \in Nat
                                  /\ Len(events'[a]) >= Len(events[a])
                                  /\ \A i \in 1..Len(events[a]) : events'[a][i] = events[a][i]
  BY <1>1, Extended DEF Commit, TypeOK
<1>2. ASSUME ~ \E w \in Writer : Commit(w) PROVE UNCHANGED events
  <2>1. ASSUME NEW w \in Writer, Request(w) PROVE UNCHANGED events
    BY <2>1 DEF Request, Decide, RegisterEvidence, LockGraph, Propose, Write, store
  <2>2. ASSUME NEW w \in Writer, Refuse(w) PROVE UNCHANGED events
    BY <2>2 DEF Refuse, store
  <2>3. ASSUME NEW w \in Writer, Proceed(w) PROVE UNCHANGED events
    BY <1>2, <2>2, <2>3 DEF Proceed, LockRow, PlanSuccessor, InsertProposal, AcceptSuccessor, HandOver, Write, store
  <2>4. CASE BreakDeadlock \/ \E w \in Writer : Abort(w)
    BY <2>2, <2>4 DEF BreakDeadlock, Abort, store
  <2>5. CASE \/ \E eligible \in EligibleSet : StagePublication(eligible)
             \/ InsertEdge \/ CommitPublication \/ AbortPublication \/ Tick \/ UNCHANGED vars
    BY <2>5 DEF StagePublication, InsertEdge, CommitPublication, AbortPublication, Tick, vars, store
  <2>. QED BY <2>1, <2>3, <2>4, <2>5 DEF Next, Publish
<1>3. CASE UNCHANGED events
  BY <1>3, Extended DEF TypeOK
<1>4. CASE \E w \in Writer : Commit(w)
  <2>1. PICK w \in Writer : Commit(w)
    BY <1>4
  <2>2. UNCHANGED events \/ ProposesOne \/ DecidesOne \/ SupersedesOne
    <3>1. TypeOK /\ PlansStand
      OBVIOUS
    <3>. HIDE DEF AssertionInvariant
    <3>. QED BY <2>1, <3>1, CommitCases
  <2>. QED BY <1>1, <2>1, <2>2
<1>. QED BY <1>2, <1>3, <1>4

(* No stream has been superseded when the database starts, and none without a
   successor that has a row. *)
SuccessorsExist == \A a \in Assertion : Superseded(a) => Successor(a) \in Assertion

LEMMA NothingSupersededAtFirst ==
    ASSUME Init, NEW a \in Assertion
    PROVE  ~ Superseded(a)
<1>1. events[a] \in Seq(EventType) /\ Resolves(events[a])
      /\ \A i \in DOMAIN events[a] : events[a][i].succ = NoSuccessor
  BY SeedAssumption DEF Init
<1>. DEFINE s == events[a]
            n == Len(s)
<1>2. CASE s = <<>>
  BY <1>2 DEF Superseded, StateOf
<1>3. CASE s # <<>>
  <2>1. n \in Nat /\ n >= 1 /\ DOMAIN s = 1..n
    BY <1>1, <1>3
  <2>2. CASE n = 1
    <3>1. s[1].to = "Proposed"
      BY <1>1, <1>3 DEF Resolves, Opens
    <3>. QED BY <1>3, <2>2, <3>1 DEF Superseded, StateOf
  <2>3. CASE n >= 2
    <3>1. n \in 2..Len(s) /\ n \in DOMAIN s
      BY <2>1, <2>3
    <3>2. Follows(s[n - 1], s[n], s[1].actor) /\ s[n].succ = NoSuccessor
      BY <1>1, <3>1 DEF Resolves
    <3>3. s[n].to # "Superseded"
      BY <3>2 DEF Follows
    <3>. QED BY <1>3, <3>3 DEF Superseded, StateOf
  <2>4. n = 1 \/ n >= 2
    <3>. HIDE DEF n
    <3>. QED BY <2>1
  <2>. QED BY <2>2, <2>3, <2>4
<1>. QED BY <1>2, <1>3

(* A supersession leaves no gap, for any stream that is superseded after a commit. *)
LEMMA NextKeepsHandover ==
    ASSUME AssertionInvariant, HandoverHasNoGap, SuccessorsExist, [Next]_vars
    PROVE  HandoverHasNoGap' /\ SuccessorsExist'
<1>1. ASSUME NEW a \in Assertion, Superseded(a), events'[a] = events[a]
      PROVE  /\ Successor(a)' \in Assertion /\ Successor(a)' = Successor(a)
             /\ events'[Successor(a)][1] = events[Successor(a)][1]
             /\ events'[Successor(a)][2] = events[Successor(a)][2]
             /\ Len(events'[Successor(a)]) >= 2
  <2>1. Successor(a) \in Assertion /\ Len(events[Successor(a)]) >= 2
    BY <1>1 DEF HandoverHasNoGap, SuccessorsExist
  <2>2. Successor(a)' = Successor(a)
    BY <1>1 DEF Successor, Superseded
  <2>. HIDE DEF Successor
  <2>3. /\ Len(events'[Successor(a)]) \in Nat /\ Len(events[Successor(a)]) \in Nat
        /\ Len(events'[Successor(a)]) >= Len(events[Successor(a)])
        /\ \A i \in 1..Len(events[Successor(a)]) : events'[Successor(a)][i] = events[Successor(a)][i]
    BY <2>1, StreamsGrow
  <2>4. 1 \in 1..Len(events[Successor(a)]) /\ 2 \in 1..Len(events[Successor(a)])
        /\ Len(events'[Successor(a)]) >= 2
    BY <2>1, <2>3
  <2>. QED BY <2>1, <2>2, <2>3, <2>4
<1>. DEFINE Handed(a) ==
       LET new == events[Successor(a)]
           n == Len(events[a])
       IN  /\ Len(new) >= 2 /\ new[2].to = "Accepted"
           /\ events[a][n - 1].at < new[1].at /\ new[2].at < events[a][n].at
<1>2. SUFFICES ASSUME NEW a \in Assertion, Superseded(a)'
               PROVE  Handed(a)' /\ Successor(a)' \in Assertion
  BY DEF HandoverHasNoGap, SuccessorsExist
<1>3. CASE events'[a] = events[a]
  <2>1. Superseded(a)
    BY <1>2, <1>3 DEF Superseded
  <2>2. Handed(a)
    BY <2>1 DEF HandoverHasNoGap
  <2>. QED BY <1>1, <1>3, <2>1, <2>2
<1>4. CASE events'[a] # events[a]
  <2>1. ~ ProposesOne /\ ~ DecidesOne
    BY <1>2, <1>4 DEF ProposesOne, DecidesOne, Superseded
  <2>2. SupersedesOne
    BY <1>4, <2>1, StreamsGrow
  <2>3. PICK b \in Assertion, new \in Assertion :
          LET n == Len(events'[b])
              first == events'[new][1]
              second == events'[new][2] IN
          /\ b # new
          /\ StateOf(events'[b]) = "Superseded" /\ events'[b][n].succ = new
          /\ Len(events'[new]) = 2 /\ StateOf(events'[new]) = "Accepted" /\ second.to = "Accepted"
          /\ events'[b][n - 1].at < first.at /\ second.at < events'[b][n].at
          /\ \A c \in Assertion \ {b, new} : events'[c] = events[c]
    BY <2>2 DEF SupersedesOne
  <2>4. a = b
    BY <1>2, <1>4, <2>3 DEF Superseded
  <2>5. Successor(a)' = new
    BY <1>2, <2>3, <2>4 DEF Successor
  <2>. QED BY <2>3, <2>4, <2>5
<1>. QED BY <1>3, <1>4

(* However the transactions of writers overlap, a reader who sees an assertion
   superseded sees its successor accepted, and stamped between the last event of the
   predecessor before its supersession and the supersession: supersede_atomic leaves
   no instant without a determination. *)
THEOREM HandoverIsComplete == Spec => []HandoverHasNoGap
<1>. DEFINE Complete == HandoverHasNoGap /\ SuccessorsExist
<1>1. Init => Complete
  BY NothingSupersededAtFirst DEF HandoverHasNoGap, SuccessorsExist
<1>2. AssertionInvariant /\ Complete /\ [Next]_vars => Complete'
  BY NextKeepsHandover
<1>3. Complete => HandoverHasNoGap
  OBVIOUS
<1>. HIDE DEF Complete
<1>. QED BY <1>1, <1>2, <1>3, Invariance, PTL DEF Spec

-----------------------------------------------------------------------------
(* The refinement of AssertionBook. *)

LEMMA InitBook == Init => Book!BookInit
<1>. SUFFICES ASSUME Init PROVE Book!BookInit
  OBVIOUS
<1>1. \A a \in Assertion : StateOf(events[a]) \in LifecycleState \union {"None"}
  BY InitTypeOK, StateOfType DEF TypeOK
<1>2. \A a \in Assertion : Successor(a) = NoSuccessor
  BY NothingSupersededAtFirst DEF Successor
<1>. QED BY <1>1, <1>2 DEF Book!BookInit, Book!LifecycleState, Book!NoSuccessor, LifecycleState, NoSuccessor

LEMMA NextBook ==
    ASSUME AssertionInvariant, [Next]_vars
    PROVE  [Book!BookNext]_(Book!bookVars)
<1>. DEFINE state == [a \in Assertion |-> StateOf(events[a])]
            successor == [a \in Assertion |-> Successor(a)]
<1>0. \A a \in Assertion : events'[a] = events[a] =>
        StateOf(events'[a]) = StateOf(events[a]) /\ Successor(a)' = Successor(a)
  BY DEF Successor, Superseded
<1>1. CASE UNCHANGED events
  BY <1>0, <1>1 DEF Book!bookVars
<1>2. CASE ProposesOne
  <2>1. PICK new \in Assertion :
          /\ events[new] = <<>> /\ StateOf(events'[new]) = "Proposed"
          /\ \A b \in Assertion \ {new} : events'[b] = events[b]
    BY <1>2 DEF ProposesOne
  <2>2. StateOf(events[new]) = "None" /\ Successor(new)' = NoSuccessor /\ Successor(new) = NoSuccessor
    BY <2>1 DEF StateOf, Successor, Superseded
  <2>3. state' = [state EXCEPT ![new] = "Proposed"]
    BY <1>0, <2>1
  <2>4. successor' = successor
    BY <1>0, <2>1, <2>2
  <2>5. Book!Propose(new)
    BY <2>2, <2>3, <2>4 DEF Book!Propose
  <2>. QED BY <2>5 DEF Book!BookNext
<1>3. CASE DecidesOne
  <2>1. PICK a \in Assertion, to \in LifecycleState :
          /\ <<StateOf(events[a]), to>> \in Matrix /\ to # "Superseded"
          /\ StateOf(events'[a]) = to
          /\ \A b \in Assertion \ {a} : events'[b] = events[b]
    BY <1>3 DEF DecidesOne
  <2>2. Successor(a)' = NoSuccessor /\ Successor(a) = NoSuccessor
    BY <2>1, SourceExists DEF Successor, Superseded
  <2>3. state' = [state EXCEPT ![a] = to]
    BY <1>0, <2>1
  <2>4. successor' = successor
    BY <1>0, <2>1, <2>2
  <2>5. Book!Decide(a, to) /\ to \in Book!LifecycleState
    BY <2>1, <2>3, <2>4 DEF Book!Decide, Book!Matrix, Matrix, Book!LifecycleState, LifecycleState
  <2>. QED BY <2>5 DEF Book!BookNext
<1>4. CASE SupersedesOne
  <2>1. PICK a \in Assertion, new \in Assertion :
          /\ a # new /\ events[new] = <<>> /\ <<StateOf(events[a]), "Superseded">> \in Matrix
          /\ StateOf(events'[a]) = "Superseded" /\ events'[a][Len(events'[a])].succ = new
          /\ StateOf(events'[new]) = "Accepted"
          /\ \A b \in Assertion \ {a, new} : events'[b] = events[b]
    BY <1>4 DEF SupersedesOne
  <2>2. /\ StateOf(events[new]) = "None" /\ Successor(a)' = new
        /\ Successor(new)' = NoSuccessor /\ Successor(new) = NoSuccessor
    BY <2>1 DEF StateOf, Successor, Superseded
  <2>3. state' = [state EXCEPT ![a] = "Superseded", ![new] = "Accepted"]
    BY <1>0, <2>1
  <2>4. successor' = [successor EXCEPT ![a] = new]
    BY <1>0, <2>1, <2>2
  <2>5. Book!Supersede(a, new)
    BY <2>1, <2>2, <2>3, <2>4 DEF Book!Supersede, Book!Matrix, Matrix
  <2>. QED BY <2>5 DEF Book!BookNext
<1>. QED BY <1>1, <1>2, <1>3, <1>4, StreamsGrow

(* The transactions of all processes together implement AssertionBook: every commit
   proposes one assertion, moves one along the matrix, or supersedes one by a new one
   that is accepted in the same step; no other step can be seen in the book. *)
THEOREM Refinement == Spec => ImplementsBook
<1>1. AssertionInvariant /\ [Next]_vars => [Book!BookNext]_(Book!bookVars)
  BY NextBook
<1>. QED BY <1>1, InitBook, Invariance, PTL DEF Spec, ImplementsBook, Book!BookSpec

=============================================================================
