--------------------------- MODULE RuntimeReads_proofs ---------------------------
(***************************************************************************)
(* What a backend process guarantees about the graph it serves, and what a *)
(* read answers with, for any number of requests, rebuilds and foreign     *)
(* publications.  The process comes first; the reads refine it.            *)
(***************************************************************************)
EXTENDS RuntimeReads, SequenceTheorems, TLAPS

(* The work list of the executor. *)
LEMMA QueueOps ==
    ASSUME queue \in Seq(Request)
    PROVE  /\ \A q \in Request : Append(queue, q) \in Seq(Request)
           /\ queue # <<>> => Tail(queue) \in Seq(Request)
OBVIOUS

(* What synchronize_runtime_graph leaves in graph_state. *)
LEMMA PublishedTypes ==
    ASSUME TypeOK, NEW n \in Nat, NEW m \in Nat,
           Published(Persisted(m), n) \/ Published(Raw(m), n)
    PROVE  graph' \in GraphType /\ lifecycle' \in LifecycleState /\ synced' \in Nat
<1>1. Persisted(m) \in GraphType /\ Raw(m) \in GraphType
  BY DEF Persisted, Raw, GraphType
<1>2. lifecycle' \in LifecycleState
  BY DEF TypeOK, Published, LifecycleState
<1>. QED BY <1>1, <1>2 DEF Published

-----------------------------------------------------------------------------
(* Type correctness, one step per process. *)

LEMMA InitTypeOK == Init => TypeOK
BY DEF Init, TypeOK, LifecycleState, GraphType, NoGraph, Persisted, SyncIdle, SyncStep

LEMMA StartTypeOK ==
    ASSUME TypeOK, BootLoad \/ BootLabel \/ Shutdown \/ Restart \/ OtherPublishes
    PROVE  TypeOK'
<1>. USE DEF TypeOK, LifecycleState, state, requests
<1>1. CASE BootLoad
  BY <1>1 DEF BootLoad
<1>2. CASE BootLabel
  BY <1>2 DEF BootLabel, Persisted, GraphType
<1>3. CASE Shutdown
  BY <1>3 DEF Shutdown
<1>4. CASE Restart
  <2>1. /\ handler' \in [Request -> {"new", "waiting", "done"} \union Outcome]
        /\ work' \in [Request -> {"none", "queued", "committed", "published", "over"}
                                 \union Outcome]
    BY <1>4 DEF Restart
  <2>2. queue' \in Seq(Request)
    BY <1>4 DEF Restart
  <2>3. sync' \in [at : SyncStep, latest : Nat, expected : Nat, loaded : Nat]
    BY <1>4 DEF Restart, SyncIdle, SyncStep
  <2>. QED BY <1>4, <2>1, <2>2, <2>3 DEF Restart, NoGraph, Persisted, GraphType
<1>5. CASE OtherPublishes
  BY <1>5 DEF OtherPublishes
<1>. QED BY <1>1, <1>2, <1>3, <1>4, <1>5

LEMMA HandlerTypeOK ==
    ASSUME TypeOK, NEW q \in Request,
           Claim(q) \/ OnDone(q) \/ Resume(q) \/ Refuse(q) \/ Disconnect(q)
    PROVE  TypeOK'
<1>. USE DEF TypeOK, LifecycleState, CompleteRebuild, Leave, state
<1>1. CASE Claim(q)
  <2>1. queue' \in Seq(Request)
    BY <1>1, QueueOps DEF Claim, BeginRebuild
  <2>. QED BY <1>1, <2>1 DEF Claim, BeginRebuild
<1>2. CASE OnDone(q)
  BY <1>2 DEF OnDone, Outcome
<1>3. CASE Resume(q)
  BY <1>3 DEF Resume
<1>4. CASE Refuse(q)
  BY <1>4 DEF Refuse
<1>5. CASE Disconnect(q)
  BY <1>5 DEF Disconnect
<1>. QED BY <1>1, <1>2, <1>3, <1>4, <1>5

LEMMA WorkTypeOK ==
    ASSUME TypeOK, NEW q \in Request, Work(q)
    PROVE  TypeOK'
<1>. USE DEF TypeOK, Running, Finish, state
<1>1. CASE WorkFail(q)
  <2>1. queue' \in Seq(Request)
    BY <1>1, QueueOps DEF WorkFail
  <2>. QED BY <1>1, <2>1 DEF WorkFail, Outcome
<1>2. CASE WorkCommit(q)
  BY <1>2 DEF WorkCommit
<1>3. CASE WorkPublish(q)
  <2>1. queue' \in Seq(Request)
    BY <1>3, QueueOps DEF WorkPublish
  <2>2. graph' \in GraphType /\ lifecycle' \in LifecycleState /\ synced' \in Nat
    <3>1. CASE Accepts(synced)
      BY <1>3, <3>1, PublishedTypes DEF WorkPublish
    <3>2. CASE ~Accepts(synced)
      BY <1>3, <3>2 DEF WorkPublish
    <3>. QED BY <3>1, <3>2
  <2>3. work' \in [Request -> {"none", "queued", "committed", "published", "over"}
                              \union Outcome]
    BY <1>3 DEF WorkPublish, Outcome
  <2>. QED BY <1>3, <2>1, <2>2, <2>3 DEF WorkPublish
<1>4. CASE WorkPublishBuilt(q)
  <2>1. queue' \in Seq(Request)
    BY <1>4, QueueOps DEF WorkPublishBuilt
  <2>2. graph' \in GraphType /\ lifecycle' \in LifecycleState /\ synced' \in Nat
    <3>1. CASE Accepts(synced)
      BY <1>4, <3>1, PublishedTypes DEF WorkPublishBuilt
    <3>2. CASE ~Accepts(synced)
      BY <1>4, <3>2 DEF WorkPublishBuilt
    <3>. QED BY <3>1, <3>2
  <2>3. work' \in [Request -> {"none", "queued", "committed", "published", "over"}
                              \union Outcome]
    BY <1>4 DEF WorkPublishBuilt, Outcome
  <2>. QED BY <1>4, <2>1, <2>2, <2>3 DEF WorkPublishBuilt
<1>. QED BY <1>1, <1>2, <1>3, <1>4 DEF Work

LEMMA SyncTypeOK ==
    ASSUME TypeOK, Sync \/ SyncError
    PROVE  TypeOK'
<1>. DEFINE SyncLocals == [at : SyncStep, latest : Nat, expected : Nat, loaded : Nat]
<1>1. SyncIdle \in SyncLocals
  BY DEF SyncIdle, SyncStep
<1>. USE <1>1 DEF TypeOK, state, requests
<1>2. CASE SyncLook
  BY <1>2 DEF SyncLook, SyncAt, SyncStep
<1>3. CASE SyncQuery
  <2>. sync' \in SyncLocals
    BY <1>3 DEF SyncQuery, SyncAt, SyncStep
  <2>. QED BY <1>3 DEF SyncQuery
<1>4. CASE SyncExpect
  <2>. sync' \in SyncLocals
    BY <1>4 DEF SyncExpect, SyncAt, SyncStep
  <2>. QED BY <1>4 DEF SyncExpect
<1>5. CASE SyncLoad
  BY <1>5 DEF SyncLoad, SyncAt, SyncStep
<1>6. CASE SyncError
  BY <1>6 DEF SyncError
<1>7. CASE SyncPublish
  <2>1. graph' \in GraphType /\ lifecycle' \in LifecycleState /\ synced' \in Nat
    <3>1. CASE Accepts(sync.expected)
      BY <1>7, <3>1, PublishedTypes DEF SyncPublish
    <3>2. CASE ~Accepts(sync.expected)
      BY <1>7, <3>2 DEF SyncPublish
    <3>. QED BY <3>1, <3>2
  <2>. QED BY <1>7, <2>1 DEF SyncPublish
<1>. QED BY <1>2, <1>3, <1>4, <1>5, <1>6, <1>7 DEF Sync

LEMMA NextTypeOK == TypeOK /\ [Next]_vars => TypeOK'
<1>1. ASSUME TypeOK, UNCHANGED vars PROVE TypeOK'
  BY <1>1 DEF TypeOK, vars
<1>. QED BY <1>1, StartTypeOK, HandlerTypeOK, WorkTypeOK, SyncTypeOK DEF Next, Handle

-----------------------------------------------------------------------------
(* Startup is over before anything else starts. *)
LEMMA NextStartsAlone == TypeOK /\ StartsAlone /\ [Next]_vars => StartsAlone'
<1>. SUFFICES ASSUME TypeOK, StartsAlone, [Next]_vars
              PROVE  StartsAlone'
  OBVIOUS
<1>. USE DEF StartsAlone, state, requests
<1>1. CASE BootLoad \/ BootLabel \/ Shutdown \/ Restart \/ OtherPublishes
  BY <1>1 DEF BootLoad, BootLabel, Shutdown, Restart, OtherPublishes, SyncIdle
<1>2. ASSUME NEW q \in Request, Claim(q) \/ OnDone(q) \/ Resume(q) \/ Refuse(q) \/ Disconnect(q)
      PROVE  StartsAlone'
  BY <1>2 DEF Claim, BeginRebuild, OnDone, Resume, Refuse, Disconnect, Leave, CompleteRebuild
<1>3. ASSUME NEW q \in Request, Work(q)
      PROVE  StartsAlone'
  BY <1>3 DEF Work, WorkFail, WorkCommit, WorkPublish, WorkPublishBuilt, Running,
              Published, Accepts, Finish
<1>4. CASE SyncLook \/ SyncQuery \/ SyncExpect \/ SyncLoad \/ SyncError
  BY <1>4 DEF SyncLook, SyncQuery, SyncExpect, SyncLoad, SyncError, SyncIdle
<1>5. CASE SyncPublish
  BY <1>5 DEF SyncPublish, Published, SyncIdle
<1>6. CASE UNCHANGED vars
  BY <1>6 DEF vars
<1>. QED BY <1>1, <1>2, <1>3, <1>4, <1>5, <1>6 DEF Next, Sync, Handle

(* Nobody holds a graph that is not durable. *)
LEMMA NextNothingNewer == TypeOK /\ NothingNewer /\ SyncKnows /\ [Next]_vars => NothingNewer'
<1>. SUFFICES ASSUME TypeOK, NothingNewer, SyncKnows, [Next]_vars
              PROVE  NothingNewer'
  OBVIOUS
<1>. USE DEF NothingNewer, TypeOK, GraphType, state, requests
<1>1. CASE BootLoad \/ BootLabel \/ Shutdown \/ Restart \/ OtherPublishes
  BY <1>1 DEF BootLoad, BootLabel, Shutdown, Restart, OtherPublishes, Persisted, NoGraph
<1>2. ASSUME NEW q \in Request, Handle(q) \/ Refuse(q) \/ Disconnect(q)
      PROVE  NothingNewer'
  BY <1>2 DEF Handle, Claim, BeginRebuild, OnDone, Resume, Refuse, Disconnect, Leave
<1>3. ASSUME NEW q \in Request, WorkFail(q)
      PROVE  NothingNewer'
  BY <1>3 DEF WorkFail
<1>8. ASSUME NEW q \in Request, WorkCommit(q)
      PROVE  NothingNewer'
  <2>1. durable' = durable + 1 /\ job' = [job EXCEPT ![q] = durable + 1]
    BY <1>8 DEF WorkCommit
  <2>2. \A r \in Request : job'[r] <= durable'
    BY <2>1
  <2>. QED BY <1>8, <2>1, <2>2 DEF WorkCommit
<1>4. ASSUME NEW q \in Request, WorkPublish(q) \/ WorkPublishBuilt(q)
      PROVE  NothingNewer'
  BY <1>4 DEF WorkPublish, WorkPublishBuilt, Accepts, Published, Persisted, Raw
<1>5. CASE SyncLook \/ SyncQuery \/ SyncExpect \/ SyncLoad \/ SyncError
  BY <1>5 DEF SyncLook, SyncQuery, SyncExpect, SyncLoad, SyncError
<1>6. CASE SyncPublish
  BY <1>6 DEF SyncPublish, Published, Persisted, SyncKnows
<1>7. CASE UNCHANGED vars
  BY <1>7 DEF vars
<1>. QED BY <1>1, <1>2, <1>3, <1>4, <1>5, <1>6, <1>7, <1>8 DEF Next, Sync, Work

(* The comparison with the expected label protects what the loop has loaded. *)
LEMMA NextSyncKnows ==
    TypeOK /\ StartsAlone /\ NothingNewer /\ SyncKnows /\ [Next]_vars => SyncKnows'
<1>. SUFFICES ASSUME TypeOK, StartsAlone, NothingNewer, SyncKnows, [Next]_vars
              PROVE  SyncKnows'
  OBVIOUS
<1>. USE DEF SyncKnows, NothingNewer, TypeOK, GraphType, state, requests
<1>1. CASE BootLoad \/ Shutdown \/ OtherPublishes
  BY <1>1 DEF BootLoad, Shutdown, OtherPublishes
<1>2. CASE BootLabel
  BY <1>2 DEF BootLabel, StartsAlone
<1>3. CASE Restart
  BY <1>3 DEF Restart, SyncIdle
<1>4. ASSUME NEW q \in Request, Handle(q) \/ Refuse(q) \/ Disconnect(q)
      PROVE  SyncKnows'
  BY <1>4 DEF Handle, Claim, BeginRebuild, OnDone, Resume, Refuse, Disconnect, Leave
<1>5. ASSUME NEW q \in Request, WorkFail(q) \/ WorkCommit(q)
      PROVE  SyncKnows'
  BY <1>5 DEF WorkFail, WorkCommit
<1>6. ASSUME NEW q \in Request, WorkPublish(q) \/ WorkPublishBuilt(q)
      PROVE  SyncKnows'
  BY <1>6 DEF WorkPublish, WorkPublishBuilt, Published, Persisted, Raw
<1>7. CASE SyncLook
  BY <1>7 DEF SyncLook, SyncAt
<1>8. CASE SyncQuery
  BY <1>8 DEF SyncQuery, SyncAt, SyncIdle
<1>12. CASE SyncError \/ SyncPublish
  BY <1>12 DEF SyncError, SyncPublish, SyncIdle
<1>9. CASE SyncExpect
  BY <1>9 DEF SyncExpect, SyncAt, SyncIdle
<1>10. CASE SyncLoad
  BY <1>10 DEF SyncLoad, SyncAt
<1>11. CASE UNCHANGED vars
  BY <1>11 DEF vars
<1>. QED BY <1>1, <1>2, <1>3, <1>4, <1>5, <1>6, <1>7, <1>8, <1>9, <1>10, <1>11, <1>12
         DEF Next, Sync, Work

-----------------------------------------------------------------------------
(* The inductive invariant of a backend process. *)
THEOREM Invariance == Spec => []RuntimeInvariant
<1>1. Init => RuntimeInvariant
  BY InitTypeOK DEF Init, RuntimeInvariant, StartsAlone, NothingNewer, SyncKnows, NoGraph,
                    Persisted, SyncIdle
<1>2. RuntimeInvariant /\ [Next]_vars => RuntimeInvariant'
  BY NextTypeOK, NextStartsAlone, NextNothingNewer, NextSyncKnows DEF RuntimeInvariant
<1>. QED BY <1>1, <1>2, PTL DEF Spec

(* The synchronisation loop never replaces the served graph by an older one, nor
   labels a graph with a job it does not contain. *)
THEOREM ForwardOnly == Spec => SyncMovesForward
<1>1. RuntimeInvariant /\ [Next]_vars =>
        [SyncPublish /\ graph' # graph =>
           graph'.job >= graph.job /\ graph'.job >= synced']_vars
  BY DEF RuntimeInvariant, TypeOK, GraphType, SyncKnows, SyncPublish, Accepts, Published, Persisted, state
<1>. QED BY <1>1, Invariance, PTL DEF Spec, SyncMovesForward

(* After begin_shutdown the graph stays until the process is replaced. *)
THEOREM ShutdownSticks == Spec => StoppedStaysQuiet
<1>. DEFINE Quiet == lifecycle = "STOPPED" =>
                       \/ lifecycle' = "STOPPED" /\ graph' = graph /\ synced' = synced
                       \/ lifecycle' = "UNINITIALIZED"
<1>1. [Next]_vars => [Quiet]_vars
  <2>. SUFFICES ASSUME Next, lifecycle = "STOPPED" PROVE Quiet
    OBVIOUS
  <2>. USE DEF state, requests
  <2>1. CASE BootLoad \/ BootLabel \/ Shutdown \/ Restart \/ OtherPublishes
    BY <2>1 DEF BootLoad, BootLabel, Shutdown, Restart, OtherPublishes, Serving
  <2>2. ASSUME NEW q \in Request, Handle(q) \/ Refuse(q) \/ Disconnect(q)
        PROVE  Quiet
    BY <2>2 DEF Handle, Claim, BeginRebuild, OnDone, Resume, Refuse, Disconnect, Leave, CompleteRebuild,
                Serving
  <2>3. ASSUME NEW q \in Request, Work(q)
        PROVE  Quiet
    BY <2>3 DEF Work, WorkFail, WorkCommit, WorkPublish, WorkPublishBuilt, Accepts, Stopped
  <2>4. CASE Sync \/ SyncError
    BY <2>4 DEF Sync, SyncLook, SyncQuery, SyncExpect, SyncLoad, SyncPublish, SyncError,
                Accepts, Stopped
  <2>. QED BY <2>1, <2>2, <2>3, <2>4 DEF Next
<1>. QED BY <1>1, PTL DEF Spec, StoppedStaysQuiet

-----------------------------------------------------------------------------
(* The reads beside it. *)

(* A read changes nothing, and its presence only holds back the event loop. *)
LEMMA ReadStepRefines == ReadNext => [Next]_vars
<1>1. Reader => UNCHANGED vars
  BY DEF Reader, Capture, Bind, QueryBinding, LoadSnapshot, ReadError
<1>. QED BY <1>1 DEF ReadNext, EventLoop, Elsewhere, Next

(* Whatever is proved of the process alone holds of the process with its reads. *)
THEOREM ReadsRefine == ReadSpec => Spec
<1>1. ReadInit => Init
  BY DEF ReadInit
<1>2. [ReadNext]_readVars => [Next]_vars
  BY ReadStepRefines DEF readVars, vars
<1>. QED BY <1>1, <1>2, PTL DEF ReadSpec, Spec

(* Rebuilds are never taken back. *)
LEMMA DurableGrows == TypeOK /\ [Next]_vars => durable <= durable'
<1>. SUFFICES ASSUME TypeOK, [Next]_vars PROVE durable <= durable'
  OBVIOUS
<1>0. durable \in Nat
  BY DEF TypeOK
<1>. USE <1>0 DEF state, requests
<1>5. CASE UNCHANGED vars
  BY <1>5 DEF vars
<1>1. CASE BootLoad \/ BootLabel \/ Shutdown \/ Restart \/ OtherPublishes
  BY <1>1 DEF BootLoad, BootLabel, Shutdown, Restart, OtherPublishes
<1>2. ASSUME NEW q \in Request, Handle(q) \/ Refuse(q) \/ Disconnect(q)
      PROVE  durable <= durable'
  <2>1. UNCHANGED durable
    BY <1>2, Zenon DEF Handle, Claim, BeginRebuild, OnDone, Resume, Refuse, Disconnect, Leave
  <2>. QED BY <2>1
<1>3. ASSUME NEW q \in Request, Work(q)
      PROVE  durable <= durable'
  BY <1>3 DEF Work, WorkFail, WorkCommit, WorkPublish, WorkPublishBuilt
<1>4. CASE Sync \/ SyncError
  BY <1>4 DEF Sync, SyncLook, SyncQuery, SyncExpect, SyncLoad, SyncPublish, SyncError
<1>. QED BY <1>1, <1>2, <1>3, <1>4, <1>5 DEF Next

(* The steps of the handler itself. *)
LEMMA ReaderKeeps ==
    ASSUME RuntimeInvariant, ReadInvariant, Reader
    PROVE  ReadInvariant'
<1>0. UNCHANGED vars
  BY DEF Reader, Capture, Bind, QueryBinding, LoadSnapshot, ReadError
<1>1. graph \in GraphType /\ synced \in Nat /\ durable \in Nat /\ synced <= durable
  BY DEF RuntimeInvariant, TypeOK, NothingNewer
<1>. USE <1>0, <1>1 DEF ReadInvariant, ReadTypeOK, BindingKnown, HasBinding, OwnProvenance, NeverPending,
                        ReadType, ReadStep, vars
<1>2. CASE Capture
  BY <1>2 DEF Capture
<1>3. CASE Bind
  BY <1>3 DEF Bind
<1>4. CASE QueryBinding
  <2>1. read.label = 0 \/ read.label \in 1..durable
    BY <1>4 DEF QueryBinding
  <2>2. read'.at \in {"answered", "load"}
    BY <1>4, <2>1 DEF QueryBinding, HasBinding
  <2>3. read' = [read EXCEPT !.at = read'.at]
    BY <1>4 DEF QueryBinding
  <2>. QED BY <1>4, <2>2, <2>3 DEF QueryBinding
<1>5. CASE LoadSnapshot
  BY <1>5 DEF LoadSnapshot, HasRecord
<1>6. CASE ReadError
  BY <1>6 DEF ReadError
<1>. QED BY <1>2, <1>3, <1>4, <1>5, <1>6 DEF Reader

(* The steps of the others, which replace label and graph together. *)
LEMMA OthersKeep ==
    ASSUME RuntimeInvariant, ReadInvariant, [Next]_vars, read' = ReadAfter
    PROVE  ReadInvariant'
<1>1. durable \in Nat /\ synced \in Nat /\ durable <= durable' /\ durable' \in Nat
  BY DurableGrows, NextTypeOK DEF RuntimeInvariant, TypeOK
<1>. USE <1>1 DEF ReadInvariant, ReadTypeOK, BindingKnown, HasBinding, OwnProvenance, NeverPending,
                  ReadType, ReadStep
<1>2. CASE lifecycle' = "UNINITIALIZED"
  BY <1>2 DEF ReadAfter, NoRead, NoGraph, Persisted, GraphType
<1>3. CASE lifecycle' # "UNINITIALIZED"
  <2>1. read' = [read EXCEPT !.current = read.current /\ graph' = graph /\ synced' = synced]
    BY <1>3 DEF ReadAfter
  <2>2. /\ read'.at = read.at /\ read'.graph = read.graph
        /\ read'.remembered = read.remembered /\ read'.label = read.label
    BY <2>1
  <2>3. read' \in ReadType
    BY <2>1, Zenon
  <2>4. read'.current => read.current /\ synced' = synced
    BY <2>1, Zenon
  <2>. QED BY <2>2, <2>3, <2>4
<1>. QED BY <1>2, <1>3

-----------------------------------------------------------------------------
(* A read answers with the provenance of the graph it has taken, or of none, and it
   never finds that its publication is missing. *)
THEOREM ReadsOwnProvenance == ReadSpec => []ReadInvariant
<1>1. ReadInit => ReadInvariant
  BY DEF ReadInit, Init, ReadInvariant, ReadTypeOK, BindingKnown, HasBinding, OwnProvenance, NeverPending,
         ReadType, ReadStep, NoRead, NoGraph, Persisted, GraphType
<1>2. RuntimeInvariant /\ ReadInvariant /\ [ReadNext]_readVars
        => ReadInvariant'
  <2>1. CASE UNCHANGED readVars
    BY <2>1 DEF readVars, vars, ReadInvariant, ReadTypeOK, BindingKnown, HasBinding, OwnProvenance,
                NeverPending, ReadType, ReadStep
  <2>. QED BY <2>1, ReaderKeeps, OthersKeep, ReadStepRefines DEF ReadNext
<1>. QED BY <1>1, <1>2, ReadsRefine, Invariance, PTL DEF ReadSpec

=============================================================================
