------------------------------ MODULE RuntimeGraph ------------------------------
(***************************************************************************)
(* One backend process: the handler of POST /api/graph/rebuild on the      *)
(* event loop, the one-thread rebuild executor, the synchronisation loop,  *)
(* startup and shutdown, and the module state they share in                *)
(* graph_lifecycle (graph_state under graph_lock).                         *)
(*                                                                         *)
(* Rebuilds that became durable are numbered in the order of their         *)
(* commits, those of other processes included: graph n is what the n-th    *)
(* one stored, 0 the fallback graph of an empty database.  What a rebuild  *)
(* does before its commit is RebuildCoordination.  One action is what runs *)
(* under one hold of graph_lock, one database transaction, or what the     *)
(* event loop runs between two awaits.                                     *)
(***************************************************************************)
EXTENDS Integers, Sequences

CONSTANTS
    Request,    \* the rebuild requests that reach this process
    NoRequest,  \* nobody
    MaxOther    \* other processes publish while fewer rebuilds than this are durable

ASSUME RuntimeAssumption ==
    /\ NoRequest \notin Request
    /\ MaxOther \in Nat

VARIABLES
    durable,    \* the number of rebuilds published so far, by anybody
    lifecycle,  \* graph_state.lifecycle_state
    graph,      \* graph_state.graph
    synced,     \* graph_state.last_synced_job_id, 0 for None
    booted,     \* the graph that startup has loaded
    holder,     \* the request whose handler holds the asyncio lock
    handler,    \* handler[q]: what the handler of q does next
    queue,      \* the work of the executor, the first is running
    work,       \* work[q]: how far the work of q is, or its future
    job,        \* job[q]: which durable rebuild the work of q has published
    sync        \* the locals of sync_with_latest_rebuild

vars == <<durable, lifecycle, graph, synced, booted, holder, handler, queue,
          work, job, sync>>
state == <<lifecycle, graph, synced>>
requests == <<holder, handler, queue, work, job>>

-----------------------------------------------------------------------------
LifecycleState ==
    {"UNINITIALIZED", "INITIALIZING", "READY", "REBUILDING", "FAILED", "STOPPED"}

(* begin_shutdown leaves SHUTTING_DOWN before it gives graph_lock back. *)
Stopped == {"STOPPED"}

(* Handlers and background tasks run once startup has succeeded. *)
Serving == lifecycle \in {"READY", "REBUILDING", "FAILED"}

Outcome == {"ok", "failed", "contended"}

SyncStep == {"idle", "query", "expect", "load", "publish"}

(* What the database holds, and a graph before the governed overlay. *)
Persisted(n) == [job |-> n, governed |-> TRUE]
Raw(n) == [job |-> n, governed |-> FALSE]

NoGraph == Persisted(-1)

GraphType == [job : Nat \union {-1}, governed : BOOLEAN]

TypeOK ==
    /\ durable \in Nat
    /\ lifecycle \in LifecycleState
    /\ graph \in GraphType
    /\ synced \in Nat
    /\ booted \in Nat
    /\ holder \in Request \union {NoRequest}
    /\ handler \in [Request -> {"new", "waiting", "done"} \union Outcome]
    /\ queue \in Seq(Request)
    /\ work \in [Request -> {"none", "queued", "committed", "published", "over"}
                            \union Outcome]
    /\ job \in [Request -> Nat]
    /\ sync \in [at : SyncStep, latest : Nat, expected : Nat, loaded : Nat]

SyncIdle == [at |-> "idle", latest |-> 0, expected |-> 0, loaded |-> 0]

Init ==
    /\ durable = 0
    /\ lifecycle = "UNINITIALIZED"
    /\ graph = NoGraph
    /\ synced = 0
    /\ booted = 0
    /\ holder = NoRequest
    /\ handler = [q \in Request |-> "new"]
    /\ queue = <<>>
    /\ work = [q \in Request |-> "none"]
    /\ job = [q \in Request |-> 0]
    /\ sync = SyncIdle

-----------------------------------------------------------------------------
(* Startup. *)

(* get_graph_with_startup_source takes graph_lock and loads the durable graph,
   or builds a fallback graph when there is none. *)
BootLoad ==
    /\ lifecycle = "UNINITIALIZED"
    /\ lifecycle' = "INITIALIZING"
    /\ booted' = durable
    /\ UNCHANGED <<durable, graph, synced, requests, sync>>

(* A second session asks for the latest successful job; an error is only
   logged. *)
BootLabel ==
    /\ lifecycle = "INITIALIZING"
    /\ lifecycle' = "READY"
    /\ graph' = Persisted(booted)
    /\ synced' \in {durable, synced}
    /\ UNCHANGED <<durable, booted, requests, sync>>

(* begin_shutdown; the server has drained its requests before. *)
Shutdown ==
    /\ Serving
    /\ holder = NoRequest
    /\ lifecycle' = "STOPPED"
    /\ UNCHANGED <<durable, graph, synced, booted, requests, sync>>

(* The process ends, by a crash, a failed startup or after a shutdown, and a
   new one starts. *)
Restart ==
    /\ lifecycle' = "UNINITIALIZED"
    /\ graph' = NoGraph
    /\ synced' = 0
    /\ booted' = 0
    /\ holder' = NoRequest
    /\ handler' = [q \in Request |-> IF handler[q] = "new" THEN "new" ELSE "done"]
    /\ queue' = <<>>
    /\ work' = [q \in Request |-> IF work[q] = "none" THEN "none" ELSE "over"]
    /\ sync' = SyncIdle
    /\ UNCHANGED <<durable, job>>

-----------------------------------------------------------------------------
(* The lifecycle functions, each under graph_lock. *)

(* complete_rebuild: ignored when the state is no longer REBUILDING. *)
CompleteRebuild(succeeded) ==
    lifecycle' = IF lifecycle # "REBUILDING" THEN lifecycle
                 ELSE IF succeeded THEN "READY" ELSE "FAILED"

(* begin_rebuild, from any state of a process that serves: FAILED goes by way of READY. *)
BeginRebuild == lifecycle' = "REBUILDING"

(* Mutant of Accepts: no comparison with expected_last_synced_job_id. *)
AcceptsAny(expected) == lifecycle \notin Stopped

(* The checks of synchronize_runtime_graph. *)
Accepts(expected) == lifecycle \notin Stopped /\ synced = expected

(* Its effect: a rebuild in progress stays REBUILDING. *)
Published(g, n) ==
    /\ graph' = g
    /\ synced' = n
    /\ lifecycle' = IF lifecycle = "REBUILDING" THEN lifecycle ELSE "READY"

-----------------------------------------------------------------------------
(* The handler of request q. *)

(* _claim_rebuild_or_raise: HTTP 429. *)
Refuse(q) ==
    /\ Serving
    /\ handler[q] = "new"
    /\ lifecycle = "REBUILDING" \/ holder # NoRequest
    /\ handler' = [handler EXCEPT ![q] = "done"]
    /\ UNCHANGED <<durable, state, booted, holder, queue, work, job, sync>>

(* begin_rebuild, the asyncio lock, which is free, and the submission to the
   executor run without an await between them. *)
Claim(q) ==
    /\ Serving
    /\ handler[q] = "new"
    /\ lifecycle # "REBUILDING"
    /\ holder = NoRequest
    /\ BeginRebuild
    /\ holder' = q
    /\ handler' = [handler EXCEPT ![q] = "waiting"]
    /\ queue' = Append(queue, q)
    /\ work' = [work EXCEPT ![q] = "queued"]
    /\ UNCHANGED <<durable, graph, synced, booted, job, sync>>

(* Mutant of OnDone: only failures reset the lifecycle. *)
OnFailed(q) ==
    /\ work[q] \in Outcome
    /\ IF work[q] = "ok" THEN UNCHANGED lifecycle ELSE CompleteRebuild(work[q] # "failed")
    /\ work' = [work EXCEPT ![q] = "over"]
    /\ handler' = [handler EXCEPT ![q] = IF handler[q] = "waiting" THEN work[q]
                                         ELSE handler[q]]
    /\ UNCHANGED <<durable, graph, synced, booted, holder, queue, job, sync>>

(* on_done, the first callback of the future of q, on the event loop. *)
OnDone(q) ==
    /\ work[q] \in Outcome
    /\ CompleteRebuild(work[q] # "failed")
    /\ work' = [work EXCEPT ![q] = "over"]
    /\ handler' = [handler EXCEPT ![q] = IF handler[q] = "waiting" THEN work[q]
                                         ELSE handler[q]]
    /\ UNCHANGED <<durable, graph, synced, booted, holder, queue, job, sync>>

(* The handler ends and releases the asyncio lock. *)
Leave(q) ==
    /\ holder' = NoRequest
    /\ handler' = [handler EXCEPT ![q] = "done"]
    /\ UNCHANGED <<durable, graph, synced, booted, queue, work, job, sync>>

Resume(q) ==
    /\ handler[q] \in Outcome
    /\ \/ handler[q] = "ok" /\ UNCHANGED lifecycle
       \/ handler[q] # "ok" /\ CompleteRebuild(handler[q] = "contended")
    /\ Leave(q)

(* The client is gone: CancelledError ends the await, the shielded work goes on. *)
Disconnect(q) ==
    /\ handler[q] \in {"waiting"} \union Outcome
    /\ CompleteRebuild(FALSE)
    /\ Leave(q)

-----------------------------------------------------------------------------
(* The rebuild executor. *)

Running(q) == queue # <<>> /\ Head(queue) = q

Finish(q, outcome) ==
    /\ queue' = Tail(queue)
    /\ work' = [work EXCEPT ![q] = outcome]

(* The rebuild ends without a publication, or finds the lock taken. *)
WorkFail(q) ==
    /\ Running(q)
    /\ work[q] = "queued"
    /\ \E outcome \in {"failed", "contended"} : Finish(q, outcome)
    /\ UNCHANGED <<durable, state, booted, holder, handler, job, sync>>

(* Mutant of WorkCommit: the transaction was rolled back. *)
WorkCommitLost(q) ==
    /\ Running(q)
    /\ work[q] = "queued"
    /\ job' = [job EXCEPT ![q] = durable + 1]
    /\ work' = [work EXCEPT ![q] = "committed"]
    /\ UNCHANGED <<durable, state, booted, holder, handler, queue, sync>>

WorkCommit(q) ==
    /\ Running(q)
    /\ work[q] = "queued"
    /\ durable' = durable + 1
    /\ job' = [job EXCEPT ![q] = durable + 1]
    /\ work' = [work EXCEPT ![q] = "committed"]
    /\ UNCHANGED <<state, booted, holder, handler, queue, sync>>

(* _finalize_rebuild_success publishes the graph it has stored, whatever the
   runtime was synchronised with; a rejection is a failure of the request. *)
WorkPublish(q) ==
    /\ Running(q)
    /\ work[q] = "committed"
    /\ IF Accepts(synced)
       THEN /\ Published(Persisted(job[q]), job[q])
            /\ work' = [work EXCEPT ![q] = "published"]
            /\ UNCHANGED queue
       ELSE Finish(q, "failed") /\ UNCHANGED state
    /\ UNCHANGED <<durable, booted, holder, handler, job, sync>>

(* _run_rebuild_pipeline then publishes the graph it has built. *)
WorkPublishBuilt(q) ==
    /\ Running(q)
    /\ work[q] = "published"
    /\ IF Accepts(synced) THEN Published(Raw(job[q]), job[q]) ELSE UNCHANGED state
    /\ Finish(q, "ok")
    /\ UNCHANGED <<durable, booted, holder, handler, job, sync>>

-----------------------------------------------------------------------------
(* sync_with_latest_rebuild, on a thread of the synchronisation loop, which
   waits for it before the next call. *)

(* The locals after a step. *)
SyncAt(step, latest, expected, loaded) ==
    sync' = [at |-> step, latest |-> latest, expected |-> expected, loaded |-> loaded]

(* Mutant of SyncLook: only a READY process synchronises. *)
SyncLookReady ==
    /\ sync.at = "idle"
    /\ lifecycle = "READY"
    /\ SyncAt("query", 0, 0, 0)
    /\ UNCHANGED <<durable, state, booted, requests>>

SyncLook ==
    /\ sync.at = "idle"
    /\ lifecycle \in {"READY", "FAILED"}
    /\ SyncAt("query", 0, 0, 0)
    /\ UNCHANGED <<durable, state, booted, requests>>

SyncQuery ==
    /\ sync.at = "query"
    /\ IF durable = 0 THEN sync' = SyncIdle
       ELSE SyncAt("expect", durable, 0, 0)
    /\ UNCHANGED <<durable, state, booted, requests>>

SyncExpect ==
    /\ sync.at = "expect"
    /\ IF lifecycle \in Stopped \/ sync.latest = synced THEN sync' = SyncIdle
       ELSE SyncAt("load", sync.latest, synced, 0)
    /\ UNCHANGED <<durable, state, booted, requests>>

SyncLoad ==
    /\ sync.at = "load"
    /\ SyncAt("publish", sync.latest, sync.expected, durable)
    /\ UNCHANGED <<durable, state, booted, requests>>

SyncPublish ==
    /\ sync.at = "publish"
    /\ IF Accepts(sync.expected) THEN Published(Persisted(sync.loaded), sync.latest)
       ELSE UNCHANGED state
    /\ sync' = SyncIdle
    /\ UNCHANGED <<durable, booted, requests>>

(* A database error is logged, the loop tries again later. *)
SyncError ==
    /\ sync.at \in {"query", "load"}
    /\ sync' = SyncIdle
    /\ UNCHANGED <<durable, state, booted, requests>>

Sync == SyncLook \/ SyncQuery \/ SyncExpect \/ SyncLoad \/ SyncPublish

-----------------------------------------------------------------------------
(* Another process publishes a rebuild. *)
OtherPublishes ==
    /\ durable < MaxOther
    /\ durable' = durable + 1
    /\ UNCHANGED <<state, booted, requests, sync>>

Handle(q) == Claim(q) \/ OnDone(q) \/ Resume(q)
Work(q) == WorkFail(q) \/ WorkCommit(q) \/ WorkPublish(q) \/ WorkPublishBuilt(q)

Next ==
    \/ BootLoad \/ BootLabel \/ Shutdown \/ Restart
    \/ \E q \in Request : Handle(q) \/ Refuse(q) \/ Disconnect(q) \/ Work(q)
    \/ Sync \/ SyncError
    \/ OtherPublishes

Spec == Init /\ [][Next]_vars

(* The event loop, the executor thread and the synchronisation loop run, the
   database answers some of the calls of each of its steps, and the process is
   not restarted for ever. *)
Fairness ==
    /\ WF_vars(BootLoad) /\ WF_vars(BootLabel)
    /\ \A q \in Request : WF_vars(OnDone(q)) /\ WF_vars(Resume(q)) /\ WF_vars(Work(q))
    /\ SF_vars(SyncLook) /\ SF_vars(SyncQuery) /\ SF_vars(SyncExpect)
    /\ SF_vars(SyncLoad) /\ SF_vars(SyncPublish)
    /\ <>[][~Restart]_vars

LiveSpec == Spec /\ Fairness

-----------------------------------------------------------------------------
(* Properties *)

(* The synchronisation loop never replaces the served graph by an older one nor labels
   a graph with a job it does not contain, although the local rebuild, the
   other processes and the loop read and publish in any order. *)
SyncMovesForward ==
    [][SyncPublish /\ graph' # graph =>
         graph'.job >= graph.job /\ graph'.job >= synced']_vars

(* After begin_shutdown neither a synchronisation nor a rebuild that is still
   running replaces the graph or brings the process back to life. *)
StoppedStaysQuiet ==
    [][lifecycle = "STOPPED" =>
         \/ lifecycle' = "STOPPED" /\ graph' = graph /\ synced' = synced
         \/ lifecycle' = "UNINITIALIZED"]_vars

(* A process that is REBUILDING leaves that state, whatever becomes of the
   client and of the rebuild; if it did not, it would refuse every rebuild and
   never synchronise again. *)
RebuildingEnds == lifecycle = "REBUILDING" ~> lifecycle # "REBUILDING"

(* A process that is not stopped is synchronised with the latest durable rebuild
   in the end, as far as its label tells. *)
LabelCatchesUp == <>[](synced = durable \/ lifecycle = "STOPPED")

-----------------------------------------------------------------------------
(* The strengthening of SyncMovesForward that every step preserves. *)

(* Nobody has a graph that is not durable. *)
NothingNewer ==
    /\ graph.job <= durable
    /\ synced <= durable
    /\ booted <= durable
    /\ \A q \in Request : job[q] <= durable

(* Startup runs before the background tasks and the first request, which is why
   nobody waits for graph_lock while it loads. *)
StartsAlone ==
    lifecycle \in {"UNINITIALIZED", "INITIALIZING"} => sync.at = "idle" /\ queue = <<>>

(* What the synchronisation loop knows between its steps: as long as the label is
   the expected one, the graph behind it is no newer than the loaded one.  A
   rebuild that publishes the expected label again publishes no newer graph. *)
SyncKnows ==
    /\ sync.at \in {"expect", "load"} => sync.latest <= durable
    /\ sync.at = "load" => sync.expected <= durable
    /\ sync.at = "publish" =>
          /\ sync.latest <= sync.loaded
          /\ sync.expected <= sync.loaded
          /\ sync.loaded <= durable
          /\ synced = sync.expected => graph.job <= sync.loaded

RuntimeInvariant == TypeOK /\ StartsAlone /\ NothingNewer /\ SyncKnows

=============================================================================
