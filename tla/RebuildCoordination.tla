-------------------------- MODULE RebuildCoordination --------------------------
(***************************************************************************)
(* Graph rebuilds of several backend instances that share one database:    *)
(* the executor thread of each attempt (_perform_rebuild_and_persist_sync  *)
(* and _run_rebuild_pipeline), its heartbeat thread, the periodic          *)
(* reconciliation of other instances, the cancellation endpoint, crashes   *)
(* and database errors, over the rows of distributed_locks and             *)
(* rebuild_jobs and the durable graph.  Locks and jobs are in the same     *)
(* database, the default (coordination_database_url unset).                *)
(*                                                                         *)
(* An attempt stands for the identities the code generates with it: the    *)
(* holder_id of its DistributedLock, its job_id and its execution_id are   *)
(* fresh UUIDs, so one attempt names all three and no two attempts share   *)
(* one.  One action is one database transaction, except the publication    *)
(* transaction, which holds row locks over several steps.                  *)
(***************************************************************************)
EXTENDS CoordinationLock, FiniteSets

CONSTANTS
    Attempt,    \* rebuild attempts: one POST /api/graph/rebuild each
    Reconciler, \* reconciliation loops; each cycle uses a fresh holder_id
    Gone        \* the holder_id of an earlier cycle: nobody answers to it

ASSUME CoordinationAssumption ==
    /\ Holder = Attempt \union Reconciler \union {Gone}
    /\ Attempt \intersect Reconciler = {}
    /\ Gone \notin Attempt \union Reconciler

VARIABLES
    lock,       \* the committed row of distributed_locks
    status,     \* status[a]: the status column of the job of a
    age,        \* age[a]: time since last_heartbeat_at, Stale when NULL
    truth,      \* the attempt whose graph is durable
    pc,         \* pc[a]: what the executor thread of a does next
    hb,         \* hb[a]: what the heartbeat thread of a does next
    signal,     \* signal[a]: the event the heartbeat thread has set
    txn,        \* txn[a]: the lease renewed inside the open publication
                \* transaction of a, NoTxn when none is open
    rpc,        \* rpc[r]: what the reconciliation cycle of r does next
    target      \* target[r]: the job that cycle is about to fail

vars == <<lock, status, age, truth, pc, hb, signal, txn, rpc, target>>
tables == <<status, age, truth>>
threads == <<pc, hb, signal, txn>>
recovery == <<rpc, target>>

-----------------------------------------------------------------------------
NoTxn == Expired - 1

(* A heartbeat this old is stale on every clock, and so is a NULL one. *)
Stale == TTL + MaxSkew

JobStatus ==
    {"none", "pending", "running", "succeeded", "failed",
     "cancel_requested", "cancelled"}

(* The executor thread: acquire and check the lock, pass the gate, create,
   start and first heartbeat of the job, build, open the publication
   transaction, mark the job succeeded in it, check before commit, commit,
   synchronize the runtime graph; or record the failure or the cancellation;
   then stop the heartbeat thread and release the lock. *)
Before == {"idle", "check", "gate", "create"}
Publishing == {"succeed", "precommit", "commit"}
Over == {"done", "dead"}
ExecutorStep ==
    Before \union {"start", "firstbeat", "build", "open"} \union Publishing
    \union {"sync", "fail", "cancel", "close", "release"} \union Over

(* "wait" is stop_event.wait; a woken thread refreshes the lock and then
   updates the heartbeat of the job before it looks at stop_event again. *)
HeartbeatStep == {"off", "wait", "refresh", "beat"}

(* The thread returns after the first event it sets, so one value is enough:
   lock_lost after contention or a failed heartbeat, lock_lost after a
   database error (which also leaves the DistributedLock in state LOST), or
   cancel_event. *)
Signal == {"none", "lost", "lost_error", "cancel"}

ReconcilerStep ==
    {"idle", "acquire", "check", "inspect", "reset", "commit", "release"}

TypeOK ==
    /\ lock \in LockRow
    /\ status \in [Attempt -> JobStatus]
    /\ age \in [Attempt -> 0..Stale]
    /\ truth \in Attempt \union {NoHolder}
    /\ pc \in [Attempt -> ExecutorStep]
    /\ hb \in [Attempt -> HeartbeatStep]
    /\ signal \in [Attempt -> Signal]
    /\ txn \in [Attempt -> NoTxn..(TTL + MaxSkew)]
    /\ rpc \in [Reconciler -> ReconcilerStep]
    /\ target \in [Reconciler -> Attempt \union {NoHolder}]

Init ==
    /\ lock = NoRow
    /\ status = [a \in Attempt |-> "none"]
    /\ age = [a \in Attempt |-> Stale]
    /\ truth = NoHolder
    /\ pc = [a \in Attempt |-> "idle"]
    /\ hb = [a \in Attempt |-> "off"]
    /\ signal = [a \in Attempt |-> "none"]
    /\ txn = [a \in Attempt |-> NoTxn]
    /\ rpc = [r \in Reconciler |-> "idle"]
    /\ target = [r \in Reconciler |-> NoHolder]

-----------------------------------------------------------------------------
InTxn(a) == txn[a] # NoTxn

(* An open publication transaction has updated the lock row and holds its row
   lock: an UPDATE from another session that matches the row waits for it.
   Reads do not wait, they see the committed row. *)
LockRowFree == \A a \in Attempt : ~InTxn(a)

(* So does the job row once mark_rebuild_job_succeeded has updated it, or the
   mark_rebuild_job_failed of a reconciliation that has yet to commit. *)
JobRowFree(j) ==
    /\ pc[j] \notin {"precommit", "commit"}
    /\ \A r \in Reconciler : rpc[r] = "commit" => target[r] # j

Running == {a \in Attempt : status[a] = "running"}

(* The lease row as the transaction of a sees it. *)
RowInTxn(a) == [holder |-> lock.holder, left |-> txn[a]]

Goto(a, step) == pc' = [pc EXCEPT ![a] = step]

Rollback(a) == txn' = [txn EXCEPT ![a] = NoTxn]

(* _verify_execution_state raises what the heartbeat thread has signalled. *)
Interrupted(a) == signal[a] # "none"

InterruptedStep(a) == IF signal[a] = "cancel" THEN "cancel" ELSE "fail"

SetStatus(j, to) == status' = [status EXCEPT ![j] = to]

-----------------------------------------------------------------------------
(* The executor thread of attempt a. *)

(* DistributedLock.acquire with max_retries = 0: a row of somebody else that
   has not expired is contention at once (HTTP 429), an expired one whose row
   lock is taken is waited for. *)
Acquire(a) ==
    /\ pc[a] = "idle"
    /\ IF CanTake(lock, a)
       THEN LockRowFree /\ lock' = Taken(a) /\ Goto(a, "check")
       ELSE Goto(a, "done") /\ UNCHANGED lock
    /\ UNCHANGED <<tables, hb, signal, txn, recovery>>

(* Mutant of CheckAcquired: it reads the row until the lease is valid. *)
CheckUntilValid(a) ==
    /\ pc[a] = "check"
    /\ HoldsLease(lock, a)
    /\ Goto(a, "gate")
    /\ UNCHANGED <<lock, tables, hb, signal, txn, recovery>>

(* _acquire_rebuild_lock reads the row back; lock_acquired is still False when
   that raises, so the row is not released. *)
CheckAcquired(a) ==
    /\ pc[a] = "check"
    /\ Goto(a, IF HoldsLease(lock, a) THEN "gate" ELSE "done")
    /\ UNCHANGED <<lock, tables, hb, signal, txn, recovery>>

(* RecoveryGate.ensure_safe_to_execute without automatic recovery: check_state,
   then the active job.  A lease that is not valid leaves the DistributedLock in
   state LOST, which skips the release; so does a check that finds the
   connection lost. *)
Gate(a) ==
    /\ pc[a] = "gate"
    /\ \/ HoldsLease(lock, a) /\ Running = {} /\ Goto(a, "create")
       \/ HoldsLease(lock, a) /\ Running # {} /\ Goto(a, "release")
       \/ Goto(a, "done")
    /\ UNCHANGED <<lock, tables, hb, signal, txn, recovery>>

CreateJob(a) ==
    /\ pc[a] = "create"
    /\ SetStatus(a, "pending")
    /\ Goto(a, "start")
    /\ UNCHANGED <<lock, age, truth, hb, signal, txn, recovery>>

(* mark_rebuild_job_running looks at the status of the job and not at the
   lock; a cancellation got there first when it is not PENDING. *)
StartJob(a) ==
    /\ pc[a] = "start"
    /\ IF status[a] = "pending"
       THEN SetStatus(a, "running") /\ Goto(a, "firstbeat")
       ELSE UNCHANGED status /\ Goto(a, "release")
    /\ UNCHANGED <<lock, age, truth, hb, signal, txn, recovery>>

(* The first heartbeat, and the start of the heartbeat thread if it succeeds. *)
FirstBeat(a) ==
    /\ pc[a] = "firstbeat"
    /\ JobRowFree(a)
    /\ IF status[a] = "running"
       THEN /\ age' = [age EXCEPT ![a] = 0]
            /\ hb' = [hb EXCEPT ![a] = "wait"]
            /\ Goto(a, "build")
       ELSE UNCHANGED <<age, hb>> /\ Goto(a, "fail")
    /\ UNCHANGED <<lock, status, truth, signal, txn, recovery>>

(* build_rebuild_graph with its checkpoints, and update_rebuild_job_source,
   between two _verify_execution_state. *)
Build(a) ==
    /\ pc[a] = "build"
    /\ Goto(a, IF Interrupted(a) THEN InterruptedStep(a) ELSE "open")
    /\ UNCHANGED <<lock, tables, hb, signal, txn, recovery>>

(* Mutant of OpenPublication: _guard_publication_lock is given no holder_id. *)
OpenUnguarded(a) ==
    /\ pc[a] = "open"
    /\ IF ~Interrupted(a)
       THEN txn' = [txn EXCEPT ![a] = TTL + Skew[a]] /\ Goto(a, "succeed")
       ELSE UNCHANGED txn /\ Goto(a, InterruptedStep(a))
    /\ UNCHANGED <<lock, tables, hb, signal, recovery>>

(* The transaction starts by renewing the lease, which it must still hold. *)
OpenPublication(a) ==
    /\ pc[a] = "open"
    /\ IF ~Interrupted(a) /\ HoldsLease(lock, a)
       THEN /\ LockRowFree
            /\ txn' = [txn EXCEPT ![a] = TTL + Skew[a]]
            /\ Goto(a, "succeed")
       ELSE UNCHANGED txn /\ Goto(a, InterruptedStep(a))
    /\ UNCHANGED <<lock, tables, hb, signal, recovery>>

(* What is left of the lease after another renewal in the open transaction. *)
Renewed(a) == txn' = [txn EXCEPT ![a] = TTL + Skew[a]]

(* The renewal comes before the look at the signal. *)
AbortStep(a) ==
    IF HoldsLease(RowInTxn(a), a) THEN InterruptedStep(a) ELSE "fail"

(* Mutant of SucceedJob: the UPDATE does not ask for status RUNNING. *)
SucceedAnyStatus(a) ==
    /\ pc[a] = "succeed"
    /\ JobRowFree(a)
    /\ IF HoldsLease(RowInTxn(a), a) /\ ~Interrupted(a)
       THEN Renewed(a) /\ Goto(a, "precommit")
       ELSE Rollback(a) /\ Goto(a, AbortStep(a))
    /\ UNCHANGED <<lock, tables, hb, signal, recovery>>

(* Stage the snapshot and the projection, renew, verify, mark the job
   succeeded in the transaction. *)
SucceedJob(a) ==
    /\ pc[a] = "succeed"
    /\ JobRowFree(a)
    /\ IF /\ HoldsLease(RowInTxn(a), a)
          /\ ~Interrupted(a)
          /\ status[a] = "running"
       THEN Renewed(a) /\ Goto(a, "precommit")
       ELSE Rollback(a) /\ Goto(a, AbortStep(a))
    /\ UNCHANGED <<lock, tables, hb, signal, recovery>>

(* pre_commit_check and pre_domain_commit. *)
PreCommit(a) ==
    /\ pc[a] = "precommit"
    /\ IF HoldsLease(RowInTxn(a), a) /\ ~Interrupted(a)
       THEN Renewed(a) /\ Goto(a, "commit")
       ELSE Rollback(a) /\ Goto(a, AbortStep(a))
    /\ UNCHANGED <<lock, tables, hb, signal, recovery>>

(* The graph, the job and the renewed lease become durable together.  The
   client may see the connection fail after the server has committed. *)
Commit(a) ==
    /\ pc[a] = "commit"
    /\ SetStatus(a, "succeeded")
    /\ truth' = a
    /\ lock' = RowInTxn(a)
    /\ Rollback(a)
    /\ \E seen \in {"sync", "fail"} : Goto(a, seen)
    /\ UNCHANGED <<age, hb, signal, recovery>>

(* synchronize_runtime_graph, rejected once the process is shutting down. *)
Sync(a) ==
    /\ pc[a] = "sync"
    /\ \E next \in {"close", "fail"} : Goto(a, next)
    /\ UNCHANGED <<lock, tables, hb, signal, txn, recovery>>

(* Mutant of FailJob: the UPDATE does not ask for PENDING or RUNNING. *)
FailAnyStatus(a) ==
    /\ pc[a] = "fail"
    /\ JobRowFree(a)
    /\ SetStatus(a, "failed")
    /\ Goto(a, "close")
    /\ UNCHANGED <<lock, age, truth, hb, signal, txn, recovery>>

(* mark_rebuild_job_failed; its error is not retried. *)
FailJob(a) ==
    /\ pc[a] = "fail"
    /\ JobRowFree(a)
    /\ IF status[a] \in {"pending", "running"}
       THEN SetStatus(a, "failed")
       ELSE UNCHANGED status
    /\ Goto(a, "close")
    /\ UNCHANGED <<lock, age, truth, hb, signal, txn, recovery>>

(* mark_rebuild_job_cancelled; its error is swallowed. *)
CancelJob(a) ==
    /\ pc[a] = "cancel"
    /\ IF status[a] = "cancel_requested"
       THEN SetStatus(a, "cancelled")
       ELSE UNCHANGED status
    /\ Goto(a, "close")
    /\ UNCHANGED <<lock, age, truth, hb, signal, txn, recovery>>

(* _orchestrate_heartbeat sets stop_event, which wakes a waiting thread for
   good; one in the middle of an iteration is joined for two seconds only. *)
Close(a) ==
    /\ pc[a] = "close"
    /\ hb' = [hb EXCEPT ![a] = IF hb[a] = "wait" THEN "off" ELSE hb[a]]
    /\ Goto(a, "release")
    /\ UNCHANGED <<lock, tables, signal, txn, recovery>>

(* _release_rebuild_lock_safe; a failed release is logged and forgotten. *)
Release(a) ==
    /\ pc[a] = "release"
    /\ \/ signal[a] # "lost_error" /\ lock' = Released(lock, a)
       \/ UNCHANGED lock
    /\ Goto(a, "done")
    /\ UNCHANGED <<tables, hb, signal, txn, recovery>>

(* Where an exception takes the executor thread. *)
AfterError(step) ==
    CASE step \in {"idle", "check"} -> "done"
      [] step \in {"gate", "create", "start"} -> "release"
      [] step \in {"firstbeat", "build", "open", "sync"} \union Publishing -> "fail"
      [] OTHER -> "close"

(* A database error, or an exception of the build, at any step. *)
Error(a) ==
    /\ pc[a] \notin {"close", "release"} \union Over
    /\ Goto(a, AfterError(pc[a]))
    /\ Rollback(a)
    /\ UNCHANGED <<lock, tables, hb, signal, recovery>>

(* The process dies: no thread of it runs again and its transaction, if any,
   is rolled back by the database. *)
Crash(a) ==
    /\ pc[a] # "dead"
    /\ pc[a] \in {"idle", "done"} => hb[a] # "off"
    /\ Goto(a, "dead")
    /\ hb' = [hb EXCEPT ![a] = "off"]
    /\ Rollback(a)
    /\ UNCHANGED <<lock, tables, signal, recovery>>

Executor(a) ==
    \/ Acquire(a) \/ CheckAcquired(a) \/ Gate(a) \/ CreateJob(a) \/ StartJob(a)
    \/ FirstBeat(a) \/ Build(a) \/ OpenPublication(a) \/ SucceedJob(a)
    \/ PreCommit(a) \/ Commit(a) \/ Sync(a) \/ FailJob(a) \/ CancelJob(a)
    \/ Close(a) \/ Release(a)

-----------------------------------------------------------------------------
(* The heartbeat thread of attempt a. *)

(* stop_event.wait times out. *)
HbWake(a) ==
    /\ hb[a] = "wait"
    /\ hb' = [hb EXCEPT ![a] = "refresh"]
    /\ UNCHANGED <<lock, tables, pc, signal, txn, recovery>>

(* The thread sets an event and returns. *)
HbStop(a, event) ==
    /\ signal' = [signal EXCEPT ![a] = event]
    /\ hb' = [hb EXCEPT ![a] = "off"]

(* DistributedLock.refresh, which is acquire_lock again: it takes a row that
   somebody released, or let expire, as readily as it extends its own. *)
HbRefresh(a) ==
    /\ hb[a] = "refresh"
    /\ \/ /\ CanTake(lock, a)
          /\ LockRowFree
          /\ lock' = Taken(a)
          /\ hb' = [hb EXCEPT ![a] = "beat"]
          /\ UNCHANGED signal
       \/ ~CanTake(lock, a) /\ HbStop(a, "lost") /\ UNCHANGED lock
       \/ HbStop(a, "lost_error") /\ UNCHANGED lock
    /\ UNCHANGED <<tables, pc, txn, recovery>>

(* Mutant of HbBeat: a job that is not RUNNING was cancelled. *)
BeatAnyEndIsCancel(a) ==
    /\ hb[a] = "beat"
    /\ JobRowFree(a)
    /\ IF status[a] = "running"
       THEN /\ age' = [age EXCEPT ![a] = 0]
            /\ hb' = [hb EXCEPT ![a] = IF pc[a] \in {"release", "done"} THEN "off" ELSE "wait"]
            /\ UNCHANGED signal
       ELSE HbStop(a, "cancel") /\ UNCHANGED age
    /\ UNCHANGED <<lock, status, truth, pc, txn, recovery>>

(* Mutant of HbBeat: the thread does not look at stop_event again. *)
BeatDeaf(a) ==
    /\ hb[a] = "beat"
    /\ JobRowFree(a)
    /\ IF status[a] = "running"
       THEN /\ age' = [age EXCEPT ![a] = 0]
            /\ hb' = [hb EXCEPT ![a] = "wait"]
            /\ UNCHANGED signal
       ELSE HbStop(a, "lost") /\ UNCHANGED age
    /\ UNCHANGED <<lock, status, truth, pc, txn, recovery>>

(* update_rebuild_heartbeat; only then does the thread see stop_event, which
   Close has set. *)
HbBeat(a) ==
    /\ hb[a] = "beat"
    /\ \/ /\ JobRowFree(a)
          /\ status[a] = "running"
          /\ age' = [age EXCEPT ![a] = 0]
          /\ hb' = [hb EXCEPT ![a] = IF pc[a] \in {"release", "done"} THEN "off" ELSE "wait"]
          /\ UNCHANGED signal
       \/ /\ JobRowFree(a)
          /\ status[a] # "running"
          /\ HbStop(a, IF status[a] = "cancel_requested" THEN "cancel" ELSE "lost")
          /\ UNCHANGED age
       \/ HbStop(a, "lost") /\ UNCHANGED age
    /\ UNCHANGED <<lock, status, truth, pc, txn, recovery>>

Heartbeat(a) == HbWake(a) \/ HbRefresh(a) \/ HbBeat(a)

-----------------------------------------------------------------------------
(* One pass of periodic_reconciliation_loop on another instance: a RecoveryGate
   with automatic recovery and a DistributedLock of its own. *)

RecGoto(r, step) == rpc' = [rpc EXCEPT ![r] = step]

RecDone(r) ==
    /\ RecGoto(r, "idle")
    /\ target' = [target EXCEPT ![r] = NoHolder]

(* A row that the pass leaves behind belongs to a holder_id nobody uses again. *)
Abandoned(r) == IF lock.holder = r THEN [lock EXCEPT !.holder = Gone] ELSE lock

(* get_reconciliation_plan: exactly one RUNNING job, no executor here and a
   lease that is not ours make an ORPHANED_RUNNING reset plan.  No running job
   is convergence, two are an evaluation failure: either way nothing is done. *)
RecPlan(r) ==
    /\ rpc[r] = "idle"
    /\ Cardinality(Running) = 1
    /\ RecGoto(r, "acquire")
    /\ UNCHANGED <<lock, tables, threads, target>>

(* _ensure_lock_for_reset acquires with thirty seconds of retries. *)
RecAcquire(r) ==
    /\ rpc[r] = "acquire"
    /\ CanTake(lock, r)
    /\ LockRowFree
    /\ lock' = Taken(r)
    /\ RecGoto(r, "check")
    /\ UNCHANGED <<tables, threads, target>>

RecGiveUp(r) ==
    /\ rpc[r] = "acquire"
    /\ ~CanTake(lock, r)
    /\ RecDone(r)
    /\ UNCHANGED <<lock, tables, threads>>

(* lock_was_reacquired is set only once the lease reads back as valid; the
   loop releases the row only then. *)
RecCheck(r) ==
    /\ rpc[r] = "check"
    /\ IF HoldsLease(lock, r)
       THEN RecGoto(r, "inspect") /\ UNCHANGED <<lock, target>>
       ELSE RecDone(r) /\ lock' = Abandoned(r)
    /\ UNCHANGED <<tables, threads>>

(* _is_heartbeat_stale on the clock of r. *)
StaleFor(r, j) == age[j] = Stale \/ age[j] + Skew[r] - Skew[j] >= TTL

(* _perform_reset_recovery reads the active job again, and _reset_active_job
   checks the lease and the heartbeat it has read. *)
RecInspect(r) ==
    /\ rpc[r] = "inspect"
    /\ IF Cardinality(Running) = 1 /\ HoldsLease(lock, r)
       THEN \E j \in Running :
              IF StaleFor(r, j)
              THEN RecGoto(r, "reset") /\ target' = [target EXCEPT ![r] = j]
              ELSE RecGoto(r, "release") /\ UNCHANGED target
       ELSE RecGoto(r, "release") /\ UNCHANGED target
    /\ UNCHANGED <<lock, tables, threads>>

(* Mutant of RecReset: the UPDATE does not ask whether the job is still RUNNING. *)
RecResetBlind(r) ==
    /\ rpc[r] = "reset"
    /\ JobRowFree(target[r])
    /\ RecGoto(r, IF HoldsLease(lock, r) THEN "commit" ELSE "release")
    /\ UNCHANGED <<lock, tables, threads, target>>

(* mark_rebuild_job_failed updates the row if it is still RUNNING, and
   check_state decides whether the update is kept. *)
RecReset(r) ==
    /\ rpc[r] = "reset"
    /\ JobRowFree(target[r])
    /\ RecGoto(r, IF status[target[r]] = "running" /\ HoldsLease(lock, r)
                  THEN "commit" ELSE "release")
    /\ UNCHANGED <<lock, tables, threads, target>>

RecCommit(r) ==
    /\ rpc[r] = "commit"
    /\ SetStatus(target[r], "failed")
    /\ RecGoto(r, "release")
    /\ UNCHANGED <<lock, age, truth, threads, target>>

(* The finally block of _run_sync_reconciliation. *)
RecRelease(r) ==
    /\ rpc[r] = "release"
    /\ lock' \in {Released(lock, r), Abandoned(r)}
    /\ RecDone(r)
    /\ UNCHANGED <<tables, threads>>

(* A database error ends the pass, through the finally block once
   lock_was_reacquired is set. *)
RecError(r) ==
    /\ \/ /\ rpc[r] \in {"acquire", "check"}
          /\ RecDone(r)
          /\ lock' = Abandoned(r)
       \/ /\ rpc[r] \in {"inspect", "reset", "commit"}
          /\ RecGoto(r, "release")
          /\ UNCHANGED <<lock, target>>
    /\ UNCHANGED <<tables, threads>>

(* The process of r dies, and starts again with a new holder_id. *)
RecCrash(r) ==
    /\ rpc[r] # "idle"
    /\ RecDone(r)
    /\ lock' = Abandoned(r)
    /\ UNCHANGED <<tables, threads>>

Reconcile(r) ==
    \/ RecPlan(r) \/ RecAcquire(r) \/ RecGiveUp(r) \/ RecCheck(r)
    \/ RecInspect(r) \/ RecReset(r) \/ RecCommit(r) \/ RecRelease(r)

-----------------------------------------------------------------------------
(* POST /api/graph/rebuild/jobs/{job_id}/cancel, on any instance. *)
RequestCancel(j) ==
    /\ JobRowFree(j)
    /\ status[j] \in {"pending", "running"}
    /\ SetStatus(j, "cancel_requested")
    /\ UNCHANGED <<lock, age, truth, threads, recovery>>

(* Time passes, on every clock alike. *)
Tick ==
    /\ lock' = OneTickOlder(lock)
    /\ age' = [a \in Attempt |-> IF age[a] < Stale THEN age[a] + 1 ELSE Stale]
    /\ txn' = [a \in Attempt |-> IF txn[a] > Expired THEN txn[a] - 1 ELSE txn[a]]
    /\ UNCHANGED <<status, truth, pc, hb, signal, recovery>>

Next ==
    \/ \E a \in Attempt :
          Executor(a) \/ Error(a) \/ Heartbeat(a) \/ Crash(a) \/ RequestCancel(a)
    \/ \E r \in Reconciler : Reconcile(r) \/ RecError(r) \/ RecCrash(r)
    \/ Tick

Spec == Init /\ [][Next]_vars

(* The threads of a live process run, a row lock is granted to a session that
   keeps waiting for it, and the clock advances; nobody has to crash, to cancel
   or to meet an error.  A reconciliation pass ends, and the
   passes do not all fail at the same step for ever: not every one finds the
   lease gone, is slower than the lease, or meets a database error. *)
Fairness ==
    /\ \A a \in Attempt :
          SF_vars(Executor(a)) /\ WF_vars(Heartbeat(a))
    /\ WF_vars(Tick)
    /\ \A r \in Reconciler :
          /\ WF_vars(Reconcile(r))
          /\ SF_vars(RecAcquire(r))
          /\ SF_vars(RecCheck(r) /\ rpc'[r] = "inspect")
          /\ SF_vars(RecInspect(r) /\ rpc'[r] = "reset")
          /\ SF_vars(RecReset(r) /\ rpc'[r] = "commit")
          /\ SF_vars(RecCommit(r))

LiveSpec == Spec /\ Fairness

-----------------------------------------------------------------------------
(* Properties *)

(* No two instances have a publication transaction open at once, whatever the
   clocks and however long a thread stalls: the lease may run out under an open
   transaction, its row lock does not. *)
SingleWriter == \A a, b \in Attempt : InTxn(a) /\ InTxn(b) => a = b

(* From the first renewal of the lease to the commit nobody takes it away, so
   the writer that commits is still the owner the database knows, and its job
   is RUNNING until the commit makes it SUCCEEDED. *)
WriterOwnsLease ==
    \A a \in Attempt :
        /\ InTxn(a) => lock.holder = a
        /\ pc[a] \in {"precommit", "commit"} => status[a] = "running"

(* A reconciliation that holds the row lock of a job is about to fail a job
   that is still running: not one that was published, cancelled or failed
   since the pass looked at it. *)
ResetHitsRunning ==
    \A r \in Reconciler : rpc[r] = "commit" => status[target[r]] = "running"

(* A step that replaces the durable graph is the commit of the owner of the
   lock row, and no other rebuild has taken the row since. *)
PublishedByOwner ==
    [][truth' # truth => lock.holder = truth' /\ lock'.holder = truth']_vars

(* An executor that aborts for a cancellation aborts a job somebody asked to
   cancel: a lost lease or a heartbeat error is never taken for one. *)
CancelSignalSound ==
    \A a \in Attempt :
        pc[a] = "cancel" \/ signal[a] = "cancel" =>
            status[a] \in {"cancel_requested", "cancelled"}

Jobs == INSTANCE RebuildJobs WITH Job <- Attempt, NoJob <- NoHolder

(* The threads, the lock and the transactions implement the job table that
   RebuildJobs promises: no job leaves a terminal state, none is published
   after its cancellation or its recovery, and a job is SUCCEEDED exactly when
   its graph became the durable one. *)
ImplementsJobs == Jobs!JobSpec

(* An attempt that has started ends, though it may wait for row locks, lose the
   lease or meet errors anywhere. *)
AttemptEnds == \A a \in Attempt : pc[a] # "idle" ~> pc[a] \in Over

(* The lease of an attempt is given back or runs out, also when the process
   dies with it or its heartbeat thread outlives the attempt. *)
LeaseReturns ==
    \A a \in Attempt : lock.holder = a ~> lock.holder # a \/ lock.left = Expired

Orphan(j) == status[j] = "running" /\ pc[j] \in Over /\ hb[j] = "off"

(* A RUNNING job that nobody executes any more is failed by the reconciliation
   of another instance, unless a second RUNNING job appears: the gate refuses
   to touch either then. *)
OrphanRecovered ==
    \A j \in Attempt :
        Orphan(j) ~> status[j] # "running" \/ Cardinality(Running) > 1

-----------------------------------------------------------------------------
(* The strengthening of the safety properties that every step preserves: where
   a transaction is open, who owns its row locks, and what a thread may rely on
   about its job. *)

TxnWhilePublishing ==
    \A a \in Attempt : InTxn(a) <=> pc[a] \in Publishing

(* A job row has one transaction in it. *)
OneRowWriter ==
    \A r \in Reconciler :
        rpc[r] = "commit" =>
            /\ pc[target[r]] \notin {"precommit", "commit"}
            /\ \A q \in Reconciler :
                  rpc[q] = "commit" /\ target[q] = target[r] => q = r

TargetChosen ==
    \A r \in Reconciler : rpc[r] \in {"reset", "commit"} => target[r] \in Attempt

NoJobYet == \A a \in Attempt : pc[a] \in Before => status[a] = "none"

(* Every conjunct is about a step of one actor and the state of another: the
   row locks, and not the lease, are what keeps them apart. *)
SafetyInvariant ==
    /\ TypeOK
    /\ TxnWhilePublishing
    /\ WriterOwnsLease
    /\ OneRowWriter
    /\ TargetChosen
    /\ ResetHitsRunning
    /\ NoJobYet
    /\ CancelSignalSound

=============================================================================
