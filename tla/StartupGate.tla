------------------------------ MODULE StartupGate ------------------------------
(***************************************************************************)
(* Replicas that start, refuse to start, serve, reconcile and die: the     *)
(* recovery gate of the startup check (lifespan), of the periodic          *)
(* reconciliation and of a rebuild, over the lock row and the rebuild jobs *)
(* of one database.  Every decision is taken by RecoveryDecision from two  *)
(* looks at two tables, in two transactions, and the reset that follows    *)
(* takes five more: its job is read, judged, updated, confirmed and        *)
(* committed while its owner goes on.                                      *)
(*                                                                         *)
(* What a rebuild publishes is RebuildCoordination's subject: here it      *)
(* takes the lock, passes the gate, has a RUNNING job that beats, and ends *)
(* or dies.  Every holder_id is fresh, so a row that an earlier pass of a  *)
(* gate left behind belongs to Gone.                                       *)
(***************************************************************************)
EXTENDS CoordinationLock, RecoveryDecision

CONSTANTS
    Replica,
    Gate,      \* one per replica and kind
    Host,      \* the replica of a gate
    Kind,      \* "startup", "periodic", or "rebuild", which is asked for once
    Degraded,  \* should_degrade_hosted_startup: hosted previews without a database of their own
    Redeployed, \* the replicas that the platform stops in good order
    Long,       \* the rebuilds that outlast the interval of their heartbeat thread
    Gone       \* the holder_id of an earlier pass: nobody answers to it

ASSUME GateAssumption ==
    /\ Host \in [Gate -> Replica]
    /\ Kind \in [Gate -> {"startup", "periodic", "rebuild"}]
    /\ Degraded \subseteq Replica /\ Redeployed \subseteq Replica /\ Long \subseteq Gate
    /\ Holder = Gate \union {Gone}
    /\ Gone \notin Gate
    /\ MaxSkew = 0
    /\ HeartbeatTTL = TTL

VARIABLES
    lock,   \* the committed lock row
    job,    \* job[g]: the rebuild job of g, "none", "running" or "ended"
    age,    \* age[g]: the age of its heartbeat
    up,     \* up[r]: "down", "starting", "ready", "stopping"
    pc,     \* pc[g]: what the gate does next
    saw,    \* saw[g]: the lock state its evaluation has read
    clean,  \* clean[g]: a start was blocked for want of a lock only: no job, nothing adrift
    again,  \* again[g]: the evaluation follows a reset
    found,  \* found[g]: the job that the reset of g has read
    heard,  \* heard[g]: the age of the heartbeat it has read
    hb,     \* hb[g]: what the heartbeat thread of a rebuild does next
    late,   \* late[g], for the properties: the last heartbeat of the job of g was
            \* written when the lock row was no longer that of g
    stable  \* outages and crashes have ended

vars == <<lock, job, age, up, pc, saw, clean, again, found, heard, hb, late, stable>>
jobRows == <<job, age, late>>
rows == <<lock, jobRows, stable>>
looks == <<saw, clean, again>>
target == <<found, heard>>
gateVars == <<pc, looks, target>>

(* The transaction of a reset, from the read of the job on; its UPDATE locks the row of
   the job until it commits. *)
JobLocked == {"confirm", "commit"}
Resetting == {"reset", "judge", "update"} \union JobLocked

GateStep ==
    {"idle", "acquire", "check", "look", "read", "ensure", "verify", "passed", "blocked", "refused",
     "firstbeat", "building", "closing"} \union Resetting

(* "wait" is stop_event.wait; "woken" a thread in the middle of an iteration when the
   rebuild ended; "due" one that has refreshed the lock and has yet to beat; "lost" one
   that ended with the DistributedLock in state LOST. *)
HeartbeatStep == {"off", "wait", "woken", "due", "lost"}

Init ==
    /\ lock = NoRow
    /\ job = [g \in Gate |-> "none"]
    /\ age = [g \in Gate |-> Missing]
    /\ up = [r \in Replica |-> "down"]
    /\ pc = [g \in Gate |-> "idle"]
    /\ saw = [g \in Gate |-> "unknown"]
    /\ clean = [g \in Gate |-> FALSE]
    /\ again = [g \in Gate |-> FALSE]
    /\ found = [g \in Gate |-> NoHolder]
    /\ heard = [g \in Gate |-> Missing]
    /\ hb = [g \in Gate |-> "off"]
    /\ late = [g \in Gate |-> FALSE]
    /\ stable = FALSE

Running == {g \in Gate : job[g] = "running"}

(* Mutant of Automatic: the loop has to be told. *)
AutomaticNever(g) == FALSE

(* enable_automatic_recovery: FALSE at startup and, by default, in a rebuild. *)
Automatic(g) == Kind[g] = "periodic"

Goto(g, step) == pc' = [pc EXCEPT ![g] = step]

(* The gate of a pass is an object of that pass. *)
Leave(g) ==
    /\ Goto(g, "idle")
    /\ saw' = [saw EXCEPT ![g] = "unknown"]
    /\ clean' = [clean EXCEPT ![g] = FALSE]
    /\ again' = [again EXCEPT ![g] = FALSE]

(* The UPDATE of a reset holds the row of its job until the transaction ends, and another
   session that updates the row waits.  Reads do not wait. *)
JobRowFree(j) == \A g \in Gate : pc[g] \in JobLocked => found[g] # j

-----------------------------------------------------------------------------
(* check_state and get_active_rebuild_state, as g sees them. *)

LockSeen(g) ==
    CASE lock.holder = NoHolder -> "unknown"
      [] HoldsLease(lock, g) -> "valid"
      [] lock.holder # NoHolder /\ lock.left <= 0 -> "expired"
      [] OTHER -> "unknown"

JobsSeen(g) ==
    IF Running = {} THEN [finding |-> "none", job |-> NoJob]
    ELSE IF \E j \in Running : Running = {j}
    THEN LET j == CHOOSE j \in Running : TRUE
         IN  [finding |-> "job",
              job |-> [running |-> TRUE, owner |-> IF j = g THEN "self" ELSE "other",
                       age |-> age[j]]]
    ELSE [finding |-> "several", job |-> NoJob]

Observed(g, seen) ==
    [lock |-> saw[g], finding |-> seen.finding, job |-> seen.job, executor |-> FALSE]

DbError == [finding |-> "db_error", job |-> NoJob]

-----------------------------------------------------------------------------
(* Evaluation *)

(* A new DistributedLock with a new holder_id: nobody answers to the old one. *)
NewLock(g) == lock' = IF lock.holder = g THEN [lock EXCEPT !.holder = Gone] ELSE lock

(* A new pass. *)
Begin(g, step) ==
    /\ pc[g] = "idle"
    /\ Goto(g, step)
    /\ NewLock(g)
    /\ UNCHANGED <<jobRows, stable, looks, target, hb>>

LookAtLock(g) ==
    /\ pc[g] = "look"
    /\ saw' = [saw EXCEPT ![g] = LockSeen(g)]
    /\ Goto(g, "read")
    /\ UNCHANGED <<rows, up, clean, again, target, hb>>

LookAtLockFails(g) ==
    /\ pc[g] = "look"
    /\ ~stable
    /\ saw' = [saw EXCEPT ![g] = "lost"]
    /\ Goto(g, "read")
    /\ UNCHANGED <<rows, up, clean, again, target, hb>>

(* _handle_reconciliation_blocked: without a lock and without a job the start is clean. *)
Benign(decision) ==
    decision.kind = "block" /\ decision.action = "wait" /\ decision.drift = "none"

(* The rest of the evaluation and the gate's answer.  After a reset only "resume"
   lets the caller go on. *)
Evaluate(g, seen) ==
    LET decision == Decision[<<Observed(g, seen), Automatic(g)>>]
        step == CASE decision.kind = "execute" -> "passed"
                  [] decision.kind = "reset" /\ ~again[g] -> "ensure"
                  [] OTHER -> "blocked"
    IN  /\ clean' = [clean EXCEPT ![g] = Kind[g] = "startup" /\ Benign(decision)]
        /\ Goto(g, step)

ReadJobs(g) ==
    /\ pc[g] = "read"
    /\ Evaluate(g, JobsSeen(g))
    /\ UNCHANGED <<rows, up, saw, again, target, hb>>

ReadJobsFails(g) ==
    /\ pc[g] = "read"
    /\ ~stable
    /\ Evaluate(g, DbError)
    /\ UNCHANGED <<rows, up, saw, again, target, hb>>

-----------------------------------------------------------------------------
(* The reset: _perform_reset_recovery *)

(* _ensure_lock_for_reset: thirty seconds of retries, which wait for a lease that
   runs out and not for one that is renewed.  lock_was_reacquired is still FALSE in
   "refused": what was taken is not released. *)
EnsureLock(g) ==
    /\ pc[g] = "ensure"
    /\ \/ HoldsLease(lock, g) /\ Goto(g, "reset") /\ UNCHANGED lock
       \/ ~HoldsLease(lock, g) /\ CanTake(lock, g) /\ lock' = Taken(g) /\ Goto(g, "verify")
       \/ ~CanTake(lock, g) /\ Goto(g, "refused") /\ UNCHANGED lock
    /\ UNCHANGED <<jobRows, stable, up, looks, target, hb>>

(* The lease is read back. *)
VerifyLock(g) ==
    /\ pc[g] = "verify"
    /\ Goto(g, IF HoldsLease(lock, g) THEN "reset" ELSE "refused")
    /\ UNCHANGED <<rows, up, looks, target, hb>>

(* The transaction of the reset ends, and with it what it has read. *)
EndReset(g, step) ==
    /\ Goto(g, step)
    /\ found' = [found EXCEPT ![g] = NoHolder]
    /\ heard' = [heard EXCEPT ![g] = Missing]

(* The evaluation that follows a reset. *)
LookAgain(g) == EndReset(g, "look") /\ again' = [again EXCEPT ![g] = TRUE]

(* get_active_rebuild_state: without a RUNNING job there is nothing to reset, with two
   of them it raises. *)
ReadTarget(g) ==
    /\ pc[g] = "reset"
    /\ \/ Running = {} /\ LookAgain(g)
       \/ \E j \in Running :
             /\ Running = {j}
             /\ found' = [found EXCEPT ![g] = j]
             /\ heard' = [heard EXCEPT ![g] = age[j]]
             /\ Goto(g, "judge")
             /\ UNCHANGED again
       \/ /\ \E j \in Running : Running # {j}
          /\ EndReset(g, "blocked")
          /\ UNCHANGED again
    /\ UNCHANGED <<rows, up, saw, clean, hb>>

(* check_state, in a session of its own, and _is_heartbeat_stale of what was read. *)
JudgeTarget(g) ==
    /\ pc[g] = "judge"
    /\ IF HoldsLease(lock, g) /\ heard[g] >= TTL
       THEN Goto(g, "update") /\ heard' = [heard EXCEPT ![g] = Missing] /\ UNCHANGED found
       ELSE EndReset(g, "blocked")
    /\ UNCHANGED <<rows, up, looks, hb>>

(* mark_rebuild_job_failed updates the row if it is still RUNNING; it does not ask for
   its heartbeat. *)
UpdateTarget(g) ==
    /\ pc[g] = "update"
    /\ JobRowFree(found[g])
    /\ IF job[found[g]] = "running" THEN Goto(g, "confirm") /\ UNCHANGED target
       ELSE EndReset(g, "blocked")
    /\ UNCHANGED <<rows, up, looks, hb>>

(* Mutant of ConfirmLease: the lease was valid a moment ago. *)
ConfirmNothing(g) ==
    /\ pc[g] = "confirm"
    /\ Goto(g, "commit")
    /\ UNCHANGED <<rows, up, looks, target, hb>>

(* A second check_state decides whether the update is kept or rolled back. *)
ConfirmLease(g) ==
    /\ pc[g] = "confirm"
    /\ IF HoldsLease(lock, g) THEN Goto(g, "commit") /\ UNCHANGED target
       ELSE EndReset(g, "blocked")
    /\ UNCHANGED <<rows, up, looks, hb>>

EndJob(j) == job' = [job EXCEPT ![j] = IF @ = "running" THEN "ended" ELSE @]

CommitReset(g) ==
    /\ pc[g] = "commit"
    /\ EndJob(found[g])
    /\ late' = [late EXCEPT ![found[g]] = FALSE]
    /\ LookAgain(g)
    /\ UNCHANGED <<lock, age, stable, up, saw, clean, hb>>

(* A database error in the reset ends it as a block. *)
ResetFails(g) ==
    /\ pc[g] \in {"ensure", "verify"} \union Resetting
    /\ ~stable
    /\ EndReset(g, IF pc[g] \in {"ensure", "verify"} THEN "refused" ELSE "blocked")
    /\ UNCHANGED <<rows, up, looks, hb>>

ResetStep(g) ==
    \/ EnsureLock(g) \/ VerifyLock(g) \/ ReadTarget(g) \/ JudgeTarget(g) \/ UpdateTarget(g)
    \/ ConfirmLease(g) \/ CommitReset(g)

(* What every gate does between its start and its answer. *)
Proceed(g) == LookAtLock(g) \/ ReadJobs(g) \/ ResetStep(g)

-----------------------------------------------------------------------------
(* Startup: lifespan, _perform_startup_reconciliation *)

Start(g) ==
    /\ Kind[g] = "startup"
    /\ up[Host[g]] = "down"
    /\ Begin(g, "look")
    /\ up' = [up EXCEPT ![Host[g]] = "starting"]

(* A release that raises nothing when it fails. *)
GiveBack(g) == lock' \in IF stable THEN {Released(lock, g)} ELSE ReleaseOutcomes(lock, g)

(* Whatever the answer, the lock is released if the reset has verified it. *)
GateEnds(g) ==
    /\ \/ pc[g] \in {"passed", "blocked"} /\ GiveBack(g)
       \/ pc[g] = "refused" /\ UNCHANGED lock
    /\ Leave(g)
    /\ UNCHANGED <<jobRows, stable, target, hb>>

(* From now on the loops of the replica run, its rebuild executor among them. *)
StartTasks(r) == up' = [up EXCEPT ![r] = "ready"]

(* The startup gate never holds the lock, so it is always blocked; a blocked start
   ends the process unless it is benign. *)
StartupEnds(g) ==
    /\ Kind[g] = "startup"
    /\ GateEnds(g)
    /\ IF pc[g] = "passed" \/ clean[g] THEN StartTasks(Host[g])
       ELSE up' = [up EXCEPT ![Host[g]] = "down"]

(* The check fails before the gate answers: an unreachable database, an incompatible
   catalogue, the timeout of 120 seconds.  A degraded replica serves all the same,
   unless the error is an incompatible catalogue. *)
StartupError(g) ==
    /\ Kind[g] = "startup"
    /\ up[Host[g]] = "starting"
    /\ ~stable
    /\ \/ Host[g] \in Degraded /\ StartTasks(Host[g])
       \/ up' = [up EXCEPT ![Host[g]] = "down"]
    /\ Leave(g)
    /\ UNCHANGED <<rows, target, hb>>

-----------------------------------------------------------------------------
(* The periodic reconciliation: _run_sync_reconciliation *)

PassBegins(g) ==
    /\ Kind[g] = "periodic"
    /\ up[Host[g]] = "ready"
    /\ Begin(g, "look")
    /\ UNCHANGED up

PassEnds(g) ==
    /\ Kind[g] = "periodic"
    /\ GateEnds(g)
    /\ UNCHANGED up

-----------------------------------------------------------------------------
(* A rebuild: _perform_rebuild_and_persist_sync *)

Ask(g) ==
    /\ Kind[g] = "rebuild"
    /\ up[Host[g]] = "ready"
    /\ job[g] = "none"
    /\ Begin(g, "acquire")
    /\ UNCHANGED up

Acquire(g) ==
    /\ pc[g] = "acquire"
    /\ \/ CanTake(lock, g) /\ lock' = Taken(g) /\ Goto(g, "check")
       \/ ~CanTake(lock, g) /\ Goto(g, "idle") /\ UNCHANGED lock
    /\ UNCHANGED <<jobRows, stable, up, looks, target, hb>>

(* The row is read back, and left where it is when it is not a valid lease. *)
CheckAcquired(g) ==
    /\ pc[g] = "check"
    /\ Goto(g, IF HoldsLease(lock, g) THEN "look" ELSE "idle")
    /\ UNCHANGED <<rows, up, looks, target, hb>>

(* The job is created and marked RUNNING without another look at the lock. *)
CreateJob(g) ==
    /\ Kind[g] = "rebuild"
    /\ pc[g] = "passed"
    /\ job' = [job EXCEPT ![g] = "running"]
    /\ Goto(g, "firstbeat")
    /\ UNCHANGED <<lock, age, late, stable, up, looks, target, hb>>

(* update_rebuild_heartbeat: one conditional UPDATE of a RUNNING job. *)
BeatJob(g) ==
    /\ age' = [age EXCEPT ![g] = 0]
    /\ late' = [late EXCEPT ![g] = lock.holder # g]
    /\ UNCHANGED <<lock, job, stable>>

(* The first heartbeat, and the start of the heartbeat thread if it succeeds. *)
FirstBeat(g) ==
    /\ pc[g] = "firstbeat"
    /\ JobRowFree(g)
    /\ \/ /\ job[g] = "running"
          /\ BeatJob(g)
          /\ hb' = [hb EXCEPT ![g] = "wait"]
          /\ Goto(g, "building")
       \/ /\ job[g] # "running" \/ ~stable
          /\ Goto(g, "building")
          /\ UNCHANGED <<rows, hb>>
    /\ UNCHANGED <<up, looks, target>>

HbGoto(g, step) == hb' = [hb EXCEPT ![g] = step]

(* The heartbeat thread wakes up and refreshes the lock. *)
Refresh(g) ==
    /\ g \in Long
    /\ hb[g] \in {"wait", "woken"}
    /\ \/ CanTake(lock, g) /\ lock' = Taken(g) /\ HbGoto(g, "due")
       \/ ~CanTake(lock, g) /\ HbGoto(g, "off") /\ UNCHANGED lock
       \/ ~stable /\ HbGoto(g, "lost") /\ UNCHANGED lock
    /\ UNCHANGED <<jobRows, stable, up, gateVars>>

(* Then it updates the heartbeat, in a transaction of its own, and sees whether it has
   been told to stop. *)
Beat(g) ==
    /\ hb[g] = "due"
    /\ JobRowFree(g)
    /\ \/ job[g] = "running" /\ BeatJob(g) /\ HbGoto(g, IF pc[g] = "building" THEN "wait" ELSE "off")
       \/ (job[g] # "running" \/ ~stable) /\ HbGoto(g, "off") /\ UNCHANGED rows
    /\ UNCHANGED <<up, gateVars>>

(* The pipeline is over, whatever the outcome: the job is finished unless a reset was
   faster.  The error of an update that fails is logged, and the job stays. *)
FinishJob(g) ==
    /\ pc[g] = "building"
    /\ \/ /\ JobRowFree(g)
          /\ EndJob(g)
          /\ age' = [age EXCEPT ![g] = Missing]
          /\ late' = [late EXCEPT ![g] = FALSE]
       \/ ~stable /\ UNCHANGED jobRows
    /\ Goto(g, "closing")
    /\ UNCHANGED <<lock, stable, up, looks, target, hb>>

(* The heartbeat thread is told to stop and joined for two seconds, and the lock is
   released if its object is not LOST: a look of the gate that was not valid and a
   refresh that failed leave it LOST. *)
RebuildEnds(g) ==
    /\ Kind[g] = "rebuild"
    /\ pc[g] \in {"closing", "blocked"}
    /\ IF saw[g] = "valid" /\ hb[g] # "lost" THEN GiveBack(g) ELSE UNCHANGED lock
    /\ \/ hb[g] = "wait" /\ HbGoto(g, "off")
       \/ hb[g] = "wait" /\ g \in Long /\ HbGoto(g, "woken")
       \/ hb[g] # "wait" /\ UNCHANGED hb
    /\ Leave(g)
    /\ UNCHANGED <<jobRows, stable, up, target>>

-----------------------------------------------------------------------------
(* _perform_orderly_shutdown: the loops are cancelled, which waits for the pass that is
   under way, and the executor for its rebuild. *)
Shutdown(r) ==
    /\ r \in Redeployed
    /\ up[r] = "ready"
    /\ ~stable
    /\ up' = [up EXCEPT ![r] = "stopping"]
    /\ UNCHANGED <<rows, gateVars, hb>>

(* A process takes its threads with it. *)
EndThreads(r) == hb' = [g \in Gate |-> IF Host[g] = r THEN "off" ELSE hb[g]]

Stopped(r) ==
    /\ up[r] = "stopping"
    /\ \A g \in Gate : Host[g] = r => pc[g] = "idle"
    /\ up' = [up EXCEPT ![r] = "down"]
    /\ EndThreads(r)
    /\ UNCHANGED <<rows, gateVars>>

(* A process dies and leaves its rows as they are; an open transaction is rolled back. *)
Crash(r) ==
    /\ up[r] # "down"
    /\ ~stable
    /\ up' = [up EXCEPT ![r] = "down"]
    /\ pc' = [g \in Gate |-> IF Host[g] = r THEN "idle" ELSE pc[g]]
    /\ saw' = [g \in Gate |-> IF Host[g] = r THEN "unknown" ELSE saw[g]]
    /\ clean' = [g \in Gate |-> clean[g] /\ Host[g] # r]
    /\ again' = [g \in Gate |-> again[g] /\ Host[g] # r]
    /\ found' = [g \in Gate |-> IF Host[g] = r THEN NoHolder ELSE found[g]]
    /\ heard' = [g \in Gate |-> IF Host[g] = r THEN Missing ELSE heard[g]]
    /\ EndThreads(r)
    /\ UNCHANGED rows

(* From some point on the database answers and no process is stopped or killed. *)
Stabilize ==
    /\ ~stable
    /\ stable' = TRUE
    /\ UNCHANGED <<lock, jobRows, up, gateVars, hb>>

Older(t) == IF t < Missing THEN t + 1 ELSE Missing

(* Faults over, a reset takes less than a tick from its lock to its commit. *)
Tick ==
    /\ stable => \A g \in Gate : pc[g] \notin {"verify"} \union Resetting
    /\ lock' = OneTickOlder(lock)
    /\ age' = [g \in Gate |-> Older(age[g])]
    /\ heard' = [g \in Gate |-> Older(heard[g])]
    /\ UNCHANGED <<job, late, stable, up, pc, looks, found, hb>>

Next ==
    \/ \E g \in Gate :
          \/ Start(g) \/ StartupEnds(g) \/ StartupError(g)
          \/ PassBegins(g) \/ PassEnds(g)
          \/ LookAtLock(g) \/ ReadJobs(g) \/ ResetStep(g)
          \/ LookAtLockFails(g) \/ ReadJobsFails(g) \/ ResetFails(g)
          \/ Ask(g) \/ Acquire(g) \/ CheckAcquired(g) \/ CreateJob(g) \/ FirstBeat(g)
          \/ Refresh(g) \/ Beat(g) \/ FinishJob(g) \/ RebuildEnds(g)
    \/ \E r \in Replica : Shutdown(r) \/ Stopped(r) \/ Crash(r)
    \/ Stabilize
    \/ Tick

Spec == Init /\ [][Next]_vars

-----------------------------------------------------------------------------
(* Fairness: the thread that starts a replica and then reconciles runs, so does the one
   that rebuilds, a process that went down is started again and the clock advances,
   between the passes if not within them.  Requests, faults and their end are never
   forced. *)

Main(r) ==
    \/ Stopped(r)
    \/ \E g \in Gate :
        /\ Host[g] = r /\ Kind[g] # "rebuild"
        /\ Start(g) \/ StartupEnds(g) \/ PassBegins(g) \/ PassEnds(g) \/ Proceed(g)

Rebuild ==
    \E g \in Gate :
        /\ Kind[g] = "rebuild"
        /\ \/ Acquire(g) \/ CheckAcquired(g) \/ Proceed(g) \/ CreateJob(g) \/ FirstBeat(g)
           \/ FinishJob(g) \/ RebuildEnds(g)

Fairness ==
    /\ SF_vars(Tick)
    /\ \A r \in Replica : WF_vars(Main(r))
    /\ WF_vars(Rebuild)

LiveSpec == Spec /\ Fairness

-----------------------------------------------------------------------------
(* Properties *)

StartupTypeOK ==
    /\ lock \in LockRow
    /\ job \in [Gate -> {"none", "running", "ended"}]
    /\ age \in [Gate -> 0..Missing]
    /\ up \in [Replica -> {"down", "starting", "ready", "stopping"}]
    /\ pc \in [Gate -> GateStep]
    /\ saw \in [Gate -> LockState]
    /\ clean \in [Gate -> BOOLEAN]
    /\ again \in [Gate -> BOOLEAN]
    /\ found \in [Gate -> Gate \union {NoHolder}]
    /\ heard \in [Gate -> 0..Missing]
    /\ hb \in [Gate -> HeartbeatStep]
    /\ late \in [Gate -> BOOLEAN]
    /\ stable \in BOOLEAN

(* Recovery is left to the reconciliation of a serving replica: neither a start nor a
   rebuild resets a job, whatever their looks at lock and jobs return. *)
OnlyPeriodicResets ==
    \A g \in Gate : pc[g] \in {"ensure", "verify", "refused"} \union Resetting => Kind[g] = "periodic"

(* A start holds no lock, so the gate never lets it pass: a replica starts because its
   block is the benign one, and a rebuild or a reconciliation passes only under a
   lease it has seen valid. *)
PassedUnderLease ==
    \A g \in Gate : pc[g] = "passed" => saw[g] = "valid" /\ Kind[g] # "startup"

(* A start takes no lock and has seen none of its own; only a rebuild waits for the
   lock, builds, beats or has a job; and it has none until it has passed the gate. *)
StartsHoldNothing ==
    \A g \in Gate : Kind[g] = "startup" => lock.holder # g /\ saw[g] # "valid"
AtWork == {"firstbeat", "building", "closing"}
JobsAreRebuilds ==
    \A g \in Gate :
        /\ pc[g] \in {"acquire", "check"} \union AtWork \/ job[g] # "none" => Kind[g] = "rebuild"
        /\ pc[g] \notin {"idle"} \union AtWork => job[g] = "none"
        /\ hb[g] # "off" \/ pc[g] \in AtWork => job[g] # "none"

(* What a reset relies on about the job it has read.  Its row lock keeps the job RUNNING
   and its owner from beating; before that, a heartbeat that arrives under the lease of
   the reset was sent under another. *)
Reads(g) == pc[g] \in {"judge", "update"} \union JobLocked
SilentOrLate(j) == late[j] \/ age[j] >= TTL
TargetsRunning ==
    \A g \in Gate :
        /\ Reads(g) => found[g] \in Gate /\ job[found[g]] # "none"
        /\ pc[g] \in JobLocked => job[found[g]] = "running"
OneJobWriter ==
    \A g, h \in Gate : pc[g] \in JobLocked /\ pc[h] \in JobLocked /\ found[g] = found[h] => g = h
TargetsSilent ==
    \A g \in Gate :
        Reads(g) /\ job[found[g]] = "running" =>
            /\ pc[g] = "judge" /\ lock.holder = g => late[found[g]] \/ age[found[g]] >= heard[g]
            /\ pc[g] \in {"update", "confirm"} /\ lock.holder = g => SilentOrLate(found[g])
            /\ pc[g] = "commit" => SilentOrLate(found[g])

StartInvariant ==
    /\ StartupTypeOK /\ OnlyPeriodicResets /\ PassedUnderLease /\ StartsHoldNothing /\ JobsAreRebuilds
    /\ TargetsRunning /\ OneJobWriter /\ TargetsSilent

(* A job ends by the hand of another, its thread dead or stalled, only when its owner has
   been silent for a whole TTL, or was so late with its last heartbeat that the lock row
   had already passed to another.  Whoever beats in time is not reset, however the read,
   the judgement, the update and the commit of a reset fall between its own steps. *)
OnlySilentReset ==
    [][\A j \in Gate :
          job[j] = "running" /\ job'[j] = "ended" /\ ~(pc[j] = "building" /\ pc'[j] = "closing")
          => late[j] \/ age[j] >= TTL]_vars

(* Once outages and crashes have ended and some replica serves, all come to serve: what
   a dead rebuild leaves behind, which blocks every start, is cleaned up by a peer. *)
StartsBesidePeer ==
    (stable /\ \E p \in Replica : up[p] = "ready") ~> (\A r \in Replica : up[r] = "ready")

(* A statement of the operating contract that the code does not keep: one active
   rebuild owner.  The job is created without a look at the lock. *)
OneActiveOwner == \A i, j \in Running : i = j

=============================================================================
