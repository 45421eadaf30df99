---------------------------- MODULE RecoveryDecision ----------------------------
(***************************************************************************)
(* What the recovery gate decides from one look at the lock row and at the *)
(* rebuild jobs: failure detection, drift evaluator, reconciliation engine *)
(* and the gate's reading of the plan, and beside them the older decision  *)
(* table of rebuild_recovery.                                              *)
(***************************************************************************)
EXTENDS Naturals

CONSTANT HeartbeatTTL  \* lock_ttl_seconds, the age from which a heartbeat is stale

ASSUME HeartbeatAssumption == HeartbeatTTL \in Nat \ {0}

LockState == {"valid", "expired", "unknown", "lost"}

(* A missing or unreadable heartbeat is as stale as the oldest one. *)
Missing == HeartbeatTTL + 1

(* The job a look finds.  Its owner is the holder of the gate's own lock, another
   one, or not recorded. *)
FoundJob == [running : BOOLEAN, owner : {"self", "other", "nobody"}, age : 0..Missing]

NoJob == [running |-> FALSE, owner |-> "nobody", age |-> 0]

(* What a look yields: no row, a row, several RUNNING rows (ValueError), a database
   error, or any other exception. *)
Finding == {"none", "job", "several", "db_error", "error"}

Observation == [lock : LockState, finding : Finding, job : FoundJob, executor : BOOLEAN]

-----------------------------------------------------------------------------
(* detect_rebuild_inconsistency *)

Silent(job) == job.age > HeartbeatTTL

CrashSuspected(job) == job.running /\ job.owner # "nobody" /\ Silent(job)

OwnershipStale(job) == job.running /\ Silent(job)

(* Divergence of runtime and database comes before what the heartbeat says. *)
Inconsistency(o) ==
    LET running == o.finding = "job" /\ o.job.running
    IN  CASE o.executor /\ ~running -> "zombie_executor"
          [] running /\ ~o.executor -> "orphaned_running"
          [] running /\ o.executor /\ CrashSuspected(o.job) -> "crash_suspicion"
          [] running /\ o.executor /\ ~CrashSuspected(o.job) /\ OwnershipStale(o.job) -> "stale_ownership"
          [] OTHER -> "none"

(* RebuildDriftEvaluator: the job of another holder whose heartbeat has reached the
   TTL, the one orphan that may be reset under a valid lock. *)
AbandonedByOther(o) == o.job.owner = "other" /\ o.job.age >= HeartbeatTTL

Severity(o, drift) ==
    CASE drift \in {"lock_lost", "persistence_unavailable", "zombie_executor"} -> "critical"
      [] drift = "orphaned_running" ->
           IF o.lock = "valid" /\ ~AbandonedByOther(o) THEN "critical" ELSE "high"
      [] drift = "crash_suspicion" -> "high"
      [] drift = "stale_ownership" -> "medium"
      [] OTHER -> "none"

(* A lost lock is reported before the jobs are read. *)
Drift(o) ==
    CASE o.lock = "lost" -> "lock_lost"
      [] o.lock # "lost" /\ o.finding = "db_error" -> "persistence_unavailable"
      [] o.lock # "lost" /\ o.finding \in {"several", "error"} -> "evaluation_failed"
      [] OTHER -> Inconsistency(o)

-----------------------------------------------------------------------------
(* ReconciliationEngine *)

Plan(drift, action, mode, safety) ==
    [drift |-> drift, action |-> action, mode |-> mode, safety |-> safety]

CriticalSafety(o, drift) ==
    CASE drift = "lock_lost" -> "integrity_compromised"
      [] drift = "persistence_unavailable" -> "observability_failure"
      [] drift \in {"zombie_executor", "orphaned_running"} -> "unsafe_split_brain"
      [] OTHER -> "manual_investigation"

ResetPlan(drift, severity, auto) ==
    Plan(drift, "reset_state",
         IF severity = "high" /\ auto THEN "automatic" ELSE "deferred", "reset_required")

WaitPlan(drift) == Plan(drift, "wait_for_convergence", "deferred", "wait_required")

(* _map_drift_type_to_plan *)
MappedPlan(drift, severity, leased, auto) ==
    CASE drift = "orphaned_running" -> ResetPlan(drift, severity, auto)
      [] drift \in {"stale_ownership", "crash_suspicion"} ->
           IF leased THEN WaitPlan(drift) ELSE ResetPlan(drift, severity, auto)
      [] OTHER -> Plan(drift, "alert_only", "manual",
                       IF drift = "zombie_executor" THEN "unsafe_split_brain"
                       ELSE "manual_investigation")

(* generate_reconciliation_plan and the failures the gate turns into a plan. *)
PlanFor(o, auto) ==
    LET drift == Drift(o)
        severity == Severity(o, drift)
        leased == o.lock = "valid"
    IN  CASE drift = "evaluation_failed" ->
               Plan(drift, "alert_only", "manual", "evaluation_failed")
          [] severity = "none" /\ drift = "none" ->
               IF leased THEN Plan(drift, "noop", "automatic", "converged")
                         ELSE Plan(drift, "noop", "deferred", "wait_required")
          [] severity = "critical" ->
               Plan(drift, "alert_only", "manual", CriticalSafety(o, drift))
          [] OTHER -> MappedPlan(drift, severity, leased, auto)

-----------------------------------------------------------------------------
(* RecoveryGate *)

Terminal == {"evaluation_failed", "observability_failure", "unsafe_split_brain",
             "integrity_compromised"}

(* _map_plan_to_action *)
ActionOf(plan) ==
    CASE plan.action = "reset_state" -> "reset"
      [] plan.action = "wait_for_convergence" \/ plan.safety = "wait_required" -> "wait"
      [] plan.action = "alert_only" -> "alert_only"
      [] OTHER -> "resume"

Answer(kind, action, drift) == [kind |-> kind, action |-> action, drift |-> drift]

Block(action, plan) == Answer("block", action, plan.drift)

(* Mutant of Consume: a deferred reset is carried out. *)
ConsumeAnyReset(plan, auto) ==
    CASE plan.safety \in Terminal -> Block("alert_only", plan)
      [] plan.action = "reset_state" -> Answer("reset", "reset", plan.drift)
      [] plan.safety = "wait_required" -> Block("wait", plan)
      [] OTHER -> Answer("execute", "resume", plan.drift)

(* consume_reconciliation_plan, up to the reset itself. *)
Consume(plan, auto) ==
    CASE plan.safety \in Terminal -> Block(ActionOf(plan), plan)
      [] plan.safety \notin Terminal /\ plan.action = "reset_state" ->
           IF plan.mode = "automatic" /\ auto THEN Answer("reset", "reset", plan.drift)
           ELSE Block(IF plan.mode = "deferred" THEN "wait" ELSE "alert_only", plan)
      [] plan.action \notin {"reset_state", "alert_only"} /\ plan.safety = "wait_required" ->
           Block("wait", plan)
      [] plan.safety \notin Terminal /\ plan.action = "alert_only" -> Block("alert_only", plan)
      [] OTHER -> Answer("execute", "resume", plan.drift)

(* The gate's answer to every observation, with or without automatic recovery. *)
Decision ==
    [seen \in Observation \X BOOLEAN |-> Consume(PlanFor(seen[1], seen[2]), seen[2])]

-----------------------------------------------------------------------------
(* determine_recovery_action, the table before the engine *)

LegacyAction(inconsistency, leased) ==
    CASE inconsistency = "none" -> IF leased THEN "resume" ELSE "wait"
      [] inconsistency = "orphaned_running" -> IF leased THEN "unsafe" ELSE "reset"
      [] inconsistency \in {"crash_suspicion", "stale_ownership"} ->
           IF leased THEN "wait" ELSE "reset"
      [] OTHER -> "unsafe"

=============================================================================
