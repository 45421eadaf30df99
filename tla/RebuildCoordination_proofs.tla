----------------------- MODULE RebuildCoordination_proofs -----------------------
(***************************************************************************)
(* What RebuildCoordination guarantees for any number of rebuild attempts  *)
(* and reconciliation loops, any time to live and any clock skew.          *)
(***************************************************************************)
EXTENDS RebuildCoordination, TLAPS

(* Who holds the lock, and how long a lease written by any clock may run. *)
LEMMA Holders ==
    /\ NoHolder \notin Attempt \union Reconciler
    /\ Gone \notin Attempt \union {NoHolder}
    /\ \A h \in Attempt \union Reconciler :
          /\ Taken(h) \in LockRow
          /\ TTL + Skew[h] \in NoTxn..(TTL + MaxSkew)
          /\ TTL + Skew[h] # NoTxn
    /\ NoRow \in LockRow
    /\ Gone \in Holder
BY LockAssumption, CoordinationAssumption
   DEF Taken, LockRow, NoRow, NoTxn, Expired

(* What the statements on the lock row write is a lock row. *)
LEMMA LockRows ==
    ASSUME TypeOK
    PROVE  /\ OneTickOlder(lock) \in LockRow
           /\ \A h \in Holder : Released(lock, h) \in LockRow
           /\ \A r \in Reconciler : Abandoned(r) \in LockRow
           /\ \A a \in Attempt : InTxn(a) => RowInTxn(a) \in LockRow
<1>. USE LockAssumption, CoordinationAssumption, Holders
<1>1. OneTickOlder(lock) \in LockRow
  <2>. DEFINE left == IF lock.left > Expired THEN lock.left - 1 ELSE Expired
  <2>1. lock \in LockRow /\ left \in Expired..(TTL + MaxSkew)
    BY LockAssumption DEF TypeOK, LockRow, Expired
  <2>2. OneTickOlder(lock) = [lock EXCEPT !.left = left]
    BY Zenon DEF OneTickOlder
  <2>. QED BY ONLY <2>1, <2>2 DEF LockRow
<1>2. \A h \in Holder : Released(lock, h) \in LockRow
  BY DEF TypeOK, Released, LockRow
<1>3. \A r \in Reconciler : Abandoned(r) \in LockRow
  BY DEF TypeOK, Abandoned, LockRow
<1>4. \A a \in Attempt : InTxn(a) => RowInTxn(a) \in LockRow
  BY DEF TypeOK, RowInTxn, LockRow, InTxn, NoTxn, Expired
<1>. QED BY <1>1, <1>2, <1>3, <1>4

-----------------------------------------------------------------------------
(* Type correctness. *)

LEMMA InitTypeOK == Init => TypeOK
BY LockAssumption, CoordinationAssumption, Holders
   DEF Init, TypeOK, JobStatus, Stale, ExecutorStep, Before, HeartbeatStep, Signal,
       NoTxn, Expired, ReconcilerStep

(* The steps of the executor thread. *)
LEMMA ExecutorTypeOK ==
    ASSUME TypeOK, TxnWhilePublishing,
           NEW a \in Attempt, Executor(a) \/ Error(a) \/ Crash(a)
    PROVE  TypeOK'
<1>. USE LockAssumption, CoordinationAssumption, Holders, LockRows
     DEF TypeOK, Goto, SetStatus, Rollback, Renewed, tables, recovery,
         ExecutorStep, Before, Publishing, Over
<1>1. CASE Acquire(a)
  BY <1>1 DEF Acquire
<1>2. CASE CheckAcquired(a) \/ Gate(a) \/ Sync(a)
  BY <1>2 DEF CheckAcquired, Gate, Sync
<1>3. CASE CreateJob(a) \/ StartJob(a) \/ FailJob(a) \/ CancelJob(a)
  BY <1>3 DEF CreateJob, StartJob, FailJob, CancelJob, JobStatus
<1>4. CASE FirstBeat(a)
  BY <1>4 DEF FirstBeat, Stale, HeartbeatStep
<1>5. CASE Build(a)
  BY <1>5 DEF Build, InterruptedStep
<1>6. CASE OpenPublication(a)
  BY <1>6 DEF OpenPublication, InterruptedStep
<1>7. CASE SucceedJob(a)
  BY <1>7 DEF SucceedJob, AbortStep, InterruptedStep, NoTxn, Expired
<1>8. CASE PreCommit(a)
  BY <1>8 DEF PreCommit, AbortStep, InterruptedStep, NoTxn, Expired
<1>9. CASE Commit(a)
  <2>1. lock' \in LockRow /\ status' \in [Attempt -> JobStatus]
    BY <1>9 DEF Commit, TxnWhilePublishing, JobStatus
  <2>. QED BY <1>9, <2>1 DEF Commit, NoTxn, Expired
<1>10. CASE Close(a)
  BY <1>10 DEF Close, HeartbeatStep
<1>11. CASE Release(a)
  BY <1>11 DEF Release
<1>12. CASE Error(a)
  BY <1>12 DEF Error, AfterError, NoTxn, Expired
<1>13. CASE Crash(a)
  BY <1>13 DEF Crash, HeartbeatStep, NoTxn, Expired
<1>. QED
  BY <1>1, <1>2, <1>3, <1>4, <1>5, <1>6, <1>7, <1>8, <1>9, <1>10, <1>11, <1>12, <1>13
     DEF Executor

(* The steps of everybody else. *)
LEMMA OthersTypeOK ==
    ASSUME TypeOK,
           \/ \E a \in Attempt : Heartbeat(a) \/ RequestCancel(a)
           \/ \E r \in Reconciler : Reconcile(r) \/ RecError(r) \/ RecCrash(r)
           \/ Tick
    PROVE  TypeOK'
<1>. USE LockAssumption, CoordinationAssumption, Holders, LockRows
     DEF TypeOK, SetStatus, tables, threads, recovery
<1>1. ASSUME NEW a \in Attempt, HbWake(a) PROVE TypeOK'
  BY <1>1 DEF HbWake, HeartbeatStep
<1>2. ASSUME NEW a \in Attempt, HbRefresh(a) PROVE TypeOK'
  BY <1>2 DEF HbRefresh, HbStop, HeartbeatStep, Signal
<1>3. ASSUME NEW a \in Attempt, HbBeat(a) PROVE TypeOK'
  BY <1>3 DEF HbBeat, HbStop, HeartbeatStep, Signal, Stale
<1>4. ASSUME NEW a \in Attempt, RequestCancel(a) PROVE TypeOK'
  BY <1>4 DEF RequestCancel, JobStatus
<1>5. ASSUME NEW r \in Reconciler, Reconcile(r) PROVE TypeOK'
  <2>. USE DEF RecGoto, RecDone, ReconcilerStep
  <2>1. CASE RecPlan(r) \/ RecAcquire(r) \/ RecGiveUp(r) \/ RecCheck(r)
    BY <2>1 DEF RecPlan, RecAcquire, RecGiveUp, RecCheck
  <2>2. CASE RecInspect(r)
    BY <2>2 DEF RecInspect, Running
  <2>3. CASE RecReset(r)
    BY <2>3 DEF RecReset
  <2>4. CASE RecCommit(r)
    BY <2>4 DEF RecCommit, JobStatus
  <2>5. CASE RecRelease(r)
    BY <2>5 DEF RecRelease
  <2>. QED BY <1>5, <2>1, <2>2, <2>3, <2>4, <2>5 DEF Reconcile
<1>6. ASSUME NEW r \in Reconciler, RecError(r) \/ RecCrash(r) PROVE TypeOK'
  BY <1>6 DEF RecError, RecCrash, RecGoto, RecDone, ReconcilerStep
<1>7. CASE Tick
  BY <1>7 DEF Tick, threads, Stale, NoTxn, Expired
<1>. QED BY <1>1, <1>2, <1>3, <1>4, <1>5, <1>6, <1>7 DEF Heartbeat

LEMMA NextTypeOK == TypeOK /\ TxnWhilePublishing /\ [Next]_vars => TypeOK'
<1>. SUFFICES ASSUME TypeOK, TxnWhilePublishing, [Next]_vars PROVE TypeOK'
  OBVIOUS
<1>1. CASE Next
  BY <1>1, ExecutorTypeOK, OthersTypeOK DEF Next
<1>2. CASE UNCHANGED vars
  BY <1>2 DEF vars, tables, threads, recovery, TypeOK
<1>. QED BY <1>1, <1>2

-----------------------------------------------------------------------------
(* Transactions. *)

(* A step moves only its own thread: what it does to pc and txn. *)
LEMMA NextTxn == TypeOK /\ TxnWhilePublishing /\ [Next]_vars => TxnWhilePublishing'
<1>. SUFFICES ASSUME TypeOK, TxnWhilePublishing, [Next]_vars
              PROVE  TxnWhilePublishing'
  OBVIOUS
<1>. USE DEF TxnWhilePublishing, InTxn
<1>1. ASSUME NEW a \in Attempt, Executor(a) \/ Error(a) \/ Crash(a)
      PROVE  TxnWhilePublishing'
  <2>. USE LockAssumption, CoordinationAssumption, Holders
       DEF TypeOK, Goto, Rollback, Renewed, Publishing, NoTxn, Expired
  <2>1. CASE \/ Acquire(a) \/ CheckAcquired(a) \/ Gate(a) \/ CreateJob(a) \/ StartJob(a)
             \/ FirstBeat(a) \/ Build(a) \/ Sync(a) \/ FailJob(a) \/ CancelJob(a)
             \/ Close(a) \/ Release(a)
    <3>1. txn' = txn /\ pc[a] \notin Publishing
      BY <2>1 DEF Acquire, CheckAcquired, Gate, CreateJob, StartJob, FirstBeat, Build,
                  Sync, FailJob, CancelJob, Close, Release
    <3>2. \E step \in ExecutorStep \ Publishing : Goto(a, step)
      BY <2>1 DEF Acquire, CheckAcquired, Gate, CreateJob, StartJob, FirstBeat, Build,
                  Sync, FailJob, CancelJob, Close, Release, InterruptedStep,
                  ExecutorStep, Before, Over
    <3>. QED BY <3>1, <3>2
  <2>2. CASE OpenPublication(a)
    BY <2>2 DEF OpenPublication, InterruptedStep
  <2>3. CASE SucceedJob(a) \/ PreCommit(a)
    BY <2>3 DEF SucceedJob, PreCommit, AbortStep, InterruptedStep
  <2>4. CASE Commit(a)
    BY <2>4 DEF Commit
  <2>5. CASE Error(a)
    BY <2>5 DEF Error, AfterError
  <2>6. CASE Crash(a)
    BY <2>6 DEF Crash
  <2>. QED BY <1>1, <2>1, <2>2, <2>3, <2>4, <2>5, <2>6 DEF Executor
<1>2. ASSUME NEW a \in Attempt, Heartbeat(a) \/ RequestCancel(a)
      PROVE  TxnWhilePublishing'
  BY <1>2 DEF Heartbeat, HbWake, HbRefresh, HbBeat, RequestCancel, threads
<1>3. ASSUME NEW r \in Reconciler, Reconcile(r) \/ RecError(r) \/ RecCrash(r)
      PROVE  TxnWhilePublishing'
  BY <1>3 DEF Reconcile, RecPlan, RecAcquire, RecGiveUp, RecCheck, RecInspect, RecReset,
              RecCommit, RecRelease, RecError, RecCrash, threads
<1>4. CASE Tick
  BY <1>4, LockAssumption DEF Tick, TypeOK, NoTxn, Expired
<1>5. CASE UNCHANGED vars
  BY <1>5 DEF vars, threads
<1>. QED BY <1>1, <1>2, <1>3, <1>4, <1>5 DEF Next

-----------------------------------------------------------------------------
(* The lock row of an open transaction stays with its owner. *)

OwnsLease == \A a \in Attempt : InTxn(a) => lock.holder = a

LEMMA NextOwnsLease ==
    TypeOK /\ TxnWhilePublishing /\ OwnsLease /\ [Next]_vars => OwnsLease'
<1>. SUFFICES ASSUME TypeOK, TxnWhilePublishing, OwnsLease, [Next]_vars
              PROVE  OwnsLease'
  OBVIOUS
<1>. USE LockAssumption, CoordinationAssumption, Holders DEF OwnsLease, InTxn
<1>1. ASSUME NEW a \in Attempt, Executor(a) \/ Error(a) \/ Crash(a)
      PROVE  OwnsLease'
  <2>1. CASE Acquire(a)
    BY <2>1 DEF Acquire, LockRowFree, Taken
  <2>2. CASE \/ CheckAcquired(a) \/ Gate(a) \/ CreateJob(a) \/ StartJob(a)
             \/ FirstBeat(a) \/ Build(a) \/ Sync(a) \/ FailJob(a) \/ CancelJob(a)
             \/ Close(a)
    BY <2>2 DEF CheckAcquired, Gate, CreateJob, StartJob, FirstBeat, Build, Sync,
                FailJob, CancelJob, Close
  <2>3. CASE OpenPublication(a)
    BY <2>3 DEF OpenPublication, HoldsLease, TypeOK
  <2>4. CASE SucceedJob(a) \/ PreCommit(a)
    <3>1. InTxn(a) /\ lock' = lock
      BY <2>4 DEF SucceedJob, PreCommit, TxnWhilePublishing, Publishing
    <3>2. \A b \in Attempt \ {a} : txn'[b] = txn[b]
      BY <2>4 DEF SucceedJob, PreCommit, Renewed, Rollback, TypeOK
    <3>. QED BY <3>1, <3>2
  <2>5. CASE Commit(a)
    BY <2>5 DEF Commit, Rollback, RowInTxn, TypeOK
  <2>6. CASE Release(a)
    BY <2>6 DEF Release, Released, TxnWhilePublishing, Publishing
  <2>7. CASE Error(a) \/ Crash(a)
    BY <2>7 DEF Error, Crash, Rollback, TypeOK
  <2>. QED BY <1>1, <2>1, <2>2, <2>3, <2>4, <2>5, <2>6, <2>7 DEF Executor
<1>2. ASSUME NEW a \in Attempt, Heartbeat(a) \/ RequestCancel(a)
      PROVE  OwnsLease'
  BY <1>2 DEF Heartbeat, HbWake, HbRefresh, HbBeat, RequestCancel, threads, LockRowFree
<1>3. ASSUME NEW r \in Reconciler, Reconcile(r) \/ RecError(r) \/ RecCrash(r)
      PROVE  OwnsLease'
  BY <1>3 DEF Reconcile, RecPlan, RecAcquire, RecGiveUp, RecCheck, RecInspect, RecReset,
              RecCommit, RecRelease, RecError, RecCrash, threads, LockRowFree, Abandoned,
              Released
<1>4. CASE Tick
  BY <1>4 DEF Tick, OneTickOlder, TypeOK, LockRow, NoTxn, Expired
<1>5. CASE UNCHANGED vars
  BY <1>5 DEF vars, threads
<1>. QED BY <1>1, <1>2, <1>3, <1>4, <1>5 DEF Next

-----------------------------------------------------------------------------
(* The row locks of the jobs: a job that a publication or a recovery has
   updated, and not yet committed, stays RUNNING for everybody else. *)

JobRowLocks ==
    /\ \A a \in Attempt : pc[a] \in {"precommit", "commit"} => status[a] = "running"
    /\ OneRowWriter
    /\ TargetChosen
    /\ ResetHitsRunning
    /\ NoJobYet

LEMMA NextJobRowLocks ==
    TypeOK /\ JobRowLocks /\ [Next]_vars => JobRowLocks'
<1>. SUFFICES ASSUME TypeOK, JobRowLocks, [Next]_vars PROVE JobRowLocks'
  OBVIOUS
<1>. USE CoordinationAssumption
     DEF JobRowLocks, OneRowWriter, TargetChosen, ResetHitsRunning, NoJobYet, TypeOK
<1>1. ASSUME NEW a \in Attempt, Executor(a) \/ Error(a) \/ Crash(a)
      PROVE  JobRowLocks'
  <2>. USE DEF Goto, SetStatus, Before, recovery, tables
  <2>1. CASE \/ Acquire(a) \/ CheckAcquired(a) \/ Gate(a)
    BY <2>1 DEF Acquire, CheckAcquired, Gate
  <2>2. CASE CreateJob(a)
    BY <2>2 DEF CreateJob
  <2>3. CASE StartJob(a)
    BY <2>3 DEF StartJob
  <2>4. CASE FirstBeat(a) \/ Build(a) \/ Sync(a) \/ Close(a) \/ Release(a)
    BY <2>4 DEF FirstBeat, Build, Sync, Close, Release, InterruptedStep
  <2>5. CASE OpenPublication(a)
    BY <2>5 DEF OpenPublication, InterruptedStep
  <2>6. CASE SucceedJob(a)
    BY <2>6 DEF SucceedJob, JobRowFree, AbortStep, InterruptedStep
  <2>7. CASE PreCommit(a)
    BY <2>7 DEF PreCommit, AbortStep, InterruptedStep
  <2>8. CASE Commit(a)
    BY <2>8 DEF Commit
  <2>9. CASE FailJob(a)
    BY <2>9 DEF FailJob, JobRowFree
  <2>10. CASE CancelJob(a)
    BY <2>10 DEF CancelJob
  <2>11. CASE Error(a)
    BY <2>11 DEF Error, AfterError, Over
  <2>12. CASE Crash(a)
    BY <2>12 DEF Crash
  <2>. QED
    BY <1>1, <2>1, <2>2, <2>3, <2>4, <2>5, <2>6, <2>7, <2>8, <2>9, <2>10, <2>11, <2>12
       DEF Executor
<1>2. ASSUME NEW a \in Attempt, Heartbeat(a) PROVE JobRowLocks'
  BY <1>2 DEF Heartbeat, HbWake, HbRefresh, HbBeat, tables, recovery
<1>3. ASSUME NEW a \in Attempt, RequestCancel(a) PROVE JobRowLocks'
  BY <1>3 DEF RequestCancel, JobRowFree, SetStatus, Before, threads, recovery
<1>4. ASSUME NEW r \in Reconciler, Reconcile(r) \/ RecError(r) \/ RecCrash(r)
      PROVE  JobRowLocks'
  <2>. USE DEF RecGoto, RecDone, threads, tables
  <2>1. CASE RecPlan(r) \/ RecAcquire(r) \/ RecGiveUp(r) \/ RecCheck(r)
    BY <2>1 DEF RecPlan, RecAcquire, RecGiveUp, RecCheck
  <2>2. CASE RecInspect(r)
    BY <2>2 DEF RecInspect, Running
  <2>3. CASE RecReset(r)
    BY <2>3 DEF RecReset, JobRowFree
  <2>4. CASE RecCommit(r)
    BY <2>4 DEF RecCommit, SetStatus, Before
  <2>5. CASE RecRelease(r) \/ RecError(r) \/ RecCrash(r)
    BY <2>5 DEF RecRelease, RecError, RecCrash
  <2>. QED BY <1>4, <2>1, <2>2, <2>3, <2>4, <2>5 DEF Reconcile
<1>5. CASE Tick \/ UNCHANGED vars
  BY <1>5 DEF Tick, vars, threads, tables, recovery
<1>. QED BY <1>1, <1>2, <1>3, <1>4, <1>5 DEF Next

-----------------------------------------------------------------------------
(* Cancellation. *)

LEMMA NextCancelSignal ==
    TypeOK /\ JobRowLocks /\ CancelSignalSound /\ [Next]_vars
        => CancelSignalSound'
<1>. SUFFICES ASSUME TypeOK, JobRowLocks, CancelSignalSound, [Next]_vars
              PROVE  CancelSignalSound'
  OBVIOUS
<1>. USE DEF CancelSignalSound, TypeOK
<1>1. ASSUME NEW a \in Attempt, Executor(a) \/ Error(a) \/ Crash(a)
      PROVE  CancelSignalSound'
  <2>. USE DEF Goto, SetStatus, tables, InterruptedStep, AbortStep, Interrupted
  <2>1. CASE \/ Acquire(a) \/ CheckAcquired(a) \/ Gate(a) \/ FirstBeat(a) \/ Sync(a)
             \/ Close(a) \/ Release(a)
    BY <2>1 DEF Acquire, CheckAcquired, Gate, FirstBeat, Sync, Close, Release
  <2>2. CASE CreateJob(a)
    BY <2>2 DEF CreateJob, JobRowLocks, NoJobYet, Before
  <2>3. CASE StartJob(a)
    BY <2>3 DEF StartJob
  <2>4. CASE Build(a) \/ OpenPublication(a)
    BY <2>4 DEF Build, OpenPublication
  <2>5. CASE SucceedJob(a) \/ PreCommit(a)
    BY <2>5 DEF SucceedJob, PreCommit
  <2>6. CASE Commit(a)
    BY <2>6 DEF Commit, JobRowLocks
  <2>7. CASE FailJob(a) \/ CancelJob(a)
    BY <2>7 DEF FailJob, CancelJob
  <2>8. CASE Error(a)
    BY <2>8 DEF Error, AfterError
  <2>9. CASE Crash(a)
    BY <2>9 DEF Crash
  <2>. QED BY <1>1, <2>1, <2>2, <2>3, <2>4, <2>5, <2>6, <2>7, <2>8, <2>9 DEF Executor
<1>2. ASSUME NEW a \in Attempt, Heartbeat(a) PROVE CancelSignalSound'
  <2>1. pc' = pc /\ status' = status
    BY <1>2 DEF Heartbeat, HbWake, HbRefresh, HbBeat, tables
  <2>2. CASE HbWake(a)
    BY <2>1, <2>2 DEF HbWake
  <2>3. CASE HbRefresh(a)
    <3>1. CASE UNCHANGED signal
      BY <2>1, <3>1
    <3>2. CASE \E event \in {"lost", "lost_error"} : signal' = [signal EXCEPT ![a] = event]
      BY <2>1, <2>3, <3>2 DEF HbRefresh
    <3>. QED BY <2>3, <3>1, <3>2 DEF HbRefresh, HbStop
  <2>4. CASE HbBeat(a)
    <3>1. CASE UNCHANGED signal
      BY <2>1, <3>1
    <3>2. CASE HbStop(a, "lost")
      BY <2>1, <2>4, <3>2 DEF HbStop
    <3>3. CASE status[a] = "cancel_requested" /\ HbStop(a, "cancel")
      BY <2>1, <3>3 DEF HbStop
    <3>. QED BY <2>4, <3>1, <3>2, <3>3 DEF HbBeat
  <2>. QED BY <1>2, <2>2, <2>3, <2>4 DEF Heartbeat
<1>3. ASSUME NEW a \in Attempt, RequestCancel(a) PROVE CancelSignalSound'
  BY <1>3 DEF RequestCancel, SetStatus, threads
<1>4. ASSUME NEW r \in Reconciler, Reconcile(r) \/ RecError(r) \/ RecCrash(r)
      PROVE  CancelSignalSound'
  <2>1. CASE RecCommit(r)
    BY <2>1 DEF RecCommit, SetStatus, threads, JobRowLocks, ResetHitsRunning, TargetChosen
  <2>. QED
    BY <1>4, <2>1 DEF Reconcile, RecPlan, RecAcquire, RecGiveUp, RecCheck, RecInspect,
                      RecReset, RecRelease, RecError, RecCrash, threads, tables
<1>5. CASE Tick \/ UNCHANGED vars
  BY <1>5 DEF Tick, vars, threads, tables
<1>. QED BY <1>1, <1>2, <1>3, <1>4, <1>5 DEF Next

-----------------------------------------------------------------------------
(* Every reachable state satisfies the inductive invariant. *)
THEOREM Safety == Spec => []SafetyInvariant
<1>. USE DEF SafetyInvariant, WriterOwnsLease
<1>1. Init => SafetyInvariant
  <2>. SUFFICES ASSUME Init PROVE SafetyInvariant
    OBVIOUS
  <2>1. TypeOK
    BY InitTypeOK
  <2>. QED
    BY <2>1 DEF Init, TxnWhilePublishing, InTxn, Publishing, OneRowWriter, TargetChosen,
                ResetHitsRunning, NoJobYet, CancelSignalSound
<1>2. SafetyInvariant /\ [Next]_vars => SafetyInvariant'
  <2>. SUFFICES ASSUME SafetyInvariant, [Next]_vars PROVE SafetyInvariant'
    OBVIOUS
  <2>1. TypeOK' /\ TxnWhilePublishing'
    BY NextTypeOK, NextTxn
  <2>2. OwnsLease'
    BY NextOwnsLease DEF OwnsLease
  <2>3. JobRowLocks'
    BY NextJobRowLocks DEF JobRowLocks
  <2>4. CancelSignalSound'
    BY NextCancelSignal DEF JobRowLocks
  <2>. QED BY <2>1, <2>2, <2>3, <2>4 DEF OwnsLease, JobRowLocks
<1>. QED BY <1>1, <1>2, PTL DEF Spec

(* Rows, threads and transactions stay in the states the code knows, and a
   lease or a heartbeat age in its range. *)
THEOREM TypeCorrect == Spec => []TypeOK
<1>1. SafetyInvariant => TypeOK
  BY DEF SafetyInvariant
<1>. QED BY Safety, <1>1, PTL

(* Two publication transactions are never open at once. *)
THEOREM OneWriter == Spec => []SingleWriter
<1>1. SafetyInvariant => SingleWriter
  BY DEF SafetyInvariant, WriterOwnsLease, SingleWriter
<1>. QED BY Safety, <1>1, PTL

(* The writer owns the lock row from its first renewal to its commit. *)
THEOREM WriterIsOwner == Spec => []WriterOwnsLease
<1>1. SafetyInvariant => WriterOwnsLease
  BY DEF SafetyInvariant
<1>. QED BY Safety, <1>1, PTL

(* A recovery fails only a job that is still RUNNING when it commits. *)
THEOREM RecoveryIsCurrent == Spec => []ResetHitsRunning
<1>1. SafetyInvariant => ResetHitsRunning
  BY DEF SafetyInvariant
<1>. QED BY Safety, <1>1, PTL

(* An abort for cancellation is never made up. *)
THEOREM CancellationIsReal == Spec => []CancelSignalSound
<1>1. SafetyInvariant => CancelSignalSound
  BY DEF SafetyInvariant
<1>. QED BY Safety, <1>1, PTL

-----------------------------------------------------------------------------
(* The durable graph and the job table. *)

(* What a step does to the rows that RebuildJobs is about. *)
LEMMA NextJobs == SafetyInvariant /\ [Next]_vars => [Jobs!JobNext]_(Jobs!jobVars)
<1>. SUFFICES ASSUME SafetyInvariant, [Next]_vars
              PROVE  Jobs!JobNext \/ UNCHANGED <<status, truth>>
  BY DEF Jobs!jobVars
<1>. USE DEF Jobs!JobNext, Jobs!Move, SetStatus
<1>1. ASSUME NEW a \in Attempt, Executor(a) \/ Error(a) \/ Crash(a)
      PROVE  Jobs!JobNext \/ UNCHANGED <<status, truth>>
  <2>1. CASE CreateJob(a)
    BY <2>1 DEF CreateJob, Jobs!Create, SafetyInvariant, NoJobYet, Before
  <2>2. CASE StartJob(a)
    BY <2>2 DEF StartJob, Jobs!Start
  <2>3. CASE FailJob(a)
    BY <2>3 DEF FailJob, Jobs!Fail
  <2>4. CASE CancelJob(a)
    BY <2>4 DEF CancelJob, Jobs!FinishCancel
  <2>5. CASE Commit(a)
    BY <2>5 DEF Commit, Jobs!Publish, SafetyInvariant, WriterOwnsLease
  <2>. QED
    BY <1>1, <2>1, <2>2, <2>3, <2>4, <2>5
       DEF Executor, Acquire, CheckAcquired, Gate, FirstBeat, Build, OpenPublication,
           SucceedJob, PreCommit, Sync, Close, Release, Error, Crash, tables
<1>2. ASSUME NEW a \in Attempt, Heartbeat(a) PROVE UNCHANGED <<status, truth>>
  BY <1>2 DEF Heartbeat, HbWake, HbRefresh, HbBeat, tables
<1>3. ASSUME NEW a \in Attempt, RequestCancel(a) PROVE Jobs!JobNext
  BY <1>3 DEF RequestCancel, Jobs!RequestCancel
<1>4. ASSUME NEW r \in Reconciler, RecCommit(r) PROVE Jobs!JobNext
  BY <1>4 DEF RecCommit, Jobs!Fail, SafetyInvariant, ResetHitsRunning, TargetChosen
<1>5. ASSUME NEW r \in Reconciler, Reconcile(r) \/ RecError(r) \/ RecCrash(r), ~RecCommit(r)
      PROVE  UNCHANGED <<status, truth>>
  BY <1>5 DEF Reconcile, RecPlan, RecAcquire, RecGiveUp, RecCheck, RecInspect, RecReset,
              RecRelease, RecError, RecCrash, tables
<1>6. CASE Tick \/ UNCHANGED vars
  BY <1>6 DEF Tick, vars, tables
<1>. QED BY <1>1, <1>2, <1>3, <1>4, <1>5, <1>6 DEF Next

(* The implementation with its threads, locks and crashes is a RebuildJobs. *)
THEOREM Refinement == Spec => ImplementsJobs
<1>1. Init => Jobs!JobInit
  BY DEF Init, Jobs!JobInit
<1>. QED BY <1>1, NextJobs, Safety, PTL DEF Spec, ImplementsJobs, Jobs!JobSpec

(* Only the owner of the lock row replaces the durable graph. *)
THEOREM OwnerPublishes == Spec => PublishedByOwner
<1>1. SafetyInvariant /\ [Next]_vars =>
        [truth' # truth => lock.holder = truth' /\ lock'.holder = truth']_vars
  <2>. SUFFICES ASSUME SafetyInvariant, Next, truth' # truth
                PROVE  lock.holder = truth' /\ lock'.holder = truth'
    OBVIOUS
  <2>1. PICK a \in Attempt : Commit(a)
    BY DEF Next, Executor, Acquire, CheckAcquired, Gate, CreateJob, StartJob, FirstBeat,
           Build, OpenPublication, SucceedJob, PreCommit, Sync, FailJob, CancelJob, Close,
           Release, Error, Crash, Heartbeat, HbWake, HbRefresh, HbBeat, RequestCancel,
           Reconcile, RecPlan, RecAcquire, RecGiveUp, RecCheck, RecInspect, RecReset,
           RecCommit, RecRelease, RecError, RecCrash, Tick, tables
  <2>2. lock.holder = a
    BY <2>1 DEF Commit, SafetyInvariant, TxnWhilePublishing, Publishing, WriterOwnsLease
  <2>. QED BY <2>1, <2>2 DEF Commit, RowInTxn
<1>. QED BY <1>1, Safety, PTL DEF Spec, PublishedByOwner

=============================================================================
