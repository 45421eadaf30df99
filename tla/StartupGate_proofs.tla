--------------------------- MODULE StartupGate_proofs ---------------------------
(***************************************************************************)
(* What the recovery gate never does, for any replicas and gates, any TTL  *)
(* and any database errors, restarts and crashes.                          *)
(***************************************************************************)
EXTENDS StartupGate, TLAPS

-----------------------------------------------------------------------------
(* The decision table *)

(* A plan either does nothing under a valid lease, resets, waits or alerts; a reset is
   automatic only for a gate that recovers automatically. *)
LEMMA PlanSound ==
    ASSUME NEW o \in Observation, NEW auto \in BOOLEAN
    PROVE  LET plan == PlanFor(o, auto)
           IN  \/ plan.action = "noop" /\ plan.safety = "converged" /\ o.lock = "valid"
               \/ plan.safety = "wait_required" /\ plan.action \in {"noop", "wait_for_convergence"}
               \/ plan.action = "alert_only"
               \/ plan.action = "reset_state" /\ (plan.mode = "automatic" => auto)
<1>. DEFINE drift == Drift(o)
            severity == Severity(o, drift)
            leased == o.lock = "valid"
<1>1. CASE drift = "evaluation_failed"
  <2>1. PlanFor(o, auto) = Plan(drift, "alert_only", "manual", "evaluation_failed")
    BY <1>1 DEF PlanFor, Severity
  <2>. QED BY <2>1 DEF Plan
<1>2. CASE drift # "evaluation_failed" /\ severity = "none" /\ drift = "none"
  <2>1. PlanFor(o, auto) = IF leased THEN Plan(drift, "noop", "automatic", "converged")
                           ELSE Plan(drift, "noop", "deferred", "wait_required")
    BY <1>2 DEF PlanFor
  <2>. QED BY <2>1 DEF Plan
<1>3. CASE drift # "evaluation_failed" /\ severity = "critical"
  <2>1. PlanFor(o, auto) = Plan(drift, "alert_only", "manual", CriticalSafety(o, drift))
    BY <1>3 DEF PlanFor
  <2>. QED BY <2>1 DEF Plan
<1>4. CASE drift # "evaluation_failed" /\ severity # "critical" /\ ~(severity = "none" /\ drift = "none")
  <2>1. PlanFor(o, auto) = MappedPlan(drift, severity, leased, auto)
    BY <1>4 DEF PlanFor
  <2>2. \/ MappedPlan(drift, severity, leased, auto) = ResetPlan(drift, severity, auto)
        \/ MappedPlan(drift, severity, leased, auto) = WaitPlan(drift)
        \/ \E safety : MappedPlan(drift, severity, leased, auto) = Plan(drift, "alert_only", "manual", safety)
    BY DEF MappedPlan
  <2>3. /\ ResetPlan(drift, severity, auto).action = "reset_state"
        /\ ResetPlan(drift, severity, auto).mode = "automatic" => auto
    BY DEF ResetPlan, Plan
  <2>4. WaitPlan(drift).action = "wait_for_convergence" /\ WaitPlan(drift).safety = "wait_required"
    BY DEF WaitPlan, Plan
  <2>5. \A safety : Plan(drift, "alert_only", "manual", safety).action = "alert_only"
    BY DEF Plan
  <2>. HIDE DEF drift, severity, leased
  <2>. QED BY <2>1, <2>2, <2>3, <2>4, <2>5
<1>. QED BY <1>1, <1>2, <1>3, <1>4

(* The gate lets its caller go on only under a valid lease, and resets only if it
   recovers automatically. *)
LEMMA DecisionSound ==
    ASSUME NEW o \in Observation, NEW auto \in BOOLEAN
    PROVE  /\ Decision[<<o, auto>>].kind = "execute" => o.lock = "valid"
           /\ Decision[<<o, auto>>].kind = "reset" => auto
<1>. DEFINE plan == PlanFor(o, auto)
<1>1. Decision[<<o, auto>>] = Consume(plan, auto)
  BY DEF Decision
<1>. HIDE DEF plan
<1>2. \/ plan.action = "noop" /\ plan.safety = "converged" /\ o.lock = "valid"
      \/ plan.safety = "wait_required" /\ plan.action \in {"noop", "wait_for_convergence"}
      \/ plan.action = "alert_only"
      \/ plan.action = "reset_state" /\ (plan.mode = "automatic" => auto)
  BY PlanSound DEF plan
<1>3. CASE plan.action = "noop" /\ plan.safety = "converged" /\ o.lock = "valid"
  <2>1. Consume(plan, auto) = Answer("execute", "resume", plan.drift)
    BY <1>3 DEF Consume, Terminal
  <2>. QED BY <1>1, <1>3, <2>1 DEF Answer
<1>4. CASE plan.safety = "wait_required" /\ plan.action \in {"noop", "wait_for_convergence"}
  <2>1. Consume(plan, auto) = Block("wait", plan)
    BY <1>4 DEF Consume, Terminal
  <2>. QED BY <1>1, <2>1 DEF Block, Answer
<1>5. CASE plan.action = "alert_only"
  <2>1. Consume(plan, auto) = Block(ActionOf(plan), plan) \/ Consume(plan, auto) = Block("alert_only", plan)
    BY <1>5 DEF Consume
  <2>. QED BY <1>1, <2>1 DEF Block, Answer
<1>6. CASE plan.action = "reset_state" /\ (plan.mode = "automatic" => auto)
  <2>1. \/ Consume(plan, auto) = Block(ActionOf(plan), plan)
        \/ auto /\ Consume(plan, auto) = Answer("reset", "reset", plan.drift)
        \/ \E action : Consume(plan, auto) = Block(action, plan)
    BY <1>6 DEF Consume
  <2>. QED BY <1>1, <2>1 DEF Block, Answer
<1>. QED BY <1>2, <1>3, <1>4, <1>5, <1>6

-----------------------------------------------------------------------------
(* What a gate reads *)

LEMMA Clocks == /\ NoHolder \notin Gate /\ Gone # NoHolder /\ Gone \notin Gate /\ Gone \in Holder /\ Gate \subseteq Holder
                /\ \A h \in Holder : Skew[h] = 0
                /\ TTL \in Nat \ {0} /\ Missing = TTL + 1 /\ MaxSkew = 0
BY LockAssumption, GateAssumption DEF Missing

LEMMA LockSeenSound ==
    ASSUME StartupTypeOK, NEW g \in Gate
    PROVE  LockSeen(g) \in LockState /\ (LockSeen(g) = "valid" => lock.holder = g)
<1>1. CASE lock.holder = NoHolder
  <2>1. ~HoldsLease(lock, g)
    BY <1>1, Clocks DEF HoldsLease
  <2>. QED BY <1>1, <2>1 DEF LockSeen, LockState
<1>2. CASE lock.holder # NoHolder /\ HoldsLease(lock, g)
  BY <1>2 DEF LockSeen, LockState, HoldsLease
<1>3. CASE lock.holder # NoHolder /\ ~HoldsLease(lock, g)
  <2>1. LockSeen(g) \in {"expired", "unknown"}
    BY <1>3 DEF LockSeen
  <2>. QED BY <2>1 DEF LockState
<1>. QED BY <1>1, <1>2, <1>3

LEMMA JobsSeenSound ==
    ASSUME StartupTypeOK, NEW g \in Gate
    PROVE  JobsSeen(g).finding \in Finding /\ JobsSeen(g).job \in FoundJob
<1>0. NoJob \in FoundJob
  BY Clocks DEF NoJob, FoundJob
<1>1. CASE Running = {} \/ ~ \E j \in Running : Running = {j}
  BY <1>0, <1>1 DEF JobsSeen, Finding
<1>2. CASE Running # {} /\ \E j \in Running : Running = {j}
  <2>. DEFINE j == CHOOSE j \in Running : TRUE
              seen == [running |-> TRUE, owner |-> IF j = g THEN "self" ELSE "other", age |-> age[j]]
  <2>1. j \in Gate
    BY <1>2 DEF Running
  <2>2. age[j] \in 0..Missing
    BY <2>1 DEF StartupTypeOK
  <2>. HIDE DEF j
  <2>3. seen \in FoundJob
    BY <2>2 DEF FoundJob
  <2>4. JobsSeen(g) = [finding |-> "job", job |-> seen]
    BY <1>2 DEF JobsSeen, j
  <2>. HIDE DEF seen
  <2>. QED BY <2>3, <2>4 DEF Finding
<1>. QED BY <1>1, <1>2

(* An evaluation passes a gate only under a lease that it has seen, and starts a reset
   only in a periodic reconciliation. *)
LEMMA EvaluateSound ==
    ASSUME StartupTypeOK, NEW g \in Gate, NEW seen, Evaluate(g, seen),
           seen.finding \in Finding, seen.job \in FoundJob
    PROVE  \E step \in {"passed", "ensure", "blocked"} :
             /\ pc' = [pc EXCEPT ![g] = step]
             /\ clean' \in [Gate -> BOOLEAN]
             /\ step = "passed" => saw[g] = "valid"
             /\ step = "ensure" => Kind[g] = "periodic"
<1>. DEFINE o == Observed(g, seen)
            decision == Decision[<<o, Automatic(g)>>]
            step == CASE decision.kind = "execute" -> "passed"
                      [] decision.kind = "reset" /\ ~again[g] -> "ensure"
                      [] OTHER -> "blocked"
<1>1. o \in Observation /\ o.lock = saw[g]
  BY DEF Observed, Observation, StartupTypeOK
<1>2. Automatic(g) \in BOOLEAN
  BY DEF Automatic
<1>3. /\ decision.kind = "execute" => saw[g] = "valid"
      /\ decision.kind = "reset" => Kind[g] = "periodic"
  <2>. HIDE DEF o
  <2>. QED BY <1>1, <1>2, DecisionSound DEF Automatic
<1>4. pc' = [pc EXCEPT ![g] = step] /\ clean' = [clean EXCEPT ![g] = Kind[g] = "startup" /\ Benign(decision)]
  BY DEF Evaluate, Goto
<1>. HIDE DEF decision
<1>5. clean' \in [Gate -> BOOLEAN]
  <2>1. (Kind[g] = "startup" /\ Benign(decision)) \in BOOLEAN
    BY DEF Benign
  <2>. QED BY <1>4, <2>1 DEF StartupTypeOK
<1>6. CASE decision.kind = "execute"
  <2>1. step = "passed"
    BY <1>6
  <2>. HIDE DEF step
  <2>. QED BY <1>3, <1>4, <1>5, <1>6, <2>1
<1>7. CASE decision.kind = "reset" /\ ~again[g]
  <2>1. step = "ensure"
    BY <1>7
  <2>. HIDE DEF step
  <2>. QED BY <1>3, <1>4, <1>5, <1>7, <2>1
<1>8. CASE decision.kind # "execute" /\ ~(decision.kind = "reset" /\ ~again[g])
  <2>1. step = "blocked"
    BY <1>8
  <2>. HIDE DEF step
  <2>. QED BY <1>4, <1>5, <2>1
<1>. QED BY <1>6, <1>7, <1>8

-----------------------------------------------------------------------------
(* The lock row *)

(* Whatever a gate does to the row, it is a row, and belongs to the gate, to nobody, to
   Gone or to whom it belonged. *)
LEMMA RowsSound ==
    ASSUME lock \in LockRow, NEW g \in Gate,
           NEW row \in {lock, Taken(g), Released(lock, g), NoRow, [lock EXCEPT !.holder = Gone], OneTickOlder(lock)}
    PROVE  row \in LockRow /\ (row.holder # lock.holder => row.holder \in {g, NoHolder, Gone})
<1>1. CASE row = Taken(g)
  BY <1>1, Clocks DEF Taken, LockRow, Expired
<1>2. CASE row = OneTickOlder(lock)
  BY <1>2, Clocks DEF OneTickOlder, LockRow, Expired
<1>3. NoRow \in LockRow /\ NoRow.holder = NoHolder
  BY Clocks DEF NoRow, LockRow, Expired
<1>4. CASE row = [lock EXCEPT !.holder = Gone]
  BY <1>4, Clocks DEF LockRow
<1>. QED BY <1>1, <1>2, <1>3, <1>4 DEF Released

(* The part of the invariant that is about one gate, and the target of its reset. *)
Target(g) ==
    /\ Reads(g) => found[g] \in Gate /\ job[found[g]] # "none"
    /\ pc[g] \in JobLocked => job[found[g]] = "running"
    /\ Reads(g) /\ job[found[g]] = "running" =>
        /\ pc[g] = "judge" /\ lock.holder = g => late[found[g]] \/ age[found[g]] >= heard[g]
        /\ pc[g] \in {"update", "confirm"} /\ lock.holder = g => SilentOrLate(found[g])
        /\ pc[g] = "commit" => SilentOrLate(found[g])
Own(g) ==
    /\ pc[g] \in {"ensure", "verify", "refused"} \union Resetting => Kind[g] = "periodic"
    /\ pc[g] = "passed" => saw[g] = "valid" /\ Kind[g] # "startup"
    /\ Kind[g] = "startup" => lock.holder # g /\ saw[g] # "valid"
    /\ pc[g] \in {"acquire", "check"} \union AtWork \/ job[g] # "none" => Kind[g] = "rebuild"
    /\ pc[g] \notin {"idle"} \union AtWork => job[g] = "none"
    /\ hb[g] # "off" \/ pc[g] \in AtWork => job[g] # "none"

LEMMA Parts == StartInvariant <=> StartupTypeOK /\ (\A g \in Gate : Own(g) /\ Target(g)) /\ OneJobWriter
<1>1. OnlyPeriodicResets /\ PassedUnderLease /\ StartsHoldNothing /\ JobsAreRebuilds <=> \A g \in Gate : Own(g)
  BY DEF Own, OnlyPeriodicResets, PassedUnderLease, StartsHoldNothing, JobsAreRebuilds
<1>2. TargetsRunning /\ TargetsSilent <=> \A g \in Gate : Target(g)
  BY DEF Target, TargetsRunning, TargetsSilent
<1>. QED BY <1>1, <1>2 DEF StartInvariant

LEMMA PartsNext == StartInvariant' <=> StartupTypeOK' /\ (\A g \in Gate : Own(g)' /\ Target(g)') /\ OneJobWriter'
<1>1. OnlyPeriodicResets' /\ PassedUnderLease' /\ StartsHoldNothing' /\ JobsAreRebuilds' <=> \A g \in Gate : Own(g)'
  BY DEF Own, OnlyPeriodicResets, PassedUnderLease, StartsHoldNothing, JobsAreRebuilds
<1>2. TargetsRunning' /\ TargetsSilent' <=> \A g \in Gate : Target(g)'
  BY DEF Target, TargetsRunning, TargetsSilent
<1>. QED BY <1>1, <1>2 DEF StartInvariant

(* What a step of g leaves alone in the other gates. *)
Others(g) ==
    \A h \in Gate \ {g} :
        /\ pc'[h] = pc[h] /\ saw'[h] = saw[h] /\ hb'[h] = hb[h]
        /\ found'[h] = found[h] /\ heard'[h] = heard[h]
        /\ job'[h] = "none" <=> job[h] = "none"

(* What it may do to a job that exists: end it, or beat under the lock row as it finds it,
   neither of them while another gate holds the row of the job. *)
JobStep(g) ==
    \A j \in Gate : job[j] # "none" =>
        \/ job'[j] = job[j] /\ age'[j] = age[j] /\ late'[j] = late[j]
        \/ /\ job'[j] # "none"
           /\ \A h \in Gate \ {g} : pc[h] \in JobLocked => found[h] # j
           /\ job'[j] = "running" => job[j] = "running" /\ lock' = lock /\ late'[j] = (lock.holder # j)

(* A gate takes the row of a job only when no other has it. *)
Writer(g) ==
    pc'[g] \in JobLocked =>
        \/ pc[g] \in JobLocked /\ found'[g] = found[g]
        \/ \A h \in Gate \ {g} : pc[h] \in JobLocked => found[h] # found'[g]

LockStep(g) == lock'.holder # lock.holder => lock'.holder \in {g, NoHolder, Gone}

(* The owner of a job is not a gate that resets. *)
LEMMA OwnersDoNotReset ==
    ASSUME StartInvariant, NEW g \in Gate, Reads(g)
    PROVE  Kind[g] = "periodic" /\ found[g] \in Gate \ {g} /\ job[found[g]] # "none"
BY DEF StartInvariant, OnlyPeriodicResets, TargetsRunning, JobsAreRebuilds, Reads, Resetting

(* What another gate has read stays true. *)
LEMMA TargetKept ==
    ASSUME StartInvariant, NEW g \in Gate, NEW h \in Gate \ {g}, Others(g), JobStep(g), LockStep(g)
    PROVE  Target(h)'
<1>. DEFINE j == found[h]
<1>0. pc'[h] = pc[h] /\ found'[h] = found[h] /\ heard'[h] = heard[h] /\ (Reads(h)' <=> Reads(h))
  BY DEF Others, Reads
<1>1. SUFFICES ASSUME Reads(h) PROVE Target(h)'
  BY <1>0 DEF Target, Reads
<1>2. j \in Gate \ {h} /\ job[j] # "none" /\ Target(h)
  BY <1>1, OwnersDoNotReset, Parts
<1>3. lock'.holder = h => lock.holder = h
  BY Clocks DEF LockStep
<1>4. CASE job'[j] = job[j] /\ age'[j] = age[j] /\ late'[j] = late[j]
  BY <1>0, <1>2, <1>3, <1>4 DEF Target, SilentOrLate
<1>5. CASE /\ job'[j] # "none"
           /\ \A i \in Gate \ {g} : pc[i] \in JobLocked => found[i] # j
           /\ job'[j] = "running" => job[j] = "running" /\ lock' = lock /\ late'[j] = (lock.holder # j)
  <2>1. pc[h] \notin JobLocked
    BY <1>5
  <2>2. job'[j] = "running" /\ lock'.holder = h => late'[j]
    BY <1>2, <1>5
  <2>. QED BY <1>0, <1>2, <1>5, <2>1, <2>2 DEF Target, SilentOrLate, JobLocked
<1>. QED BY <1>2, <1>4, <1>5 DEF JobStep

(* A step of one gate keeps the invariant if it keeps its own part of it. *)
LEMMA OneGate ==
    ASSUME StartInvariant, NEW g \in Gate, StartupTypeOK', Others(g), LockStep(g), JobStep(g), Writer(g),
           Own(g)', Target(g)'
    PROVE  StartInvariant'
<1>1. ASSUME NEW h \in Gate \ {g} PROVE Own(h)'
  <2>1. Own(h)
    BY Parts
  <2>. QED BY <2>1, Clocks DEF Own, Others, LockStep
<1>2. \A h \in Gate \ {g} : Target(h)'
  BY TargetKept
<1>3. OneJobWriter'
  <2>1. \A h \in Gate \ {g} : pc'[h] = pc[h] /\ found'[h] = found[h]
    BY DEF Others
  <2>2. ASSUME NEW h \in Gate \ {g}, pc'[h] \in JobLocked, pc'[g] \in JobLocked, found'[h] = found'[g]
        PROVE  FALSE
    BY <2>1, <2>2 DEF Writer, StartInvariant, OneJobWriter
  <2>3. ASSUME NEW h \in Gate \ {g}, NEW i \in Gate \ {g},
               pc'[h] \in JobLocked, pc'[i] \in JobLocked, found'[h] = found'[i]
        PROVE  h = i
    BY <2>1, <2>3 DEF StartInvariant, OneJobWriter
  <2>. QED BY <2>2, <2>3 DEF OneJobWriter
<1>. QED BY <1>1, <1>2, <1>3, PartsNext

(* The same for a step that leaves the gate outside a reset. *)
LEMMA NoReset ==
    ASSUME NEW g \in Gate, pc'[g] \notin {"judge", "update"} \union JobLocked
    PROVE  Target(g)' /\ Writer(g)
BY DEF Target, Writer, Reads, JobLocked

LEMMA SameJobs == ASSUME NEW g \in Gate, UNCHANGED jobRows PROVE JobStep(g)
BY DEF JobStep, jobRows

-----------------------------------------------------------------------------
(* The steps of one gate *)

LEMMA BeginKeeps ==
    ASSUME StartInvariant, NEW g \in Gate, Start(g) \/ PassBegins(g) \/ Ask(g)
    PROVE  StartInvariant'
<1>1. lock' \in LockRow /\ (lock'.holder # lock.holder => lock'.holder = Gone)
  <2>1. lock' = lock \/ lock' = [lock EXCEPT !.holder = Gone]
    BY DEF Start, PassBegins, Ask, Begin, NewLock
  <2>2. lock \in LockRow
    BY DEF StartInvariant, StartupTypeOK
  <2>. QED BY <2>1, <2>2, Clocks DEF LockRow
<1>2. /\ UNCHANGED <<jobRows, stable, looks, target, hb>>
      /\ up' \in [Replica -> {"down", "starting", "ready", "stopping"}]
      /\ \E step \in {"look", "acquire"} : pc' = [pc EXCEPT ![g] = step] /\ (step = "acquire" => Kind[g] = "rebuild" /\ job[g] = "none")
      /\ pc[g] = "idle"
      /\ Kind[g] # "rebuild" \/ job[g] = "none"
  BY DEF Start, PassBegins, Ask, Begin, Goto, StartInvariant, StartupTypeOK
<1>3. StartupTypeOK'
  BY <1>1, <1>2 DEF StartInvariant, StartupTypeOK, GateStep, jobRows, looks, target
<1>4. Others(g) /\ LockStep(g) /\ JobStep(g)
  BY <1>1, <1>2, SameJobs DEF Others, LockStep, StartInvariant, StartupTypeOK, jobRows, looks, target
<1>5. pc'[g] \in {"look", "acquire"} /\ (pc'[g] = "acquire" => Kind[g] = "rebuild" /\ job[g] = "none")
  BY <1>2 DEF StartInvariant, StartupTypeOK
<1>6. Kind[g] = "startup" => lock'.holder # g /\ saw'[g] # "valid"
  BY <1>1, <1>2, Clocks DEF StartInvariant, StartsHoldNothing, looks
<1>7. job[g] = "none" /\ hb[g] = "off"
  BY <1>2 DEF StartInvariant, JobsAreRebuilds
<1>8. Own(g)'
  BY <1>2, <1>5, <1>6, <1>7 DEF Own, Resetting, JobLocked, AtWork, jobRows
<1>9. Target(g)' /\ Writer(g)
  BY <1>5, NoReset DEF JobLocked
<1>. QED BY <1>3, <1>4, <1>8, <1>9, OneGate

LEMMA LookKeeps ==
    ASSUME StartInvariant, NEW g \in Gate, LookAtLock(g) \/ LookAtLockFails(g)
    PROVE  StartInvariant'
<1>1. PICK state \in LockState : saw' = [saw EXCEPT ![g] = state] /\ (state = "valid" => lock.holder = g)
  BY LockSeenSound DEF LookAtLock, LookAtLockFails, StartInvariant, LockState
<1>2. /\ pc' = [pc EXCEPT ![g] = "read"] /\ pc[g] = "look"
      /\ UNCHANGED <<lock, jobRows, stable, up, clean, again, target, hb>>
  BY DEF LookAtLock, LookAtLockFails, Goto, rows
<1>3. StartupTypeOK'
  BY <1>1, <1>2 DEF StartInvariant, StartupTypeOK, GateStep, jobRows, target
<1>4. pc'[g] = "read" /\ saw'[g] = state
  BY <1>1, <1>2 DEF StartInvariant, StartupTypeOK
<1>5. Others(g) /\ LockStep(g) /\ JobStep(g)
  BY <1>1, <1>2, SameJobs DEF Others, LockStep, StartInvariant, StartupTypeOK, jobRows, target
<1>6. Own(g)'
  <2>1. Own(g)
    BY Parts
  <2>. QED BY <1>1, <1>2, <1>4, <2>1 DEF Own, Resetting, JobLocked, AtWork, jobRows
<1>. QED BY <1>3, <1>4, <1>5, <1>6, NoReset, OneGate DEF JobLocked

LEMMA ReadKeeps ==
    ASSUME StartInvariant, NEW g \in Gate, ReadJobs(g) \/ ReadJobsFails(g)
    PROVE  StartInvariant'
<1>1. DbError.finding \in Finding /\ DbError.job \in FoundJob
  BY Clocks DEF DbError, NoJob, Finding, FoundJob
<1>2. PICK step \in {"passed", "ensure", "blocked"} :
         /\ pc' = [pc EXCEPT ![g] = step] /\ clean' \in [Gate -> BOOLEAN]
         /\ step = "passed" => saw[g] = "valid"
         /\ step = "ensure" => Kind[g] = "periodic"
  BY <1>1, EvaluateSound, JobsSeenSound DEF ReadJobs, ReadJobsFails, StartInvariant
<1>3. pc[g] = "read" /\ UNCHANGED <<lock, jobRows, stable, up, saw, again, target, hb>>
  BY DEF ReadJobs, ReadJobsFails, rows
<1>4. StartupTypeOK'
  BY <1>2, <1>3 DEF StartInvariant, StartupTypeOK, GateStep, jobRows, target
<1>5. Others(g) /\ LockStep(g) /\ JobStep(g) /\ pc'[g] = step
  BY <1>2, <1>3, SameJobs DEF Others, LockStep, StartInvariant, StartupTypeOK, jobRows, target
<1>6. Own(g)'
  <2>1. Own(g)
    BY Parts
  <2>. QED BY <1>2, <1>3, <1>5, <2>1 DEF Own, PassedUnderLease, Resetting, JobLocked, AtWork, jobRows
<1>. QED BY <1>4, <1>5, <1>6, NoReset, OneGate DEF JobLocked

-----------------------------------------------------------------------------
(* The steps of a reset *)

(* A gate that resets is that of a periodic reconciliation: it has no job and no
   heartbeat thread. *)
LEMMA Resets ==
    ASSUME StartInvariant, NEW g \in Gate, pc[g] \in {"ensure", "verify", "refused"} \union Resetting
    PROVE  Kind[g] = "periodic" /\ job[g] = "none" /\ hb[g] = "off"
BY DEF StartInvariant, OnlyPeriodicResets, JobsAreRebuilds

(* It stays one, and so its part of the invariant holds, wherever it goes from there. *)
LEMMA ResetOwn ==
    ASSUME StartInvariant, NEW g \in Gate, pc[g] \in {"ensure", "verify"} \union Resetting,
           pc'[g] \in {"verify", "refused", "blocked", "look"} \union Resetting,
           job'[g] = "none", hb' = hb
    PROVE  Own(g)'
BY Resets DEF Own, Resetting, JobLocked, AtWork

LEMMA EndResetSound ==
    ASSUME StartupTypeOK, NEW g \in Gate, NEW step \in GateStep, EndReset(g, step)
    PROVE  /\ pc' \in [Gate -> GateStep] /\ pc'[g] = step
           /\ found' \in [Gate -> Gate \union {NoHolder}] /\ heard' \in [Gate -> 0..Missing]
           /\ \A h \in Gate \ {g} : pc'[h] = pc[h] /\ found'[h] = found[h] /\ heard'[h] = heard[h]
BY Clocks DEF EndReset, Goto, StartupTypeOK

LEMMA EnsureKeeps ==
    ASSUME StartInvariant, NEW g \in Gate, EnsureLock(g) \/ VerifyLock(g)
    PROVE  StartInvariant'
<1>1. /\ pc[g] \in {"ensure", "verify"}
      /\ UNCHANGED <<jobRows, stable, up, looks, target, hb>>
      /\ \E step \in {"reset", "verify", "refused"} : pc' = [pc EXCEPT ![g] = step]
  BY DEF EnsureLock, VerifyLock, Goto, rows
<1>2. lock' \in {lock, Taken(g)}
  BY DEF EnsureLock, VerifyLock, rows
<1>3. lock' \in LockRow /\ LockStep(g)
  BY <1>2, RowsSound DEF StartInvariant, StartupTypeOK, LockStep
<1>4. StartupTypeOK'
  BY <1>1, <1>3 DEF StartInvariant, StartupTypeOK, GateStep, Resetting, jobRows, looks, target
<1>5. Others(g) /\ JobStep(g) /\ pc'[g] \in {"reset", "verify", "refused"} /\ job'[g] = job[g]
  BY <1>1, SameJobs DEF Others, StartInvariant, StartupTypeOK, jobRows, looks, target
<1>6. Own(g)'
  BY <1>1, <1>5, Resets, ResetOwn DEF Resetting
<1>. QED BY <1>3, <1>4, <1>5, <1>6, NoReset, OneGate DEF JobLocked

(* A reset that ends without a commit. *)
LEMMA GiveUpKeeps ==
    ASSUME StartInvariant, NEW g \in Gate, NEW step \in {"refused", "blocked", "look"}, EndReset(g, step),
           pc[g] \in {"ensure", "verify"} \union Resetting,
           again' \in [Gate -> BOOLEAN], UNCHANGED <<rows, up, saw, clean, hb>>
    PROVE  StartInvariant'
<1>1. StartupTypeOK
  BY DEF StartInvariant
<1>2. step \in GateStep
  BY DEF GateStep
<1>3. StartupTypeOK' /\ Others(g) /\ pc'[g] = step
  BY <1>1, <1>2, EndResetSound DEF StartupTypeOK, Others, rows, jobRows
<1>4. LockStep(g) /\ JobStep(g)
  BY SameJobs DEF LockStep, rows
<1>5. Own(g)'
  BY <1>3, Resets, ResetOwn DEF rows, jobRows
<1>. QED BY <1>3, <1>4, <1>5, NoReset, OneGate DEF JobLocked

LEMMA ResetFailsKeeps ==
    ASSUME StartInvariant, NEW g \in Gate, ResetFails(g)
    PROVE  StartInvariant'
<1>1. again' = again
  BY DEF ResetFails, looks
<1>. QED BY <1>1, GiveUpKeeps DEF ResetFails, looks, StartInvariant, StartupTypeOK

(* The job that is read is as old as its heartbeat is. *)
LEMMA ReadTargetKeeps ==
    ASSUME StartInvariant, NEW g \in Gate, ReadTarget(g)
    PROVE  StartInvariant'
<1>1. CASE EndReset(g, "look") \/ EndReset(g, "blocked")
  <2>1. again' \in [Gate -> BOOLEAN]
    BY DEF ReadTarget, LookAgain, StartInvariant, StartupTypeOK
  <2>. QED BY <1>1, <2>1, GiveUpKeeps DEF ReadTarget, Resetting
<1>2. ASSUME NEW j \in Running,
             found' = [found EXCEPT ![g] = j], heard' = [heard EXCEPT ![g] = age[j]],
             Goto(g, "judge"), UNCHANGED again
      PROVE  StartInvariant'
  <2>1. j \in Gate /\ job[j] = "running"
    BY DEF Running
  <2>2. UNCHANGED <<rows, up, saw, clean, hb>> /\ pc[g] = "reset"
    BY DEF ReadTarget
  <2>3. StartupTypeOK'
    BY <1>2, <2>1, <2>2 DEF StartInvariant, StartupTypeOK, GateStep, Resetting, Goto, rows, jobRows
  <2>4. Others(g) /\ LockStep(g) /\ JobStep(g)
    BY <1>2, <2>2, SameJobs DEF Others, LockStep, StartInvariant, StartupTypeOK, Goto, rows, jobRows
  <2>5. pc'[g] = "judge" /\ found'[g] = j /\ heard'[g] = age[j]
    BY <1>2 DEF Goto, StartInvariant, StartupTypeOK
  <2>6. Own(g)'
    BY <2>2, <2>5, Resets, ResetOwn DEF Resetting, rows, jobRows
  <2>7. Target(g)' /\ Writer(g)
    <3>1. age'[j] >= heard'[g]
      BY <2>1, <2>2, <2>5, Clocks DEF rows, jobRows, StartInvariant, StartupTypeOK
    <3>. QED BY <2>1, <2>2, <2>5, <3>1 DEF Target, Writer, JobLocked, rows, jobRows
  <2>. QED BY <2>3, <2>4, <2>6, <2>7, OneGate
<1>. QED BY <1>1, <1>2 DEF ReadTarget, LookAgain

(* A heartbeat that arrived since, under the lease of the gate, was late. *)
LEMMA JudgeTargetKeeps ==
    ASSUME StartInvariant, NEW g \in Gate, JudgeTarget(g)
    PROVE  StartInvariant'
<1>0. pc[g] = "judge" /\ UNCHANGED <<rows, up, looks, hb>>
  BY DEF JudgeTarget
<1>1. CASE EndReset(g, "blocked")
  BY <1>0, <1>1, GiveUpKeeps DEF looks, Resetting, StartInvariant, StartupTypeOK
<1>2. CASE HoldsLease(lock, g) /\ heard[g] >= TTL /\ Goto(g, "update") /\ heard' = [heard EXCEPT ![g] = Missing] /\ UNCHANGED found
  <2>1. StartupTypeOK'
    BY <1>0, <1>2, Clocks DEF StartInvariant, StartupTypeOK, GateStep, Resetting, Goto, rows, jobRows, looks
  <2>2. Others(g) /\ LockStep(g) /\ JobStep(g)
    BY <1>0, <1>2, SameJobs DEF Others, LockStep, StartInvariant, StartupTypeOK, Goto, rows, jobRows, looks
  <2>3. pc'[g] = "update" /\ found'[g] = found[g]
    BY <1>2 DEF Goto, StartInvariant, StartupTypeOK
  <2>4. Own(g)'
    BY <1>0, <2>3, Resets, ResetOwn DEF Resetting, rows, jobRows
  <2>5. Target(g) /\ lock.holder = g /\ Reads(g)
    BY <1>0, <1>2, Parts DEF HoldsLease, Reads
  <2>6. found[g] \in Gate /\ job[found[g]] # "none" /\ (job[found[g]] = "running" => late[found[g]] \/ age[found[g]] >= heard[g])
    BY <1>0, <2>5 DEF Target
  <2>7. job[found[g]] = "running" => SilentOrLate(found[g])
    <3>1. age[found[g]] \in Int /\ heard[g] \in Int
      BY <2>6, Clocks DEF StartInvariant, StartupTypeOK
    <3>. QED BY <1>2, <2>6, <3>1, Clocks DEF SilentOrLate
  <2>8. UNCHANGED <<job, age, late>>
    BY <1>0 DEF rows, jobRows
  <2>9. Target(g)' /\ Writer(g)
    BY <2>3, <2>6, <2>7, <2>8 DEF Target, Writer, JobLocked, SilentOrLate
  <2>. QED BY <2>1, <2>2, <2>4, <2>9, OneGate
<1>. QED BY <1>1, <1>2 DEF JudgeTarget

(* The row of the job was free, and the job RUNNING. *)
LEMMA UpdateTargetKeeps ==
    ASSUME StartInvariant, NEW g \in Gate, UpdateTarget(g)
    PROVE  StartInvariant'
<1>0. pc[g] = "update" /\ JobRowFree(found[g]) /\ UNCHANGED <<rows, up, looks, hb>>
  BY DEF UpdateTarget
<1>1. CASE EndReset(g, "blocked")
  BY <1>0, <1>1, GiveUpKeeps DEF looks, Resetting, StartInvariant, StartupTypeOK
<1>2. CASE job[found[g]] = "running" /\ Goto(g, "confirm") /\ UNCHANGED target
  <2>1. StartupTypeOK'
    BY <1>0, <1>2 DEF StartInvariant, StartupTypeOK, GateStep, Resetting, JobLocked, Goto, rows, jobRows, looks, target
  <2>2. Others(g) /\ LockStep(g) /\ JobStep(g)
    BY <1>0, <1>2, SameJobs DEF Others, LockStep, StartInvariant, StartupTypeOK, Goto, rows, jobRows, looks, target
  <2>3. pc'[g] = "confirm" /\ found'[g] = found[g]
    BY <1>2 DEF Goto, StartInvariant, StartupTypeOK, target
  <2>4. Own(g)'
    BY <1>0, <2>3, Resets, ResetOwn DEF Resetting, JobLocked, rows, jobRows
  <2>5. Target(g)
    BY Parts
  <2>6. UNCHANGED <<lock, job, age, late>>
    BY <1>0 DEF rows, jobRows
  <2>7. Target(g)'
    BY <1>0, <1>2, <2>3, <2>5, <2>6 DEF Target, Reads, JobLocked, SilentOrLate
  <2>8. Writer(g)
    BY <1>0, <2>3 DEF Writer, JobRowFree
  <2>. QED BY <2>1, <2>2, <2>4, <2>7, <2>8, OneGate
<1>. QED BY <1>1, <1>2 DEF UpdateTarget

LEMMA ConfirmLeaseKeeps ==
    ASSUME StartInvariant, NEW g \in Gate, ConfirmLease(g)
    PROVE  StartInvariant'
<1>0. pc[g] = "confirm" /\ UNCHANGED <<rows, up, looks, hb>>
  BY DEF ConfirmLease
<1>1. CASE EndReset(g, "blocked")
  BY <1>0, <1>1, GiveUpKeeps DEF looks, Resetting, JobLocked, StartInvariant, StartupTypeOK
<1>2. CASE HoldsLease(lock, g) /\ Goto(g, "commit") /\ UNCHANGED target
  <2>1. StartupTypeOK'
    BY <1>0, <1>2 DEF StartInvariant, StartupTypeOK, GateStep, Resetting, JobLocked, Goto, rows, jobRows, looks, target
  <2>2. Others(g) /\ LockStep(g) /\ JobStep(g)
    BY <1>0, <1>2, SameJobs DEF Others, LockStep, StartInvariant, StartupTypeOK, Goto, rows, jobRows, looks, target
  <2>3. pc'[g] = "commit" /\ found'[g] = found[g]
    BY <1>2 DEF Goto, StartInvariant, StartupTypeOK, target
  <2>4. Own(g)'
    BY <1>0, <2>3, Resets, ResetOwn DEF Resetting, JobLocked, rows, jobRows
  <2>5. Target(g)
    BY Parts
  <2>6. UNCHANGED <<lock, job, age, late>> /\ lock.holder = g
    BY <1>0, <1>2 DEF rows, jobRows, HoldsLease
  <2>7. Target(g)'
    BY <1>0, <2>3, <2>5, <2>6 DEF Target, Reads, JobLocked, SilentOrLate
  <2>8. Writer(g)
    BY <1>0, <2>3 DEF Writer, JobLocked
  <2>. QED BY <2>1, <2>2, <2>4, <2>7, <2>8, OneGate
<1>. QED BY <1>1, <1>2 DEF ConfirmLease

LEMMA CommitResetKeeps ==
    ASSUME StartInvariant, NEW g \in Gate, CommitReset(g)
    PROVE  StartInvariant'
<1>0. /\ pc[g] = "commit" /\ UNCHANGED <<lock, age, stable, up, saw, clean, hb>>
      /\ EndJob(found[g]) /\ late' = [late EXCEPT ![found[g]] = FALSE]
      /\ EndReset(g, "look") /\ again' = [again EXCEPT ![g] = TRUE]
  BY DEF CommitReset, LookAgain
<1>1. StartupTypeOK /\ "look" \in GateStep
  BY DEF StartInvariant, GateStep
<1>2. found[g] \in Gate \ {g} /\ job[found[g]] = "running"
  BY <1>0, OwnersDoNotReset DEF Reads, JobLocked, StartInvariant, TargetsRunning
<1>3. job' = [job EXCEPT ![found[g]] = "ended"]
  BY <1>0, <1>1, <1>2 DEF EndJob, StartupTypeOK
<1>4. StartupTypeOK' /\ pc'[g] = "look" /\ \A h \in Gate \ {g} : pc'[h] = pc[h] /\ found'[h] = found[h] /\ heard'[h] = heard[h]
  BY <1>0, <1>1, <1>2, <1>3, EndResetSound DEF StartupTypeOK
<1>5. \A h \in Gate : job'[h] = "none" <=> job[h] = "none"
  BY <1>1, <1>2, <1>3 DEF StartupTypeOK
<1>6. Others(g) /\ LockStep(g)
  BY <1>0, <1>4, <1>5 DEF Others, LockStep
<1>7. JobStep(g)
  <2>1. \A h \in Gate \ {g} : pc[h] \in JobLocked => found[h] # found[g]
    BY <1>0 DEF StartInvariant, OneJobWriter, JobLocked
  <2>2. job'[found[g]] = "ended" /\ \A j \in Gate \ {found[g]} : job'[j] = job[j] /\ age'[j] = age[j] /\ late'[j] = late[j]
    BY <1>0, <1>1, <1>2, <1>3 DEF StartupTypeOK
  <2>. QED BY <2>1, <2>2 DEF JobStep
<1>8. Own(g)'
  BY <1>0, <1>4, <1>5, Resets, ResetOwn DEF Resetting, JobLocked
<1>. QED BY <1>4, <1>6, <1>7, <1>8, NoReset, OneGate DEF JobLocked

-----------------------------------------------------------------------------
(* The steps of a start, of a pass and of a rebuild *)

(* A gate's own variables after it has left. *)
LEMMA LeaveSound ==
    ASSUME StartupTypeOK, NEW g \in Gate, Leave(g)
    PROVE  /\ pc' \in [Gate -> GateStep] /\ saw' \in [Gate -> LockState]
           /\ clean' \in [Gate -> BOOLEAN] /\ again' \in [Gate -> BOOLEAN]
           /\ pc'[g] = "idle" /\ saw'[g] = "unknown"
           /\ \A h \in Gate \ {g} : pc'[h] = pc[h] /\ saw'[h] = saw[h]
BY DEF Leave, Goto, StartupTypeOK, GateStep, LockState

(* An owner that ends, whatever it leaves of its heartbeat thread, keeps its job. *)
LEMMA EndsKeep ==
    ASSUME StartInvariant, NEW g \in Gate,
           StartupEnds(g) \/ StartupError(g) \/ PassEnds(g) \/ RebuildEnds(g)
    PROVE  StartInvariant'
<1>1. Leave(g) /\ UNCHANGED <<jobRows, stable, target>>
  BY DEF StartupEnds, StartupError, PassEnds, RebuildEnds, GateEnds, rows
<1>2. up' \in [Replica -> {"down", "starting", "ready", "stopping"}]
  BY DEF StartupEnds, StartupError, PassEnds, RebuildEnds, StartTasks, StartInvariant, StartupTypeOK
<1>3. lock' \in {lock, Released(lock, g)}
  BY DEF StartupEnds, StartupError, PassEnds, RebuildEnds, GateEnds, GiveBack, ReleaseOutcomes, rows
<1>4. lock' \in LockRow /\ LockStep(g)
  BY <1>3, RowsSound DEF StartInvariant, StartupTypeOK, LockStep
<1>5. /\ hb' \in [Gate -> HeartbeatStep]
      /\ \A h \in Gate : hb'[h] = hb[h] \/ (h = g /\ hb[g] # "off")
  <2>1. hb' = hb \/ \E step \in {"off", "woken"} : hb[g] = "wait" /\ hb' = [hb EXCEPT ![g] = step]
    BY DEF StartupEnds, StartupError, PassEnds, RebuildEnds, GateEnds, HbGoto
  <2>2. hb \in [Gate -> HeartbeatStep] /\ {"off", "woken"} \subseteq HeartbeatStep
    BY DEF HeartbeatStep, StartInvariant, StartupTypeOK
  <2>3. ASSUME NEW step \in {"off", "woken"}, hb[g] = "wait", hb' = [hb EXCEPT ![g] = step]
        PROVE  hb' \in [Gate -> HeartbeatStep] /\ \A h \in Gate : hb'[h] = hb[h] \/ (h = g /\ hb[g] # "off")
    <3>1. step \in HeartbeatStep
      BY <2>2
    <3>. QED BY <2>2, <2>3, <3>1
  <2>. QED BY <2>1, <2>2, <2>3
<1>6. StartupTypeOK' /\ Others(g) /\ JobStep(g) /\ pc'[g] = "idle" /\ saw'[g] = "unknown"
  BY <1>1, <1>2, <1>4, <1>5, LeaveSound, SameJobs DEF StartInvariant, StartupTypeOK, Others, jobRows, target
<1>7. Own(g)'
  <2>1. Own(g)
    BY Parts
  <2>2. lock' = lock \/ lock'.holder # g
    BY <1>3, Clocks DEF Released, NoRow
  <2>. QED BY <1>1, <1>5, <1>6, <2>1, <2>2 DEF Own, Resetting, JobLocked, AtWork, jobRows
<1>. QED BY <1>4, <1>6, <1>7, NoReset, OneGate DEF JobLocked

LEMMA AcquireKeeps ==
    ASSUME StartInvariant, NEW g \in Gate, Acquire(g) \/ CheckAcquired(g)
    PROVE  StartInvariant'
<1>1. /\ pc[g] \in {"acquire", "check"} /\ UNCHANGED <<jobRows, stable, up, looks, target, hb>>
      /\ \E step \in {"check", "look", "idle"} : pc' = [pc EXCEPT ![g] = step]
  BY DEF Acquire, CheckAcquired, Goto, rows
<1>2. lock' \in {lock, Taken(g)}
  BY DEF Acquire, CheckAcquired, rows
<1>3. lock' \in LockRow /\ LockStep(g)
  BY <1>2, RowsSound DEF StartInvariant, StartupTypeOK, LockStep
<1>4. StartupTypeOK'
  BY <1>1, <1>3 DEF StartInvariant, StartupTypeOK, GateStep, jobRows, looks, target
<1>5. Others(g) /\ JobStep(g) /\ pc'[g] \in {"check", "look", "idle"}
  BY <1>1, SameJobs DEF Others, StartInvariant, StartupTypeOK, jobRows, looks, target
<1>6. Own(g)'
  <2>1. Kind[g] = "rebuild" /\ job[g] = "none" /\ hb[g] = "off"
    BY <1>1 DEF StartInvariant, JobsAreRebuilds, AtWork
  <2>. QED BY <1>1, <1>5, <2>1 DEF Own, Resetting, JobLocked, AtWork, jobRows
<1>. QED BY <1>3, <1>4, <1>5, <1>6, NoReset, OneGate DEF JobLocked

(* A job that is created is no reset's: what a reset has read exists. *)
LEMMA CreateJobKeeps ==
    ASSUME StartInvariant, NEW g \in Gate, CreateJob(g)
    PROVE  StartInvariant'
<1>1. /\ Kind[g] = "rebuild" /\ pc[g] = "passed"
      /\ job' = [job EXCEPT ![g] = "running"] /\ pc' = [pc EXCEPT ![g] = "firstbeat"]
      /\ UNCHANGED <<lock, age, late, stable, up, looks, target, hb>>
  BY DEF CreateJob, Goto
<1>2. job[g] = "none"
  BY <1>1 DEF StartInvariant, JobsAreRebuilds, AtWork
<1>3. StartupTypeOK' /\ Others(g) /\ LockStep(g) /\ pc'[g] = "firstbeat" /\ job'[g] = "running"
  BY <1>1 DEF StartInvariant, StartupTypeOK, GateStep, Others, LockStep, looks, target
<1>4. JobStep(g)
  BY <1>1, <1>2 DEF JobStep, StartInvariant, StartupTypeOK
<1>5. Own(g)'
  BY <1>1, <1>3 DEF Own, Resetting, JobLocked, AtWork
<1>. QED BY <1>3, <1>4, <1>5, NoReset, OneGate DEF JobLocked

(* A heartbeat waits for the row of its job, and is late when the lock row has passed on. *)
LEMMA BeatJobSound ==
    ASSUME StartupTypeOK, NEW g \in Gate, BeatJob(g), job[g] = "running", JobRowFree(g)
    PROVE  /\ age' \in [Gate -> 0..Missing] /\ late' \in [Gate -> BOOLEAN] /\ UNCHANGED <<lock, job, stable>>
           /\ JobStep(g)
<1>1. age' = [age EXCEPT ![g] = 0] /\ late' = [late EXCEPT ![g] = lock.holder # g] /\ UNCHANGED <<lock, job, stable>>
  BY DEF BeatJob
<1>2. \A j \in Gate \ {g} : job'[j] = job[j] /\ age'[j] = age[j] /\ late'[j] = late[j]
  BY <1>1 DEF StartupTypeOK
<1>3. late'[g] = (lock.holder # g) /\ job'[g] = "running"
  BY <1>1 DEF StartupTypeOK
<1>4. \A h \in Gate \ {g} : pc[h] \in JobLocked => found[h] # g
  BY DEF JobRowFree
<1>5. JobStep(g)
  BY <1>1, <1>2, <1>3, <1>4 DEF JobStep
<1>6. age' \in [Gate -> 0..Missing] /\ late' \in [Gate -> BOOLEAN]
  BY <1>1, Clocks DEF StartupTypeOK
<1>. QED BY <1>1, <1>5, <1>6

LEMMA FirstBeatKeeps ==
    ASSUME StartInvariant, NEW g \in Gate, FirstBeat(g)
    PROVE  StartInvariant'
<1>1. pc[g] = "firstbeat" /\ JobRowFree(g) /\ pc' = [pc EXCEPT ![g] = "building"] /\ UNCHANGED <<up, looks, target>>
  BY DEF FirstBeat, Goto
<1>2. /\ age' \in [Gate -> 0..Missing] /\ late' \in [Gate -> BOOLEAN] /\ UNCHANGED <<lock, job, stable>>
      /\ JobStep(g)
  <2>1. CASE job[g] = "running" /\ BeatJob(g)
    BY <1>1, <2>1, BeatJobSound DEF StartInvariant
  <2>2. CASE UNCHANGED rows
    BY <2>2, SameJobs DEF rows, jobRows, StartInvariant, StartupTypeOK
  <2>. QED BY <2>1, <2>2 DEF FirstBeat
<1>3. hb' \in [Gate -> HeartbeatStep] /\ \A h \in Gate \ {g} : hb'[h] = hb[h]
  BY DEF FirstBeat, HeartbeatStep, StartInvariant, StartupTypeOK
<1>4. StartupTypeOK' /\ Others(g) /\ LockStep(g) /\ pc'[g] = "building"
  BY <1>1, <1>2, <1>3 DEF StartInvariant, StartupTypeOK, GateStep, Others, LockStep, looks, target
<1>5. Own(g)'
  <2>1. Own(g)
    BY Parts
  <2>. QED BY <1>1, <1>2, <1>4, <2>1 DEF Own, Resetting, JobLocked, AtWork
<1>. QED BY <1>2, <1>4, <1>5, NoReset, OneGate DEF JobLocked

(* The heartbeat thread of a rebuild works beside its gate. *)
LEMMA HeartbeatKeeps ==
    ASSUME StartInvariant, NEW g \in Gate, Refresh(g) \/ Beat(g)
    PROVE  StartInvariant'
<1>1. hb[g] # "off" /\ UNCHANGED <<up, gateVars>>
  BY DEF Refresh, Beat
<1>2. Kind[g] = "rebuild" /\ job[g] # "none" /\ pc[g] \in {"idle"} \union AtWork
  BY <1>1 DEF StartInvariant, JobsAreRebuilds
<1>3. hb' \in [Gate -> HeartbeatStep] /\ \A h \in Gate \ {g} : hb'[h] = hb[h]
  BY DEF Refresh, Beat, HbGoto, HeartbeatStep, StartInvariant, StartupTypeOK
<1>4. /\ age' \in [Gate -> 0..Missing] /\ late' \in [Gate -> BOOLEAN] /\ UNCHANGED <<job, stable>>
      /\ JobStep(g) /\ lock' \in {lock, Taken(g)}
  <2>1. CASE job[g] = "running" /\ BeatJob(g) /\ JobRowFree(g)
    BY <2>1, BeatJobSound DEF StartInvariant
  <2>2. CASE UNCHANGED <<jobRows, stable>> /\ lock' \in {lock, Taken(g)}
    BY <2>2, SameJobs DEF jobRows, StartInvariant, StartupTypeOK
  <2>. QED BY <2>1, <2>2 DEF Refresh, Beat, rows
<1>5. lock' \in LockRow /\ LockStep(g)
  BY <1>4, RowsSound DEF StartInvariant, StartupTypeOK, LockStep
<1>6. StartupTypeOK' /\ Others(g)
  BY <1>1, <1>3, <1>4, <1>5 DEF StartInvariant, StartupTypeOK, Others, gateVars, looks, target
<1>7. Own(g)'
  <2>1. Own(g)
    BY Parts
  <2>. QED BY <1>1, <1>2, <1>4, <2>1 DEF Own, Resetting, JobLocked, AtWork, gateVars, looks
<1>8. Target(g)' /\ Writer(g)
  <2>1. pc'[g] \in {"idle"} \union AtWork
    BY <1>1, <1>2 DEF gateVars
  <2>. QED BY <2>1, NoReset DEF JobLocked, AtWork
<1>. QED BY <1>4, <1>5, <1>6, <1>7, <1>8, OneGate

LEMMA FinishJobKeeps ==
    ASSUME StartInvariant, NEW g \in Gate, FinishJob(g)
    PROVE  StartInvariant'
<1>1. pc[g] = "building" /\ pc' = [pc EXCEPT ![g] = "closing"] /\ UNCHANGED <<lock, stable, up, looks, target, hb>>
  BY DEF FinishJob, Goto
<1>2. /\ job' \in [Gate -> {"none", "running", "ended"}] /\ age' \in [Gate -> 0..Missing] /\ late' \in [Gate -> BOOLEAN]
      /\ \A j \in Gate : job'[j] = "none" <=> job[j] = "none"
      /\ JobStep(g)
  <2>1. CASE UNCHANGED jobRows
    BY <2>1, SameJobs DEF jobRows, StartInvariant, StartupTypeOK
  <2>2. CASE JobRowFree(g) /\ EndJob(g) /\ age' = [age EXCEPT ![g] = Missing] /\ late' = [late EXCEPT ![g] = FALSE]
    <3>1. /\ job' \in [Gate -> {"none", "running", "ended"}] /\ age' \in [Gate -> 0..Missing] /\ late' \in [Gate -> BOOLEAN]
          /\ \A j \in Gate : job'[j] = "none" <=> job[j] = "none"
      BY <2>2, Clocks DEF EndJob, StartInvariant, StartupTypeOK
    <3>2. \A j \in Gate \ {g} : job'[j] = job[j] /\ age'[j] = age[j] /\ late'[j] = late[j]
      BY <2>2 DEF EndJob, StartInvariant, StartupTypeOK
    <3>3. job'[g] # "running"
      BY <2>2 DEF EndJob, StartInvariant, StartupTypeOK
    <3>4. \A h \in Gate \ {g} : pc[h] \in JobLocked => found[h] # g
      BY <2>2 DEF JobRowFree
    <3>. QED BY <3>1, <3>2, <3>3, <3>4 DEF JobStep
  <2>. QED BY <2>1, <2>2 DEF FinishJob
<1>3. StartupTypeOK' /\ Others(g) /\ LockStep(g) /\ pc'[g] = "closing"
  BY <1>1, <1>2 DEF StartInvariant, StartupTypeOK, GateStep, Others, LockStep, looks, target
<1>4. Own(g)'
  <2>1. Own(g)
    BY Parts
  <2>. QED BY <1>1, <1>2, <1>3, <2>1 DEF Own, Resetting, JobLocked, AtWork
<1>. QED BY <1>2, <1>3, <1>4, NoReset, OneGate DEF JobLocked

-----------------------------------------------------------------------------
(* The steps of a replica and of the clock *)

LEMMA ReplicaKeeps ==
    ASSUME StartInvariant, NEW r \in Replica, Shutdown(r) \/ Stopped(r) \/ Crash(r)
    PROVE  StartInvariant'
<1>1. UNCHANGED <<lock, job, age, late, stable>>
  BY DEF Shutdown, Stopped, Crash, rows, jobRows
<1>2. up' \in [Replica -> {"down", "starting", "ready", "stopping"}]
  BY DEF Shutdown, Stopped, Crash, StartInvariant, StartupTypeOK
<1>3. \A g \in Gate : \/ pc'[g] = pc[g] /\ saw'[g] = saw[g] /\ found'[g] = found[g] /\ heard'[g] = heard[g]
                      \/ pc'[g] = "idle" /\ saw'[g] = "unknown"
  BY DEF Shutdown, Stopped, Crash, gateVars, looks, target
<1>4. \A g \in Gate : hb'[g] = hb[g] \/ hb'[g] = "off"
  BY DEF Shutdown, Stopped, Crash, EndThreads
<1>5. /\ pc' \in [Gate -> GateStep] /\ saw' \in [Gate -> LockState]
      /\ clean' \in [Gate -> BOOLEAN] /\ again' \in [Gate -> BOOLEAN]
      /\ found' \in [Gate -> Gate \union {NoHolder}] /\ heard' \in [Gate -> 0..Missing]
  <2>1. CASE Shutdown(r) \/ Stopped(r)
    BY <2>1 DEF Shutdown, Stopped, gateVars, looks, target, StartInvariant, StartupTypeOK
  <2>2. CASE Crash(r)
    BY <2>2, Clocks DEF Crash, StartInvariant, StartupTypeOK, GateStep, LockState
  <2>. QED BY <2>1, <2>2
<1>6. hb' \in [Gate -> HeartbeatStep]
  BY DEF Shutdown, Stopped, Crash, EndThreads, HeartbeatStep, StartInvariant, StartupTypeOK
<1>7. StartupTypeOK'
  BY <1>1, <1>2, <1>5, <1>6 DEF StartInvariant, StartupTypeOK
<1>8. ASSUME NEW g \in Gate PROVE Own(g)' /\ Target(g)'
  <2>1. Own(g) /\ Target(g)
    BY Parts
  <2>2. CASE pc'[g] = pc[g] /\ saw'[g] = saw[g] /\ found'[g] = found[g] /\ heard'[g] = heard[g]
    BY <1>1, <1>4, <2>1, <2>2 DEF Own, Target, Reads, SilentOrLate
  <2>3. CASE pc'[g] = "idle" /\ saw'[g] = "unknown"
    BY <1>1, <1>4, <2>1, <2>3 DEF Own, Target, Reads, Resetting, JobLocked, AtWork
  <2>. QED BY <1>3, <2>2, <2>3
<1>9. OneJobWriter'
  BY <1>3 DEF StartInvariant, OneJobWriter, JobLocked
<1>. QED BY <1>7, <1>8, <1>9, PartsNext

(* Both ages that a reset compares grow together. *)
LEMMA OlderSound ==
    ASSUME NEW s \in 0..Missing, NEW t \in 0..Missing
    PROVE  /\ Older(s) \in 0..Missing
           /\ s >= t => Older(s) >= Older(t)
           /\ s >= TTL => Older(s) >= TTL
BY Clocks DEF Older

LEMMA TickKeeps ==
    ASSUME StartInvariant, Tick
    PROVE  StartInvariant'
<1>1. /\ UNCHANGED <<job, late, stable, up, pc, saw, clean, again, found, hb>>
      /\ lock' = OneTickOlder(lock)
      /\ age' = [g \in Gate |-> Older(age[g])] /\ heard' = [g \in Gate |-> Older(heard[g])]
  BY DEF Tick, looks
<1>2. lock' \in LockRow /\ lock'.holder = lock.holder
  BY <1>1, Clocks DEF OneTickOlder, LockRow, Expired, StartInvariant, StartupTypeOK
<1>3. \A g \in Gate : age[g] \in 0..Missing /\ heard[g] \in 0..Missing
  BY DEF StartInvariant, StartupTypeOK
<1>4. age' \in [Gate -> 0..Missing] /\ heard' \in [Gate -> 0..Missing]
  BY <1>1, <1>3, OlderSound
<1>5. StartupTypeOK'
  BY <1>1, <1>2, <1>4 DEF StartInvariant, StartupTypeOK
<1>6. ASSUME NEW g \in Gate PROVE Own(g)' /\ Target(g)'
  <2>1. Own(g) /\ Target(g)
    BY Parts
  <2>2. CASE Reads(g)
    <3>1. found[g] \in Gate
      BY <2>1, <2>2 DEF Target
    <3>2. /\ age[found[g]] >= heard[g] => age'[found[g]] >= heard'[g]
          /\ SilentOrLate(found[g]) => SilentOrLate(found[g])'
      BY <1>1, <1>3, <3>1, OlderSound DEF SilentOrLate
    <3>. QED BY <1>1, <1>2, <2>1, <3>1, <3>2 DEF Own, Target, Reads, SilentOrLate
  <2>3. CASE ~Reads(g)
    BY <1>1, <1>2, <2>1, <2>3 DEF Own, Target, Reads
  <2>. QED BY <2>2, <2>3
<1>7. OneJobWriter'
  BY <1>1 DEF StartInvariant, OneJobWriter
<1>. QED BY <1>5, <1>6, <1>7, PartsNext

LEMMA StandsStill ==
    ASSUME StartInvariant, Stabilize \/ UNCHANGED vars
    PROVE  StartInvariant'
<1>1. UNCHANGED <<lock, job, age, late, up, pc, saw, clean, again, found, heard, hb>>
  BY DEF Stabilize, vars, gateVars, jobRows, looks, target
<1>2. StartupTypeOK'
  BY <1>1 DEF Stabilize, vars, StartInvariant, StartupTypeOK
<1>3. OneJobWriter' /\ \A g \in Gate : Own(g)' /\ Target(g)'
  BY <1>1, Parts DEF Own, Target, Reads, SilentOrLate, OneJobWriter
<1>. QED BY <1>2, <1>3, PartsNext

LEMMA NextKeeps == StartInvariant /\ [Next]_vars => StartInvariant'
<1>. SUFFICES ASSUME StartInvariant, [Next]_vars PROVE StartInvariant'
  OBVIOUS
<1>1. CASE Tick \/ Stabilize \/ UNCHANGED vars
  BY <1>1, TickKeeps, StandsStill
<1>2. CASE \E r \in Replica : Shutdown(r) \/ Stopped(r) \/ Crash(r)
  BY <1>2, ReplicaKeeps
<1>3. ASSUME NEW g \in Gate, ResetStep(g) \/ ResetFails(g)
      PROVE  StartInvariant'
  BY <1>3, EnsureKeeps, ReadTargetKeeps, JudgeTargetKeeps, UpdateTargetKeeps, ConfirmLeaseKeeps, CommitResetKeeps,
     ResetFailsKeeps DEF ResetStep
<1>4. ASSUME NEW g \in Gate,
             \/ Start(g) \/ StartupEnds(g) \/ StartupError(g) \/ PassBegins(g) \/ PassEnds(g)
             \/ LookAtLock(g) \/ ReadJobs(g) \/ LookAtLockFails(g) \/ ReadJobsFails(g)
             \/ Ask(g) \/ Acquire(g) \/ CheckAcquired(g) \/ CreateJob(g) \/ FirstBeat(g)
             \/ Refresh(g) \/ Beat(g) \/ FinishJob(g) \/ RebuildEnds(g)
      PROVE  StartInvariant'
  BY <1>4, BeginKeeps, LookKeeps, ReadKeeps, EndsKeep, AcquireKeeps, CreateJobKeeps, FirstBeatKeeps, HeartbeatKeeps,
     FinishJobKeeps
<1>. QED BY <1>1, <1>2, <1>3, <1>4 DEF Next

(* Neither a start nor a rebuild resets a job, nobody passes the gate without having seen
   a valid lease, a start never does, a rebuild has no job before it has passed, and what a
   reset has read of its target stays true up to its commit unless the heartbeat that came
   between was late (lifespan, RecoveryGate, _perform_rebuild_and_persist_sync). *)
THEOREM Invariance == Spec => []StartInvariant
<1>1. Init => StartInvariant
  <2>. SUFFICES ASSUME Init PROVE StartInvariant
    OBVIOUS
  <2>1. lock \in LockRow /\ lock.holder = NoHolder
    BY Clocks DEF Init, NoRow, LockRow, Expired
  <2>2. StartupTypeOK
    <3>1. "unknown" \in LockState /\ "idle" \in GateStep /\ "off" \in HeartbeatStep /\ Missing \in 0..Missing
      BY Clocks DEF LockState, GateStep, HeartbeatStep
    <3>. QED BY <2>1, <3>1 DEF Init, StartupTypeOK
  <2>3. ASSUME NEW g \in Gate PROVE Own(g) /\ Target(g)
    BY <2>1, Clocks DEF Init, Own, Target, Reads, Resetting, JobLocked, AtWork
  <2>4. OneJobWriter
    BY DEF Init, OneJobWriter, JobLocked
  <2>. QED BY <2>2, <2>3, <2>4, Parts
<1>. QED BY <1>1, NextKeeps, PTL DEF Spec

-----------------------------------------------------------------------------
(* Who ends a job *)

(* The commit of a reset ends the job it has read, which has been silent for a TTL or was
   late when it was last heard. *)
LEMMA CommitsAreEarned ==
    ASSUME StartInvariant, NEW g \in Gate, CommitReset(g), NEW j \in Gate,
           job[j] = "running", job'[j] = "ended"
    PROVE  late[j] \/ age[j] >= TTL
<1>1. pc[g] = "commit" /\ EndJob(found[g])
  BY DEF CommitReset
<1>2. found[g] = j
  BY <1>1 DEF EndJob, StartInvariant, StartupTypeOK
<1>. QED BY <1>1, <1>2, Parts DEF Target, Reads, JobLocked, SilentOrLate

(* A job ends by the hand of another, its own heartbeats, refreshes and end falling anywhere
   between the steps of the reset, only when its owner has been silent for a whole TTL or
   was so late that the lock row had passed to another (_reset_active_job). *)
THEOREM OnlySilentOwnersAreReset == Spec => OnlySilentReset
<1>. DEFINE Earned == \A j \in Gate :
       job[j] = "running" /\ job'[j] = "ended" /\ ~(pc[j] = "building" /\ pc'[j] = "closing")
       => late[j] \/ age[j] >= TTL
<1>1. StartInvariant /\ [Next]_vars => [Earned]_vars
  <2>. SUFFICES ASSUME StartInvariant, Next, NEW j \in Gate,
                       job[j] = "running", job'[j] = "ended", ~(pc[j] = "building" /\ pc'[j] = "closing")
                PROVE  late[j] \/ age[j] >= TTL
    OBVIOUS
  <2>1. CASE \E g \in Gate : CommitReset(g)
    BY <2>1, CommitsAreEarned
  <2>2. ASSUME NEW g \in Gate, FinishJob(g)
        PROVE  FALSE
    <3>1. g = j
      BY <2>2 DEF FinishJob, EndJob, jobRows, StartInvariant, StartupTypeOK
    <3>2. pc[j] = "building" /\ pc'[j] = "closing"
      BY <2>2, <3>1 DEF FinishJob, Goto, StartInvariant, StartupTypeOK
    <3>. QED BY <3>2
  <2>3. ASSUME NEW g \in Gate, CreateJob(g)
        PROVE  FALSE
    BY <2>3 DEF CreateJob, StartInvariant, StartupTypeOK
  <2>4. CASE UNCHANGED job
    BY <2>4
  <2>5. UNCHANGED job \/ \E g \in Gate : CommitReset(g) \/ FinishJob(g) \/ CreateJob(g)
    <3>1. ASSUME NEW g \in Gate, ResetStep(g) \/ ResetFails(g) PROVE UNCHANGED job \/ CommitReset(g)
      BY <3>1 DEF ResetStep, EnsureLock, VerifyLock, ReadTarget, JudgeTarget, UpdateTarget, ConfirmLease, ResetFails,
         rows, jobRows
    <3>2. ASSUME NEW g \in Gate,
                 \/ Start(g) \/ StartupEnds(g) \/ StartupError(g) \/ PassBegins(g) \/ PassEnds(g)
                 \/ LookAtLock(g) \/ ReadJobs(g) \/ LookAtLockFails(g) \/ ReadJobsFails(g)
          PROVE  UNCHANGED job
      BY <3>2 DEF Start, StartupEnds, StartupError, PassBegins, PassEnds, LookAtLock, ReadJobs, LookAtLockFails,
         ReadJobsFails, GateEnds, Begin, rows, jobRows
    <3>3. ASSUME NEW g \in Gate,
                 Ask(g) \/ Acquire(g) \/ CheckAcquired(g) \/ FirstBeat(g) \/ Refresh(g) \/ Beat(g) \/ RebuildEnds(g)
          PROVE  UNCHANGED job
      BY <3>3 DEF Ask, Acquire, CheckAcquired, FirstBeat, Refresh, Beat, BeatJob, RebuildEnds, Begin, rows, jobRows
    <3>4. ASSUME NEW r \in Replica, Shutdown(r) \/ Stopped(r) \/ Crash(r) PROVE UNCHANGED job
      BY <3>4 DEF Shutdown, Stopped, Crash, rows, jobRows
    <3>5. Stabilize \/ Tick => UNCHANGED job
      BY DEF Stabilize, Tick, jobRows
    <3>. QED BY <3>1, <3>2, <3>3, <3>4, <3>5 DEF Next
  <2>. QED BY <2>1, <2>2, <2>3, <2>4, <2>5
<1>. QED BY <1>1, Invariance, PTL DEF Spec, OnlySilentReset

=============================================================================
