------------------------------ MODULE RebuildJobs ------------------------------
(***************************************************************************)
(* What the rebuild control plane promises about the table rebuild_jobs    *)
(* and the durable graph, whoever runs, crashes, stalls or is cancelled:   *)
(* every job goes through the lifecycle of RebuildJobStatus, and the       *)
(* durable graph is replaced exactly when a running job succeeds, in the   *)
(* same transaction.                                                       *)
(***************************************************************************)
CONSTANTS
    Job,    \* the rebuild jobs ever created
    NoJob   \* no rebuild has been published

VARIABLES
    status, \* status[j]: the status column of job j, "none" while it has no row
    truth   \* the job whose graph is the durable one

jobVars == <<status, truth>>

JobStatus ==
    {"none", "pending", "running", "succeeded", "failed",
     "cancel_requested", "cancelled"}

JobTypeOK ==
    /\ status \in [Job -> JobStatus]
    /\ truth \in Job \union {NoJob}

Move(j, from, to) ==
    /\ status[j] \in from
    /\ status' = [status EXCEPT ![j] = to]

JobInit ==
    /\ status = [j \in Job |-> "none"]
    /\ truth = NoJob

Create(j) == Move(j, {"none"}, "pending") /\ UNCHANGED truth

Start(j) == Move(j, {"pending"}, "running") /\ UNCHANGED truth

Fail(j) == Move(j, {"pending", "running"}, "failed") /\ UNCHANGED truth

RequestCancel(j) ==
    Move(j, {"pending", "running"}, "cancel_requested") /\ UNCHANGED truth

FinishCancel(j) == Move(j, {"cancel_requested"}, "cancelled") /\ UNCHANGED truth

(* The only way the durable graph changes. *)
Publish(j) == Move(j, {"running"}, "succeeded") /\ truth' = j

JobNext ==
    \E j \in Job :
        Create(j) \/ Start(j) \/ Fail(j) \/ RequestCancel(j) \/ FinishCancel(j)
        \/ Publish(j)

JobSpec == JobInit /\ [][JobNext]_jobVars

=============================================================================
