----------------------------- MODULE LeaseControl -----------------------------
(***************************************************************************)
(* The control plane of Cloud Offload: the dispatcher, the coordinator and *)
(* the machines, over one store; and what it promises.                     *)
(***************************************************************************)
EXTENDS Dispatcher, Coordinator, Machines

Next == DispatcherStep \/ DispatcherCrash \/ CoordinatorStep \/ MachineStep

Spec == Init /\ [][Next]_vars

-----------------------------------------------------------------------------
(* Money *)

\* A lease that was bound to its resource is closed only when the provider no
\* longer has the resource (_terminate_lease, _reconcile_leases and
\* _update_workers confirm a closure from what get_instance said before, with
\* other processes running in between).
BoundClosedMeansGone ==
    \A l \in Leases : leases[l].status = "closed" /\ leases[l].bound => inst[l] = "gone"

\* Every pending or running machine belongs to an open lease, so some later
\* tick will look at it.  Assumes that a creation is visible in the listing
\* once the launch call has ended.
LiveMeansOpen ==
    \A l \in Leases : inst[l] = "live" => leases[l].status \in OpenStatus

\* The launch decision and a crash, a failed bind or a cold fallback after it
\* never leave two open leases: an open lease blocks the next rental.
OneRental == \A l, k \in OpenLeases : l = k

Rank == [none |-> 0, provisioning |-> 1, active |-> 2,
         revocation_requested |-> 3, terminating |-> 4, closed |-> 5]

\* Late binds, heartbeats, claims and callbacks never give authority back to a
\* lease that has lost it: a lease only moves forward through its states.
AuthorityNeverReturns ==
    [][\A l \in Leases : Rank[leases[l].status] <= Rank[leases'[l].status]]_vars

-----------------------------------------------------------------------------
(* Work *)

\* A terminal job stays as it is, except under the two writers that put back a
\* whole row they read earlier: the launch that stamps its placement on the
\* queued jobs, and set_progress.
TerminalLostOnlyToStaleRow ==
    [][\A j \in Jobs :
         jobs[j].status \in Terminal /\ jobs'[j] # jobs[j] =>
           \/ disp.pc \in {"stamp", "restamp"} /\ j \in disp.jobs
           \/ srv.op = "progress" /\ srv.job = j]_vars

\* A job is never on two machines at once, however it is requeued, claimed again
\* or left behind by a worker that crashed: only the loss of the machine gives
\* a claimed job to another one.
JobOnOneMachine ==
    \A v, w \in Workers : v # w =>
        (wk[v].batch \cup {wk[v].cur}) \cap (wk[w].batch \cup {wk[w].cur}) \subseteq {NoJob}

\* A job waits in the queue only with an attempt left, whoever put it there.
QueuedHasAttempt ==
    \A j \in Jobs : jobs[j].status = "queued" => jobs[j].attempts < MaxAttempts

\* The worker that holds a job is the worker of a lease the job is attached to,
\* so revoking the job's leases reaches the machine that executes it.
ClaimIsTraceable ==
    \A j \in Jobs : jobs[j].worker # NoWorker =>
        \E l \in LeasesOf(j) : leases[l].worker = jobs[j].worker

-----------------------------------------------------------------------------
(* Refinement *)

ClaimOf(row) ==
    CASE row.status = "none" -> "none"
      [] row.status \in OpenStatus -> IF row.bound THEN "bound" ELSE "intent"
      [] row.status = "closed" -> IF row.bound THEN "closed" ELSE "dropped"

ResourceOf(state) ==
    CASE state = "absent" -> "absent"
      [] state \in {"requested", "live", "stopped"} -> "held"
      [] state = "gone" -> "released"

Billing == INSTANCE BillingClaim WITH
    claim <- [l \in Leases |-> ClaimOf(leases[l])],
    resource <- [l \in Leases |-> ResourceOf(inst[l])]

\* The store, the provider and the three kinds of process together keep the
\* promise about money, whatever crashes and whatever the provider loses.
ImplementsBilling == Billing!ClaimSpec

-----------------------------------------------------------------------------
(* Progress *)

\* The dispatcher polls forever and survives its own errors; the provider's
\* calls may fail any number of times, and not for ever.
Fairness ==
    /\ WF_vars(DispatcherStep)
    /\ \A l \in Leases : /\ SF_vars(disp.lease = l /\ ListInstances)
                         /\ SF_vars(disp.lease = l /\ ReconcileInspect)
                         /\ SF_vars(disp.lease = l /\ TerminateWorks)
                         /\ SF_vars(disp.lease = l /\ Verify)

FairSpec == Spec /\ Fairness

\* A bound lease that has been revoked, or whose resource is gone, is closed in
\* the end, through failing provider calls and a dispatcher that restarts.
BoundLeaseCloses ==
    \A l \in Leases :
        leases[l].bound /\ (leases[l].status \in Revoked \/ inst[l] = "gone")
            ~> leases[l].status = "closed"

\* Renewals cannot outrun a hard limit: a bound lease past its runtime or cost
\* deadline is closed in the end, however its worker behaves.
HardLimitCloses ==
    \A l \in Leases : leases[l].bound /\ leases[l].over ~> leases[l].status = "closed"

-----------------------------------------------------------------------------
(* Statements of the documents, comments and tests that the code does not  *)
(* keep.  A run shows it for ClosedLeaseLeavesNoWork; TLC refutes the other *)
(* ones when they are named in a configuration (README.md says which).     *)

\* docs/job-leases.md: only a provider observation of an absent or terminated
\* resource moves a lease to `closed`.  A resource that fails before it is bound
\* is not in the listing of _recover_provisioning_lease, and is not gone.
ClosedMeansGone ==
    \A l \in Leases : leases[l].status = "closed" => inst[l] \in {"absent", "gone"}

\* update_status: "Terminal states are immutable", so that no late write
\* resurrects a job.  JobQueue.update, which a launch and set_progress call with
\* a row they read in an earlier transaction, has no such guard.
TerminalIsImmutable ==
    [][\A j \in Jobs : jobs[j].status \in Terminal => jobs'[j] = jobs[j]]_vars

\* docs/job-leases.md: after a cancellation the dispatcher terminates the exact
\* provider instance.  A lease revoked while its launch is running never gets
\* its instance id (bind_lease), and _terminate_lease returns without one.
RevokedLeaseCloses ==
    \A l \in Leases : leases[l].status \in Revoked ~> leases[l].status = "closed"

\* docs/compute-pool.md: the lease of a dead machine is revoked and the job is
\* queued again.  Only a lost resource queues its jobs again, only an expiry or
\* a limit fails them: an idle, unregistered or stopped machine, and the
\* cancellation of another job of the lease, leave them in progress for ever.
\* Stated between two ticks, when no request is being served.
ClosedLeaseLeavesNoWork ==
    At("tick") /\ Idle =>
        \A j \in Jobs : jobs[j].status = "running" => LeasesOf(j) \cap OpenLeases # {}

\* _check_unregistered_workers: "Stop a paid instance whose runner never managed
\* to call home".  A runner that called home and executes a job is out of the
\* heartbeat window, and counts as never registered.
UnregisteredNeverCalledHome ==
    [][GiveUpUnregistered =>
         \A w \in Workers : wk[w].lease = disp'.lease => wk[w].cur = NoJob]_vars

\* docs/job-leases.md: a cancellation revokes every open lease attached to the
\* job.  A launch that read the job while it was queued attaches a new lease
\* after the cancellation has listed the leases.
CancelReachesEveryLease ==
    [][CancelFinish => \A l \in LeasesOf(srv.job) : leases[l].status \notin {"provisioning", "active"}]_vars

\* tests/test_job_leases.py: a dead worker's callbacks are rejected after its
\* lease closes.  The check and the write are separate transactions, and the
\* dispatcher may close the lease and queue the job again between them.
RejectedAfterClose ==
    [][Callback /\ srv' = NoRequest /\ LeasesOf(srv.job) \cap OpenLeases = {} => jobs' = jobs]_vars

=============================================================================
