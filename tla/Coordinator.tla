------------------------------ MODULE Coordinator ------------------------------
(***************************************************************************)
(* The coordinator process (cloud_offload/server.py) and the command-line  *)
(* cancellation (cloud_offload/__main__.py).                               *)
(*                                                                         *)
(* The HTTP handlers are coroutines that never await between two calls of  *)
(* the store: the event loop serves one of them at a time, from its first  *)
(* transaction to its last.  The dispatcher and the command line are other *)
(* processes and may commit between two transactions of a handler; `srv`   *)
(* is the handler between its transactions.                                *)
(***************************************************************************)
EXTENDS ControlState

Idle == srv.op = "none"

RequestDone == srv' = NoRequest

ProviderAndDispatcherUnchanged == UNCHANGED <<inst, disp, mine, crashes>>

-----------------------------------------------------------------------------
(* Submission and cancellation *)

\* JobQueue.create of approved work.
Submit(j) ==
    /\ Idle
    /\ jobs[j].status = "none"
    /\ jobs' = [jobs EXCEPT ![j] = CreatedRow]
    /\ UNCHANGED <<leases, attached, heard, srv, wk>> /\ ProviderAndDispatcherUnchanged

\* cancel_job reads the job and its open leases; a terminal job is reported
\* as it is.
CancelRead(j) ==
    /\ Idle
    /\ jobs[j].status \notin Terminal \cup {"none"}
    /\ srv' = [NoRequest EXCEPT !.op = "cancel", !.job = j,
                                !.todo = LeasesOf(j) \cap OpenLeases]
    /\ UNCHANGED <<jobs, leases, attached, heard, wk>> /\ ProviderAndDispatcherUnchanged

\* request_job_lease_revocation, one lease at a time.
CancelRevoke ==
    /\ srv.op = "cancel"
    /\ \E l \in srv.todo : /\ leases' = [leases EXCEPT ![l] = RevokedLease(@)]
                           /\ srv' = [srv EXCEPT !.todo = @ \ {l}]
    /\ UNCHANGED <<jobs, attached, heard, wk>> /\ ProviderAndDispatcherUnchanged

\* The job becomes terminal last.
CancelFinish ==
    /\ srv.op = "cancel" /\ srv.todo = {}
    /\ jobs' = [jobs EXCEPT ![srv.job] = WithStatus(@, "failed")]
    /\ RequestDone
    /\ UNCHANGED <<leases, attached, heard, wk>> /\ ProviderAndDispatcherUnchanged

\* `cloud-offload queue cancel` runs in a process of its own and revokes no lease.
CliCancel(j) ==
    /\ jobs[j].status # "none"
    /\ jobs' = [jobs EXCEPT ![j] = WithStatus(@, "failed")]
    /\ UNCHANGED <<leases, attached, heard, srv, wk>> /\ ProviderAndDispatcherUnchanged

-----------------------------------------------------------------------------
(* The worker channel *)

\* A worker asks for work when it holds none.
Polling(w) == wk[w].lease # NoLease /\ wk[w].cur = NoJob /\ wk[w].batch = {}

\* What claim_jobs requires of the worker's lease.
MayClaim(w) ==
    LET row == leases[wk[w].lease]
    IN  row.status = "active" /\ row.fresh /\ MayUse(row, w)

\* worker_claim, first transaction: claim_jobs renews the lease, hands over
\* the jobs that match the worker and attaches them to the lease.
Claim(w) ==
    /\ Idle /\ Polling(w) /\ MayClaim(w)
    /\ \E claimed \in (SUBSET Queued) \ {{}} :
         /\ jobs' = [j \in Jobs |-> IF j \in claimed THEN ClaimedRow(jobs[j], w) ELSE jobs[j]]
         /\ attached' = [attached EXCEPT ![wk[w].lease] = @ \cup claimed]
         /\ srv' = [NoRequest EXCEPT !.op = "claimed", !.w = w, !.jobs = claimed]
    /\ leases' = [leases EXCEPT ![wk[w].lease] = RenewedLease(@, w)]
    /\ UNCHANGED <<heard, wk>> /\ ProviderAndDispatcherUnchanged

\* record_worker renews the lease again and refuses the worker when the lease
\* is no longer active: the claim above stays committed.
MayReport(w) ==
    /\ wk[w].lease # NoLease
    /\ leases[wk[w].lease].status = "active"
    /\ MayUse(leases[wk[w].lease], w)

\* The reply to a claim reaches the worker.
ClaimAnswered ==
    /\ srv.op = "claimed" /\ MayReport(srv.w)
    /\ leases' = [leases EXCEPT ![wk[srv.w].lease] = RenewedLease(@, srv.w)]
    /\ heard' = TRUE
    /\ wk' = [wk EXCEPT ![srv.w].batch = srv.jobs]
    /\ RequestDone
    /\ UNCHANGED <<jobs, attached>> /\ ProviderAndDispatcherUnchanged

\* The reply is lost, is an authorization error, or finds the worker dead.
ClaimUnanswered ==
    /\ srv.op = "claimed"
    /\ RequestDone
    /\ UNCHANGED <<jobs, leases, attached, heard, wk>> /\ ProviderAndDispatcherUnchanged

\* worker_status, or a claim that found no job: record_worker alone.
Heartbeat(w) ==
    /\ Idle /\ Polling(w) /\ MayReport(w)
    /\ leases' = [leases EXCEPT ![wk[w].lease] = RenewedLease(@, w)]
    /\ heard' = TRUE
    /\ UNCHANGED <<jobs, attached, srv, wk>> /\ ProviderAndDispatcherUnchanged

-----------------------------------------------------------------------------
(* Callbacks of a job *)

\* authorize_worker_job.  A lease that is being closed still lets its worker
\* report; a job that never had a lease is not bound to one.
Authorized(w, j) ==
    LET open == LeasesOf(j) \cap OpenLeases
        row  == leases[wk[w].lease]
    IN  \/ LeasesOf(j) = {}
        \/ /\ jobs[j].worker = w
           /\ wk[w].lease \in open
           /\ \/ row.status \in Revoked
              \/ row.status = "active" /\ row.fresh /\ MayUse(row, w)

\* The handler has authorized the callback and renewed the lease.  For
\* set_progress it has also read the job record it will write back.
CallbackAuthorized(w) ==
    LET j == wk[w].cur
    IN  /\ Idle /\ j # NoJob /\ Authorized(w, j)
        /\ leases' = [leases EXCEPT ![wk[w].lease] = RenewedLease(@, w)]
        /\ \E op \in {"running", "progress", "complete", "fail"} :
             /\ op = "progress" => jobs[j].status \notin Terminal
             /\ srv' = [NoRequest EXCEPT !.op = op, !.w = w, !.job = j,
                          !.row = IF op = "progress" THEN jobs[j] ELSE NoJobRow]
        /\ UNCHANGED <<jobs, attached, heard, wk>> /\ ProviderAndDispatcherUnchanged

\* A refused callback is an error in the worker's loop: the rest of its batch
\* is dropped.
CallbackRefused(w) ==
    /\ Idle /\ wk[w].cur # NoJob /\ ~Authorized(w, wk[w].cur)
    /\ wk' = [wk EXCEPT ![w].cur = NoJob, ![w].batch = {}]
    /\ UNCHANGED <<jobs, leases, attached, heard, srv>> /\ ProviderAndDispatcherUnchanged

\* What the authorized callback writes: update_status, fail_job, or for
\* set_progress the whole row as it was read.
CallbackRow ==
    LET row == jobs[srv.job]
    IN  CASE srv.op = "running"  -> WithStatus(row, "running")
          [] srv.op = "complete" -> WithStatus(row, "completed")
          [] srv.op = "fail"     -> FailedRow(row)
          [] srv.op = "progress" -> srv.row

Callback == srv.op \in {"running", "progress", "complete", "fail"}

\* The worker has its answer: a job it completed or failed is behind it.
CallbackApplied ==
    /\ Callback
    /\ jobs' = [jobs EXCEPT ![srv.job] = CallbackRow]
    /\ wk' = IF srv.op \in {"complete", "fail"} /\ wk[srv.w].cur = srv.job
             THEN [wk EXCEPT ![srv.w].cur = NoJob] ELSE wk
    /\ RequestDone
    /\ UNCHANGED <<leases, attached, heard>> /\ ProviderAndDispatcherUnchanged

\* The callback took effect and its answer is lost.  The worker reports a
\* failure next, and if that was the lost call it drops its batch.
CallbackUnanswered ==
    /\ Callback
    /\ jobs' = [jobs EXCEPT ![srv.job] = CallbackRow]
    /\ wk' = IF srv.op = "fail" /\ wk[srv.w].cur = srv.job
             THEN [wk EXCEPT ![srv.w].cur = NoJob, ![srv.w].batch = {}] ELSE wk
    /\ RequestDone
    /\ UNCHANGED <<leases, attached, heard>> /\ ProviderAndDispatcherUnchanged

-----------------------------------------------------------------------------

CoordinatorStep ==
    \/ \E j \in Jobs : Submit(j) \/ CancelRead(j) \/ CliCancel(j)
    \/ CancelRevoke \/ CancelFinish \/ ClaimAnswered \/ ClaimUnanswered
    \/ \E w \in Workers : Claim(w) \/ Heartbeat(w) \/ CallbackAuthorized(w) \/ CallbackRefused(w)
    \/ CallbackApplied \/ CallbackUnanswered

=============================================================================
