------------------------------ MODULE QueueRows ------------------------------
(***************************************************************************)
(* The row transitions of the SQLite store in cloud_offload/queue.py.      *)
(*                                                                         *)
(* Every method of JobQueue that writes a `jobs` or a `job_leases` row     *)
(* reads that row and writes it back inside one BEGIN IMMEDIATE            *)
(* transaction.  What such a transaction does to its row is a function of  *)
(* the row, and those functions are the operators of this module.  Who     *)
(* calls them, and in which order, is the business of the modules that     *)
(* extend this one.                                                        *)
(*                                                                         *)
(* Clocks are abstracted to what the code compares them with: a lease is   *)
(* `fresh` while expires_at is in the future and `over` once its runtime   *)
(* or dollar deadline has passed.                                          *)
(***************************************************************************)
EXTENDS Naturals

CONSTANTS Jobs,         \* job identifiers
          Leases,       \* lease identifiers, each used for one create_lease
          Workers,      \* identities a worker process may take at boot
          NoWorker,     \* worker_id NULL
          MaxAttempts   \* Job.max_attempts

ASSUME AttemptsAssumption == MaxAttempts \in Nat \ {0}

ASSUME NoWorkerAssumption == NoWorker \notin Workers

-----------------------------------------------------------------------------
(* Job rows *)

JobStatus == {"none", "queued", "dispatched", "running",
              "completed", "failed", "dead_letter"}

Terminal == {"completed", "failed", "dead_letter"}

JobRow == [status : JobStatus, worker : Workers \cup {NoWorker}, attempts : 0..MaxAttempts]

\* The row before JobQueue.create; no job is stored under the identifier yet.
NoJobRow == [status |-> "none", worker |-> NoWorker, attempts |-> 0]

\* JobQueue.create with status QUEUED, as a submission of approved work does.
CreatedRow == [NoJobRow EXCEPT !.status = "queued"]

\* An update_status without its guard.
WithAnyStatus(row, status) == [row EXCEPT !.status = status]

\* update_status leaves a terminal row alone, whatever the caller asks for.
WithStatus(row, status) ==
    IF row.status \in Terminal THEN row ELSE [row EXCEPT !.status = status]

\* claim_jobs: the row goes to the worker and spends one attempt.
ClaimedRow(row, w) ==
    [row EXCEPT !.status = "dispatched", !.worker = w, !.attempts = @ + 1]

\* A fail_job that allows one attempt too many.
FailedRowOffByOne(row) ==
    IF row.status \in Terminal THEN row
    ELSE [row EXCEPT !.worker = NoWorker,
                     !.status = IF row.attempts > MaxAttempts THEN "dead_letter" ELSE "queued"]

\* fail_job takes the job from its worker and queues it again until the
\* attempts are spent.
FailedRow(row) ==
    IF row.status \in Terminal THEN row
    ELSE [row EXCEPT !.worker = NoWorker,
                     !.status = IF row.attempts >= MaxAttempts THEN "dead_letter" ELSE "queued"]

-----------------------------------------------------------------------------
(* Lease rows *)

LeaseStatus == {"none", "provisioning", "active", "revocation_requested", "terminating", "closed"}

OpenStatus == {"provisioning", "active", "revocation_requested", "terminating"}

Revoked == {"revocation_requested", "terminating"}

LeaseRow == [status : LeaseStatus,
             bound  : BOOLEAN,    \* instance_id is stored
             worker : Workers \cup {NoWorker},
             fresh  : BOOLEAN,    \* expires_at is in the future
             over   : BOOLEAN,    \* a runtime or cost deadline has passed
             asked  : BOOLEAN]    \* termination_requested_at is set

NoLeaseRow == [status |-> "none", bound |-> FALSE, worker |-> NoWorker,
               fresh |-> FALSE, over |-> FALSE, asked |-> FALSE]

\* create_lease: durable authority, written before the provider is called.
ProvisionedLease == [NoLeaseRow EXCEPT !.status = "provisioning", !.fresh = TRUE]

\* A bind_lease that does not look at the status of the lease.
BoundRegardless(row) == [row EXCEPT !.status = "active", !.bound = TRUE, !.fresh = TRUE]

\* bind_lease stores the instance only while the lease is still wanted: a
\* lease that was revoked meanwhile is returned as it is, without the instance.
BoundLease(row) ==
    IF row.status \notin {"provisioning", "active"} THEN row
    ELSE [row EXCEPT !.status = "active", !.bound = TRUE, !.fresh = TRUE]

\* renew_lease and claim_jobs may use a lease that no other worker has taken.
MayUse(row, w) == row.worker \in {NoWorker, w}

\* A renew_lease that forgets to record the worker.
RenewedAnonymously(row, w) == IF row.status # "active" THEN row ELSE [row EXCEPT !.fresh = TRUE]

\* renew_lease: only an active lease is renewed.  The expiry is not consulted.
RenewedLease(row, w) ==
    IF row.status # "active" THEN row
    ELSE [row EXCEPT !.fresh = TRUE, !.worker = IF @ = NoWorker THEN w ELSE @]

\* request_lease_revocation: the first request wins and ends the expiry.
RevokedLease(row) ==
    IF row.status \notin OpenStatus \ Revoked THEN row
    ELSE [row EXCEPT !.status = "revocation_requested", !.fresh = FALSE]

\* record_termination_attempt: any open lease is now terminating.
AttemptedLease(row) ==
    IF row.status \notin OpenStatus THEN row
    ELSE [row EXCEPT !.status = "terminating", !.asked = TRUE]

\* confirm_lease_termination closes from any status.
ConfirmedLease(row) == [row EXCEPT !.status = "closed", !.fresh = FALSE]

\* close_unbound_lease closes an intent that never got its instance.
UnboundClosedLease(row) == [row EXCEPT !.status = "closed", !.fresh = FALSE]

=============================================================================
