---------------------------- MODULE PlanAuthority ----------------------------
(***************************************************************************)
(* The plan protocol: the authority rows of cloud_offload/plan_protocol.py *)
(* (tables cloud_plans and cloud_plan_authority), the plan transactions of *)
(* queue.py, and the routes of server.py that call them.                   *)
(*                                                                         *)
(* A plan job has an authority row beside its queue row.  The coordinator  *)
(* serves one request at a time and takes several transactions for most;   *)
(* the dispatcher and the command line are other processes that move the   *)
(* queue row only, between any two of them.  Leases appear as `open`, the  *)
(* workers whose lease is still open; LeaseControl has their whole life.   *)
(*                                                                         *)
(* A request is abstracted to what the digests it is compared by tell      *)
(* apart: the plan, the quote it accepts, the terms it was quoted under    *)
(* (provider, limits, regions, inputs) and the idempotency key.            *)
(***************************************************************************)
EXTENDS QueueRows

CONSTANTS Plans,      \* plan digests
          Terms,      \* what preflight_request_digest binds beside the plan
          Keys,       \* idempotency keys
          NoPlan, NoJob, NoTerms, NoKey,
          MaxQuotes   \* bound on the quotes issued for one plan

ASSUME PlanSentinels == /\ NoPlan \notin Plans /\ NoJob \notin Jobs
                        /\ NoTerms \notin Terms /\ NoKey \notin Keys

ASSUME QuotesAssumption == MaxQuotes \in Nat \ {0}

VARIABLES jobs,       \* table jobs
          planOf,     \* params.plan_digest of each job row
          auth,       \* tables cloud_plans and cloud_plan_authority
          attached,   \* jobs ever attached to the lease of each worker
          open,       \* workers whose lease is open
          srv,        \* the coordinator's request between two transactions
          accepted    \* history: the jobs each key was ever answered with

vars == <<jobs, planOf, auth, attached, open, srv, accepted>>

-----------------------------------------------------------------------------
(* Rows *)

Closed == {"cancelled", "completed", "failed"}

PlanState == {"none", "preflighted", "submitting", "submitted", "running"} \cup Closed

Authority == [state   : PlanState,
              quote   : 0..MaxQuotes,            \* preflight_id, by issue
              fresh   : BOOLEAN,                 \* expires_at is in the future
              terms   : Terms \cup {NoTerms},    \* preflight_request_digest
              key     : Keys \cup {NoKey},       \* idempotency_key
              job     : Jobs \cup {NoJob},
              receipt : BOOLEAN]                 \* closure_json is stored

NoAuthority == [state |-> "none", quote |-> 0, fresh |-> FALSE, terms |-> NoTerms,
                key |-> NoKey, job |-> NoJob, receipt |-> FALSE]

SrvOp == {"none", "quote", "submit", "running", "sync", "progress", "complete",
          "probe", "fail", "cancel", "settle"}

Request == [op    : SrvOp,
            plan  : Plans \cup {NoPlan},
            terms : Terms \cup {NoTerms},
            quote : 0..MaxQuotes,
            key   : Keys \cup {NoKey},
            job   : Jobs \cup {NoJob},
            row   : JobRow,              \* the record set_progress has read
            spent : BOOLEAN]             \* worker_fail's probe of the attempts

NoRequest == [op |-> "none", plan |-> NoPlan, terms |-> NoTerms, quote |-> 0,
              key |-> NoKey, job |-> NoJob, row |-> NoJobRow, spent |-> FALSE]

TypeOK ==
    /\ jobs \in [Jobs -> JobRow]
    /\ planOf \in [Jobs -> Plans \cup {NoPlan}]
    /\ auth \in [Plans -> Authority]
    /\ attached \in [Workers -> SUBSET Jobs]
    /\ open \in SUBSET Workers
    /\ srv \in Request
    /\ accepted \in [Keys -> SUBSET Jobs]

Init ==
    /\ jobs = [j \in Jobs |-> NoJobRow]
    /\ planOf = [j \in Jobs |-> NoPlan]
    /\ auth = [p \in Plans |-> NoAuthority]
    /\ attached = [w \in Workers |-> {}]
    /\ open = Workers
    /\ srv = NoRequest
    /\ accepted = [k \in Keys |-> {}]

-----------------------------------------------------------------------------

Idle == srv.op = "none"

QueueUnchanged == UNCHANGED <<jobs, planOf, attached, open>>

OnlyAuthority(p, row) == auth' = [auth EXCEPT ![p] = row]

PutRow(j, row) == jobs' = [jobs EXCEPT ![j] = row] /\ UNCHANGED planOf

\* The UPDATE of a terminal transaction; its WHERE clause spares a closed row.
ClosedAs(row, outcome) ==
    IF row.state \in Closed THEN row
    ELSE [row EXCEPT !.state = outcome, !.receipt = TRUE]

\* A quote may run out at any time; an expired one stays stored.
QuoteExpires(p) ==
    /\ auth[p].fresh
    /\ OnlyAuthority(p, [auth[p] EXCEPT !.fresh = FALSE])
    /\ QueueUnchanged /\ UNCHANGED <<srv, accepted>>

-----------------------------------------------------------------------------
(* POST /api/plans/preflight *)

\* lookup_preflight: an active plan and a live quote are answered from the
\* row, with a conflict for other terms.  Otherwise the offers are asked for,
\* which may leave no candidate; with one, the handler goes on to store.
PreflightLookup(p, t) ==
    /\ Idle
    /\ auth[p].state \in {"none", "preflighted"}
    /\ auth[p].state = "preflighted" => ~auth[p].fresh
    /\ auth[p].quote < MaxQuotes
    /\ srv' = [NoRequest EXCEPT !.op = "quote", !.plan = p, !.terms = t]
    /\ QueueUnchanged /\ UNCHANGED <<auth, accepted>>

\* PlanProtocolStore.preflight: inserts the quote, or refreshes an expired
\* and unused one in place.
PreflightStore ==
    LET p == srv.plan
    IN  /\ srv.op = "quote"
        /\ OnlyAuthority(p, [NoAuthority EXCEPT !.state = "preflighted",
                               !.quote = auth[p].quote + 1, !.fresh = TRUE, !.terms = srv.terms])
        /\ srv' = NoRequest
        /\ QueueUnchanged /\ UNCHANGED accepted

-----------------------------------------------------------------------------
(* POST /api/plans *)

\* The handler compares the request with the private authority; before a
\* first submission it also looks for the candidate in today's offers, which
\* may end the request here.
SubmitRead(p, k, t, q) ==
    /\ Idle
    /\ auth[p].state # "none"
    /\ auth[p].quote = q /\ auth[p].terms = t
    /\ srv' = [NoRequest EXCEPT !.op = "submit", !.plan = p, !.key = k, !.terms = t, !.quote = q]
    /\ QueueUnchanged /\ UNCHANGED <<auth, accepted>>

\* The request digest binds plan, quote, terms and key.
SameRequest(row) == row.quote = srv.quote /\ row.terms = srv.terms /\ row.key = srv.key

\* A lookup by the plan alone, blind to the key.
KeyIgnored == \A p \in Plans \ {srv.plan} : TRUE

\* The first lookup of submit_plan_atomic: the key is unused, or it is this
\* very request that used it.
KeyIsFree == \A p \in Plans : auth[p].key = srv.key => p = srv.plan /\ SameRequest(auth[p])

\* submit_plan_atomic of an accepted plan: the same request gets its job.
SubmitReplayed ==
    LET row == auth[srv.plan]
    IN  /\ srv.op = "submit" /\ KeyIsFree
        /\ row.job # NoJob /\ SameRequest(row)
        /\ accepted' = [accepted EXCEPT ![srv.key] = @ \cup {row.job}]
        /\ srv' = NoRequest
        /\ QueueUnchanged /\ UNCHANGED auth

\* A resubmission that does not look whether the plan has its job.
MaySubmitAgain(row) == row.quote = srv.quote /\ row.fresh

\* A first submission needs an unused row, the quote it names, and that
\* quote still running.
MaySubmit(row) ==
    /\ row.job = NoJob /\ row.state = "preflighted"
    /\ row.quote = srv.quote /\ row.fresh

\* submit_plan_atomic: the job row, its first event and the authority in one
\* transaction.
SubmitAccepted ==
    /\ srv.op = "submit" /\ KeyIsFree
    /\ MaySubmit(auth[srv.plan])
    /\ \E j \in Jobs :
         /\ jobs[j].status = "none"
         /\ jobs' = [jobs EXCEPT ![j] = CreatedRow]
         /\ planOf' = [planOf EXCEPT ![j] = srv.plan]
         /\ OnlyAuthority(srv.plan, [auth[srv.plan] EXCEPT !.state = "submitting", !.key = srv.key,
                                                           !.job = j])
         /\ accepted' = [accepted EXCEPT ![srv.key] = @ \cup {j}]
    /\ srv' = NoRequest
    /\ UNCHANGED <<attached, open>>

\* A submission that is neither is an error and changes nothing.
SubmitRefused ==
    /\ srv.op = "submit"
    /\ ~(KeyIsFree /\ (MaySubmit(auth[srv.plan]) \/ SameRequest(auth[srv.plan])))
    /\ srv' = NoRequest
    /\ QueueUnchanged /\ UNCHANGED <<auth, accepted>>

-----------------------------------------------------------------------------
(* The worker channel *)

\* claim_jobs moves the authority of a plan job it hands over.
Claim(w, j) ==
    /\ Idle /\ w \in open
    /\ jobs[j].status = "queued"
    /\ PutRow(j, ClaimedRow(jobs[j], w))
    /\ attached' = [attached EXCEPT ![w] = @ \cup {j}]
    /\ auth' = [auth EXCEPT ![planOf[j]].state = IF @ = "submitting" THEN "submitted" ELSE @]
    /\ UNCHANGED <<open, srv, accepted>>

\* authorize_worker_job: the worker that holds the job, under an open lease.
Authorized(w, j) == jobs[j].worker = w /\ w \in open /\ j \in attached[w]

\* A callback is authorized before it is applied; set_progress has also read
\* the record it will write back, and worker_fail will look at the attempts.
CallbackAuthorized(w, j) ==
    /\ Idle /\ Authorized(w, j)
    /\ \E op \in {"running", "progress", "complete", "probe"} :
         /\ op = "progress" => jobs[j].status \notin Terminal
         /\ srv' = [NoRequest EXCEPT !.op = op, !.job = j, !.plan = planOf[j],
                      !.row = IF op = "progress" THEN jobs[j] ELSE NoJobRow]
    /\ QueueUnchanged /\ UNCHANGED <<auth, accepted>>

\* worker_running: the queue row first, the authority in a transaction after it.
Running ==
    /\ srv.op = "running"
    /\ PutRow(srv.job, WithStatus(jobs[srv.job], "running"))
    /\ srv' = [srv EXCEPT !.op = "sync"]
    /\ UNCHANGED <<auth, attached, open, accepted>>

\* sync_status without its table of allowed transitions.
SyncedBlindly(row) == [row EXCEPT !.state = "running"]

\* sync_status leaves a closed row, and whatever may not become running.
Synced(row) ==
    IF row.state \in {"submitting", "submitted"} THEN [row EXCEPT !.state = "running"] ELSE row

SyncRunning ==
    /\ srv.op = "sync"
    /\ OnlyAuthority(srv.plan, Synced(auth[srv.plan]))
    /\ srv' = NoRequest
    /\ QueueUnchanged /\ UNCHANGED accepted

\* set_progress writes back the whole row as it was read.
Progress ==
    /\ srv.op = "progress"
    /\ PutRow(srv.job, srv.row)
    /\ srv' = NoRequest
    /\ UNCHANGED <<auth, attached, open, accepted>>

\* A terminal transaction that does not look at the job row again.
AppliesBlindly(row, authority) == authority.state \notin Closed

\* complete_plan_atomic and cancel_plan_atomic return a job that became
\* terminal meanwhile; an authority that is closed rolls the transaction back.
\* A repeated completion would close an authority that is still open.
Applies(row, authority) == row.status \notin Terminal /\ authority.state \notin Closed

Complete ==
    /\ srv.op = "complete"
    /\ IF Applies(jobs[srv.job], auth[srv.plan])
       THEN /\ PutRow(srv.job, WithStatus(jobs[srv.job], "completed"))
            /\ OnlyAuthority(srv.plan, ClosedAs(auth[srv.plan], "completed"))
       ELSE /\ UNCHANGED <<jobs, planOf>>
            /\ auth' = IF jobs[srv.job].status = "completed"
                       THEN [auth EXCEPT ![srv.plan] = ClosedAs(@, "completed")] ELSE auth
    /\ srv' = NoRequest
    /\ UNCHANGED <<attached, open, accepted>>

\* worker_fail looks first whether the attempts are spent, to send a receipt.
Probe ==
    /\ srv.op = "probe"
    /\ srv' = [srv EXCEPT !.op = "fail", !.spent = (jobs[srv.job].attempts >= MaxAttempts)]
    /\ QueueUnchanged /\ UNCHANGED <<auth, accepted>>

\* fail_plan_atomic decides again.  With a receipt it closes the authority of
\* a job that has failed already; a last attempt without a receipt, and an
\* authority that is closed, are errors that roll everything back.
Failed(j, withReceipt) ==
    LET row == jobs[j]
        p == planOf[j]
        last == row.attempts >= MaxAttempts
    IN  IF row.status \in Terminal
        THEN /\ UNCHANGED <<jobs, planOf>>
             /\ auth' = IF row.status # "completed" /\ withReceipt
                        THEN [auth EXCEPT ![p] = ClosedAs(@, "failed")] ELSE auth
        ELSE IF auth[p].state \in Closed \/ (last /\ ~withReceipt)
        THEN UNCHANGED <<jobs, planOf, auth>>
        ELSE /\ PutRow(j, FailedRow(row))
             /\ OnlyAuthority(p, IF last THEN ClosedAs(auth[p], "failed")
                                 ELSE [auth[p] EXCEPT !.state = "submitted"])

Fail ==
    /\ srv.op = "fail"
    /\ Failed(srv.job, srv.spent)
    /\ srv' = NoRequest
    /\ UNCHANGED <<attached, open, accepted>>

-----------------------------------------------------------------------------
(* Cancellation, and the processes beside the coordinator *)

\* cancel_job reads the row; a completed job is an error, a failed one has
\* its authority settled.
CancelRead(j) ==
    /\ Idle
    /\ jobs[j].status \notin {"none", "completed"}
    /\ srv' = [NoRequest EXCEPT !.job = j, !.plan = planOf[j],
                 !.op = IF jobs[j].status \in Terminal THEN "settle" ELSE "cancel"]
    /\ QueueUnchanged /\ UNCHANGED <<auth, accepted>>

Cancel ==
    /\ srv.op = "cancel"
    /\ IF Applies(jobs[srv.job], auth[srv.plan])
       THEN /\ PutRow(srv.job, [jobs[srv.job] EXCEPT !.status = "failed"])
            /\ OnlyAuthority(srv.plan, ClosedAs(auth[srv.plan], "cancelled"))
       ELSE UNCHANGED <<jobs, planOf, auth>>
    /\ srv' = NoRequest
    /\ UNCHANGED <<attached, open, accepted>>

SettleFailed ==
    /\ srv.op = "settle"
    /\ Failed(srv.job, TRUE)
    /\ srv' = NoRequest
    /\ UNCHANGED <<attached, open, accepted>>

\* The dispatcher fails the jobs of a lease it gives up, or queues those of a
\* lost one again; `queue cancel` fails a job.  None of them knows of plans.
QueueRowMoved(j, row) ==
    /\ PutRow(j, row)
    /\ UNCHANGED <<auth, attached, open, srv, accepted>>

DispatcherFails(w, j) == j \in attached[w] /\ QueueRowMoved(j, WithStatus(jobs[j], "failed"))

DispatcherRequeues(w, j) == j \in attached[w] /\ QueueRowMoved(j, FailedRow(jobs[j]))

CliCancel(j) == jobs[j].status # "none" /\ QueueRowMoved(j, WithStatus(jobs[j], "failed"))

\* The dispatcher closes the lease at last; a worker identity has one lease.
LeaseCloses(w) ==
    /\ w \in open
    /\ open' = open \ {w}
    /\ UNCHANGED <<jobs, planOf, auth, attached, srv, accepted>>

-----------------------------------------------------------------------------

RequestStep ==
    \/ PreflightStore \/ SubmitReplayed \/ SubmitAccepted \/ SubmitRefused
    \/ Running \/ SyncRunning \/ Progress \/ Complete \/ Probe \/ Fail
    \/ Cancel \/ SettleFailed

Next ==
    \/ RequestStep
    \/ \E p \in Plans :
         \/ QuoteExpires(p)
         \/ \E t \in Terms : PreflightLookup(p, t)
         \/ \E k \in Keys, t \in Terms, q \in 1..MaxQuotes : SubmitRead(p, k, t, q)
    \/ \E j \in Jobs : CancelRead(j) \/ CliCancel(j)
    \/ \E w \in Workers, j \in Jobs :
         \/ Claim(w, j) \/ CallbackAuthorized(w, j)
         \/ DispatcherFails(w, j) \/ DispatcherRequeues(w, j)
    \/ \E w \in Workers : LeaseCloses(w)

Spec == Init /\ [][Next]_vars

-----------------------------------------------------------------------------
(* Properties *)

\* However often a plan is quoted, submitted, refused and submitted again,
\* one job at most was ever created for it, and the authority names it.
OneJobPerPlan ==
    \A j \in Jobs : planOf[j] # NoPlan => auth[planOf[j]].job = j

\* A client that repeats a submission after a lost reply is always answered
\* with the same job: the idempotency key stands for one submission.
SameKeySameJob == \A k \in Keys : \A i, j \in accepted[k] : i = j

\* A plan is closed only over a finished job, with the outcome that the job
\* row shows, although the dispatcher, the command line and stale progress
\* reports write that row without the authority.
ClosureAgreesWithJob ==
    \A p \in Plans : auth[p].state \in Closed =>
        LET status == jobs[auth[p].job].status
        IN  /\ auth[p].receipt
            /\ auth[p].state = "completed" <=> status = "completed"
            /\ auth[p].state \in {"cancelled", "failed"} => status \in {"failed", "dead_letter"}

\* The promise to the client, read off the authority rows.
Contract == INSTANCE PlanContract WITH
    phase <- [p \in Plans |-> IF auth[p].state = "preflighted" THEN "quoted"
                              ELSE IF auth[p].state \in {"submitting", "submitted", "running"}
                              THEN "accepted" ELSE auth[p].state],
    work <- [p \in Plans |-> auth[p].job]

\* Every behaviour of the authority rows is one the contract allows: one
\* acceptance, one closure, and neither is ever taken back.
ImplementsContract == Contract!ContractSpec

=============================================================================
