----------------------------- MODULE ControlState -----------------------------
(***************************************************************************)
(* The state shared by the processes of a Cloud Offload deployment:        *)
(*                                                                         *)
(*   - the SQLite tables jobs, job_leases and job_lease_jobs;              *)
(*   - the provider's resources, one per lease at most (the resource name  *)
(*     is derived from the lease id);                                      *)
(*   - the memory of the dispatcher process (cloud_offload/dispatcher.py); *)
(*   - the request the coordinator's event loop is serving                 *)
(*     (cloud_offload/server.py);                                          *)
(*   - the worker processes on the rented machines                         *)
(*     (cloud_offload/worker.py).                                          *)
(*                                                                         *)
(* One provider and one runtime profile are modelled: the dispatcher       *)
(* treats every (provider, profile) pair independently.                    *)
(***************************************************************************)
EXTENDS QueueRows

CONSTANTS NoLease, NoJob,
          LateCreation,  \* may a resource appear after its request was given up?
          MaxCrashes     \* bound on dispatcher crashes

ASSUME NoLeaseAssumption == NoLease \notin Leases

ASSUME NoJobAssumption == NoJob \notin Jobs

ASSUME BoundsAssumption == LateCreation \in BOOLEAN /\ MaxCrashes \in Nat

VARIABLES
    jobs,      \* table jobs
    leases,    \* table job_leases
    attached,  \* table job_lease_jobs: the jobs ever attached to each lease
    heard,     \* some worker row is younger than list_active_workers' window
    inst,      \* the provider's resource of each lease
    disp,      \* the dispatcher's position in its tick and its local variables
    mine,      \* Dispatcher.active_instances, by lease
    crashes,   \* dispatcher crashes so far
    srv,       \* the coordinator request between two of its transactions
    wk         \* the worker processes

tables == <<jobs, leases, attached, heard>>

vars == <<jobs, leases, attached, heard, inst, disp, mine, crashes, srv, wk>>

-----------------------------------------------------------------------------

(* "requested": the launch call was given up but the provider still works  *)
(* on it; "live": pending or running; "stopped": exited or in error, still *)
(* billed; "gone": terminated or no longer known.                          *)
InstState == {"absent", "requested", "live", "stopped", "gone"}

Phase == {"reconcile", "launch", "update", "register", "idle"}

Pc == {"tick", "pick", "list", "inspect", "lost", "bind", "revoke", "readJobs", "fail",
       "requeue", "confirm", "attempt", "terminate", "verify", "closeUnbound",
       "decide", "refuse", "stamp", "lease", "restamp", "launch"}

Reason == {"none", "lost", "revoked", "stopped", "expired", "limit", "unregistered", "idle"}

DispState == [pc     : Pc,
              phase  : Phase,
              lease  : Leases \cup {NoLease},  \* the lease in hand
              todo   : SUBSET Leases,          \* leases left in the phase's loop
              snap   : LeaseRow,               \* the lease record held in memory
              reason : Reason,
              jobs   : SUBSET Jobs,            \* jobs left in an inner loop
              rows   : [Jobs -> JobRow],       \* queued_jobs, read before the launch
              cached : BOOLEAN]                \* launching on prepared storage

NoRows == [j \in Jobs |-> NoJobRow]

AtRest == [pc |-> "tick", phase |-> "reconcile", lease |-> NoLease, todo |-> {},
           snap |-> NoLeaseRow, reason |-> "none", jobs |-> {}, rows |-> NoRows,
           cached |-> FALSE]

SrvOp == {"none", "claimed", "running", "progress", "complete", "fail", "cancel"}

SrvState == [op   : SrvOp,
             w    : Workers \cup {NoWorker},
             job  : Jobs \cup {NoJob},
             row  : JobRow,           \* the job record set_progress has read
             todo : SUBSET Leases,    \* leases the cancellation still has to revoke
             jobs : SUBSET Jobs]      \* the jobs just claimed

NoRequest == [op |-> "none", w |-> NoWorker, job |-> NoJob, row |-> NoJobRow,
              todo |-> {}, jobs |-> {}]

WorkerState == [lease : Leases \cup {NoLease},   \* NoLease: not running
                batch : SUBSET Jobs,             \* claimed, not yet started
                cur   : Jobs \cup {NoJob}]

Off == [lease |-> NoLease, batch |-> {}, cur |-> NoJob]

\* Type invariant of the deployment: every table row, and every local
\* variable of the three kinds of process, keeps its shape.
TypeOK ==
    /\ jobs \in [Jobs -> JobRow]
    /\ leases \in [Leases -> LeaseRow]
    /\ attached \in [Leases -> SUBSET Jobs]
    /\ heard \in BOOLEAN
    /\ inst \in [Leases -> InstState]
    /\ disp \in DispState
    /\ mine \in SUBSET Leases
    /\ crashes \in 0..MaxCrashes
    /\ srv \in SrvState
    /\ wk \in [Workers -> WorkerState]

Init ==
    /\ jobs = [j \in Jobs |-> NoJobRow]
    /\ leases = [l \in Leases |-> NoLeaseRow]
    /\ attached = [l \in Leases |-> {}]
    /\ heard = FALSE
    /\ inst = [l \in Leases |-> "absent"]
    /\ disp = AtRest
    /\ mine = {}
    /\ crashes = 0
    /\ srv = NoRequest
    /\ wk = [w \in Workers |-> Off]

-----------------------------------------------------------------------------
(* Queries of the store *)

OpenLeases == {l \in Leases : leases[l].status \in OpenStatus}

LeasesOf(j) == {l \in Leases : j \in attached[l]}

Queued == {j \in Jobs : jobs[j].status = "queued"}

InProgress == {j \in Jobs : jobs[j].status \in {"dispatched", "running"}}

\* A listing that is taken from the memory of the dispatcher.
ListedFromMemory(l) == inst[l] = "live" /\ l \in mine

\* What list_instances reports.  The RunPod connector keeps only pending and
\* running pods: a stopped resource is not in the listing.
Listed(l) == inst[l] = "live"

\* The workers whose process ends with the machine of lease l.
OffOn(l) == [w \in Workers |-> IF wk[w].lease = l THEN Off ELSE wk[w]]

=============================================================================
