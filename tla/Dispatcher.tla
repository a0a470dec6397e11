------------------------------ MODULE Dispatcher ------------------------------
(***************************************************************************)
(* The dispatcher process: Dispatcher._tick of cloud_offload/dispatcher.py *)
(* and what it calls.  One action is one transaction of the store or one   *)
(* call of the provider; between two of them every other process may run.  *)
(* A tick reconciles the open leases, may launch one worker, and then goes *)
(* three times over the instances it knows (update, register, idle).       *)
(***************************************************************************)
EXTENDS ControlState

\* What a dispatcher step leaves to the other processes.
OthersUnchanged == UNCHANGED <<heard, crashes, srv, wk>>

StoreUnchanged == UNCHANGED <<jobs, leases, attached>>

At(pc) == disp.pc = pc

In(phase) == disp.phase = phase

Goto(pc) == [disp EXCEPT !.pc = pc]

\* The loop over leases goes on with the next one.
NextLease == [disp EXCEPT !.pc = "pick", !.lease = NoLease, !.snap = NoLeaseRow,
                          !.reason = "none", !.jobs = {}]

StartPhase(phase, todo) ==
    [AtRest EXCEPT !.pc = "pick", !.phase = phase, !.todo = todo]

\* A termination that is requested once and never retried.
TerminatingOnce(d) == IF d.snap.bound /\ ~d.snap.asked THEN [d EXCEPT !.pc = "attempt"] ELSE NextLease

\* _terminate_lease does nothing for a lease record without an instance.
Terminating(d) == IF d.snap.bound THEN [d EXCEPT !.pc = "attempt"] ELSE NextLease

-----------------------------------------------------------------------------
(* _reconcile_leases *)

\* The tick starts by listing every open lease.
TickStart ==
    /\ At("tick")
    /\ disp' = StartPhase("reconcile", OpenLeases)
    /\ UNCHANGED <<inst, mine>> /\ StoreUnchanged /\ OthersUnchanged

\* get_lease reads the record again before the provider is asked about it.
ReconcileNext ==
    /\ At("pick") /\ In("reconcile")
    /\ \E l \in disp.todo :
         disp' = [disp EXCEPT !.lease = l, !.todo = @ \ {l}, !.snap = leases[l],
                              !.pc = IF leases[l].bound THEN "inspect" ELSE "list"]
    /\ UNCHANGED <<inst, mine>> /\ StoreUnchanged /\ OthersUnchanged

\* A reconciliation that trusts the heartbeat and forgets the hard limits.
CloseReasonWithoutLimit(row, seen) ==
    IF row.status \in Revoked THEN "revoked"
    ELSE IF seen = "stopped" THEN "stopped"
    ELSE IF ~row.fresh THEN "expired"
    ELSE "none"

\* Why the code gives up a lease whose resource still exists.
CloseReason(row, seen) ==
    IF row.status \in Revoked THEN "revoked"
    ELSE IF seen = "stopped" THEN "stopped"
    ELSE IF ~row.fresh THEN "expired"
    ELSE IF row.over THEN "limit"
    ELSE "none"

\* What follows for a lease whose resource was seen to exist.
Judged(row, seen) ==
    LET reason == CloseReason(row, seen)
        d == [disp EXCEPT !.snap = row, !.reason = reason]
    IN  CASE reason = "none" -> NextLease
          [] reason = "revoked" -> Terminating(d)
          [] OTHER -> [d EXCEPT !.pc = "revoke"]

\* The resource is gone: unless the lease was being closed anyway, its jobs
\* are queued again before the termination is confirmed.
Lost(row) ==
    [disp EXCEPT !.snap = row, !.reason = "lost",
                 !.pc = IF row.status = "active" /\ ~row.asked THEN "readJobs" ELSE "confirm"]

\* get_instance of a bound lease.
ReconcileInspect ==
    /\ At("inspect") /\ In("reconcile")
    /\ IF inst[disp.lease] = "gone"
       THEN disp' = Lost(disp.snap) /\ UNCHANGED mine
       ELSE disp' = Judged(disp.snap, inst[disp.lease]) /\ mine' = mine \cup {disp.lease}
    /\ UNCHANGED inst /\ StoreUnchanged /\ OthersUnchanged

\* A provider error that is taken for a lost resource.
InspectFailsAsLoss ==
    /\ At("inspect") /\ In("reconcile")
    /\ disp' = Lost(disp.snap)
    /\ UNCHANGED <<inst, mine>> /\ StoreUnchanged /\ OthersUnchanged

\* A provider error leaves this lease to the next tick.
InspectFails ==
    /\ disp.pc \in {"inspect", "list"} /\ In("reconcile")
    /\ disp' = NextLease
    /\ UNCHANGED <<inst, mine>> /\ StoreUnchanged /\ OthersUnchanged

\* _recover_provisioning_lease looks for the lease's resource name in the
\* provider's listing.
ListInstances ==
    /\ At("list")
    /\ disp' = Goto(IF Listed(disp.lease) THEN "bind" ELSE "closeUnbound")
    /\ UNCHANGED <<inst, mine>> /\ StoreUnchanged /\ OthersUnchanged

\* The code of a step that writes one lease row.
PutLease(l, row) == leases' = [leases EXCEPT ![l] = row] /\ UNCHANGED <<jobs, attached>>

PutJob(j, row) == jobs' = [jobs EXCEPT ![j] = row] /\ UNCHANGED <<leases, attached>>

\* The launch is over, whatever its outcome: the tick goes on with the
\* instances this process knows.
EndLaunch(known) == StartPhase("update", known)

\* bind_lease.  A revoked lease comes back without the instance id; a launch
\* remembers the instance all the same.
Bind ==
    LET row == BoundLease(leases[disp.lease])
        known == mine \cup {disp.lease}
    IN  /\ At("bind")
        /\ PutLease(disp.lease, row)
        /\ mine' = known
        /\ disp' = IF In("launch") THEN EndLaunch(known) ELSE Judged(row, "live")
        /\ UNCHANGED inst /\ OthersUnchanged

\* close_unbound_lease, which a bound lease would refuse.  After a failed
\* launch that had prepared storage to choose from, be it only for the region,
\* the dispatcher may try a cold one.
CloseUnbound ==
    /\ At("closeUnbound")
    /\ ~leases[disp.lease].bound
    /\ PutLease(disp.lease, UnboundClosedLease(leases[disp.lease]))
    /\ \/ In("reconcile") /\ disp' = NextLease
       \/ In("launch") /\ disp' = EndLaunch(mine)
       \/ /\ In("launch") /\ disp.cached
          /\ \E l \in Leases : leases[l].status = "none"
          /\ disp' = [disp EXCEPT !.pc = "lease", !.cached = FALSE, !.lease = NoLease,
                        !.jobs = {j \in Jobs : disp.rows[j].status = "queued"}]
    /\ UNCHANGED <<inst, mine>> /\ OthersUnchanged

\* request_lease_revocation.  Reconciliation then fails the attached jobs; the
\* three loops over known instances go straight to the termination.
Revoke ==
    LET row == RevokedLease(leases[disp.lease])
        d == [disp EXCEPT !.snap = row]
    IN  /\ At("revoke")
        /\ PutLease(disp.lease, row)
        /\ disp' = IF In("reconcile") THEN [d EXCEPT !.pc = "readJobs"] ELSE Terminating(d)
        /\ UNCHANGED <<inst, mine>> /\ OthersUnchanged

\* Where the loop over the jobs of a lease leads once no job is left.
AfterJobs(d) ==
    CASE d.jobs # {} -> [d EXCEPT !.pc = IF d.reason = "lost" THEN "requeue" ELSE "fail"]
      [] d.jobs = {} /\ d.reason = "lost" -> [d EXCEPT !.pc = "confirm"]
      [] OTHER -> Terminating(d)

\* jobs_for_lease: every job ever attached, less those seen terminal.
ReadJobs ==
    /\ At("readJobs")
    /\ disp' = AfterJobs([disp EXCEPT !.jobs =
                  {j \in attached[disp.lease] : jobs[j].status \notin Terminal}])
    /\ UNCHANGED <<inst, mine>> /\ StoreUnchanged /\ OthersUnchanged

\* _requeue_lost_lease_jobs: fail_job, one job at a time.
RequeueJob ==
    /\ At("requeue")
    /\ \E j \in disp.jobs : /\ PutJob(j, FailedRow(jobs[j]))
                            /\ disp' = AfterJobs([disp EXCEPT !.jobs = @ \ {j}])
    /\ UNCHANGED <<inst, mine>> /\ OthersUnchanged

\* _fail_lease_jobs: update_status FAILED, one job at a time.
FailJob ==
    /\ At("fail")
    /\ \E j \in disp.jobs : /\ PutJob(j, WithStatus(jobs[j], "failed"))
                            /\ disp' = AfterJobs([disp EXCEPT !.jobs = @ \ {j}])
    /\ UNCHANGED <<inst, mine>> /\ OthersUnchanged

-----------------------------------------------------------------------------
(* _terminate_lease *)

Attempt ==
    /\ At("attempt")
    /\ PutLease(disp.lease, AttemptedLease(leases[disp.lease]))
    /\ disp' = Goto("terminate")
    /\ UNCHANGED <<inst, mine>> /\ OthersUnchanged

\* The provider removes the resource, and the worker on it.
TerminateWorks ==
    /\ At("terminate")
    /\ inst' = [inst EXCEPT ![disp.lease] = "gone"]
    /\ wk' = OffOn(disp.lease)
    /\ disp' = Goto("verify")
    /\ UNCHANGED <<mine, heard, crashes, srv>> /\ StoreUnchanged

\* An accepted request that is taken for its completion.
TerminateBelieved ==
    /\ At("terminate")
    /\ disp' = Goto("confirm")
    /\ UNCHANGED <<inst, mine>> /\ StoreUnchanged /\ OthersUnchanged

\* The request fails, or is accepted and not yet carried out.
TerminateIneffective ==
    /\ At("terminate")
    /\ disp' = Goto("verify")
    /\ UNCHANGED <<inst, mine>> /\ StoreUnchanged /\ OthersUnchanged

\* A confirmation that does not wait for the provider.
VerifyNothing ==
    /\ At("verify")
    /\ disp' = Goto("confirm")
    /\ UNCHANGED <<inst, mine>> /\ StoreUnchanged /\ OthersUnchanged

\* get_instance decides whether the closure may be confirmed.
Verify ==
    /\ At("verify")
    /\ disp' = IF inst[disp.lease] = "gone" THEN Goto("confirm") ELSE NextLease
    /\ UNCHANGED <<inst, mine>> /\ StoreUnchanged /\ OthersUnchanged

VerifyFails ==
    /\ At("verify")
    /\ disp' = NextLease
    /\ UNCHANGED <<inst, mine>> /\ StoreUnchanged /\ OthersUnchanged

\* confirm_lease_termination, and the instance is forgotten.
Confirm ==
    /\ At("confirm")
    /\ PutLease(disp.lease, ConfirmedLease(leases[disp.lease]))
    /\ mine' = mine \ {disp.lease}
    /\ disp' = NextLease
    /\ UNCHANGED inst /\ OthersUnchanged

-----------------------------------------------------------------------------
(* The launch loop of _tick and _launch_worker *)

ReconcileDone ==
    /\ At("pick") /\ In("reconcile") /\ disp.todo = {}
    /\ disp' = [disp EXCEPT !.pc = "decide", !.phase = "launch"]
    /\ UNCHANGED <<inst, mine>> /\ StoreUnchanged /\ OthersUnchanged

\* A launch decision that looks at its own memory and at the heartbeats only.
MayLaunchByMemory == Queued # {} /\ mine = {} /\ ~heard

\* Nothing of this profile is running, starting or being closed.
MayLaunch == Queued # {} /\ mine = {} /\ ~heard /\ OpenLeases = {}

\* The queued jobs are read once; the rows read here are written back later.
\* The placement is prepared storage, an offer without it (prepared storage may
\* have been considered: then a cold offer may follow), or a refusal of the jobs'
\* preflight confirmation.
Decide ==
    /\ At("decide") /\ MayLaunch
    /\ \E l \in Leases : leases[l].status = "none"
    /\ \E group \in (SUBSET Queued) \ {{}} :
         LET d == [disp EXCEPT !.rows = [j \in Jobs |-> IF j \in group THEN jobs[j] ELSE NoJobRow]]
         IN  \/ disp' = [d EXCEPT !.pc = "stamp", !.cached = TRUE, !.jobs = group]
             \/ \E considered \in BOOLEAN : disp' = [d EXCEPT !.pc = "lease", !.cached = considered]
             \/ disp' = [d EXCEPT !.pc = "refuse", !.jobs = group]
    /\ UNCHANGED <<inst, mine>> /\ StoreUnchanged /\ OthersUnchanged

\* No launch in this tick: below min_queue_depth, backing off, no offer.
NoLaunch ==
    /\ At("decide")
    /\ disp' = EndLaunch(mine)
    /\ UNCHANGED <<inst, mine>> /\ StoreUnchanged /\ OthersUnchanged

\* _refuse_preflight_launch.
RefuseJob ==
    /\ At("refuse")
    /\ \E j \in disp.jobs :
         /\ PutJob(j, WithStatus(jobs[j], "failed"))
         /\ disp' = IF disp.jobs = {j} THEN EndLaunch(mine) ELSE [disp EXCEPT !.jobs = @ \ {j}]
    /\ UNCHANGED <<inst, mine>> /\ OthersUnchanged

\* queue.update writes the whole row as it was read, its status included.
StampJob ==
    /\ disp.pc \in {"stamp", "restamp"}
    /\ \E j \in disp.jobs :
         /\ PutJob(j, disp.rows[j])
         /\ disp' = [disp EXCEPT !.jobs = @ \ {j},
                       !.pc = IF disp.jobs # {j} THEN @ ELSE IF @ = "stamp" THEN "lease" ELSE "launch"]
    /\ UNCHANGED <<inst, mine>> /\ OthersUnchanged

\* create_lease attaches the group.  A cold fallback writes the rows again,
\* without their prepared-storage parameters.
CreateLease ==
    /\ At("lease")
    /\ \E l \in Leases :
         /\ leases[l].status = "none"
         /\ leases' = [leases EXCEPT ![l] = ProvisionedLease]
         /\ attached' = [attached EXCEPT ![l] = {j \in Jobs : disp.rows[j].status = "queued"}]
         /\ disp' = [disp EXCEPT !.lease = l, !.pc = IF disp.jobs = {} THEN "launch" ELSE "restamp"]
    /\ UNCHANGED <<jobs, inst, mine>> /\ OthersUnchanged

\* connector.launch returns a running instance.
LaunchSucceeds ==
    /\ At("launch")
    /\ inst' = [inst EXCEPT ![disp.lease] = "live"]
    /\ disp' = Goto("bind")
    /\ UNCHANGED mine /\ StoreUnchanged /\ OthersUnchanged

\* connector.launch raises: the resource may exist, or not, or not yet.
LaunchFails ==
    /\ At("launch")
    /\ \E outcome \in {"absent", "live"} \cup (IF LateCreation THEN {"requested"} ELSE {}) :
         inst' = [inst EXCEPT ![disp.lease] = outcome]
    /\ disp' = Goto("list")
    /\ UNCHANGED mine /\ StoreUnchanged /\ OthersUnchanged

\* The listing fails too: the lease stays open for reconciliation.
LaunchUncertain ==
    /\ At("list") /\ In("launch")
    /\ disp' = EndLaunch(mine)
    /\ UNCHANGED <<inst, mine>> /\ StoreUnchanged /\ OthersUnchanged

-----------------------------------------------------------------------------
(* _update_workers, _check_unregistered_workers, _check_idle_workers *)

\* The three loops over the instances this process knows follow one another.
PhaseDone ==
    /\ At("pick") /\ disp.todo = {}
    /\ \/ In("update") /\ disp' = StartPhase("register", mine)
       \/ In("register") /\ disp' = StartPhase("idle", mine)
       \/ In("idle") /\ disp' = AtRest
    /\ UNCHANGED <<inst, mine>> /\ StoreUnchanged /\ OthersUnchanged

\* _update_workers asks the provider about a known instance.
UpdateNext ==
    /\ At("pick") /\ In("update")
    /\ \E l \in disp.todo :
         LET d == [disp EXCEPT !.todo = @ \ {l}, !.lease = l]
         IN  disp' = CASE inst[l] = "gone" -> [d EXCEPT !.pc = "lost"]
                       [] inst[l] = "stopped" -> [d EXCEPT !.pc = "revoke", !.reason = "stopped"]
                       [] OTHER -> [disp EXCEPT !.todo = @ \ {l}]
    /\ UNCHANGED <<inst, mine>> /\ StoreUnchanged /\ OthersUnchanged

\* Here a provider error is not caught: it ends the tick.
UpdateFails ==
    /\ At("pick") /\ In("update") /\ disp.todo # {}
    /\ disp' = AtRest
    /\ UNCHANGED <<inst, mine>> /\ StoreUnchanged /\ OthersUnchanged

\* get_lease of a lost instance.
ReadLost ==
    /\ At("lost")
    /\ disp' = Lost(leases[disp.lease])
    /\ UNCHANGED <<inst, mine>> /\ StoreUnchanged /\ OthersUnchanged

\* The next instance is left alone, in either of the last two loops.
Spare ==
    /\ At("pick") /\ disp.phase \in {"register", "idle"}
    /\ \E l \in disp.todo : disp' = [disp EXCEPT !.todo = @ \ {l}]
    /\ UNCHANGED <<inst, mine>> /\ StoreUnchanged /\ OthersUnchanged

\* No recent heartbeat, and the deadline for the first one has passed.
GiveUpUnregistered ==
    /\ At("pick") /\ In("register") /\ ~heard
    /\ \E l \in disp.todo :
         disp' = [disp EXCEPT !.todo = @ \ {l}, !.lease = l, !.pc = "revoke", !.reason = "unregistered"]
    /\ UNCHANGED <<inst, mine>> /\ StoreUnchanged /\ OthersUnchanged

\* No job is queued or in progress, and none has been for the idle period.
GiveUpIdle ==
    /\ At("pick") /\ In("idle") /\ Queued = {} /\ InProgress = {}
    /\ \E l \in disp.todo :
         disp' = [disp EXCEPT !.todo = @ \ {l}, !.lease = l, !.pc = "revoke", !.reason = "idle"]
    /\ UNCHANGED <<inst, mine>> /\ StoreUnchanged /\ OthersUnchanged

-----------------------------------------------------------------------------

DispatcherStep ==
    \/ TickStart \/ ReconcileNext \/ ReconcileInspect \/ InspectFails \/ ListInstances
    \/ Bind \/ CloseUnbound \/ Revoke \/ ReadJobs \/ RequeueJob \/ FailJob
    \/ Attempt \/ TerminateWorks \/ TerminateIneffective \/ Verify \/ VerifyFails \/ Confirm
    \/ ReconcileDone \/ Decide \/ NoLaunch \/ RefuseJob \/ StampJob \/ CreateLease
    \/ LaunchSucceeds \/ LaunchFails \/ LaunchUncertain
    \/ PhaseDone \/ UpdateNext \/ UpdateFails \/ ReadLost \/ Spare
    \/ GiveUpUnregistered \/ GiveUpIdle

\* The process dies between two of its steps and starts again without memory.
DispatcherCrash ==
    /\ crashes < MaxCrashes
    /\ crashes' = crashes + 1
    /\ disp' = AtRest
    /\ mine' = {}
    /\ UNCHANGED <<inst, heard, srv, wk>> /\ StoreUnchanged

=============================================================================
