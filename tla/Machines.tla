------------------------------- MODULE Machines -------------------------------
(***************************************************************************)
(* The rented machines: the provider's resources as they change on their   *)
(* own, the worker processes on them (cloud_offload/worker.py), and the    *)
(* passing of time.                                                        *)
(***************************************************************************)
EXTENDS ControlState

OnlyWorkersChange == UNCHANGED <<jobs, leases, attached, heard, inst, disp, mine, crashes, srv>>

OnlyMachinesChange == UNCHANGED <<jobs, leases, attached, heard, disp, mine, crashes, srv>>

-----------------------------------------------------------------------------
(* The provider *)

\* A request that the caller has given up is carried out after all.
ResourceAppears(l) ==
    /\ inst[l] = "requested"
    /\ inst' = [inst EXCEPT ![l] = "live"]
    /\ UNCHANGED wk /\ OnlyMachinesChange

\* The container exits or fails; the resource is kept, and billed.
ResourceStops(l) ==
    /\ inst[l] = "live"
    /\ inst' = [inst EXCEPT ![l] = "stopped"]
    /\ wk' = OffOn(l)
    /\ OnlyMachinesChange

\* The resource is preempted, or removed by the user or by an earlier request.
ResourceLost(l) ==
    /\ inst[l] \in {"live", "stopped"}
    /\ inst' = [inst EXCEPT ![l] = "gone"]
    /\ wk' = OffOn(l)
    /\ OnlyMachinesChange

-----------------------------------------------------------------------------
(* The worker *)

\* The container of lease l starts, or starts again, under a new identity.
Boot(w, l) ==
    /\ inst[l] = "live"
    /\ wk[w] = Off
    /\ \A v \in Workers : wk[v].lease # l
    /\ \A k \in Leases : leases[k].worker # w
    /\ wk' = [wk EXCEPT ![w].lease = l]
    /\ OnlyWorkersChange

\* _process_job skips a job that is failed by the time its turn comes.
NextJob(w) ==
    /\ wk[w].cur = NoJob
    /\ \E j \in wk[w].batch :
         wk' = [wk EXCEPT ![w].batch = @ \ {j},
                          ![w].cur = IF jobs[j].status \in {"failed", "dead_letter"} THEN NoJob ELSE j]
    /\ OnlyWorkersChange

\* _raise_if_cancelled ends the worker of a leased job; the failure it then
\* reports finds the job terminal.  The rest of the batch is not started.
StopCancelled(w) ==
    /\ wk[w].cur # NoJob
    /\ jobs[wk[w].cur].status \in {"failed", "dead_letter"}
    /\ wk' = [wk EXCEPT ![w] = Off]
    /\ OnlyWorkersChange

\* The idle timeout of _should_shutdown, or a crash at any moment.
WorkerExits(w) ==
    /\ wk[w].lease # NoLease
    /\ wk' = [wk EXCEPT ![w] = Off]
    /\ OnlyWorkersChange

-----------------------------------------------------------------------------
(* Time *)

ClockTick == UNCHANGED <<jobs, attached, inst, disp, mine, crashes, srv, wk>>

\* expires_at passes without a renewal.
LeaseExpires(l) ==
    /\ leases[l].fresh
    /\ leases' = [leases EXCEPT ![l].fresh = FALSE]
    /\ UNCHANGED heard /\ ClockTick

\* The runtime or the dollar deadline passes.
DeadlinePasses(l) ==
    /\ leases[l].status \in {"provisioning", "active"} /\ ~leases[l].over
    /\ leases' = [leases EXCEPT ![l].over = TRUE]
    /\ UNCHANGED heard /\ ClockTick

\* The last heartbeat leaves the window of list_active_workers.  A worker
\* between two polls is always heard of; one that executes a job is not,
\* because only registrations and claims refresh its row.
HeartbeatAges ==
    /\ heard
    /\ \A w \in Workers : wk[w].lease # NoLease => wk[w].cur # NoJob
    /\ heard' = FALSE
    /\ UNCHANGED leases /\ ClockTick

-----------------------------------------------------------------------------

MachineStep ==
    \/ \E l \in Leases : \/ ResourceAppears(l) \/ ResourceStops(l) \/ ResourceLost(l)
                         \/ LeaseExpires(l) \/ DeadlinePasses(l)
    \/ \E w \in Workers : NextJob(w) \/ StopCancelled(w) \/ WorkerExits(w)
    \/ \E w \in Workers, l \in Leases : Boot(w, l)
    \/ HeartbeatAges

=============================================================================
