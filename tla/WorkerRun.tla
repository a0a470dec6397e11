------------------------------ MODULE WorkerRun ------------------------------
(***************************************************************************)
(* The loop of one runner: it boots, waits for ComfyUI, claims jobs a      *)
(* batch at a time and takes each through staging, execution and upload,   *)
(* asking at the boundaries between them whether the coordinator has       *)
(* cancelled the job (cloud_offload/worker.py, runner.py).                 *)
(***************************************************************************)
EXTENDS RunnerStaging

RunnerInit ==
    /\ StagingInit
    /\ jobs = [j \in Jobs |-> CreatedRow]
    /\ lease = [BoundLease(ProvisionedLease) EXCEPT !.worker = Me]

DiskAndVolume == <<disk, report, volume, setup>>

\* A callback about a job reaches a coordinator that still knows the lease.
Authorized(j) ==
    ~Leased \/ (jobs[j].worker = Me /\ lease.status \in OpenStatus)

-----------------------------------------------------------------------------
(* The container *)

\* run_ready: ComfyUI answers, and the worker process takes over.
ComfyReady ==
    /\ proc.pc = "comfy"
    /\ proc' = Fresh("loop")
    /\ UNCHANGED <<DiskAndVolume, late, jobs, lease, accidents>>

\* ComfyUI exits or never answers; the failure is reported and the boot ends.
ComfyDied ==
    /\ proc.pc = "comfy"
    /\ Accident
    /\ proc' = [proc EXCEPT !.pc = "exit"]
    /\ UNCHANGED <<DiskAndVolume, late, jobs, lease>>

\* What a process killed at this step leaves on the disk.
AfterDeath ==
    {disk}
    \cup (IF proc.pc = "install"
          THEN {[disk EXCEPT !.pack[proc.pack] = left] : left \in HalfInstalled(proc.pack)} ELSE {})
    \cup (IF proc.pc = "fetch" THEN {Holds(Torn, FALSE)} ELSE {})
    \cup (IF late # None THEN {Holds(Torn, FALSE)} ELSE {})

\* The container dies, or has ended, and is started again on the same disk.
Restarted ==
    /\ Accident
    /\ disk' \in AfterDeath
    /\ proc' = Fresh("boot")
    /\ late' = None
    /\ UNCHANGED <<report, volume, setup, jobs, lease>>

\* SIGTERM.
Signalled ==
    /\ proc.running /\ proc.pc \notin {"boot", "exit"}
    /\ Accident
    /\ proc' = [proc EXCEPT !.running = FALSE]
    /\ UNCHANGED <<DiskAndVolume, late, jobs, lease>>

\* A thread that was left downloading when its job was cancelled writes on.
LateWrite ==
    /\ late # None
    /\ disk' \in {Holds(late, FALSE), Holds(Torn, FALSE)}
    /\ late' \in {late, None}
    /\ UNCHANGED <<report, volume, setup, proc, jobs, lease, accidents>>

-----------------------------------------------------------------------------
(* The loop *)

Claim ==
    /\ proc.pc = "loop" /\ proc.running
    /\ Leased => lease.status = "active" /\ lease.fresh /\ MayUse(lease, Me)
    /\ \E claimed \in (SUBSET {j \in Jobs : jobs[j].status = "queued"}) \ {{}} :
         /\ jobs' = [j \in Jobs |-> IF j \in claimed THEN ClaimedRow(jobs[j], Me) ELSE jobs[j]]
         /\ proc' = [proc EXCEPT !.pc = "next", !.batch = claimed]
    /\ UNCHANGED <<DiskAndVolume, late, lease, accidents>>

\* The idle limit has passed, or running was turned off: the process ends, and
\* with it its threads.
Stops ==
    /\ proc.pc = "loop"
    /\ proc' = [proc EXCEPT !.pc = "exit"]
    /\ late' = None
    /\ UNCHANGED <<DiskAndVolume, jobs, lease, accidents>>

\* What is left of a batch when running is off stays claimed.
BatchLeft ==
    /\ proc.pc = "next" /\ (proc.batch = {} \/ ~proc.running)
    /\ proc' = [proc EXCEPT !.pc = "loop", !.batch = {}]
    /\ UNCHANGED <<DiskAndVolume, late, jobs, lease, accidents>>

\* A job that is already terminal is passed over.
Skips(j) ==
    /\ proc.pc = "next" /\ proc.running /\ j \in proc.batch
    /\ jobs[j].status \in {"failed", "dead_letter"}
    /\ proc' = [proc EXCEPT !.batch = @ \ {j}]
    /\ UNCHANGED <<DiskAndVolume, late, jobs, lease, accidents>>

\* _begin_cache_restore: the last job's unpublished artifacts are forgotten.
\* The boot report is consumed once, and believed when it is about the
\* manifest this job uses.
Begins(j) ==
    /\ proc.pc = "next" /\ proc.running /\ j \in proc.batch
    /\ jobs[j].status \notin {"failed", "dead_letter"}
    /\ report' = IF setup.cache THEN NoReport ELSE report
    /\ proc' = [proc EXCEPT !.pc = "env", !.job = j, !.batch = @ \ {j}, !.pending = Nothing,
                            !.restored = IF setup.cache /\ report.of = Selected
                                         THEN @ \cup report.keys ELSE @]
    /\ UNCHANGED <<disk, volume, setup, late, jobs, lease, accidents>>

-----------------------------------------------------------------------------
(* Cancellation *)

\* A leased worker that forgets to stop.
RunningOn == proc.running

\* The lease of a cancelled job is being revoked: its worker stops.
StillRunning == proc.running /\ ~Leased

\* Every boundary reads the job; a read that fails is no cancellation.
CancelSeen ==
    /\ proc.pc \in {"weights", "assets", "flush", "ready", "uploading"}
    /\ Cancelled(proc.job)
    /\ proc' = [proc EXCEPT !.pc = "failing", !.running = StillRunning]
    /\ UNCHANGED <<DiskAndVolume, late, jobs, lease, accidents>>

\* While a helper thread downloads, the job is read every few seconds.  The
\* thread is left alone, and goes on writing at the model's path.
DownloadAbandoned ==
    /\ proc.pc = "fetch" /\ Cancelled(proc.job)
    /\ disk' \in {disk, Holds(Torn, FALSE)}
    /\ late' = Declared
    /\ proc' = [proc EXCEPT !.pc = "failing", !.running = StillRunning]
    /\ UNCHANGED <<report, volume, setup, jobs, lease, accidents>>

\* The executor's own check interrupts ComfyUI and fails the job; it does not
\* stop the worker.
ExecutionInterrupted ==
    /\ proc.pc = "executing" /\ Cancelled(proc.job)
    /\ proc' = [proc EXCEPT !.pc = "failing"]
    /\ UNCHANGED <<DiskAndVolume, late, jobs, lease, accidents>>

-----------------------------------------------------------------------------
(* Execution and verdict *)

Verdict(j, status) == [jobs EXCEPT ![j] = WithStatus(@, status)]

\* update_status(RUNNING) does nothing to a job that is terminal by then.
MarksRunning ==
    /\ proc.pc = "ready"
    /\ IF Authorized(proc.job)
       THEN /\ jobs' = Verdict(proc.job, "running")
            /\ proc' = [proc EXCEPT !.pc = "executing"]
       ELSE /\ proc' = [proc EXCEPT !.pc = "failing"]
            /\ UNCHANGED jobs
    /\ UNCHANGED <<DiskAndVolume, late, lease, accidents>>

Executed ==
    /\ proc.pc = "executing"
    /\ proc' = [proc EXCEPT !.pc = "uploading"]
    /\ UNCHANGED <<DiskAndVolume, late, jobs, lease, accidents>>

\* ComfyUI fails, an input or an output is missing, or an upload fails.
ExecutionFailed ==
    /\ proc.pc \in {"executing", "uploading"}
    /\ Accident
    /\ proc' = [proc EXCEPT !.pc = "failing"]
    /\ UNCHANGED <<DiskAndVolume, late, jobs, lease>>

Completes ==
    /\ proc.pc = "uploading"
    /\ IF Authorized(proc.job)
       THEN /\ jobs' = Verdict(proc.job, "completed")
            /\ \E more \in {proc.running, FALSE} :   \* max_jobs may be reached
                 proc' = [proc EXCEPT !.pc = "next", !.job = NoJob, !.running = more]
       ELSE /\ proc' = [proc EXCEPT !.pc = "failing"]
            /\ UNCHANGED jobs
    /\ UNCHANGED <<DiskAndVolume, late, lease, accidents>>

\* fail_job, and the next of the batch; when the coordinator refuses that too,
\* the rest of the batch is dropped.
Fails ==
    /\ proc.pc = "failing"
    /\ IF Authorized(proc.job)
       THEN /\ jobs' = [jobs EXCEPT ![proc.job] = FailedRow(@)]
            /\ proc' = [proc EXCEPT !.pc = "next", !.job = NoJob]
       ELSE /\ proc' = [proc EXCEPT !.pc = "loop", !.job = NoJob, !.batch = {}]
            /\ UNCHANGED jobs
    /\ UNCHANGED <<DiskAndVolume, late, lease, accidents>>

-----------------------------------------------------------------------------
(* The coordinator *)

\* A cancellation revokes the lease first and makes the job terminal then.
Cancels(j) ==
    /\ jobs[j].status \notin Terminal
    /\ lease' = IF Leased /\ jobs[j].worker = Me THEN RevokedLease(lease) ELSE lease
    /\ jobs' = Verdict(j, "failed")
    /\ UNCHANGED <<DiskAndVolume, proc, late, accidents>>

\* The dispatcher has terminated the machine.
LeaseCloses ==
    /\ lease.status \in Revoked
    /\ lease' = ConfirmedLease(lease)
    /\ UNCHANGED <<DiskAndVolume, proc, late, jobs, accidents>>

LoopStep ==
    \/ ComfyReady \/ ComfyDied \/ Restarted \/ Signalled \/ LateWrite
    \/ Claim \/ Stops \/ BatchLeft
    \/ \E j \in Jobs : Skips(j) \/ Begins(j) \/ Cancels(j)
    \/ CancelSeen \/ DownloadAbandoned \/ ExecutionInterrupted
    \/ MarksRunning \/ Executed \/ ExecutionFailed \/ Completes \/ Fails
    \/ LeaseCloses

RunnerNext == LoopStep \/ StagingStep

RunnerSpec == RunnerInit /\ [][RunnerNext]_runnerVars

-----------------------------------------------------------------------------
(* Properties *)

\* While a job executes, the model file at its path holds the bytes the job
\* declared, whatever other jobs, restarts and abandoned downloads left there
\* (_stage_declared_asset: a wrong file is "confident, wrong output").
AssetsAreDeclared ==
    proc.pc \in {"executing", "uploading"} => disk.asset.has = Declared

\* A job that gets as far as execution has its model file listed on the
\* volume, also when the runner that fetched the file failed to publish it
\* (_stage_declared_asset: "A same-pod retry must finish publishing that
\* durable state").
StagedIsPublished ==
    proc.pc \in {"ready", "executing", "uploading"} /\ setup.cache /\ Declared \notin Uncached
        => Declared \in volume.shared

\* A pack directory that came from git is a complete checkout, whenever the
\* installation failed or the container died (_install_git_pack).
GitPackIsWhole == \A p \in GitPacks : disk.pack[p] # "partial"

\* Under an exact placement instruction the profile's weights are restored
\* from that manifest alone, also after this runner has published newer ones
\* (_selected_prepared_manifest).
PlacementIsAuthoritative == setup.placed => proc.fromCache \subseteq Placed.weights

\* What the entrypoint says: "Custom-node Python packages are installed or
\* restored into one immutable profile environment before ComfyUI imports its
\* node registry."
ComfyStartsInstalled ==
    proc.pc = "comfy" => \A p \in Packs : disk.pack[p] = "whole" /\ p \in disk.deps

=============================================================================
