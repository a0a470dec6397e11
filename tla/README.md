# Verification of the Cloud Offload control plane

Cloud Offload rents GPU machines for ComfyUI jobs. A *coordinator* takes jobs
over HTTP, a *dispatcher* rents and returns machines, a *worker* on each machine
claims jobs and executes them, and all of them meet in one SQLite store. Around
that core the program quotes plans, keeps caches of models on provider volumes,
replicates them between regions, and measures itself with paid benchmarks.
What can go wrong is money (a machine or a volume that nobody returns), work (a
job that is lost, run twice, or brought back to life) and trust (bytes or
statements that are taken for something they are not). This directory holds TLA+
models of these parts, the TLC runs that check them, and TLAPS proofs of their
most important properties.

Everything is translated from the code in `src/cloud_offload` and the runner's
`entrypoint.sh`; `PROJECT.json` maps each definition to its lines.

## The system

| Component | Code | State it keeps | Operations | In the model |
|---|---|---|---|---|
| Store | `queue.py` | tables `jobs`, `job_leases`, `job_lease_jobs`, `workers`, `job_events`, `partition_cache`, plan tables | one transaction per method | rows, attachments, journal, result cache, plan rows |
| Dispatcher | `dispatcher.py` | maps of known instances, launch backoff, offer cooldown | the tick, cache placement, crash and restart | the whole tick and the placement |
| Coordinator | `server.py` | none between requests | submit, cancel, claim, callbacks, events; plan, cache, replication and upload routes | every one of these that changes state |
| Worker | `worker.py`, `coordinator.py` | claimed batch, current job, staged files | boot, stage, poll, execute, publish, report, exit | all of it; execution is one step |
| Provider | `providers/*.py` | resources and volumes at the provider | launch, list, get, terminate, storage | what the calls do and report |
| Command line | `__main__.py` | none | cancel, clean, list; starts the processes | cancel |
| Plan protocol | `plan_protocol.py`, plan methods of `queue.py` | authority rows | preflight, submit, sync, cancel, complete, fail, close | the authority row's whole life |
| Cache registry | `cache_registry.py` | volumes, manifests, artifacts, invalidations, replica rows | reconcile, announce, remove, invalidate, verify, claim and complete copies | every operation that changes state |
| Regional replication | `regional_replication.py`, routes of `server.py` | replica targets and actions | reconcile, create, bind, copy, expire, recover, delete | every operation that changes state |
| Prepared state | `prepared_state.py` | objects, manifests, index, pointer, trust receipts | publish, restore, verify, quarantine, remove, upload in parts | these; not ranged downloads, bundles, signatures |
| Cache placement | `cache_scheduler.py`, `storage_plan.py` | none | choose a volume and an offer | what precedes the choice; the choice is any outcome |
| Benchmark harness | `benchmark.py`, `benchmark_faults.py` | meters, receipts, the scorecard | baseline, hooks, rounds, faults, cleanup, restore | a campaign of exclusive scenarios |
| Visibility and support | `job_visibility.py` | none | project the journal | billing state, progress, snapshot, pages |
| Runner startup, ComfyUI | `runner.py`, `comfyui.py`, `entrypoint.sh` | the container's disk | boot restore, install, start, execute | these, without the traffic |
| Preflight, release gate, contracts, configuration | the rest | none that others race for | decide, encode, validate, load | not modelled |

How they interact: the coordinator, the dispatcher, the command line, the
benchmark and the workers are separate processes. Workers talk to the coordinator
only (HTTP), the dispatcher talks to the provider (HTTP) and to the store
(SQLite), the coordinator and the command line talk to the store. There is no lock
beyond the `BEGIN IMMEDIATE` of one transaction; whatever takes two transactions
can be interleaved with any other process. Within the coordinator the handlers are
coroutines of one event loop: a handler runs alone among them until it awaits.

The hard behaviours, each listed with its line under `hazards` in `PROJECT.json`:
reads in one transaction that are written back in another, a launch whose outcome
is unknown, a crash between the provider call and the row that records it,
termination that is accepted and not carried out, a revocation that races a bind,
a callback that races a closure, an await between a check and its effect, two
writers on a volume without a common lock, a download thread that outlives its
job, and retries of all of these.

What makes each component right:

* store: attempts are bounded, a claim leads to a lease, a lease only moves
  forward, the journal follows the row;
* dispatcher: at most one open rental per provider and profile, every live machine
  belongs to an open lease, a bound lease closes only when its machine is gone,
  and closes in the end;
* coordinator and worker: a job is on one machine at a time; an answered event is
  journaled once; a job executes on the bytes it declares;
* plan protocol: authority and job row agree, one submission is accepted once;
* cache registry: the volume a user brought is never deleted, a digest reported
  corrupt is not counted as cached, what is listed is on the volume;
* prepared state: what is trusted was read whole, publications survive each
  other, only whole parts are merged;
* replication: one copy at a time, a paid volume is always accounted for;
* benchmark: confirmed means gone, a machine whose lease is proved is charged what
  it cost, the operator's setting is what a passed campaign leaves, a campaign ends
  within its limits and the timeouts of its calls.

## Modules

### Leases, jobs and machines

`QueueRows` has the row transitions of the store: what each transaction of
`JobQueue` does to the job or lease row it reads and writes back. Clocks are
reduced to what the code compares them with (`fresh`: `expires_at` is in the
future; `over`: a runtime or cost deadline has passed; `asked`:
`termination_requested_at` is set). `ControlState` declares the shared state, its
types and its initial value, and the queries of the store and of the provider.

| Variable | Code |
|---|---|
| `jobs`, `leases`, `attached` | tables `jobs`, `job_leases`, `job_lease_jobs` |
| `heard` | some row of `workers` is within `list_active_workers`' 90 seconds |
| `inst` | the provider's resource of each lease (its name is derived from the lease) |
| `disp` | where the dispatcher is in its tick, and its local variables |
| `mine` | `active_instances` and the maps beside it |
| `srv` | the coordinator's request between two of its transactions |
| `wk` | the worker processes |

`Dispatcher` is `Dispatcher._tick`: `TickStart` to `Confirm` are
`_reconcile_leases`, `_recover_provisioning_lease` and `_terminate_lease`;
`Decide` to `LaunchUncertain` the launch; `PhaseDone` to `GiveUpIdle` the loops of
`_update_workers`, `_check_unregistered_workers` and `_check_idle_workers`. One
action is one transaction or one provider call. `DispatcherCrash` forgets `disp`
and `mine` at any point. `Coordinator` has the handlers of `server.py`, which do
not await between two store calls, and `CliCancel`. `Machines` has what happens at
the provider and on the rented machine, and the passing of time.

`LeaseControl` composes the three into `Spec` and states the properties.
`BillingClaim` is the abstract promise about money, and `ImplementsBilling` says
that the deployment keeps it: `claim` is read off the lease row and `resource` off
the provider.

### Plans

`PlanAuthority` has the authority rows (`auth`) beside the queue rows (`jobs`,
`planOf`), the request in progress between two of its transactions (`srv`), and
the workers whose lease is open, which stands for the lease tables. Preflight and
its refresh, atomic submission and its replay, `claim_jobs`' and `worker_running`'s
synchronisation, cancel, complete, fail and the closure receipts are actions; the
dispatcher and the command line move the queue row only. A request is what its
digests tell apart: plan, terms and idempotency key. `PlanContract` is what a client
is promised (quoted, accepted once, closed once, with one job) and
`ImplementsContract` the refinement.

### Volumes and copies

`ReplicaRows` has the tables `regional_replica_targets` and
`regional_replica_actions`, the rules of `regional_replication.py` on what is
recommended, covered and affordable, and the transactions on the rows.
`RegionalReplicas` has the routes: one action per stretch of a handler between two
awaits or two items of a loop, over `storage` and `stored`, the provider's volumes
and their indexes. A reply may be lost, a request may be an error and have been
carried out, the coordinator may crash, a volume may be lost.

`CacheVolumes` is the life of a volume: its row, the provider's volume and
`existing_volume_id` in the configuration, under the coordinator's routes (which
await the provider), the dispatcher's placement and the user. `CacheInventory` is
what the registry knows of one volume's content: manifests, artifacts,
invalidations and health against the index on the volume, under publications,
announcements, verifications, corruption reports and the benchmark's corruption
canary, which edits the index from another process.

### Prepared state

`PreparedVolume` is the content-addressed store on one volume, written by workers
through the mount and by coordinator threads through the provider's gateway. Each
side has its own publication lock and neither excludes the other. Objects are
their bytes, size and mtime as far as a check tells them apart; receipts bind a
manifest and a generation. `MultipartUpload` is the upload of one object in parts:
the caller, its window of threads, the provider's session, a merge the gateway gave
up on, and later uploads that resume.

### The runner

`RunnerStaging` is what a runner puts on its disk: packs and their environment,
weights and the model file the job declares, from the cache or the origin, and
what it publishes; at boot and again for each job. The disk and the boot report
survive a restart of the container, the process does not. `WorkerRun` is the loop:
boot, ComfyUI, claim a batch, stage, execute, upload, with the questions about
cancellation in between and the abandoned download threads (`late`).

### The journal

`EventJournal` is the journal of one job: every write of the job or of one of its
leases appends in the same transaction; `set_progress`, `complete_job`, the event
endpoint, a cancellation and the snapshot take several. Workers' requests may be
lost, delayed, repeated or overtaken by a restart of the worker. The client
resumes from a snapshot and follows pages.

### The benchmark

`Benchmark` is a campaign of the harness over a running coordinator, a provider
and an operator who change between any two of its calls: each call may fail, lose
its answer or be interrupted. `now` counts the time the limits are compared with,
`rent` what each machine has cost. The cursor moves past a page when it is read,
and the harness then handles one event after another (`h.handled`), each of which
may ask the coordinator whose machine it is and take time or be interrupted.

Calls are of two kinds. What the harness asks inside a round, the provider's
inventories and the waits have a deadline of the campaign (`Takes(h.until)` and the
like). Hooks, cancellations, the support bundle, the removals, the submission's
POST, the storage setting's three calls and the questions about one event, the
final snapshot and the base manifest have a timeout of their own only: each takes
any time up to `campaign.calls` (`CallsEnd`), whatever deadline it passes. That a
timeout is kept is an assumption: an answer that trickles in under the timeout of
each read, or a hook whose children outlive it, is not modelled.

### For TLC

`MCLeaseControl`, `MCPlanAuthority` and `MCRegionalReplicas` add symmetry, and
`OneJobOrMachine` lets a behaviour have several leases and workers or several jobs.
`MCCaches`, `MCStorage` and `MCRunner` each hold two independent specifications and
let a behaviour take steps of one of them (`part`). `MCBenchmark` lists the
campaigns.

The operators whose comments start with "A ... that ..." or that no action uses
(`FailedRowOffByOne`, `VerifyNothing`, `DeleteAny`, ...) are plausible faults;
substituted for the definition they are a variant of, each of them breaks a
property, which is how the properties are tested.

## Runs

| Run | Instance | Checks | Distinct states |
|---|---|---|---|
| `Rentals` | 1 job, 2 leases, 1 worker, 1 attempt, 1 crash | `TypeOK`, `OneRental`, `LiveMeansOpen`, `BoundClosedMeansGone`, `AuthorityNeverReturns` | 2 055 092 |
| `Claims` | 1 job with 2 leases and 2 workers, or 2 jobs with 1 lease and 1 worker; 2 attempts | `JobOnOneMachine`, `QueuedHasAttempt`, `ClaimIsTraceable`, `TerminalLostOnlyToStaleRow` | 4 629 375 |
| `Progress` | 1 job, 1 lease, 1 worker, 1 attempt, 1 crash, late creation, fair | `BoundLeaseCloses`, `HardLimitCloses`, `ImplementsBilling` | 177 264 |
| `Plans` | 2 plans, 2 jobs, 2 keys, 2 terms, 1 worker, 2 attempts, 2 quotes | `OneJobPerPlan`, `SameKeySameJob`, `ClosureAgreesWithJob`, `ImplementsContract` | 472 904 |
| `Replicas` | 2 requests, 2 regions, 1 profile, 2 targets, 2 copies, 1 crash, 1 loss | `PaidVolumeIsOwned`, `SingleFlight` | 3 582 404 |
| `Caches` | 2 requests, 2 volumes of which 1 is the user's, 1 loss; 3 manifests, 2 digests, 1 corruption, 2 reports | `NoOwnVolumeDeleted`, `DetachKeepsNewChoice`, `NoReportedDigestIsCovered`, `ListedIsProjected` | 2 058 964 |
| `Storage` | 2 workers, 1 thread, 2 manifests that share a blob, 2 generations, 1 accident; 4 parts, window 2, 2 uploads | `TrustedGenerationWasReadWhole`, `PublicationsKept`, `ExpiryKeepsSharedObjects`, `MergesWholeParts`, `OwnErrorPropagates` | 6 256 035 |
| `Runner` | 2 jobs, 2 packs, 1 pinned and 1 snapshot file, 2 accidents; a journal of 8 entries, 2 leases, 2 events | `AssetsAreDeclared`, `StagedIsPublished`, `GitPackIsWhole`, `PlacementIsAuthoritative`, `JournalFollowsRow`, `AnsweredOnce`, `ResumedClientIsCurrent`, `ShownProgressNeverFalls` | 2 614 422 |
| `Benchmark` | 6 campaigns of one or two scenarios, one without and one for each kind of fault | `ConfirmedMeansGone`, `EstimateCoversRent`, `PassedLeavesOperatorsSetting`, `LiveJobIsReported`, `CampaignKeepsItsTime` | 4 622 811 |

Deadlock is checked except in `Storage`, `Runner`, `Benchmark` and `EstimateIsUpper`,
whose systems stop: an upload, a runner and a campaign come to an end.

Why the bounds are enough.

* Two leases are a rental and the one after it, which is what a duplicate launch, a
  cold fallback and a requeued job need. Two workers are the one that lost its job
  and the one that has it now. Two attempts are a retry and the last try. Two jobs
  are a batch with a first and a rest. One crash puts a restart at every position
  of a tick. `LateCreation` is a constant because two statements depend on it: with
  a provider that creates a resource after it has answered both the launch and a
  listing without it, no dispatcher can know the machine, so `LiveMeansOpen`
  assumes that a creation is visible once the launch call has ended;
  `ImplementsBilling`, `BoundLeaseCloses` and `HardLimitCloses` do not.
* Two plans, keys and terms give every conflict between a key and a plan, a quote
  and its refresh; a job more than the plans would never be used.
* Two requests are what it takes for a handler to find, after its await, what
  another one did. Two targets and copies are the one at stake and the one that
  takes its place. The budget of `Replicas` is one target, so that the second has
  to wait for the first.
* Two volumes are the bound one and the newer choice. Three manifests are one per
  digest and one with both, in an order that supersedes.
* Two workers and one coordinator thread are a writer, another under the same lock
  and one outside it. Two manifests that share a blob make one's expiry matter to
  the other. Four parts with a window of two are parts done, in flight and pending
  at once; the second upload resumes.
* Two jobs that declare different bytes under one file name are what an abandoned
  download or a stale file can confuse; two accidents are a fault and the fault that
  hits its repair. Each part of the journal runs with its own faults (`Spent`):
  events with delivery faults, progress with stale writes, leases with two machines.
* One campaign for each kind of fault; limits of two and three units make every
  deadline pass between two calls and within one. Two events are one page of two, or
  two pages of one. In the campaign with the cancellation a call without a deadline
  lasts up to one unit, in the others it is over at once: what such a call does to
  the machines and the setting does not depend on how long it takes. The latest
  moment reached is 4 where `CampaignKeepsItsTime` allows 4, and 11 where it allows
  21 (a sum of the worst case of each stage, which no one campaign meets); for the
  other faults with calls that take time the bound is proved (`CampaignsEnd`).

Symmetry is used in runs that check no liveness.

Fairness (`Progress`). `Dispatcher.run` loops for ever and catches every exception
of a tick, so the dispatcher's steps are weakly fair. A provider call may fail any
number of times and not for ever: when the dispatcher makes the call again and
again, it succeeds in the end, which is strong fairness of the successful outcome,
per lease. Nothing is assumed of workers, users, the provider's own steps, the
clock or the crash.

### What the code does not keep

Three runs check a statement of a document or comment that TLC refutes; `findings` in
`PROJECT.json` quotes it.

| Run | Statement | What happens |
|---|---|---|
| `ClosedLeaseLeavesNoWork` | a dead machine's jobs are queued again | `_terminate_worker` does not look at the jobs of the machine |
| `SpendWithinBudget` | the replication budget covers every target with an open row | a failed deletion makes its target ready again after another region was given its budget |
| `EstimateIsUpper` | the cost reported is an upper estimate that accrues each observed machine from the scenario's submission (`docs/production-benchmark.md:34`) | a machine whose lease is never proved accrues from the event that named it first (`benchmark.py:1107`, `:1172`); the floor of `benchmark.py:1490` is then less than the rent |

More statements of this kind are defined beside the properties of their modules.
Naming one in the configuration given shows its counterexample.

| Statement | Said in | Configuration | What happens |
|---|---|---|---|
| `ClosedMeansGone` | `docs/job-leases.md:30` | `Claims` | `list_instances` hides a resource that exited or failed (`runpod.py:477`); recovery closes its lease as never created |
| `RevokedLeaseCloses` | `docs/job-leases.md:55` | `Progress` | a lease revoked while it is launched never gets its instance id (`queue.py:1087`) and stays open for ever |
| `CancelReachesEveryLease` | `docs/job-leases.md:52` | `Claims` | a launch attaches a new lease after the list was taken (`server.py:4135`) |
| `TerminalIsImmutable` | `queue.py:1827` | `Claims` | a launch on prepared storage writes back rows it read earlier (`dispatcher.py:742`); so does `set_progress`, and nothing else (`TerminalLostOnlyToStaleRow`) |
| `RejectedAfterClose` | `tests/test_job_leases.py:282` | `Claims` | authorization and effect are two transactions (`server.py:1823`) |
| `UnregisteredNeverCalledHome` | `dispatcher.py:1890` | `Claims` | a long job lets the heartbeat row age, and the worker counts as unregistered (`dispatcher.py:1912`) |
| `ReportStandsUntilVerified` | `cache_registry.py:820` | `Caches` | a hit read before the blob was damaged arrives after the report and clears it (`cache_registry.py:920`) |
| `PointerWriteIsConditional` | `docs/storage-aware-cloud-offload.md:322` | `Storage` | the mount and the gateway replace the pointer under different locks, whatever it holds by then (`prepared_state.py:1396`) |
| `ComfyStartsInstalled` | `entrypoint.sh:14` | `Runner` | a pack whose directory an interrupted installation left is taken for installed (`worker.py:685`) |
| `StoppedMeansStopped` | `docs/job-visibility.md:56` | `Runner` | billing is shown as stopped after the first of two machines is gone (`job_visibility.py:681`) |
| `NewerSettingIsKept` | `docs/production-benchmark.md:107` | `Benchmark` | the restoration compares and writes in two requests, and overwrites what the operator set in between (`benchmark.py:2153`) |
| `PreparedIsTidied` | `docs/production-benchmark.md:165` | `Benchmark` | a hook's prepare stage that is killed or interrupted leaves no receipt and is never cleaned up (`benchmark.py:1378`) |
| `OnlyEmptyTargetsDeleted` | nowhere | `Replicas`, `TargetBudget = 2`, `TotalBudget = 3`, `MaxInflight = 2`, `MaxCopies = 3`, no crash or loss | the list of active copies is read before the first deletion is awaited; a copy may start on the next empty target meanwhile (`server.py:3230`) |

The type invariants of the modules other than `LeaseControl`,
`SettledCopiesStay`, `OneMachineBilling` and `CachedWasCompleted` hold in the same
instances and are not named in a run; theorems state the last three.

Smaller remarks, found while modelling and without a document that says otherwise.

* Leases: `_fail_lease_jobs` makes the jobs of an expired lease `FAILED` whatever
  attempts they have left; `docs/compute-pool.md` promises a retry.
* Plans: a plan job cancelled from the command line or failed by the dispatcher
  leaves its authority row open. Closure receipts say `provider_resource_absent`
  though a leased worker may hold the job.
* Replicas: when `claim_replica_action` compares budgets, the target already
  exists, so its own cost counts as 0. A copy may stay listed with no action that
  will expire it.
* Volumes: adopting a managed volume makes it "adopted", which is never deleted.
  An adoption during a deletion binds a deleted volume; a tick that began earlier
  registers a detached volume again; a lost deletion reply leaves a "failed" row
  bound to a volume that is gone. The dispatcher compares only the new volume's own
  size with `max_monthly_storage_cost` (`dispatcher.py:1641`;
  `docs/cloud-offload-product-goal.md:1636`). A ready volume whose provider volume
  is gone may be unwatched.
* Inventory: an announcement merged after a removal lists the manifest again; the
  canary's index write drops a publication made since its read
  (`benchmark_faults.py:660`); a corruption report that arrives after the removal
  of its manifest leaves the volume degraded for good.
* Prepared state: `publish_index` takes an unreadable index for an empty one
  (`prepared_state.py:1359`); a good blob published again may be quarantined for
  its predecessor (`:1258`); a staging directory left by a crash refuses a restarted
  worker of the same id, and `garbage_collect_staging` has no caller (`:1146`); a
  crash between pointer and announcement leaves a publication unannounced (`:1306`).
* Runner: the snapshot loses a file when a declared asset of the same digest is
  fetched again after a corruption (`worker.py:2632`); a failed publication of a
  profile's weight is not tried again; a runner's own newest manifest hides what
  another runner published since; jobs of a batch stay claimed when the loop stops
  (`worker.py:401`); a download abandoned by an unleased worker may overwrite the
  next job's file; the executor's cancellation does not stop a leased worker
  (`comfyui.py:263`).
* Journal: the visibility view reads its cursor after its events (`server.py:3943`);
  a worker's event may be journaled after the terminal entry; a crash between
  `complete_job`'s transactions leaves a result uncached; a stale `set_progress`
  reopens a job.
* Benchmark: an error of the harness leaves the scenario's job live; a lost reply
  to a submission leaves an unknown job while the cleanup proof says confirmed
  (`benchmark.py:2225`); the first inventory call's exception ends `run()` without a
  scorecard; a provider fault in a plan that is not exclusive removes machines that
  were there before (`:1622`); a machine that the last cleanup removes is not
  charged; an interrupt in the middle of a page loses the events that were not
  looked at, the cursor being past them (`:1066`), so a machine named only there is
  not removed and not an orphan; each event of a page may ask the coordinator once
  more after the deadline has passed (`:1067`), and the calls without a deadline
  add their timeouts to the runtime limit (`CampaignKeepsItsTime` says by how
  much). The release gate's ledger forgets what a matrix that dies has spent (`release_gate.py:942`).

## Proofs

The theorems hold for every value of the constants (any number of jobs, leases,
workers, plans, regions, requests, parts, packs, manifests, events and campaigns),
under the assumptions that the modules name: the "no value" constants are outside
the sets they stand for, and counters and bounds are natural numbers. Eight modules
hold them.

`LeaseControl_proofs`: `TypeInvariant` proves the inductive strengthening of
`TypeOK`. The types alone are not inductive: `attempts` stays below the maximum
only because a queued row has an attempt left, and that must also hold of the rows
the dispatcher (`disp.rows`) and the coordinator (`srv.row`) hold in memory, since
both are written back whole. `TypeCorrect` and `RetriesAreBounded` follow.

`Rental_proofs` has the theorems about the deployment as a whole.
`RentalInvariant` adds what the dispatcher may believe. `StoreInv` relates lease
rows to resources (a bound closed lease is gone, there is one open lease, an absent
resource has no binding); `HandInv` relates the dispatcher's position to them: at
"confirm" the provider has lost the resource (`LossIsKnown`), the lease of a launch
is its own and nobody has bound it (`LaunchIsFresh`), no other lease is open during
a launch (`LaunchIsAlone`), a lease about to be closed as unbound has no live
resource (`UnlistedIsNotLive`), and the record in hand agrees with the row where
the code relies on it (`HandIsReal`). This gives `BoundLeasesCloseLast`,
`RentalsAreExclusive`, and `NoOrphanedMachine` under `~LateCreation`.

`ClaimInvariant` adds to that invariant who may hold a job. An identity belongs to
one lease and a job it holds names it (`WorkersInv`), a claimed row is claimed
(`GoodRow`), and the worker of a row is traceable to a lease of the job, in the
table and in the rows the dispatcher and `set_progress` hold in memory
(`TraceInv`): they are written back whole, so an older claim comes back with them.
It relies on attachments that only grow and on a lease's worker that never changes.
`OneMachinePerJob`, `ClaimsAreTraceable`, `AuthorityIsLostForGood` and
`TerminalJobsStay` follow. `Refinement` maps the initial state and every step to
the abstract claim, using the invariants above: `Spec => ImplementsBilling`.

`PlanAuthority_proofs`: `PlanInvariant` says that an authority row, its queue row
and the request in progress stand by each other: which job a row may name, which
job may still be fresh, what a handler has read that may have changed since.
`PlanTypes`, `PlanHasOneJob`, `RepeatedSubmission`, `ClosureAgrees` and the
refinement `PlanRefinement` follow.

`Storage_proofs`: `VolumeInvariant` says what each of the two publication locks is
worth: whoever is about to write the index holds its side's lock, and while the
other side has not written, what it read is what is there (`MountIsLocked`,
`GatewayIsLocked`). And it says who may still trust a blob that was replaced: its
generation has grown (`NothingIsAhead`), and a receipt, a remembered check or a
reader between its read and its look at the generation stands only on the gap that
`torn` names (`TrustIsTorn`). `ReceiptsAreEarned`, `NoPublicationIsLost` and
`RemovalSparesWhatIsListed` follow; the last two are action properties, and their
exceptions are exactly the steps of the side without the lock and of a worker that
could not read the index. `UploadInvariant` relates the futures of an upload to the
stored parts and to the flag that stops refills (a part that ended as cancelled
implies a failed part that is still to be raised). `OnlyWholePartsAreMerged` and
`ErrorOfAPartIsRaised` follow.

`RegionalReplicas_proofs`: `ReplicaInvariant` accounts for every provider volume
by a row or by the request that waits for its reply, and for every claimed copy by
the handler that runs it. `PaidVolumesAreOwned` and `CopiesFlyAlone` follow, and with
the types the action property `CopiesSettleOnce`: no handler, answer or restart
brings back a copy that failed, expired or was lost.

`Caches_proofs`: `OwnershipInvariant` follows the ownership of a volume through
every place that keeps it (the row, what a request is about to record, what the
placement has created): a user's volume is never recorded as managed, so
`OwnVolumesStay`, and a handler between its steps keeps its operation, so
`NewChoicesStay`. `InventoryInvariant` says that a digest with a report has no
eligible artifact row and that a digest of a listed manifest has a row;
`InventoryTypes`, `ReportedDigestsAreNotCovered` and `ManifestsAreProjected` follow. Indexes read
early and announcements merged late only need to name real manifests.

`Runner_proofs`: `RunnerInvariant` is about the disk, the cache and the step the
process is at. What is at the model's path is the declared file from the end of
staging on (`StagedIsDeclared`), because an abandoned download is left only by a
worker that takes no further job (`LateOnlyAtTheEnd`); the code has that from the
lease alone, so `ExecutesDeclaredAssets` has `Leased` as its hypothesis. Every
manifest the process may select lists digests that are listed for all
(`ManifestsAreShared`), and the declared file is listed or still in the batch to be
flushed (`ListedOrPending`); no half a checkout is on the disk, in the newest
manifest, in the process's own, or in the one it is about to publish
(`GitIsWhole`). `StagedIsListed`, `CheckoutsAreWhole` and `PlacementWins` follow.
The manifests of other runners are assumed to have whole checkouts
(`OthersManifests`); `PublishedPacksAreWhole` shows that a runner keeps that promise
to the next one.

`JournalInvariant` ties the row, the journal, the answers and the client: the row
has the status of the latest lifecycle entry (`RowIsJournaled`), a worker's entries
and the answered requests match one to one (`EntriesAreAnswers`, counted by
`AnsweredOnce`), a client without a lifecycle entry ahead of its cursor is current
(`ClientCatchesUp`), and every progress it was shown is still in the journal
(`ShownIsJournaled`). `JournalSaysTheStatus`, `AnswersAreJournaledOnce`,
`ResumingCatchesUp` and the action property `ShownProgressRises` follow.
`BillingInvariant` adds what the entries say of the machines (`ReceiptsAreTrue`,
`MachinesAreJournaled`) and of a result that is cached or about to be
(`CachedIsJournaled`). `OneMachineIsBilledTruly` follows, the part of
`StoppedMeansStopped` that does hold, and `CachedResultsAreOfCompletedJobs`.

`Benchmark_proofs`: `BenchInvariant` has one table of bounds on the clock by the
place the harness is at (`OnTime`): every place that can wait has looked at the
clock since the last one, and the clean-ups, which the campaign's deadline does not
bind, have their own. From it the clock still moves when the harness waits, so that
meters and rent go on together (`Charged`: a held machine's meter starts with its
scenario, and its rent is no more than the time since; an unproved one has no such
bound, and `EstimateIsUpper` shows why). Every machine of an event
that was handled is held or unproved (`ReadIsHeld`), in the results too
(`ReadIsRecorded`), and the last clean-up is of every machine held, decided by its
last listing (`ListedLast`). `JobLeft` follows the job of the scenario and
`SettingKnown` the coordinator's setting: at each place it is one the operator
chose, one of the scenario's own that is remembered, or the scenario is spoiled.
`CleanupProofIsTrue`, `RentIsCovered`, `SettingIsTheOperators`,
`JobsAreNotLeftBehind` and `CampaignsEnd` follow: `RentIsCovered` for the machines
whose lease was proved, `CampaignsEnd` for every `CallTime`, if calls and hooks keep
their timeouts. The proof goes by two lemmas per
action, what it does to the harness's variables (its effect) and to the rest (its
frame), and one lemma per part of the invariant that uses only those.

Every safety and action property the passing runs check is the property of a
theorem. Model-checked only: `BoundLeaseCloses` and `HardLimitCloses`, because
liveness under fairness is beyond the prover, and `BenchTypeOK` (no run names it),
which types a sum that a fold computes. Nothing proved of the benchmark depends on
what that sum is: `EstimateCoversRent` is about each machine's own charge, and the
limits of cost only end a loop that the deadlines end as well. The type invariants
of the other modules are parts of the inductive invariants above.

## Not modelled, and simplifications

* One provider and one runtime profile in `LeaseControl`: the launch decision,
  backoff and the loops treat each pair on its own. One launch per tick: another
  group of the same profile is blocked by the lease the first one has opened.
* `authorize_worker_job` reads the job, reads its leases and renews in three
  transactions; `LeaseControl` has one, `EventJournal` separates what follows it.
* The time of a tick is read once at its start; in the model a lease expires, or
  not, at the moment it is looked at.
* A worker takes a new identity at each start (`resolve_worker_id` without an
  explicit id); an identity is used for one lease.
* `Dispatcher.shutdown`, tunnels, disk planning, image and environment of a
  machine, result contents, the choice among offers, provider REST calls other than
  those named, `queue clean`.
* `PlanProtocolStore.submit`, `cancel`, `reconcile_unknown_submit`, `abort_submit`
  and `close`, `CacheAdmissionController` and `garbage_collect_staging`: nothing
  calls them.
* Ranged downloads, bundle extraction, signatures and the markers of pending
  announcements of the prepared store; its gateway's own verification outside its
  lock; the branch of a runner whose workflow declares no models.
* Benchmark plans that are not exclusive; the comparison with a baseline.
* Preflight is a read-only report and the release gate one sequential pass over
  campaigns that have ended. Contracts, configuration, credentials and ingress
  encode, validate and load, and change no state that others race for.

## Plan

What would come next: abstract specifications of the prepared store (a set of
published manifests that two sides change) and of a benchmark campaign (a meter
that never falls behind what is paid), with refinements like the two there are; an
instance of `Replicas` with two profiles; the clean shutdown of the dispatcher as a
variant of its crash; the order of `cache_scheduler` against a reference definition.
