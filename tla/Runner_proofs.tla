--------------------------- MODULE Runner_proofs ---------------------------
(***************************************************************************)
(* Theorems about a rented runner and about the journal of its job.        *)
(*                                                                         *)
(* The runner: what it stages, publishes and executes, for every profile of*)
(* packs, weights and model files, every set of jobs and any number of     *)
(* restarts, failures and cancellations.                                   *)
(*                                                                         *)
(* The journal of one job and the client that resumes from it, for every   *)
(* number of workers, leases, events, restarts and crashes, and every page *)
(* size.                                                                   *)
(***************************************************************************)
EXTENDS WorkerRun, EventJournal, FiniteSetTheorems, SequenceTheorems, WellFoundedInduction, TLAPS

-----------------------------------------------------------------------------
(* Runner: the inductive invariant *)

\* A job waiting in the queue has an attempt left.
QueuedRowsMayRun ==
    \A j \in Jobs : jobs[j].status = "queued" => jobs[j].attempts < MaxAttempts

\* Which steps belong to a job; a boot has staged no packs before.
StepsOfJobs ==
    /\ proc.pc \in {"weights", "assets", "fetch", "flush", "ready", "executing", "uploading", "failing"}
         => proc.job \in Jobs
    /\ Booting /\ proc.pc \in {"boot", "env", "packs", "install", "requirements"} => ~proc.nodesStaged
    /\ proc.pc \in {"install", "requirements"} => proc.pack \in Packs

\* An exact placement needs the cache.
PlacedIsCached == setup.placed => setup.cache

\* While an abandoned download still writes, the worker has stopped and takes
\* no further job.
LateOnlyAtTheEnd == late # None => ~proc.running /\ proc.pc \in {"failing", "next", "loop"}

\* From the end of staging to the end of the job nothing else is at the path.
StagedIsDeclared ==
    proc.pc \in {"flush", "ready", "executing", "uploading"} => disk.asset.has = Declared

\* Whatever manifest a process may select, its digests are listed for all.
ManifestsAreShared ==
    /\ Listed(volume.latest) \subseteq volume.shared
    /\ Listed(proc.own) \subseteq volume.shared
    /\ setup.placed => Listed(Placed) \subseteq volume.shared

\* The declared file is listed already or waits for the flush.
MayBeCached == setup.cache /\ Declared \notin Uncached

ListedOrPending ==
    /\ proc.pc = "flush" /\ MayBeCached => Declared \in volume.shared \cup proc.pending.models
    /\ proc.pc \in {"ready", "executing", "uploading"} /\ MayBeCached => Declared \in volume.shared

\* No half a checkout is on the disk, listed, or about to be listed.
WholeManifest(m) == \A p \in GitPacks : m.packs[p] # "partial"

GitIsWhole ==
    /\ GitPackIsWhole
    /\ WholeManifest(volume.latest) /\ WholeManifest(proc.own) /\ WholeManifest(proc.pending)

RunnerInv ==
    /\ RunnerTypeOK /\ QueuedRowsMayRun /\ StepsOfJobs /\ PlacedIsCached
    /\ Leased => LateOnlyAtTheEnd /\ StagedIsDeclared
    /\ ManifestsAreShared /\ ListedOrPending /\ GitIsWhole /\ PlacementIsAuthoritative

-----------------------------------------------------------------------------
(* Runner: rows *)

LEMMA NewRows == CreatedRow \in JobRow /\ CreatedRow.status = "queued" /\ CreatedRow.attempts < MaxAttempts
  BY AttemptsAssumption DEF CreatedRow, NoJobRow, JobRow, JobStatus

\* What each transition makes of a row that is sound.
LEMMA RowMoves ==
    ASSUME NEW r \in JobRow, r.status = "queued" => r.attempts < MaxAttempts
    PROVE  /\ \A s \in JobStatus \ {"queued"} :
                /\ WithStatus(r, s) \in JobRow
                /\ WithStatus(r, s).status # "queued"  \/ WithStatus(r, s) = r
           /\ FailedRow(r) \in JobRow
           /\ FailedRow(r).status = "queued" => FailedRow(r).attempts < MaxAttempts
           /\ r.status = "queued" => \A w \in Workers : /\ ClaimedRow(r, w) \in JobRow
                                                       /\ ClaimedRow(r, w).status # "queued"
<1>1. ASSUME NEW s \in JobStatus \ {"queued"}
      PROVE  WithStatus(r, s) \in JobRow /\ (WithStatus(r, s).status # "queued" \/ WithStatus(r, s) = r)
  BY DEF JobRow, WithStatus
<1>2. FailedRow(r) \in JobRow
  BY NoWorkerAssumption DEF JobRow, JobStatus, FailedRow, Terminal
<1>3. FailedRow(r).status = "queued" => FailedRow(r).attempts < MaxAttempts
  BY AttemptsAssumption DEF JobRow, FailedRow, Terminal
<1>4. ASSUME r.status = "queued", NEW w \in Workers
      PROVE  ClaimedRow(r, w) \in JobRow /\ ClaimedRow(r, w).status # "queued"
  <2>1. r.attempts + 1 \in 0 .. MaxAttempts
    BY <1>4, AttemptsAssumption DEF JobRow
  <2> QED BY <2>1 DEF JobRow, JobStatus, ClaimedRow
<1> QED BY <1>1, <1>2, <1>3, <1>4

LEMMA LeaseMoves ==
    ASSUME NEW r \in LeaseRow
    PROVE  RevokedLease(r) \in LeaseRow /\ ConfirmedLease(r) \in LeaseRow
  BY DEF LeaseRow, LeaseStatus, RevokedLease, ConfirmedLease, OpenStatus, Revoked

LEMMA BoundAtStart == [BoundLease(ProvisionedLease) EXCEPT !.worker = Me] \in LeaseRow
  BY RunnerShape DEF BoundLease, ProvisionedLease, NoLeaseRow, LeaseRow, LeaseStatus

-----------------------------------------------------------------------------
(* Runner: manifests *)

LEMMA EmptyManifest ==
    Nothing \in Manifest /\ WholeManifest(Nothing) /\ Listed(Nothing) = {}
  BY RunnerShape DEF Nothing, Manifest, PackStates, WholeManifest, Listed

\* A manifest lists digests.
LEMMA ListedDigests == ASSUME NEW m \in Manifest PROVE Listed(m) \subseteq Digests
  BY DEF Manifest, Listed

\* What a process may select is well formed, whole, and listed for all.
LEMMA SelectedSound ==
    ASSUME RunnerTypeOK, PlacedIsCached, ManifestsAreShared, GitIsWhole
    PROVE  /\ Selected \in Manifest /\ WholeManifest(Selected) /\ Listed(Selected) \subseteq volume.shared
           /\ setup.placed => Selected = Placed
  BY OthersManifests, EmptyManifest
     DEF RunnerTypeOK, ProcessState, PlacedIsCached, ManifestsAreShared, GitIsWhole, WholeManifest, Selected

\* What a job adds to the manifest it will publish.
LEMMA PendingGrows ==
    ASSUME RunnerTypeOK, GitIsWhole
    PROVE  /\ \A p \in Packs, s \in PackStates :
                /\ WithBundle(p, s) \in Manifest
                /\ (p \in GitPacks => s # "partial") => WholeManifest(WithBundle(p, s))
                /\ WithBundle(p, s).models = proc.pending.models
           /\ \A d \in Digests :
                /\ WithModel(d) \in Manifest /\ WholeManifest(WithModel(d))
                /\ proc.pending.models \subseteq WithModel(d).models
                /\ setup.cache /\ d \notin Uncached => d \in WithModel(d).models
<1>1. proc.pending \in Manifest /\ WholeManifest(proc.pending)
  BY DEF RunnerTypeOK, ProcessState, GitIsWhole
<1>2. ASSUME NEW p \in Packs, NEW s \in PackStates
      PROVE  /\ WithBundle(p, s) \in Manifest
             /\ (p \in GitPacks => s # "partial") => WholeManifest(WithBundle(p, s))
             /\ WithBundle(p, s).models = proc.pending.models
  BY <1>1, RunnerShape DEF WithBundle, Manifest, WholeManifest
<1>3. ASSUME NEW d \in Digests
      PROVE  /\ WithModel(d) \in Manifest /\ WholeManifest(WithModel(d))
             /\ proc.pending.models \subseteq WithModel(d).models
             /\ setup.cache /\ d \notin Uncached => d \in WithModel(d).models
  BY <1>1, RunnerShape DEF WithModel, Manifest, WholeManifest
<1> QED BY <1>2, <1>3

\* The flush: the selected manifest and the job's additions.
LEMMA MergedSound ==
    ASSUME NEW m \in Manifest, NEW d \in Manifest, WholeManifest(m), WholeManifest(d)
    PROVE  Merged(m, d) \in Manifest /\ WholeManifest(Merged(m, d)) /\ d.models \subseteq Listed(Merged(m, d))
  BY RunnerShape DEF Merged, Manifest, WholeManifest, Listed, PackStates

-----------------------------------------------------------------------------
(* Runner: what a step of staging may do *)

LEMMA Counted ==
    ASSUME RunnerTypeOK, Accident \/ UNCHANGED accidents
    PROVE  accidents' \in 0..MaxAccidents
  BY RunnerShape DEF RunnerTypeOK, Accident

\* The process is staging, and goes on with the same job.
SameJob ==
    /\ proc.pc \notin {"failing", "next", "loop"}
    /\ proc' \in ProcessState /\ proc'.job = proc.job /\ proc'.running = proc.running
    /\ StepsOfJobs'
    /\ UNCHANGED <<late, Coordinators>> /\ accidents' \in 0..MaxAccidents

\* The disk, the report and the pending publication stay well formed and whole.
SoundDisk ==
    /\ disk' \in DiskState /\ GitPackIsWhole' /\ WholeManifest(proc'.pending)
    /\ report'.of \in Manifest /\ report'.keys \subseteq Packs \cup {Env}

\* At most one whole manifest is published, and becomes the process's own.
Publishes ==
    \/ volume' = volume /\ proc'.own = proc.own
    \/ \E m \in Manifest : WholeManifest(m) /\ volume' = Published(m) /\ proc'.own = m

\* What is restored comes from the selected manifest.
RestoresSelected == proc'.fromCache \subseteq proc.fromCache \cup Selected.weights

LEMMA StagingMove ==
    ASSUME RunnerInv, SameJob, SoundDisk, Publishes, RestoresSelected,
           proc'.pc \in {"flush", "ready", "executing", "uploading"}
             => (Leased => StagedIsDeclared') /\ ListedOrPending'
    PROVE  RunnerInv'
<1> USE DEF RunnerInv
<1>1. UNCHANGED <<jobs, lease, setup, late>>
  BY DEF SameJob, Coordinators
<1>2. /\ volume'.latest \in Manifest /\ volume'.shared \subseteq Digests /\ ManifestsAreShared'
      /\ WholeManifest(volume'.latest) /\ WholeManifest(proc'.own)
  <2>1. CASE volume' = volume /\ proc'.own = proc.own
    BY <1>1, <2>1 DEF RunnerTypeOK, ManifestsAreShared, GitIsWhole
  <2>2. ASSUME NEW m \in Manifest, WholeManifest(m), volume' = Published(m), proc'.own = m
        PROVE  /\ volume'.latest \in Manifest /\ volume'.shared \subseteq Digests /\ ManifestsAreShared'
               /\ WholeManifest(volume'.latest) /\ WholeManifest(proc'.own)
    BY <1>1, <2>2, ListedDigests DEF RunnerTypeOK, ManifestsAreShared, Published
  <2> QED BY <2>1, <2>2 DEF Publishes
<1>3. RunnerTypeOK'
  BY <1>1, <1>2 DEF RunnerTypeOK, SameJob, SoundDisk
<1>4. QueuedRowsMayRun' /\ PlacedIsCached' /\ StepsOfJobs'
  BY <1>1 DEF QueuedRowsMayRun, PlacedIsCached, SameJob
<1>5. Leased => LateOnlyAtTheEnd'
  BY <1>1 DEF LateOnlyAtTheEnd, SameJob
<1>6. (Leased => StagedIsDeclared') /\ ListedOrPending'
  BY DEF StagedIsDeclared, ListedOrPending
<1>7. PlacementIsAuthoritative'
  BY <1>1, SelectedSound DEF PlacementIsAuthoritative, RestoresSelected
<1> QED BY <1>2, <1>3, <1>4, <1>5, <1>6, <1>7 DEF GitIsWhole, SoundDisk

-----------------------------------------------------------------------------
(* Runner: packs and their environment *)

\* These steps publish nothing, restore no weights and end before the weights.
NodeMove ==
    /\ proc.pc \in {"boot", "env", "packs", "install", "requirements"}
    /\ proc' \in ProcessState
    /\ UNCHANGED <<proc.job, proc.running, proc.own, proc.fromCache, volume, late, Coordinators>>
    /\ proc'.pc \notin {"assets", "fetch", "flush", "ready", "executing", "uploading", "next", "loop"}

LEMMA NodeKept ==
    ASSUME RunnerInv, NodeMove, SoundDisk, StepsOfJobs', Accident \/ UNCHANGED accidents
    PROVE  RunnerInv'
<1>1. SameJob
  BY Counted DEF NodeMove, SameJob, RunnerInv
<1>2. Publishes /\ RestoresSelected
  BY DEF NodeMove, Publishes, RestoresSelected
<1> QED BY <1>1, <1>2, StagingMove DEF NodeMove

\* Steps that change where the process is, and little else.
SameIdentity(r) ==
    /\ r.job = proc.job /\ r.own = proc.own /\ r.fromCache = proc.fromCache
    /\ r.pending = proc.pending /\ r.pack = proc.pack /\ r.nodesStaged = proc.nodesStaged

LEMMA PlaceSet ==
    ASSUME proc \in ProcessState, NEW pc \in Steps, NEW runs \in BOOLEAN
    PROVE  /\ [proc EXCEPT !.pc = pc] \in ProcessState /\ [proc EXCEPT !.pc = pc].pc = pc
           /\ SameIdentity([proc EXCEPT !.pc = pc]) /\ [proc EXCEPT !.pc = pc].running = proc.running
           /\ [proc EXCEPT !.pc = pc, !.running = runs] \in ProcessState
           /\ [proc EXCEPT !.pc = pc, !.running = runs].pc = pc
           /\ SameIdentity([proc EXCEPT !.pc = pc, !.running = runs])
           /\ [proc EXCEPT !.pc = pc, !.running = runs].running = runs
<1>1. /\ [proc EXCEPT !.pc = pc] \in ProcessState /\ [proc EXCEPT !.pc = pc].pc = pc
      /\ SameIdentity([proc EXCEPT !.pc = pc]) /\ [proc EXCEPT !.pc = pc].running = proc.running
  BY DEF ProcessState, SameIdentity
<1>2. [proc EXCEPT !.pc = pc, !.running = runs] \in ProcessState
  BY DEF ProcessState
<1>3. /\ [proc EXCEPT !.pc = pc, !.running = runs].pc = pc
      /\ SameIdentity([proc EXCEPT !.pc = pc, !.running = runs])
      /\ [proc EXCEPT !.pc = pc, !.running = runs].running = runs
  BY DEF ProcessState, SameIdentity
<1> QED BY <1>1, <1>2, <1>3

LEMMA RaisedSound ==
    ASSUME proc \in ProcessState
    PROVE  /\ Raised \in ProcessState /\ SameIdentity(Raised) /\ Raised.running = proc.running
           /\ Raised.pc = IF Booting THEN "exit" ELSE "failing"
<1>1. (IF Booting THEN "exit" ELSE "failing") \in Steps
  BY DEF Steps
<1> QED BY <1>1, PlaceSet DEF Raised

LEMMA EnvironmentSet ==
    ASSUME proc \in ProcessState, NEW ready \in BOOLEAN
    PROVE  /\ AfterEnvironment(ready) \in ProcessState /\ SameIdentity(AfterEnvironment(ready))
           /\ AfterEnvironment(ready).running = proc.running
           /\ AfterEnvironment(ready).pc = IF proc.nodesStaged THEN "weights" ELSE "packs"
<1> DEFINE pc == IF proc.nodesStaged THEN "weights" ELSE "packs"
           todo == IF proc.nodesStaged THEN {} ELSE Packs
<1>1. pc \in Steps /\ todo \in SUBSET Packs
  BY DEF Steps
<1>2. AfterEnvironment(ready) = [proc EXCEPT !.ready = ready, !.todo = todo, !.pc = pc]
  BY DEF AfterEnvironment
<1> HIDE DEF pc, todo
<1>3. [proc EXCEPT !.ready = ready, !.todo = todo, !.pc = pc] \in ProcessState
  BY <1>1 DEF ProcessState
<1>4. /\ SameIdentity([proc EXCEPT !.ready = ready, !.todo = todo, !.pc = pc])
      /\ [proc EXCEPT !.ready = ready, !.todo = todo, !.pc = pc].running = proc.running
      /\ [proc EXCEPT !.ready = ready, !.todo = todo, !.pc = pc].pc = pc
  BY DEF ProcessState, SameIdentity
<1> QED BY <1>2, <1>3, <1>4 DEF pc

\* A restore that is reported leaves the report well formed.
LEMMA ReportSound ==
    ASSUME report.of \in Manifest, report.keys \subseteq Packs \cup {Env}, Selected \in Manifest,
           NEW key \in Packs \cup {Env}
    PROVE  ReportedHit(key).of \in Manifest /\ ReportedHit(key).keys \subseteq Packs \cup {Env}
  BY DEF ReportedHit

\* A pack directory takes another state.
LEMMA PackSet ==
    ASSUME NEW d \in DiskState, \A q \in GitPacks : d.pack[q] # "partial",
           NEW p \in Packs, NEW s \in PackStates, p \in GitPacks => s # "partial"
    PROVE  /\ [d EXCEPT !.pack[p] = s] \in DiskState
           /\ \A q \in GitPacks : [d EXCEPT !.pack[p] = s].pack[q] # "partial"
<1> DEFINE packs == [d.pack EXCEPT ![p] = s]
           after == [d EXCEPT !.pack[p] = s]
<1>1. packs \in [Packs -> PackStates] /\ \A q \in GitPacks : packs[q] # "partial"
  BY RunnerShape DEF DiskState
<1>2. after = [d EXCEPT !.pack = packs]
  BY DEF DiskState
<1> HIDE DEF packs, after
<1>3. after \in DiskState /\ after.pack = packs
  BY <1>1, <1>2 DEF DiskState
<1> QED BY <1>1, <1>3 DEF after

LEMMA NodeSteps ==
    ASSUME RunnerInv, NodeStep
    PROVE  NodeMove /\ SoundDisk /\ StepsOfJobs' /\ (Accident \/ UNCHANGED accidents)
<1> USE DEF RunnerInv, NodeMove, SoundDisk, StepsOfJobs, Booting
<1>1. /\ disk \in DiskState /\ GitPackIsWhole /\ proc \in ProcessState /\ WholeManifest(proc.pending)
      /\ report.of \in Manifest /\ report.keys \subseteq Packs \cup {Env}
      /\ Selected \in Manifest /\ WholeManifest(Selected)
  BY SelectedSound DEF RunnerTypeOK, GitIsWhole
<1>2. CASE Boot
  BY <1>1, <1>2, EmptyManifest DEF Boot, NoReport, ProcessState, Steps, GitPackIsWhole
<1>3. CASE EnvironmentAsItIs
  <2>1. disk.marker \in BOOLEAN
    BY <1>1 DEF DiskState
  <2> QED BY <1>1, <1>3, <2>1, EnvironmentSet DEF EnvironmentAsItIs, SameIdentity, ProcessState, GitPackIsWhole
<1>4. CASE EnvironmentRestored
  <2> DEFINE after == AfterEnvironment(TRUE)
  <2>1. after \in ProcessState /\ SameIdentity(after) /\ after.running = proc.running
        /\ after.pc = IF proc.nodesStaged THEN "weights" ELSE "packs"
    BY <1>1, EnvironmentSet
  <2>2. proc' = [after EXCEPT !.restored = @ \cup {Env}]
    BY <1>4 DEF EnvironmentRestored
  <2> HIDE DEF after
  <2>3. /\ proc' \in ProcessState /\ SameIdentity(proc') /\ proc'.running = proc.running
        /\ proc'.pc = IF proc.nodesStaged THEN "weights" ELSE "packs"
    BY <2>1, <2>2 DEF ProcessState, SameIdentity
  <2>4. disk' \in DiskState /\ disk'.pack = disk.pack
    BY <1>1, <1>4 DEF EnvironmentRestored, DiskState, Manifest
  <2>5. report'.of \in Manifest /\ report'.keys \subseteq Packs \cup {Env}
    BY <1>1, <1>4, ReportSound DEF EnvironmentRestored
  <2> QED BY <1>1, <1>4, <2>3, <2>4, <2>5 DEF EnvironmentRestored, SameIdentity, ProcessState, GitPackIsWhole
<1>5. CASE EnvironmentRefused
  <2>1. /\ proc' \in ProcessState /\ SameIdentity(proc') /\ proc'.running = proc.running
        /\ \/ proc'.pc = IF Booting THEN "exit" ELSE "failing"
           \/ proc'.pc = IF proc.nodesStaged THEN "weights" ELSE "packs"
    BY <1>1, <1>5, RaisedSound, EnvironmentSet DEF EnvironmentRefused
  <2> QED BY <1>1, <1>5, <2>1 DEF EnvironmentRefused, SameIdentity, ProcessState, GitPackIsWhole
<1>6. ASSUME NEW p \in Packs, PackPresent(p)
      PROVE  NodeMove /\ SoundDisk /\ StepsOfJobs' /\ (Accident \/ UNCHANGED accidents)
  BY <1>1, <1>6, PendingGrows DEF PackPresent, PackDone, ProcessState, DiskState, Steps, GitPackIsWhole
<1>7. ASSUME NEW p \in Packs, PackRestored(p)
      PROVE  NodeMove /\ SoundDisk /\ StepsOfJobs' /\ (Accident \/ UNCHANGED accidents)
  <2>1. Selected.packs[p] \in PackStates /\ (p \in GitPacks => Selected.packs[p] # "partial")
    BY <1>1 DEF Manifest, WholeManifest
  <2>2. disk' \in DiskState /\ GitPackIsWhole'
    BY <1>1, <1>7, <2>1, PackSet DEF GitPackIsWhole, PackRestored
  <2> DEFINE after == IF proc.ready THEN PackDone(p)
                      ELSE [proc EXCEPT !.pc = "requirements", !.pack = p, !.wasRestored = TRUE]
  <2>3. /\ after \in ProcessState /\ after.job = proc.job /\ after.running = proc.running
        /\ after.own = proc.own /\ after.fromCache = proc.fromCache /\ after.pending = proc.pending
        /\ after.nodesStaged = proc.nodesStaged
        /\ after.pc = "packs" \/ (after.pc = "requirements" /\ after.pack = p)
    <3>1. CASE proc.ready
      BY <1>1, <3>1 DEF PackDone, ProcessState, Steps
    <3>2. CASE ~proc.ready
      BY <1>1, <3>2 DEF ProcessState, Steps
    <3> QED BY <3>1, <3>2
  <2>4. proc' = [after EXCEPT !.restored = @ \cup {p}]
    BY <1>7 DEF PackRestored
  <2> HIDE DEF after
  <2>5. /\ proc' \in ProcessState /\ proc'.job = proc.job /\ proc'.running = proc.running
        /\ proc'.own = proc.own /\ proc'.fromCache = proc.fromCache /\ proc'.pending = proc.pending
        /\ proc'.nodesStaged = proc.nodesStaged
        /\ proc'.pc = "packs" \/ (proc'.pc = "requirements" /\ proc'.pack = p)
    BY <2>3, <2>4 DEF ProcessState
  <2>6. report'.of \in Manifest /\ report'.keys \subseteq Packs \cup {Env}
    BY <1>1, <1>7, ReportSound DEF PackRestored
  <2> QED BY <1>1, <1>7, <2>2, <2>5, <2>6 DEF PackRestored
<1>8. ASSUME NEW p \in Packs, PackRefused(p)
      PROVE  NodeMove /\ SoundDisk /\ StepsOfJobs' /\ (Accident \/ UNCHANGED accidents)
  BY <1>1, <1>8 DEF PackRefused, RefusedTo, Raised, ProcessState, Steps, GitPackIsWhole
<1>9. ASSUME NEW p \in Packs, PackMissed(p)
      PROVE  NodeMove /\ SoundDisk /\ StepsOfJobs' /\ (Accident \/ UNCHANGED accidents)
  BY <1>1, <1>9 DEF PackMissed, ProcessState, Steps, GitPackIsWhole
<1>10. CASE PackInstalled
  <2>1. disk' \in DiskState /\ GitPackIsWhole'
    BY <1>1, <1>10, PackSet DEF GitPackIsWhole, PackInstalled, PackStates
  <2> QED BY <1>1, <1>10, <2>1 DEF PackInstalled, ProcessState, Steps
<1>11. CASE PackFailed
  <2>1. PICK left \in HalfInstalled(proc.pack) : disk' = [disk EXCEPT !.pack[proc.pack] = left]
    BY <1>11 DEF PackFailed
  <2>2. left \in PackStates /\ (proc.pack \in GitPacks => left # "partial")
    BY DEF HalfInstalled, PackStates
  <2>3. proc.pack \in Packs /\ \A q \in GitPacks : disk.pack[q] # "partial"
    BY <1>1, <1>11 DEF PackFailed, GitPackIsWhole
  <2>4. disk' \in DiskState /\ \A q \in GitPacks : disk'.pack[q] # "partial"
    BY <1>1, <2>1, <2>2, <2>3, PackSet
  <2> QED BY <1>1, <1>11, <2>4 DEF PackFailed, Raised, ProcessState, Steps, GitPackIsWhole
<1>12. CASE RequirementsInstalled
  BY <1>1, <1>12, PendingGrows DEF RequirementsInstalled, PackDone, ProcessState, DiskState, Steps, GitPackIsWhole
<1>13. CASE RequirementsFailed
  BY <1>1, <1>13 DEF RequirementsFailed, Raised, ProcessState, Steps, GitPackIsWhole
<1>14. CASE PacksStaged
  <2> DEFINE env == IF Booting \/ ~setup.cache \/ Env \in proc.restored THEN proc.pending.env ELSE disk.deps
             bundled == [proc.pending EXCEPT !.env = env]
  <2>1. disk' \in DiskState /\ GitPackIsWhole'
    BY <1>1, <1>14 DEF PacksStaged, DiskState, GitPackIsWhole
  <2>2. bundled \in Manifest /\ WholeManifest(bundled)
    BY <1>1 DEF ProcessState, DiskState, Manifest, WholeManifest
  <2>3. proc' = [proc EXCEPT !.nodesStaged = TRUE, !.pending = bundled,
                             !.pc = IF Booting THEN "comfy" ELSE "weights"]
    BY <1>1, <1>14 DEF PacksStaged, ProcessState
  <2> HIDE DEF bundled, env
  <2>4. (IF Booting THEN "comfy" ELSE "weights") \in Steps /\ (Booting \/ proc.job \in Jobs)
    BY <1>1 DEF ProcessState, Steps
  <2>5. /\ proc' \in ProcessState /\ proc'.job = proc.job /\ proc'.running = proc.running
        /\ proc'.own = proc.own /\ proc'.fromCache = proc.fromCache /\ proc'.pending = bundled
        /\ proc'.pc = IF Booting THEN "comfy" ELSE "weights"
    BY <1>1, <2>2, <2>3, <2>4 DEF ProcessState
  <2> QED BY <1>1, <1>14, <2>1, <2>2, <2>4, <2>5 DEF PacksStaged
<1>15. CASE BundleRefused
  <2>1. disk' \in DiskState /\ disk'.pack = disk.pack
    BY <1>1, <1>15 DEF BundleRefused, DiskState
  <2>2. proc.job \in Jobs /\ proc.pc = "packs"
    BY <1>1, <1>15 DEF BundleRefused, ProcessState
  <2>3. /\ proc' \in ProcessState /\ SameIdentity(proc') /\ proc'.running = proc.running
        /\ proc'.pc = "failing"
    BY <1>1, <1>15, RaisedSound DEF BundleRefused
  <2> QED BY <1>1, <1>15, <2>1, <2>2, <2>3 DEF BundleRefused, SameIdentity, GitPackIsWhole
<1> QED
  BY NodeStep, <1>2, <1>3, <1>4, <1>5, <1>6, <1>7, <1>8, <1>9, <1>10, <1>11, <1>12, <1>13, <1>14, <1>15 DEF NodeStep

-----------------------------------------------------------------------------
(* Runner: weights *)

\* These steps leave the packs and the pending publication alone.
WeightMove ==
    /\ proc.pc = "weights"
    /\ proc' \in ProcessState /\ proc'.pc \in {"weights", "assets", "exit", "failing"}
    /\ UNCHANGED <<proc.job, proc.running, proc.pending, proc.pack, proc.nodesStaged, report, late, Coordinators>>
    /\ proc'.pc = "exit" => Booting
    /\ disk' \in DiskState /\ UNCHANGED disk.pack

LEMMA WeightsKept ==
    ASSUME RunnerInv, WeightMove, Publishes, RestoresSelected, Accident \/ UNCHANGED accidents
    PROVE  RunnerInv'
<1>1. StepsOfJobs'
  BY DEF RunnerInv, WeightMove, StepsOfJobs, Booting
<1>2. SameJob
  BY <1>1, Counted DEF WeightMove, SameJob, RunnerInv
<1>3. SoundDisk
  BY DEF RunnerInv, RunnerTypeOK, GitIsWhole, GitPackIsWhole, WeightMove, SoundDisk
<1> QED BY <1>2, <1>3, StagingMove DEF WeightMove

\* Weights appear on the disk.
LEMMA WeightsOnDisk ==
    ASSUME disk \in DiskState, NEW wanted \in SUBSET Digests
    PROVE  WithWeights(wanted) \in DiskState /\ WithWeights(wanted).pack = disk.pack
  BY DEF DiskState, WithWeights

\* Listing them publishes one manifest, or none.
LEMMA WeightsListed ==
    ASSUME RunnerInv, NEW wanted \in SUBSET Digests, NEW moved \in ProcessState, moved.own = proc.own,
           ListsWeights(wanted, moved)
    PROVE  /\ Publishes
           /\ proc' \in ProcessState
           /\ proc' = moved \/ \E m \in Manifest : proc' = [moved EXCEPT !.own = m]
<1> DEFINE listed == [Selected EXCEPT !.weights = @ \cup wanted]
<1>1. Selected \in Manifest /\ WholeManifest(Selected)
  BY SelectedSound DEF RunnerInv
<1>2. listed \in Manifest /\ WholeManifest(listed)
  BY <1>1 DEF Manifest, WholeManifest
<1>3. \/ volume' = volume /\ proc' = moved
      \/ volume' = Published(listed) /\ proc' = [moved EXCEPT !.own = listed]
  BY DEF ListsWeights
<1> HIDE DEF listed
<1>4. CASE volume' = volume /\ proc' = moved
  BY <1>4 DEF Publishes
<1>5. CASE volume' = Published(listed) /\ proc' = [moved EXCEPT !.own = listed]
  BY <1>2, <1>5 DEF Publishes, ProcessState
<1> QED BY <1>3, <1>4, <1>5

WeightStep ==
    \/ WeightsStaged \/ WeightsUnlisted \/ WeightsFailed \/ SnapshotRestored \/ SnapshotFetched
    \/ \E d \in Digests : FileRestored(d) \/ FileFetched(d)

LEMMA WeightSteps ==
    ASSUME RunnerInv, WeightStep
    PROVE  WeightMove /\ Publishes /\ RestoresSelected /\ (Accident \/ UNCHANGED accidents)
<1>1. disk \in DiskState /\ proc \in ProcessState /\ Selected \in Manifest
  BY SelectedSound DEF RunnerInv, RunnerTypeOK
<1>2. Pinned \subseteq Digests /\ Snapshot \subseteq Digests
  BY RunnerShape
<1>3. CASE WeightsStaged
  BY <1>1, <1>3 DEF WeightsStaged, WeightMove, Publishes, RestoresSelected, ProcessState, Steps
<1>4. CASE WeightsUnlisted
  <2>1. PICK wanted \in SUBSET Digests : disk' \in {disk, WithWeights(wanted)}
    BY <1>2, <1>4 DEF WeightsUnlisted
  <2>2. disk' \in DiskState /\ UNCHANGED disk.pack
    BY <1>1, <2>1, WeightsOnDisk
  <2> QED BY <1>1, <1>4, <2>2 DEF WeightsUnlisted, MissingFile, MissingSnapshot, WeightMove, Publishes,
                                  RestoresSelected, ProcessState, Steps
<1>5. CASE WeightsFailed
  <2>1. PICK wanted \in SUBSET Digests : disk' \in {disk, WithWeights(wanted)}
    BY <1>2, <1>5 DEF WeightsFailed
  <2>2. disk' \in DiskState /\ UNCHANGED disk.pack
    BY <1>1, <2>1, WeightsOnDisk
  <2> QED BY <1>1, <1>5, <2>2 DEF WeightsFailed, Raised, MissingFile, MissingSnapshot, WeightMove, Publishes,
                                  RestoresSelected, ProcessState, Steps, Booting
<1>6. CASE SnapshotRestored
  <2>1. disk' \in DiskState /\ UNCHANGED disk.pack
    BY <1>1, <1>2, <1>6, WeightsOnDisk DEF SnapshotRestored
  <2> QED BY <1>1, <1>2, <1>6, <2>1 DEF SnapshotRestored, MissingSnapshot, WeightMove, Publishes, RestoresSelected,
                                       ProcessState, Steps
<1>7. CASE SnapshotFetched
  <2> DEFINE moved == [proc EXCEPT !.snapshotDone = TRUE]
  <2>1. disk' \in DiskState /\ UNCHANGED disk.pack
    BY <1>1, <1>2, <1>7, WeightsOnDisk DEF SnapshotFetched
  <2>2. moved \in ProcessState /\ moved.own = proc.own
    BY <1>1 DEF ProcessState
  <2>3. /\ Publishes /\ proc' \in ProcessState
        /\ proc' = moved \/ \E m \in Manifest : proc' = [moved EXCEPT !.own = m]
    BY <1>2, <1>7, <2>2, WeightsListed DEF SnapshotFetched
  <2>4. UNCHANGED <<proc.pc, proc.job, proc.running, proc.pending, proc.pack, proc.nodesStaged, proc.fromCache>>
    BY <1>1, <2>3 DEF ProcessState
  <2> QED BY <1>7, <2>1, <2>3, <2>4 DEF SnapshotFetched, FromOrigin, MissingSnapshot, WeightMove, RestoresSelected
<1>8. ASSUME NEW d \in Digests, FileRestored(d)
      PROVE  WeightMove /\ Publishes /\ RestoresSelected /\ (Accident \/ UNCHANGED accidents)
  <2>1. disk' \in DiskState /\ UNCHANGED disk.pack
    BY <1>1, <1>8, WeightsOnDisk DEF FileRestored
  <2> QED BY <1>1, <1>8, <2>1 DEF FileRestored, MissingFile, WeightMove, Publishes, RestoresSelected, ProcessState, Steps
<1>9. ASSUME NEW d \in Digests, FileFetched(d)
      PROVE  WeightMove /\ Publishes /\ RestoresSelected /\ (Accident \/ UNCHANGED accidents)
  <2>1. disk' \in DiskState /\ UNCHANGED disk.pack
    BY <1>1, <1>9, WeightsOnDisk DEF FileFetched
  <2>2. /\ Publishes /\ proc' \in ProcessState
        /\ proc' = proc \/ \E m \in Manifest : proc' = [proc EXCEPT !.own = m]
    BY <1>1, <1>9, WeightsListed DEF FileFetched
  <2>3. UNCHANGED <<proc.pc, proc.job, proc.running, proc.pending, proc.pack, proc.nodesStaged, proc.fromCache>>
    BY <1>1, <2>2 DEF ProcessState
  <2> QED BY <1>9, <2>1, <2>2, <2>3 DEF FileFetched, FromOrigin, MissingFile, WeightMove, RestoresSelected
<1> QED BY <1>3, <1>4, <1>5, <1>6, <1>7, <1>8, <1>9 DEF WeightStep

-----------------------------------------------------------------------------
(* Runner: the declared file and the publication *)

LEMMA AssetOnDisk ==
    ASSUME disk \in DiskState, NEW d \in Digests \cup {None, Torn}, NEW link \in BOOLEAN
    PROVE  Holds(d, link) \in DiskState /\ Holds(d, link).pack = disk.pack /\ Holds(d, link).asset.has = d
  BY DEF DiskState, Holds

\* These steps publish no weights and leave the packs alone.
AssetMove ==
    /\ proc.pc \in {"assets", "fetch", "flush"}
    /\ proc' \in ProcessState /\ proc'.pc \in {"fetch", "flush", "ready", "failing"}
    /\ UNCHANGED <<proc.job, proc.running, proc.pack, proc.nodesStaged, proc.fromCache, report, late, Coordinators>>
    /\ WholeManifest(proc'.pending)
    /\ disk' \in DiskState /\ UNCHANGED disk.pack

LEMMA AssetsKept ==
    ASSUME RunnerInv, AssetMove, Publishes, Accident \/ UNCHANGED accidents,
           (Leased => StagedIsDeclared') /\ ListedOrPending'
    PROVE  RunnerInv'
<1>1. StepsOfJobs'
  BY DEF RunnerInv, AssetMove, StepsOfJobs, Booting
<1>2. SameJob
  BY <1>1, Counted DEF AssetMove, SameJob, RunnerInv
<1>3. SoundDisk
  BY DEF RunnerInv, RunnerTypeOK, GitIsWhole, GitPackIsWhole, AssetMove, SoundDisk
<1>4. RestoresSelected
  BY DEF AssetMove, RestoresSelected
<1> QED BY <1>2, <1>3, <1>4, StagingMove

\* The file is staged: it is listed already, or joins what waits for the flush.
LEMMA ReadyToFlush ==
    ASSUME proc \in ProcessState, NEW m \in Manifest, MayBeCached => Declared \in volume.shared \cup m.models,
           proc' = [proc EXCEPT !.pc = "flush", !.weightsStaged = TRUE, !.pending = m],
           UNCHANGED <<volume, setup>>
    PROVE  /\ proc' \in ProcessState /\ proc'.pc = "flush" /\ proc'.pending = m /\ ListedOrPending'
           /\ UNCHANGED <<proc.job, proc.running, proc.pack, proc.nodesStaged, proc.fromCache, proc.own>>
<1>1. /\ proc' \in ProcessState /\ proc'.pc = "flush" /\ proc'.pending = m
      /\ UNCHANGED <<proc.job, proc.running, proc.pack, proc.nodesStaged, proc.fromCache, proc.own>>
  BY DEF ProcessState, Steps
<1> QED BY <1>1 DEF ListedOrPending, MayBeCached, Declared

AssetStep ==
    \/ AssetRestored \/ AssetDenied \/ AssetPresent \/ AssetWanted \/ AssetFetched \/ AssetFailed
    \/ Flushed \/ FlushRefused

LEMMA AssetSteps ==
    ASSUME RunnerInv, AssetStep
    PROVE  /\ AssetMove /\ Publishes /\ (Accident \/ UNCHANGED accidents)
           /\ (Leased => StagedIsDeclared') /\ ListedOrPending'
<1> USE DEF AssetMove, StagedIsDeclared, ListedOrPending
<1>1. /\ disk \in DiskState /\ proc \in ProcessState /\ WholeManifest(proc.pending) /\ proc.pending \in Manifest
      /\ Selected \in Manifest /\ WholeManifest(Selected) /\ Listed(Selected) \subseteq volume.shared
  BY SelectedSound DEF RunnerInv, RunnerTypeOK, GitIsWhole, ProcessState
<1>2. proc.pc \in {"assets", "fetch", "flush"} => proc.job \in Jobs /\ Declared \in Digests /\ ~Booting
  BY RunnerShape DEF RunnerInv, StepsOfJobs, Declared, Booting
<1>3. ASSUME NEW d \in Digests
      PROVE  /\ WithModel(d) \in Manifest /\ WholeManifest(WithModel(d))
             /\ setup.cache /\ d \notin Uncached => d \in WithModel(d).models
  BY PendingGrows DEF RunnerInv
<1>4. CASE AssetRestored
  <2>1. disk' \in DiskState /\ UNCHANGED disk.pack /\ disk'.asset.has = Declared
    BY <1>1, <1>2, <1>4, AssetOnDisk DEF AssetRestored
  <2> DEFINE m == IF Declared \in Listed(Selected) THEN proc.pending ELSE WithModel(Declared)
  <2>2. m \in Manifest /\ WholeManifest(m) /\ (MayBeCached => Declared \in volume.shared \cup m.models)
    BY <1>1, <1>2, <1>3, <1>4 DEF AssetRestored, MayBeCached
  <2>3. proc' = [proc EXCEPT !.pc = "flush", !.weightsStaged = TRUE, !.pending = m]
    BY <1>1, <1>4 DEF AssetRestored, ProcessState
  <2> HIDE DEF m
  <2> QED BY <1>1, <1>4, <2>1, <2>2, <2>3, ReadyToFlush DEF AssetRestored, Publishes, Coordinators, Declared
<1>5. CASE AssetDenied
  BY <1>1, <1>2, <1>5 DEF AssetDenied, Raised, Publishes, ProcessState, Steps
<1>6. CASE AssetPresent
  <2> DEFINE m == PresentIsListed(Declared)
  <2>2. m \in Manifest /\ WholeManifest(m) /\ (MayBeCached => Declared \in volume.shared \cup m.models)
    BY <1>1, <1>2, <1>3, <1>6 DEF AssetPresent, PresentIsListed, MayBeCached
  <2>3. proc' = [proc EXCEPT !.pc = "flush", !.weightsStaged = TRUE, !.pending = m]
    BY <1>6 DEF AssetPresent
  <2> HIDE DEF m
  <2> QED BY <1>1, <1>6, <2>2, <2>3, ReadyToFlush DEF AssetPresent, NoRestore, Publishes, Coordinators, Declared
<1>7. CASE AssetWanted
  <2>1. disk' \in DiskState /\ UNCHANGED disk.pack
    BY <1>1, <1>7, AssetOnDisk DEF AssetWanted
  <2> QED BY <1>1, <1>2, <1>7, <2>1 DEF AssetWanted, NoRestore, Publishes, ProcessState, Steps
<1>8. CASE AssetFetched
  <2>1. disk' \in DiskState /\ UNCHANGED disk.pack /\ disk'.asset.has = Declared
    BY <1>1, <1>2, <1>8, AssetOnDisk DEF AssetFetched
  <2> DEFINE m == WithModel(Declared)
  <2>2. m \in Manifest /\ WholeManifest(m) /\ (MayBeCached => Declared \in volume.shared \cup m.models)
    BY <1>2, <1>3, <1>8 DEF AssetFetched, MayBeCached
  <2>3. proc' = [proc EXCEPT !.pc = "flush", !.weightsStaged = TRUE, !.pending = m]
    BY <1>8 DEF AssetFetched
  <2> HIDE DEF m
  <2> QED BY <1>1, <1>8, <2>1, <2>2, <2>3, ReadyToFlush DEF AssetFetched, Publishes, Coordinators, Declared
<1>9. CASE AssetFailed
  <2>1. disk' \in DiskState /\ UNCHANGED disk.pack
    BY <1>1, <1>2, <1>9, AssetOnDisk DEF AssetFailed
  <2> QED BY <1>1, <1>2, <1>9, <2>1 DEF AssetFailed, Raised, Publishes, ProcessState, Steps
<1>10. CASE Flushed
  <2>1. CASE proc.pending = Nothing
    <3>1. proc' = [proc EXCEPT !.pc = "ready"] /\ "ready" \in Steps
      BY <1>10, <2>1 DEF Flushed, Steps
    <3>2. /\ proc' \in ProcessState /\ SameIdentity(proc') /\ proc'.pc = "ready"
          /\ proc'.running = proc.running
      BY <1>1, <3>1, PlaceSet
    <3>3. /\ proc.pc = "flush" /\ Declared' = Declared /\ MayBeCached' = MayBeCached
          /\ UNCHANGED <<volume, disk, report, late, accidents, Coordinators>>
      BY <1>10, <2>1, <3>2 DEF Flushed, Declared, MayBeCached, Coordinators, SameIdentity
    <3>4. proc.pending.models = {}
      BY <2>1 DEF Nothing
    <3>5. (Leased => StagedIsDeclared') /\ ListedOrPending'
      BY <3>2, <3>3, <3>4 DEF RunnerInv
    <3>6. AssetMove
      BY <1>1, <3>2, <3>3 DEF SameIdentity
    <3> QED BY <3>2, <3>3, <3>5, <3>6 DEF Publishes, SameIdentity
  <2>2. CASE proc.pending # Nothing
    <3> DEFINE m == Merged(Selected, proc.pending)
    <3>1. m \in Manifest /\ WholeManifest(m) /\ proc.pending.models \subseteq Listed(m)
      BY <1>1, MergedSound
    <3>2. volume' = Published(m) /\ proc' = [proc EXCEPT !.pc = "ready", !.own = m, !.pending = Nothing]
      BY <1>10, <2>2 DEF Flushed
    <3> HIDE DEF m
    <3>3. volume'.shared = volume.shared \cup Listed(m)
      BY <3>2 DEF Published
    <3> QED BY <1>1, <1>10, <3>1, <3>2, <3>3, EmptyManifest
               DEF Flushed, RunnerInv, Publishes, ProcessState, Steps, Declared, MayBeCached, Coordinators
  <2> QED BY <2>1, <2>2
<1>11. CASE FlushRefused
  BY <1>1, <1>2, <1>11 DEF FlushRefused, Raised, Publishes, ProcessState, Steps
<1> QED BY <1>4, <1>5, <1>6, <1>7, <1>8, <1>9, <1>10, <1>11 DEF AssetStep

\* Another runner publishes: nothing of this one changes but what it may select.
LEMMA OthersKept == ASSUME RunnerInv, OtherPublishes PROVE RunnerInv'
<1>1. /\ volume' = Published(Foreign) /\ Foreign \in Manifest /\ WholeManifest(Foreign)
      /\ UNCHANGED <<disk, report, proc, late, jobs, lease, setup>>
  BY OthersManifests DEF OtherPublishes, Coordinators, WholeManifest
<1>2. volume'.latest = Foreign /\ volume'.shared = volume.shared \cup Listed(Foreign)
  BY <1>1 DEF Published
<1>3. accidents' \in 0..MaxAccidents
  BY Counted DEF OtherPublishes, RunnerInv
<1>4. RunnerTypeOK'
  BY <1>1, <1>2, <1>3, ListedDigests DEF RunnerInv, RunnerTypeOK
<1> QED BY <1>1, <1>2, <1>4
           DEF RunnerInv, QueuedRowsMayRun, StepsOfJobs, PlacedIsCached, LateOnlyAtTheEnd, StagedIsDeclared,
               ManifestsAreShared, ListedOrPending, MayBeCached, GitIsWhole, GitPackIsWhole, WholeManifest,
               PlacementIsAuthoritative, Booting, Declared

LEMMA StagingSteps == ASSUME RunnerInv, StagingStep PROVE RunnerInv'
<1>1. CASE NodeStep
  BY <1>1, NodeSteps, NodeKept
<1>2. CASE WeightStep
  BY <1>2, WeightSteps, WeightsKept
<1>3. CASE AssetStep
  BY <1>3, AssetSteps, AssetsKept
<1>4. CASE OtherPublishes
  BY <1>4, OthersKept
<1> QED BY <1>1, <1>2, <1>3, <1>4 DEF StagingStep, WeightStep, AssetStep

-----------------------------------------------------------------------------
(* Runner: the container *)

\* What a step of the loop leaves alone when it is no step of staging.
LoopFrame == UNCHANGED <<report, volume, setup>>

\* A process that starts, or ends, has nothing staged and nothing published.
LEMMA FreshProcess ==
    ASSUME NEW pc \in Steps
    PROVE  /\ Fresh(pc) \in ProcessState
           /\ Fresh(pc).pc = pc /\ Fresh(pc).job = NoJob /\ ~Fresh(pc).nodesStaged
           /\ Fresh(pc).own = Nothing /\ Fresh(pc).pending = Nothing /\ Fresh(pc).fromCache = {}
  BY EmptyManifest DEF Fresh, ProcessState

LEMMA FreshKept ==
    ASSUME RunnerInv, NEW pc \in {"boot", "loop"}, proc' = Fresh(pc), late' = None \/ (late' = late /\ proc.pc = "comfy"),
           disk' \in DiskState, GitPackIsWhole', LoopFrame, UNCHANGED <<jobs, lease>>, Accident \/ UNCHANGED accidents
    PROVE  RunnerInv'
<1>1. /\ proc' \in ProcessState /\ proc'.pc = pc /\ proc'.job = NoJob /\ ~proc'.nodesStaged
      /\ proc'.own = Nothing /\ proc'.pending = Nothing /\ proc'.fromCache = {}
  BY FreshProcess DEF Steps
<1>2. RunnerTypeOK'
  BY <1>1, Counted DEF RunnerInv, RunnerTypeOK, LoopFrame
<1>3. Leased => LateOnlyAtTheEnd' /\ StagedIsDeclared'
  BY <1>1 DEF RunnerInv, LateOnlyAtTheEnd, StagedIsDeclared
<1>4. ManifestsAreShared' /\ ListedOrPending' /\ GitIsWhole' /\ PlacementIsAuthoritative'
  BY <1>1, EmptyManifest
     DEF RunnerInv, LoopFrame, ManifestsAreShared, ListedOrPending, GitIsWhole, PlacementIsAuthoritative, WholeManifest
<1> QED BY <1>1, <1>2, <1>3, <1>4
           DEF RunnerInv, LoopFrame, QueuedRowsMayRun, StepsOfJobs, PlacedIsCached, Booting

\* What a process killed at this step leaves is whole where it came from git.
LEMMA DeathIsClean ==
    ASSUME RunnerInv, NEW after \in AfterDeath
    PROVE  after \in DiskState /\ \A p \in GitPacks : after.pack[p] # "partial"
<1>1. disk \in DiskState /\ GitPackIsWhole /\ (proc.pc = "install" => proc.pack \in Packs)
  BY DEF RunnerInv, RunnerTypeOK, GitIsWhole, StepsOfJobs
<1>2. CASE after = disk
  BY <1>1, <1>2 DEF GitPackIsWhole
<1>3. ASSUME proc.pc = "install", NEW left \in HalfInstalled(proc.pack), after = [disk EXCEPT !.pack[proc.pack] = left]
      PROVE  after \in DiskState /\ \A p \in GitPacks : after.pack[p] # "partial"
  <2>1. left \in PackStates /\ (proc.pack \in GitPacks => left # "partial")
    BY DEF HalfInstalled, PackStates
  <2> QED BY <1>1, <1>3, <2>1, PackSet DEF GitPackIsWhole
<1>4. CASE after = Holds(Torn, FALSE)
  BY <1>1, <1>4, AssetOnDisk DEF GitPackIsWhole
<1> QED BY <1>2, <1>3, <1>4 DEF AfterDeath

-----------------------------------------------------------------------------
(* Runner: the loop *)

\* A step of the loop publishes and restores nothing; what is pending stays or
\* is forgotten.
LoopMove ==
    /\ proc' \in ProcessState /\ UNCHANGED <<proc.own, proc.fromCache, volume, setup>>
    /\ proc'.pending \in {proc.pending, Nothing}
    /\ report' \in {report, NoReport}
    /\ accidents' \in 0..MaxAccidents

SoundRows == jobs' \in [Jobs -> JobRow] /\ QueuedRowsMayRun' /\ lease' \in LeaseRow

LEMMA LoopKept ==
    ASSUME RunnerInv, LoopMove, SoundRows, disk' \in DiskState, GitPackIsWhole', late' \in Digests \cup {None},
           StepsOfJobs', Leased => LateOnlyAtTheEnd' /\ StagedIsDeclared', ListedOrPending'
    PROVE  RunnerInv'
<1>1. RunnerTypeOK'
  BY EmptyManifest DEF RunnerInv, RunnerTypeOK, LoopMove, SoundRows, NoReport
<1>2. ManifestsAreShared' /\ GitIsWhole' /\ PlacementIsAuthoritative' /\ PlacedIsCached'
  BY EmptyManifest
     DEF RunnerInv, LoopMove, ManifestsAreShared, GitIsWhole, PlacementIsAuthoritative, PlacedIsCached, WholeManifest
<1> QED BY <1>1, <1>2 DEF RunnerInv, SoundRows

LEMMA RowsKept ==
    ASSUME RunnerInv, UNCHANGED <<jobs, lease>>
    PROVE  SoundRows
  BY DEF RunnerInv, RunnerTypeOK, QueuedRowsMayRun, SoundRows

\* One row takes a verdict.
LEMMA VerdictSound ==
    ASSUME RunnerInv, NEW j \in Jobs, NEW s \in JobStatus \ {"queued"}, jobs' = Verdict(j, s), lease' \in LeaseRow
    PROVE  SoundRows
<1>1. jobs[j] \in JobRow /\ (jobs[j].status = "queued" => jobs[j].attempts < MaxAttempts)
  BY DEF RunnerInv, RunnerTypeOK, QueuedRowsMayRun
<1>2. WithStatus(jobs[j], s) \in JobRow
  BY <1>1, RowMoves
<1>3. WithStatus(jobs[j], s).status = "queued" => WithStatus(jobs[j], s).attempts < MaxAttempts
  BY <1>1, RowMoves
<1>4. jobs' = [jobs EXCEPT ![j] = WithStatus(jobs[j], s)] /\ jobs \in [Jobs -> JobRow]
  BY DEF RunnerInv, RunnerTypeOK, Verdict
<1> QED BY <1>2, <1>3, <1>4 DEF RunnerInv, QueuedRowsMayRun, SoundRows

LEMMA ContainerSteps ==
    ASSUME RunnerInv, ComfyReady \/ ComfyDied \/ Restarted \/ Signalled \/ LateWrite
    PROVE  RunnerInv'
<1>1. disk \in DiskState /\ GitPackIsWhole /\ proc \in ProcessState /\ late \in Digests \cup {None}
  BY DEF RunnerInv, RunnerTypeOK, GitIsWhole
<1>2. CASE ComfyReady
  BY <1>1, <1>2, FreshKept DEF ComfyReady, DiskAndVolume, LoopFrame, GitPackIsWhole
<1>3. CASE ComfyDied
  <2>1. LoopMove /\ proc' = [proc EXCEPT !.pc = "exit"]
    BY <1>1, <1>3, Counted DEF ComfyDied, DiskAndVolume, LoopMove, RunnerInv, ProcessState, Steps
  <2> QED BY <1>1, <1>3, <2>1, LoopKept, RowsKept
             DEF ComfyDied, DiskAndVolume, RunnerInv, GitPackIsWhole, StepsOfJobs, LateOnlyAtTheEnd, StagedIsDeclared,
                 ListedOrPending, ProcessState
<1>4. CASE Restarted
  <2>1. disk' \in DiskState /\ GitPackIsWhole'
    BY <1>4, DeathIsClean DEF Restarted, GitPackIsWhole
  <2> QED BY <1>4, <2>1, FreshKept DEF Restarted, LoopFrame
<1>5. CASE Signalled
  <2>1. LoopMove /\ proc' = [proc EXCEPT !.running = FALSE]
    BY <1>1, <1>5, Counted DEF Signalled, DiskAndVolume, LoopMove, RunnerInv, ProcessState, Steps
  <2> QED BY <1>1, <1>5, <2>1, LoopKept, RowsKept
             DEF Signalled, DiskAndVolume, RunnerInv, GitPackIsWhole, StepsOfJobs, LateOnlyAtTheEnd, StagedIsDeclared,
                 ListedOrPending, ProcessState, Booting, Declared, MayBeCached
<1>6. CASE LateWrite
  <2>1. PICK d \in Digests \cup {None, Torn} : disk' = Holds(d, FALSE)
    BY <1>1, <1>6 DEF LateWrite
  <2>2. disk' \in DiskState /\ GitPackIsWhole'
    BY <1>1, <2>1, AssetOnDisk DEF GitPackIsWhole
  <2>3. LoopMove
    BY <1>1, <1>6, Counted DEF LateWrite, LoopMove, RunnerInv
  <2> QED BY <1>1, <1>6, <2>2, <2>3, LoopKept, RowsKept
             DEF LateWrite, RunnerInv, StepsOfJobs, LateOnlyAtTheEnd, StagedIsDeclared, ListedOrPending, Booting,
                 Declared, MayBeCached
<1> QED BY <1>2, <1>3, <1>4, <1>5, <1>6

LEMMA BatchSteps ==
    ASSUME RunnerInv, Claim \/ Stops \/ BatchLeft \/ \E j \in Jobs : Skips(j) \/ Begins(j)
    PROVE  RunnerInv'
<1>1. proc \in ProcessState /\ jobs \in [Jobs -> JobRow] /\ lease \in LeaseRow
  BY DEF RunnerInv, RunnerTypeOK
<1> USE DEF RunnerInv, StepsOfJobs, LateOnlyAtTheEnd, StagedIsDeclared, ListedOrPending, Booting
<1>2. CASE Claim
  <2>1. PICK claimed \in SUBSET {j \in Jobs : jobs[j].status = "queued"} :
            /\ jobs' = [j \in Jobs |-> IF j \in claimed THEN ClaimedRow(jobs[j], Me) ELSE jobs[j]]
            /\ proc' = [proc EXCEPT !.pc = "next", !.batch = claimed]
    BY <1>2 DEF Claim
  <2>2. ASSUME NEW j \in Jobs PROVE jobs'[j] \in JobRow /\ (jobs'[j].status = "queued" => jobs'[j].attempts < MaxAttempts)
    BY <1>1, <2>1, RowMoves, RunnerShape DEF QueuedRowsMayRun
  <2>3. SoundRows
    BY <1>1, <1>2, <2>1, <2>2 DEF Claim, SoundRows, QueuedRowsMayRun
  <2>4. LoopMove /\ proc'.pc = "next" /\ UNCHANGED <<proc.job, proc.running>>
    BY <1>1, <1>2, <2>1, Counted DEF Claim, DiskAndVolume, LoopMove, ProcessState, Steps
  <2> QED BY <1>2, <2>3, <2>4, LoopKept DEF Claim, DiskAndVolume, RunnerTypeOK, GitIsWhole, GitPackIsWhole
<1>3. CASE Stops
  <2>1. LoopMove /\ proc'.pc = "exit" /\ UNCHANGED <<proc.job, proc.running>>
    BY <1>1, <1>3, Counted DEF Stops, DiskAndVolume, LoopMove, ProcessState, Steps
  <2> QED BY <1>3, <2>1, LoopKept, RowsKept DEF Stops, DiskAndVolume, RunnerTypeOK, GitIsWhole, GitPackIsWhole
<1>4. CASE BatchLeft
  <2>1. LoopMove /\ proc'.pc = "loop" /\ UNCHANGED <<proc.job, proc.running>>
    BY <1>1, <1>4, Counted DEF BatchLeft, DiskAndVolume, LoopMove, ProcessState, Steps
  <2> QED BY <1>4, <2>1, LoopKept, RowsKept DEF BatchLeft, DiskAndVolume, RunnerTypeOK, GitIsWhole, GitPackIsWhole
<1>5. ASSUME NEW j \in Jobs, Skips(j) PROVE RunnerInv'
  <2>1. LoopMove /\ proc'.pc = "next" /\ UNCHANGED <<proc.job, proc.running>>
    BY <1>1, <1>5, Counted DEF Skips, DiskAndVolume, LoopMove, ProcessState, Steps
  <2> QED BY <1>5, <2>1, LoopKept, RowsKept DEF Skips, DiskAndVolume, RunnerTypeOK, GitIsWhole, GitPackIsWhole
<1>6. ASSUME NEW j \in Jobs, Begins(j) PROVE RunnerInv'
  <2> DEFINE known == IF setup.cache /\ report.of = Selected THEN proc.restored \cup report.keys ELSE proc.restored
  <2>1. known \in SUBSET (Packs \cup {Env}) /\ accidents' \in 0..MaxAccidents
    BY <1>1, <1>6, Counted DEF Begins, ProcessState, RunnerTypeOK
  <2>2. proc' = [proc EXCEPT !.pc = "env", !.job = j, !.batch = @ \ {j}, !.pending = Nothing, !.restored = known]
    BY <1>1, <1>6 DEF Begins, ProcessState
  <2> HIDE DEF known
  <2>3. proc' \in ProcessState
    BY <1>1, <2>1, <2>2, EmptyManifest DEF ProcessState, Steps
  <2>4. /\ UNCHANGED <<proc.own, proc.fromCache>> /\ proc'.pending = Nothing
        /\ proc'.pc = "env" /\ proc'.job = j /\ proc.running
    BY <1>1, <1>6, <2>2 DEF Begins, ProcessState
  <2>5. LoopMove
    BY <1>6, <2>1, <2>3, <2>4 DEF Begins, LoopMove
  <2>6. Leased => late = None
    BY <1>6 DEF Begins
  <2>7. SoundRows /\ disk' \in DiskState /\ GitPackIsWhole' /\ late' \in Digests \cup {None}
    BY <1>6, RowsKept DEF Begins, RunnerTypeOK, GitIsWhole, GitPackIsWhole
  <2>8. proc.pc = "next" /\ UNCHANGED <<late, setup>> /\ ~(Booting')
    BY <1>6, <2>4, RunnerShape DEF Begins
  <2>9. StepsOfJobs' /\ (Leased => LateOnlyAtTheEnd' /\ StagedIsDeclared') /\ ListedOrPending'
    BY <2>4, <2>6, <2>8
  <2> QED BY <2>5, <2>7, <2>9, LoopKept
<1> QED BY <1>2, <1>3, <1>4, <1>5, <1>6

LEMMA CancellationSteps ==
    ASSUME RunnerInv, CancelSeen \/ DownloadAbandoned \/ ExecutionInterrupted
    PROVE  RunnerInv'
<1>1. proc \in ProcessState /\ disk \in DiskState
  BY DEF RunnerInv, RunnerTypeOK
<1> USE DEF RunnerInv, StepsOfJobs, LateOnlyAtTheEnd, StagedIsDeclared, ListedOrPending, Booting
<1>2. CASE CancelSeen
  <2>1. LoopMove /\ proc'.pc = "failing" /\ UNCHANGED proc.job /\ (proc'.running => proc.running)
    <3>1. "failing" \in Steps /\ StillRunning \in BOOLEAN /\ accidents' \in 0..MaxAccidents
      BY <1>2, Counted DEF Steps, StillRunning, CancelSeen
    <3>2. proc' = [proc EXCEPT !.pc = "failing", !.running = StillRunning]
      BY <1>2 DEF CancelSeen
    <3>3. /\ proc' \in ProcessState /\ SameIdentity(proc') /\ proc'.pc = "failing"
          /\ proc'.running = StillRunning
      BY <1>1, <3>1, <3>2, PlaceSet
    <3> QED BY <1>2, <3>1, <3>3 DEF CancelSeen, StillRunning, DiskAndVolume, LoopMove, SameIdentity
  <2> QED BY <1>2, <2>1, LoopKept, RowsKept, RunnerShape DEF CancelSeen, DiskAndVolume, RunnerTypeOK, GitIsWhole, GitPackIsWhole
<1>3. CASE DownloadAbandoned
  <2>1. LoopMove /\ proc'.pc = "failing" /\ UNCHANGED proc.job /\ (Leased => ~proc'.running)
    <3>1. "failing" \in Steps /\ StillRunning \in BOOLEAN /\ accidents' \in 0..MaxAccidents
      BY <1>3, Counted DEF Steps, StillRunning, DownloadAbandoned
    <3>2. proc' = [proc EXCEPT !.pc = "failing", !.running = StillRunning]
      BY <1>3 DEF DownloadAbandoned
    <3>3. /\ proc' \in ProcessState /\ SameIdentity(proc') /\ proc'.pc = "failing"
          /\ proc'.running = StillRunning
      BY <1>1, <3>1, <3>2, PlaceSet
    <3> QED BY <1>3, <3>1, <3>3 DEF DownloadAbandoned, StillRunning, LoopMove, SameIdentity
  <2>2. disk' \in DiskState /\ GitPackIsWhole'
    <3>1. Holds(Torn, FALSE) \in DiskState /\ Holds(Torn, FALSE).pack = disk.pack
      BY <1>1, AssetOnDisk
    <3> QED BY <1>1, <1>3, <3>1 DEF DownloadAbandoned, GitIsWhole, GitPackIsWhole
  <2>3. late' \in Digests
    BY <1>3, RunnerShape DEF DownloadAbandoned, Declared
  <2> QED BY <1>3, <2>1, <2>2, <2>3, LoopKept, RowsKept, RunnerShape DEF DownloadAbandoned
<1>4. CASE ExecutionInterrupted
  <2>1. LoopMove /\ proc'.pc = "failing" /\ UNCHANGED <<proc.job, proc.running>>
    BY <1>1, <1>4, Counted DEF ExecutionInterrupted, DiskAndVolume, LoopMove, ProcessState, Steps
  <2> QED BY <1>4, <2>1, LoopKept, RowsKept, RunnerShape
             DEF ExecutionInterrupted, DiskAndVolume, RunnerTypeOK, GitIsWhole, GitPackIsWhole
<1> QED BY <1>2, <1>3, <1>4

LEMMA ExecutionSteps ==
    ASSUME RunnerInv, MarksRunning \/ Executed \/ ExecutionFailed \/ Completes \/ Fails
    PROVE  RunnerInv'
<1>1. /\ proc \in ProcessState /\ disk \in DiskState /\ GitPackIsWhole /\ late \in Digests \cup {None}
      /\ lease \in LeaseRow /\ jobs \in [Jobs -> JobRow] /\ accidents \in 0..MaxAccidents
  BY DEF RunnerInv, RunnerTypeOK, GitIsWhole
<1>2. /\ proc.pc \in {"ready", "executing", "uploading", "failing"} => proc.job \in Jobs
      /\ Leased => LateOnlyAtTheEnd /\ StagedIsDeclared
      /\ ListedOrPending /\ StepsOfJobs
  BY DEF RunnerInv, StepsOfJobs
<1> USE RunnerShape DEF StepsOfJobs, LateOnlyAtTheEnd, StagedIsDeclared, ListedOrPending, Booting, Declared, MayBeCached,
                        DiskAndVolume
<1>3. CASE MarksRunning
  <2>1. SoundRows
    BY <1>1, <1>2, <1>3, RowsKept, VerdictSound DEF MarksRunning, JobStatus
  <2>2. LoopMove /\ proc'.pc \in {"executing", "failing"} /\ UNCHANGED <<proc.job, proc.running>>
    BY <1>1, <1>3 DEF MarksRunning, LoopMove, ProcessState, Steps
  <2> QED BY <1>1, <1>2, <1>3, <2>1, <2>2, LoopKept DEF MarksRunning, GitPackIsWhole
<1>4. CASE Executed
  <2>1. LoopMove /\ proc'.pc = "uploading" /\ UNCHANGED <<proc.job, proc.running>>
    BY <1>1, <1>4 DEF Executed, LoopMove, ProcessState, Steps
  <2> QED BY <1>1, <1>2, <1>4, <2>1, LoopKept, RowsKept DEF Executed, GitPackIsWhole
<1>5. CASE ExecutionFailed
  <2>1. LoopMove /\ proc'.pc = "failing" /\ UNCHANGED <<proc.job, proc.running>>
    BY <1>1, <1>5, Counted DEF ExecutionFailed, LoopMove, ProcessState, Steps, RunnerInv
  <2> QED BY <1>1, <1>2, <1>5, <2>1, LoopKept, RowsKept DEF ExecutionFailed, GitPackIsWhole
<1>6. CASE Completes
  <2>1. SoundRows
    BY <1>1, <1>2, <1>6, RowsKept, VerdictSound DEF Completes, JobStatus
  <2>2. /\ LoopMove
        /\ proc'.running => proc.running
        /\ \/ proc'.pc = "next" /\ proc'.job = NoJob
           \/ proc'.pc = "failing" /\ proc'.job = proc.job
    <3>1. ASSUME NEW more \in {proc.running, FALSE}, proc' = [proc EXCEPT !.pc = "next", !.job = NoJob, !.running = more]
          PROVE  /\ proc' \in ProcessState /\ proc'.pc = "next" /\ proc'.job = NoJob /\ (proc'.running => proc.running)
                 /\ UNCHANGED <<proc.own, proc.fromCache, proc.pending>>
      <4>1. more \in BOOLEAN /\ (more => proc.running)
        BY <1>1, <3>1 DEF ProcessState
      <4> QED BY <1>1, <3>1, <4>1 DEF ProcessState, Steps
    <3>2. CASE proc' = [proc EXCEPT !.pc = "failing"]
      BY <1>1, <1>6, <3>2 DEF Completes, LoopMove, ProcessState, Steps
    <3> QED BY <1>1, <1>6, <3>1, <3>2 DEF Completes, LoopMove
  <2> QED BY <1>1, <1>2, <1>6, <2>1, <2>2, LoopKept DEF Completes, GitPackIsWhole
<1>7. CASE Fails
  <2>1. SoundRows
    <3>1. CASE UNCHANGED jobs
      BY <1>7, <3>1, RowsKept DEF Fails
    <3>2. CASE jobs' = [jobs EXCEPT ![proc.job] = FailedRow(@)]
      <4>1. jobs[proc.job] \in JobRow /\ (jobs[proc.job].status = "queued" => jobs[proc.job].attempts < MaxAttempts)
        BY <1>1, <1>2, <1>7 DEF Fails, RunnerInv, QueuedRowsMayRun
      <4>2. /\ FailedRow(jobs[proc.job]) \in JobRow
            /\ FailedRow(jobs[proc.job]).status = "queued" => FailedRow(jobs[proc.job]).attempts < MaxAttempts
        BY <4>1, RowMoves
      <4> QED BY <1>1, <1>7, <3>2, <4>2 DEF Fails, RunnerInv, QueuedRowsMayRun, SoundRows
    <3> QED BY <1>7, <3>1, <3>2 DEF Fails
  <2>2. \/ proc' = [proc EXCEPT !.pc = "next", !.job = NoJob]
        \/ proc' = [proc EXCEPT !.pc = "loop", !.job = NoJob, !.batch = {}]
    BY <1>7 DEF Fails
  <2>3. /\ proc' \in ProcessState /\ proc'.pc \in {"next", "loop"} /\ proc'.job = NoJob
        /\ UNCHANGED <<proc.running, proc.own, proc.fromCache, proc.pending>>
    <3>1. CASE proc' = [proc EXCEPT !.pc = "next", !.job = NoJob]
      BY <1>1, <3>1 DEF ProcessState, Steps
    <3>2. CASE proc' = [proc EXCEPT !.pc = "loop", !.job = NoJob, !.batch = {}]
      BY <1>1, <3>2 DEF ProcessState, Steps
    <3> QED BY <2>2, <3>1, <3>2
  <2>4. LoopMove
    BY <1>1, <1>7, <2>3 DEF Fails, LoopMove
  <2> QED BY <1>1, <1>2, <1>7, <2>1, <2>3, <2>4, LoopKept DEF Fails, GitPackIsWhole
<1> QED BY <1>3, <1>4, <1>5, <1>6, <1>7

LEMMA CoordinatorSteps ==
    ASSUME RunnerInv, LeaseCloses \/ \E j \in Jobs : Cancels(j)
    PROVE  RunnerInv'
<1>1. UNCHANGED <<disk, report, volume, setup, proc, late, accidents>>
  BY DEF LeaseCloses, Cancels, DiskAndVolume
<1>2. SoundRows
  <2>1. CASE LeaseCloses
    BY <2>1, LeaseMoves DEF LeaseCloses, RunnerInv, RunnerTypeOK, QueuedRowsMayRun, SoundRows
  <2>2. ASSUME NEW j \in Jobs, Cancels(j) PROVE SoundRows
    <3>1. lease' \in LeaseRow
      BY <2>2, LeaseMoves DEF Cancels, RunnerInv, RunnerTypeOK
    <3> QED BY <2>2, <3>1, VerdictSound DEF Cancels, JobStatus
  <2> QED BY <2>1, <2>2
<1>3. LoopMove
  BY <1>1 DEF LoopMove, RunnerInv, RunnerTypeOK
<1> QED BY <1>1, <1>2, <1>3, LoopKept
           DEF RunnerInv, RunnerTypeOK, GitIsWhole, GitPackIsWhole, StepsOfJobs, LateOnlyAtTheEnd, StagedIsDeclared,
               ListedOrPending, Booting, Declared, MayBeCached

-----------------------------------------------------------------------------
(* Runner: the theorems *)

LEMMA RunnerStart == RunnerInit => RunnerInv
<1> SUFFICES ASSUME RunnerInit PROVE RunnerInv
  OBVIOUS
<1>1. disk \in DiskState /\ GitPackIsWhole
  BY RunnerShape DEF RunnerInit, StagingInit, DiskState, PackStates, GitPackIsWhole
<1>2. /\ proc \in ProcessState /\ proc.pc = "boot" /\ proc.job = NoJob /\ ~proc.nodesStaged
      /\ proc.own = Nothing /\ proc.pending = Nothing /\ proc.fromCache = {}
  BY FreshProcess DEF RunnerInit, StagingInit, Steps
<1>3. /\ volume.latest \in Manifest /\ WholeManifest(volume.latest) /\ volume.shared = Listed(volume.latest)
      /\ setup.placed => volume.latest = Placed
  BY EmptyManifest, OthersManifests DEF RunnerInit, StagingInit, WholeManifest
<1>4. jobs \in [Jobs -> JobRow] /\ QueuedRowsMayRun /\ lease \in LeaseRow
  BY NewRows, BoundAtStart DEF RunnerInit, QueuedRowsMayRun
<1>5. setup \in [cache : BOOLEAN, deny : BOOLEAN, placed : BOOLEAN] /\ PlacedIsCached
  BY DEF RunnerInit, StagingInit, PlacedIsCached
<1>6. RunnerTypeOK
  BY <1>1, <1>2, <1>3, <1>4, <1>5, EmptyManifest, ListedDigests, RunnerShape
     DEF RunnerInit, StagingInit, RunnerTypeOK, NoReport
<1>7. ManifestsAreShared /\ GitIsWhole /\ PlacementIsAuthoritative
  BY <1>1, <1>2, <1>3, EmptyManifest DEF ManifestsAreShared, GitIsWhole, PlacementIsAuthoritative
<1> QED BY <1>2, <1>4, <1>5, <1>6, <1>7
           DEF RunnerInv, RunnerInit, StagingInit, StepsOfJobs, LateOnlyAtTheEnd, StagedIsDeclared, ListedOrPending, Booting

LEMMA RunnerStep == ASSUME RunnerInv, [RunnerNext]_runnerVars PROVE RunnerInv'
<1>1. CASE StagingStep
  BY <1>1, StagingSteps
<1>2. CASE LoopStep
  BY <1>2, ContainerSteps, BatchSteps, CancellationSteps, ExecutionSteps, CoordinatorSteps DEF LoopStep
<1>3. CASE UNCHANGED runnerVars
  BY <1>3 DEF runnerVars, RunnerInv, RunnerTypeOK, QueuedRowsMayRun, StepsOfJobs, PlacedIsCached, LateOnlyAtTheEnd,
              StagedIsDeclared, ManifestsAreShared, ListedOrPending, MayBeCached, GitIsWhole, GitPackIsWhole,
              WholeManifest, PlacementIsAuthoritative, Booting, Declared
<1> QED BY <1>1, <1>2, <1>3 DEF RunnerNext

\* The invariant of the runner (cloud_offload/worker.py).
THEOREM RunnerInvariant == RunnerSpec => []RunnerInv
<1> QED BY RunnerStart, RunnerStep, PTL DEF RunnerSpec

\* A leased worker executes with the bytes the job declared at the model's path,
\* whatever restarts and abandoned downloads left there (_stage_declared_asset).
\* A worker without a lease goes on after a cancellation, with the abandoned
\* download still writing, and promises nothing.
THEOREM ExecutesDeclaredAssets == Leased => (RunnerSpec => []AssetsAreDeclared)
<1> SUFFICES ASSUME Leased PROVE RunnerSpec => []AssetsAreDeclared
  OBVIOUS
<1>1. RunnerInv => AssetsAreDeclared
  BY DEF RunnerInv, StagedIsDeclared, AssetsAreDeclared
<1> QED BY <1>1, RunnerInvariant, PTL

\* A job that reaches execution has its model file listed on the volume
\* (_stage_declared_asset, _flush_prepared_manifest).
THEOREM StagedIsListed == RunnerSpec => []StagedIsPublished
<1>1. RunnerInv => StagedIsPublished
  BY DEF RunnerInv, ListedOrPending, MayBeCached, StagedIsPublished
<1> QED BY <1>1, RunnerInvariant, PTL

\* No half a git checkout at a pack's directory (_install_git_pack).
THEOREM CheckoutsAreWhole == RunnerSpec => []GitPackIsWhole
<1>1. RunnerInv => GitPackIsWhole
  BY DEF RunnerInv, GitIsWhole
<1> QED BY <1>1, RunnerInvariant, PTL

\* Nor in a manifest of the volume: what the runner relies on in the manifests
\* of others it guarantees for its own (_populate_custom_node_bundle).
THEOREM PublishedPacksAreWhole == RunnerSpec => []WholeManifest(volume.latest)
<1>1. RunnerInv => WholeManifest(volume.latest)
  BY DEF RunnerInv, GitIsWhole
<1> QED BY <1>1, RunnerInvariant, PTL

\* An exact placement is the only source of the weights restored from the cache
\* (_selected_prepared_manifest).
THEOREM PlacementWins == RunnerSpec => []PlacementIsAuthoritative
<1>1. RunnerInv => PlacementIsAuthoritative
  BY DEF RunnerInv
<1> QED BY <1>1, RunnerInvariant, PTL

-----------------------------------------------------------------------------
(* Journal: the inductive invariant *)

\* A row that is stored; one that waits in the queue has an attempt left.
SoundRow(r) ==
    /\ r \in JobRow /\ r.status # "none"
    /\ r.status = "queued" => r.attempts < MaxAttempts

\* The record set_progress holds was a live job's when it was read.
HeldIsOld == held.live => SoundRow(held.row) /\ held.row.status \notin Terminal

\* The bounds cover what they count.
WithinBounds == \A w \in Workers : number[w] <= count.events /\ process[w] <= count.faults

\* Whoever was answered has an entry, and who has one was answered.
EntriesAreAnswers ==
    /\ \A m \in accepted : \E i \in DOMAIN journal : journal[i] = OfWorker(m)
    /\ \A i \in DOMAIN journal :
         journal[i].type = "worker" => \E m \in accepted : journal[i] = OfWorker(m)
    /\ IsFiniteSet(accepted)

\* The row's status is the latest in the journal, and there is one.
RowIsJournaled == Positions(journal) # {} /\ JournalFollowsRow

\* An entry of a completed job shows all of its progress.
CompletedIsFull == \A i \in DOMAIN journal : journal[i].status = "completed" => journal[i].progress = Full

\* A client that has no lifecycle entry ahead of its cursor is current.
ClientCatchesUp ==
    /\ client.cursor <= Len(journal)
    /\ client.at = "live" /\ (\A i \in Positions(journal) : i <= client.cursor)
         => client.status = row.status

\* What was shown is in the journal, and what will be shown is no less.
ShownIsJournaled ==
    /\ client.shown = 0 \/ \E i \in DOMAIN journal : journal[i].progress >= client.shown
    /\ client.top = 0 \/ \E i \in DOMAIN journal : journal[i].progress >= client.top
    /\ client.at = "ranking" => client.top >= client.shown

JournalInv ==
    /\ JournalTypeOK /\ SoundRow(row) /\ HeldIsOld /\ WithinBounds
    /\ EntriesAreAnswers /\ AnsweredOnce
    /\ RowIsJournaled /\ CompletedIsFull /\ ClientCatchesUp /\ ShownIsJournaled

-----------------------------------------------------------------------------
(* Journal: the latest entry *)

\* A set of positions that is not empty has a last one.
LEMMA LastPosition ==
    ASSUME NEW n \in Nat, NEW S \in SUBSET (0..n), S # {}
    PROVE  Max(S) \in S /\ \A i \in S : i <= Max(S)
<1> DEFINE above == {k \in Nat : \A i \in S : i <= k}
<1>1. S \subseteq Nat /\ above \subseteq Nat
  OBVIOUS
<1>2. n \in above
  OBVIOUS
<1>3. PICK k \in above : \A j \in above : ~(<<j, k>> \in OpToRel(<, Nat))
  <2> HIDE DEF above
  <2> QED BY <1>1, <1>2, NatLessThanWellFounded, WFMin
<1>4. \A j \in above : ~(j < k)
  <2> HIDE DEF above
  <2> QED BY <1>1, <1>3 DEF OpToRel
<1>5. k \in Nat /\ \A i \in S : i <= k
  BY <1>3
<1>6. k \in S
  <2> SUFFICES ASSUME k \notin S PROVE FALSE
    OBVIOUS
  <2>1. PICK i \in S : TRUE
    OBVIOUS
  <2>2. k - 1 \in Nat /\ \A j \in S : j <= k - 1
    BY <1>1, <1>5, <2>1
  <2>3. k - 1 \in above
    BY <2>2
  <2> HIDE DEF above
  <2> QED BY <1>4, <1>5, <2>3
<1>7. \E x \in S : \A y \in S : x >= y
  BY <1>1, <1>5, <1>6
<1>8. Max(S) \in S /\ \A y \in S : Max(S) >= y
  BY <1>7 DEF Max
<1> QED BY <1>1, <1>8

\* The latest status is that of any position that no other exceeds.
LEMMA LatestAt ==
    ASSUME NEW s \in Seq(Entry), NEW o, NEW i \in Positions(s), \A j \in Positions(s) : j <= i
    PROVE  LatestStatus(s, o) = s[i].status
<1>1. Positions(s) \subseteq 0..Len(s) /\ Len(s) \in Nat
  BY LenProperties DEF Positions
<1>2. Max(Positions(s)) \in Positions(s) /\ \A j \in Positions(s) : j <= Max(Positions(s))
  BY <1>1, LastPosition
<1>3. Max(Positions(s)) = i
  BY <1>1, <1>2
<1> QED BY <1>3 DEF LatestStatus

\* There is such a position, or none at all.
LEMMA LatestExists ==
    ASSUME NEW s \in Seq(Entry), NEW o
    PROVE  \/ Positions(s) = {} /\ LatestStatus(s, o) = o
           \/ \E i \in Positions(s) : (\A j \in Positions(s) : j <= i) /\ LatestStatus(s, o) = s[i].status
<1>1. Positions(s) \subseteq 0..Len(s) /\ Len(s) \in Nat
  BY LenProperties DEF Positions
<1>2. CASE Positions(s) = {}
  BY <1>2 DEF LatestStatus
<1>3. CASE Positions(s) # {}
  <2>1. Max(Positions(s)) \in Positions(s) /\ \A j \in Positions(s) : j <= Max(Positions(s))
    BY <1>1, <1>3, LastPosition
  <2> QED BY <1>3, <2>1 DEF LatestStatus
<1> QED BY <1>2, <1>3

\* Where the lifecycle entries of a longer journal are.
LEMMA PositionsGrow ==
    ASSUME NEW s \in Seq(Entry), NEW t \in Seq(Entry), NEW i
    PROVE  /\ s \o t \in Seq(Entry) /\ Len(s \o t) = Len(s) + Len(t)
           /\ i \in DOMAIN s => i \in DOMAIN (s \o t) /\ (s \o t)[i] = s[i]
           /\ i \in DOMAIN t => Len(s) + i \in DOMAIN (s \o t) /\ (s \o t)[Len(s) + i] = t[i]
           /\ i \in DOMAIN (s \o t) => i \in DOMAIN s \/ (i - Len(s) \in DOMAIN t /\ (s \o t)[i] = t[i - Len(s)])
           /\ i \in Positions(s) => i \in Positions(s \o t)
           /\ i \in Positions(t) => Len(s) + i \in Positions(s \o t)
           /\ i \in Positions(s \o t) => i \in Positions(s) \/ i - Len(s) \in Positions(t)
<1> DEFINE st == s \o t
<1>1. /\ st \in Seq(Entry) /\ Len(st) = Len(s) + Len(t)
      /\ \A k \in 1 .. Len(s) + Len(t) : st[k] = IF k <= Len(s) THEN s[k] ELSE t[k - Len(s)]
  BY ConcatProperties
<1>2. /\ Len(s) \in Nat /\ DOMAIN s = 1..Len(s) /\ Len(t) \in Nat /\ DOMAIN t = 1..Len(t)
      /\ DOMAIN st = 1 .. Len(s) + Len(t)
  BY <1>1, LenProperties
<1> HIDE DEF st
<1>3. i \in DOMAIN s => i \in DOMAIN st /\ st[i] = s[i]
  BY <1>1, <1>2
<1>4. i \in DOMAIN t => Len(s) + i \in DOMAIN st /\ st[Len(s) + i] = t[i]
  BY <1>1, <1>2
<1>5. i \in DOMAIN st => i \in DOMAIN s \/ (i - Len(s) \in DOMAIN t /\ st[i] = t[i - Len(s)])
  BY <1>1, <1>2
<1>6. /\ i \in Positions(s) => i \in Positions(st)
      /\ i \in Positions(t) => Len(s) + i \in Positions(st)
      /\ i \in Positions(st) => i \in Positions(s) \/ i - Len(s) \in Positions(t)
  BY <1>3, <1>4, <1>5 DEF Positions
<1> QED BY <1>1, <1>3, <1>4, <1>5, <1>6 DEF st

\* The latest status of a longer journal.
LEMMA LatestGrows ==
    ASSUME NEW s \in Seq(Entry), NEW t \in Seq(Entry), NEW o
    PROVE  LatestStatus(s \o t, o) = LatestStatus(t, LatestStatus(s, o))
<1> DEFINE st == s \o t
<1>1. /\ st \in Seq(Entry) /\ Len(s) \in Nat
      /\ Positions(s) \subseteq 1..Len(s) /\ Positions(t) \subseteq 1..Len(t) /\ Len(t) \in Nat
  BY ConcatProperties, LenProperties DEF Positions
<1>2. ASSUME NEW i
      PROVE  /\ i \in DOMAIN s => st[i] = s[i]
             /\ i \in DOMAIN t => st[Len(s) + i] = t[i]
             /\ i \in Positions(s) => i \in Positions(st)
             /\ i \in Positions(t) => Len(s) + i \in Positions(st)
             /\ i \in Positions(st) => i \in Positions(s) \/ i - Len(s) \in Positions(t)
  BY PositionsGrow
<1> HIDE DEF st
<1>3. CASE Positions(t) = {}
  <2>1. LatestStatus(t, LatestStatus(s, o)) = LatestStatus(s, o)
    BY <1>3 DEF LatestStatus
  <2>2. CASE Positions(s) = {}
    <3>1. Positions(st) = {}
      BY <1>2, <1>3, <2>2
    <3> QED BY <2>1, <2>2, <3>1 DEF LatestStatus, st
  <2>3. CASE Positions(s) # {}
    <3>1. PICK i \in Positions(s) : (\A j \in Positions(s) : j <= i) /\ LatestStatus(s, o) = s[i].status
      BY <2>3, LatestExists
    <3>2. i \in Positions(st) /\ (\A j \in Positions(st) : j <= i) /\ st[i] = s[i]
      BY <1>2, <1>3, <3>1 DEF Positions
    <3> QED BY <1>1, <2>1, <3>1, <3>2, LatestAt DEF st
  <2> QED BY <2>2, <2>3
<1>4. CASE Positions(t) # {}
  <2>1. PICK i \in Positions(t) : /\ \A j \in Positions(t) : j <= i
                                 /\ LatestStatus(t, LatestStatus(s, o)) = t[i].status
    BY <1>4, LatestExists
  <2>2. Len(s) + i \in Positions(st) /\ st[Len(s) + i] = t[i]
    BY <1>2, <2>1 DEF Positions
  <2>3. ASSUME NEW j \in Positions(st) PROVE j <= Len(s) + i
    <3>1. CASE j \in Positions(s)
      BY <1>1, <2>1, <3>1
    <3>2. CASE j - Len(s) \in Positions(t)
      <4>1. Positions(st) \subseteq Nat
        BY <1>1, LenProperties DEF Positions
      <4> QED BY <1>1, <2>1, <3>2, <4>1
    <3> QED BY <1>2, <3>1, <3>2
  <2>4. LatestStatus(st, o) = st[Len(s) + i].status
    BY <1>1, <2>2, <2>3, LatestAt
  <2> QED BY <2>1, <2>2, <2>4 DEF st
<1> QED BY <1>3, <1>4

-----------------------------------------------------------------------------
(* Journal: what a step may append *)

\* A status is in the journal when its entry is a lifecycle entry of the job.
LEMMA LatestOfOne ==
    ASSUME NEW e \in Entry, NEW o
    PROVE  /\ LatestStatus(<<>>, o) = o
           /\ e.type \in Lifecycle /\ e.status # "none" => LatestStatus(<<e>>, o) = e.status
           /\ e.type \notin Lifecycle => LatestStatus(<<e>>, o) = o
<1>1. <<e>> \in Seq(Entry) /\ DOMAIN <<e>> = {1} /\ <<e>>[1] = e
  OBVIOUS
<1>2. LatestStatus(<<>>, o) = o
  BY DEF LatestStatus, Positions
<1>3. ASSUME e.type \in Lifecycle, e.status # "none" PROVE LatestStatus(<<e>>, o) = e.status
  <2>1. Positions(<<e>>) = {1}
    BY <1>1, <1>3 DEF Positions
  <2> QED BY <1>1, <2>1, LatestAt
<1>4. ASSUME e.type \notin Lifecycle PROVE LatestStatus(<<e>>, o) = o
  BY <1>1, <1>4 DEF LatestStatus, Positions
<1> QED BY <1>2, <1>3, <1>4

LEMMA EntriesTyped ==
    /\ \A type \in Types, r \in JobRow, p \in 0..Full :
         /\ OfJob(type, r, p) \in Entry
         /\ OfJob(type, r, p).type = type /\ OfJob(type, r, p).status = r.status
         /\ OfJob(type, r, p).progress = p
    /\ \A type \in Types : /\ Plain(type) \in Entry /\ Plain(type).type = type /\ Plain(type).status = "none"
<1>1. 0 \in Processes /\ 0 \in 0..Full /\ 0 \in 0..MaxEvents
  BY JournalAssumption DEF Processes
<1>2. \A type \in Types : Plain(type) \in Entry /\ Plain(type).type = type /\ Plain(type).status = "none"
  BY <1>1 DEF Plain, Entry, Coordinator, Producer, JobStatus
<1>3. ASSUME NEW type \in Types, NEW r \in JobRow, NEW p \in 0..Full
      PROVE  /\ OfJob(type, r, p) \in Entry
             /\ OfJob(type, r, p).type = type /\ OfJob(type, r, p).status = r.status
             /\ OfJob(type, r, p).progress = p
  <2> DEFINE plain == Plain(type)
  <2>1. plain \in Entry /\ plain.type = type /\ r.status \in JobStatus
    BY <1>2 DEF JobRow
  <2>2. OfJob(type, r, p) = [plain EXCEPT !.status = r.status, !.progress = p]
    BY DEF OfJob
  <2> HIDE DEF plain
  <2> QED BY <2>1, <2>2 DEF Entry
<1>4. \A type \in Types, r \in JobRow, p \in 0..Full :
         /\ OfJob(type, r, p) \in Entry
         /\ OfJob(type, r, p).type = type /\ OfJob(type, r, p).status = r.status
         /\ OfJob(type, r, p).progress = p
  BY <1>3
<1> QED BY <1>2, <1>4

LEMMA LeaseEntriesTyped ==
    ASSUME JournalTypeOK, NEW type \in Types, NEW l \in Leases, NEW pod \in BOOLEAN
    PROVE  /\ OfLease(type, l) \in Entry
           /\ [OfLease(type, l) EXCEPT !.pod = pod] \in Entry
           /\ OfLease(type, l).type = type /\ OfLease(type, l).status = "none"
           /\ [OfLease(type, l) EXCEPT !.pod = pod].type = type
           /\ [OfLease(type, l) EXCEPT !.pod = pod].status = "none"
<1>1. rented[l].bound \in BOOLEAN
  BY DEF JournalTypeOK, LeaseRow
<1>2. Plain(type) \in Entry /\ Plain(type).type = type /\ Plain(type).status = "none"
  BY EntriesTyped
<1>3. OfLease(type, l) \in Entry /\ OfLease(type, l).type = type /\ OfLease(type, l).status = "none"
  BY <1>1, <1>2 DEF OfLease, Entry
<1> QED BY <1>3 DEF Entry

\* What the invariant says of the journal and of those who read it.
JournalSound ==
    /\ journal \in Seq(Entry)
    /\ RowIsJournaled /\ CompletedIsFull /\ ClientCatchesUp /\ ShownIsJournaled

AnswersSound == EntriesAreAnswers /\ AnsweredOnce

\* The row follows what is appended, and nothing moves for the client.
LEMMA JournalGrows ==
    ASSUME JournalInv, NEW es \in Seq(Entry), journal' = journal \o es, client' = client,
           LatestStatus(es, row.status) = row'.status, row'.status # "none",
           \A i \in DOMAIN es : es[i].status = "completed" => es[i].progress = Full
    PROVE  JournalSound'
<1> USE DEF JournalInv
<1>1. /\ journal \in Seq(Entry) /\ Len(journal) \in Nat /\ Len(es) \in Nat
      /\ journal' \in Seq(Entry) /\ Len(journal') = Len(journal) + Len(es)
  BY LenProperties, ConcatProperties DEF JournalTypeOK
<1>2. ASSUME NEW i
      PROVE  /\ i \in DOMAIN journal => i \in DOMAIN journal' /\ journal'[i] = journal[i]
             /\ i \in DOMAIN journal' => i \in DOMAIN journal
                                         \/ (i - Len(journal) \in DOMAIN es /\ journal'[i] = es[i - Len(journal)])
             /\ i \in Positions(journal) => i \in Positions(journal')
             /\ i \in Positions(es) => Len(journal) + i \in Positions(journal')
  BY <1>1, PositionsGrow
<1>3. RowIsJournaled'
  <2>1. Positions(journal') # {}
    BY <1>2 DEF RowIsJournaled
  <2>2. LatestStatus(journal', "none") = LatestStatus(es, LatestStatus(journal, "none"))
    BY <1>1, LatestGrows
  <2> QED BY <2>1, <2>2 DEF RowIsJournaled, JournalFollowsRow
<1>4. CompletedIsFull'
  BY <1>2 DEF CompletedIsFull
<1>5. ClientCatchesUp'
  <2>1. client.cursor \in Nat
    BY DEF JournalTypeOK
  <2>2. client'.cursor <= Len(journal')
    BY <1>1, <2>1 DEF ClientCatchesUp
  <2>3. ASSUME client.at = "live", \A i \in Positions(journal') : i <= client.cursor
        PROVE  client.status = row'.status
    <3>1. \A i \in Positions(journal) : i <= client.cursor
      BY <1>2, <2>3
    <3>2. ASSUME NEW i \in Positions(es) PROVE FALSE
      <4>1. i \in Nat /\ i >= 1
        BY LenProperties DEF Positions
      <4>2. Len(journal) + i <= client.cursor
        BY <1>2, <2>3
      <4> QED BY <1>1, <2>1, <4>1, <4>2 DEF ClientCatchesUp
    <3>3. LatestStatus(es, row.status) = row.status
      BY <3>2 DEF LatestStatus
    <3> QED BY <2>3, <3>1, <3>3 DEF ClientCatchesUp
  <2> QED BY <2>2, <2>3 DEF ClientCatchesUp
<1>6. ShownIsJournaled'
  BY <1>2 DEF ShownIsJournaled
<1> QED BY <1>1, <1>3, <1>4, <1>5, <1>6 DEF JournalSound

\* Nothing of a worker is appended: who was answered stays answered.
LEMMA AnswersStay ==
    ASSUME JournalInv, NEW es \in Seq(Entry), journal' = journal \o es, accepted' = accepted,
           \A i \in DOMAIN es : es[i].type # "worker"
    PROVE  AnswersSound'
<1>1. journal \in Seq(Entry)
  BY DEF JournalInv, JournalTypeOK
<1>2. ASSUME NEW i
      PROVE  /\ i \in DOMAIN journal => i \in DOMAIN journal' /\ journal'[i] = journal[i]
             /\ i \in DOMAIN journal' => i \in DOMAIN journal
                                         \/ (i - Len(journal) \in DOMAIN es /\ journal'[i] = es[i - Len(journal)])
  BY <1>1, PositionsGrow
<1>3. {i \in DOMAIN journal' : journal'[i].type = "worker"} = {i \in DOMAIN journal : journal[i].type = "worker"}
  BY <1>2
<1>4. AnsweredOnce'
  BY <1>3 DEF JournalInv, AnsweredOnce
<1>5. EntriesAreAnswers'
  <2>1. ASSUME NEW m \in accepted PROVE \E i \in DOMAIN journal' : journal'[i] = OfWorker(m)
    BY <1>2 DEF JournalInv, EntriesAreAnswers
  <2>2. ASSUME NEW i \in DOMAIN journal', journal'[i].type = "worker"
        PROVE  \E m \in accepted : journal'[i] = OfWorker(m)
    BY <1>2, <2>2 DEF JournalInv, EntriesAreAnswers
  <2> QED BY <2>1, <2>2 DEF JournalInv, EntriesAreAnswers
<1> QED BY <1>4, <1>5 DEF AnswersSound

-----------------------------------------------------------------------------
(* Journal: rows *)

\* What the invariant says of everything else.
RestSound ==
    /\ rented \in [Leases -> LeaseRow]
    /\ held \in [row : JobRow, progress : 0..Full, live : BOOLEAN]
    /\ caching \in BOOLEAN /\ cached \in BOOLEAN
    /\ cancelling \in {"no", "asked", "revoked"}
    /\ process \in [Workers -> Processes] /\ number \in [Workers -> 0..MaxEvents]
    /\ wire \subseteq Request /\ admitted \subseteq wire /\ accepted \subseteq wire
    /\ client \in [at : {"idle", "counting", "ranking", "live"}, base : JobStatus,
                   cursor : Nat, top : 0..Full, status : JobStatus, shown : 0..Full]
    /\ count \in [calls : 0..MaxCalls, events : 0..MaxEvents,
                  faults : 0..MaxFaults, snapshots : 0..MaxSnapshots,
                  leases : 0..MaxLeases, entries : 0..MaxEntries]
    /\ HeldIsOld /\ WithinBounds

RowSound == SoundRow(row) /\ progress \in 0..Full

LEMMA InvariantParts == JournalInv => JournalSound /\ AnswersSound /\ RowSound /\ RestSound
  BY DEF JournalInv, JournalTypeOK, JournalSound, AnswersSound, RowSound, RestSound

LEMMA InvariantWhole ==
    ASSUME JournalSound', AnswersSound', RowSound', RestSound' PROVE JournalInv'
  BY DEF JournalInv, JournalTypeOK, JournalSound, AnswersSound, RowSound, RestSound, SoundRow

\* What each transition makes of a sound row.
LEMMA JobRowMoves ==
    ASSUME NEW r, SoundRow(r)
    PROVE  /\ \A s \in JobStatus \ {"none", "queued"} : SoundRow(WithStatus(r, s))
           /\ SoundRow(FailedRow(r))
           /\ r.status = "queued" => \A w \in Workers : SoundRow(ClaimedRow(r, w)) /\ ClaimedRow(r, w).status = "dispatched"
<1> USE DEF SoundRow
<1>1. r \in JobRow
  OBVIOUS
<1>2. ASSUME NEW s \in JobStatus \ {"none", "queued"} PROVE SoundRow(WithStatus(r, s))
  BY DEF JobRow, WithStatus
<1>3. SoundRow(FailedRow(r))
  <2>1. CASE r.status \in Terminal
    BY <2>1 DEF FailedRow
  <2>2. CASE r.status \notin Terminal /\ r.attempts >= MaxAttempts
    BY <2>2, NoWorkerAssumption DEF FailedRow, JobRow, JobStatus
  <2>3. CASE r.status \notin Terminal /\ ~(r.attempts >= MaxAttempts)
    <3> DEFINE next == [r EXCEPT !.worker = NoWorker, !.status = "queued"]
    <3>1. FailedRow(r) = next
      BY <2>3 DEF FailedRow
    <3>2. next \in JobRow /\ next.status = "queued" /\ next.attempts = r.attempts
      BY DEF JobRow, JobStatus
    <3>3. r.attempts \in Nat /\ MaxAttempts \in Nat
      BY AttemptsAssumption DEF JobRow
    <3> QED BY <2>3, <3>1, <3>2, <3>3
  <2> QED BY <2>1, <2>2, <2>3
<1>4. ASSUME r.status = "queued", NEW w \in Workers
      PROVE  SoundRow(ClaimedRow(r, w)) /\ ClaimedRow(r, w).status = "dispatched"
  <2>1. r.attempts + 1 \in 0 .. MaxAttempts
    BY <1>4, AttemptsAssumption DEF JobRow
  <2> QED BY <2>1 DEF JobRow, JobStatus, ClaimedRow
<1> QED BY <1>2, <1>3, <1>4

\* A write of the row.
LEMMA WriteSound ==
    ASSUME JournalInv, NEW r, SoundRow(r), NEW p \in 0..Full, Writes(r, p), UNCHANGED <<client, accepted>>,
           r.status = "completed" => p = Full \/ (r.status = row.status /\ p = progress)
    PROVE  JournalSound' /\ AnswersSound' /\ RowSound'
<1>1. row' = r /\ progress' = p /\ journal' = journal \o Change(r, p) /\ r \in JobRow
  BY DEF Writes, Logs, SoundRow
<1>2. CASE r.status # row.status
  <2> DEFINE e == OfJob("job_status_changed", r, p)
  <2>1. e \in Entry /\ e.type = "job_status_changed" /\ e.status = r.status /\ e.progress = p
    BY <1>1, EntriesTyped DEF Types, Lifecycle
  <2> HIDE DEF e
  <2>2. Change(r, p) = <<e>>
    BY <1>2 DEF Change, e
  <2>3. LatestStatus(<<e>>, row.status) = r.status
    BY <2>1, LatestOfOne DEF Lifecycle, SoundRow
  <2>4. <<e>> \in Seq(Entry) /\ DOMAIN <<e>> = {1} /\ <<e>>[1] = e
    BY <2>1
  <2> QED BY <1>1, <1>2, <2>1, <2>2, <2>3, <2>4, JournalGrows, AnswersStay DEF SoundRow, RowSound
<1>3. CASE r.status = row.status /\ p # progress
  <2> DEFINE e == OfJob("job_progress_changed", r, p)
  <2>1. e \in Entry /\ e.type = "job_progress_changed" /\ e.status = r.status /\ e.progress = p
    BY <1>1, EntriesTyped DEF Types, Lifecycle
  <2> HIDE DEF e
  <2>2. Change(r, p) = <<e>>
    BY <1>3 DEF Change, e
  <2>3. LatestStatus(<<e>>, row.status) = r.status
    BY <1>3, <2>1, LatestOfOne DEF Lifecycle
  <2>4. <<e>> \in Seq(Entry) /\ DOMAIN <<e>> = {1} /\ <<e>>[1] = e
    BY <2>1
  <2> QED BY <1>1, <1>3, <2>1, <2>2, <2>3, <2>4, JournalGrows, AnswersStay DEF SoundRow, RowSound
<1>4. CASE r.status = row.status /\ p = progress
  <2>1. Change(r, p) = <<>>
    BY <1>4 DEF Change
  <2>3. <<>> \in Seq(Entry) /\ DOMAIN <<>> = {}
    BY EmptySeq, LenProperties
  <2>2. LatestStatus(<<>>, row.status) = r.status
    BY <1>4 DEF LatestStatus, Positions
  <2> QED BY <1>1, <2>1, <2>2, <2>3, JournalGrows, AnswersStay DEF SoundRow, RowSound
<1> QED BY <1>2, <1>3, <1>4

\* An entry about a lease or a request leaves the row alone.
LEMMA LogSound ==
    ASSUME JournalInv, NEW e \in Entry, Logs(<<e>>), e.type \notin Lifecycle \cup {"worker"}, e.status = "none",
           UNCHANGED <<row, progress, client, accepted>>
    PROVE  JournalSound' /\ AnswersSound' /\ RowSound'
<1>1. <<e>> \in Seq(Entry) /\ DOMAIN <<e>> = {1} /\ <<e>>[1] = e /\ journal' = journal \o <<e>>
  BY DEF Logs
<1>2. LatestStatus(<<e>>, row.status) = row.status
  BY LatestOfOne
<1>3. RowSound' /\ row'.status # "none"
  BY DEF JournalInv, JournalTypeOK, RowSound, SoundRow
<1> QED BY <1>1, <1>2, <1>3, JournalGrows, AnswersStay

\* The rest of the state, when a step of the row leaves it or forgets what is held.
LEMMA RestKept ==
    ASSUME JournalInv, UNCHANGED <<workerVars, client, count>>,
           rented' \in [Leases -> LeaseRow], caching' \in BOOLEAN, cached' \in BOOLEAN,
           cancelling' \in {"no", "asked", "revoked"}, held' \in {held, NotHeld}
    PROVE  RestSound'
<1>1. RestSound
  BY InvariantParts
<1>2. NotHeld \in [row : JobRow, progress : 0..Full, live : BOOLEAN] /\ ~NotHeld.live
  BY JournalAssumption, AttemptsAssumption DEF NotHeld, NoJobRow, JobRow, JobStatus
<1> QED BY <1>1, <1>2 DEF RestSound, HeldIsOld, WithinBounds, workerVars

LEMMA RowSteps ==
    ASSUME JournalInv, NEW w,
           (w \in Workers /\ ClaimLocally(w)) \/ MarkRunning(w) \/ WriteProgress \/ Complete(w) \/ Fail(w) \/ CancelFails
    PROVE  JournalInv'
<1>1. SoundRow(row) /\ progress \in 0..Full /\ RestSound /\ Full \in 0..Full
  BY InvariantParts, JournalAssumption DEF RowSound
<1>2. ASSUME NEW r, SoundRow(r), NEW p \in 0..Full, Writes(r, p), UNCHANGED <<workerVars, client, count, rented>>,
             r.status = "completed" => p = Full \/ (r.status = row.status /\ p = progress),
             caching' \in BOOLEAN, cached' = cached, cancelling' \in {cancelling, "no"}, held' \in {held, NotHeld}
      PROVE  JournalInv'
  <2>1. JournalSound' /\ AnswersSound' /\ RowSound'
    BY <1>2, WriteSound DEF workerVars
  <2>2. RestSound'
    BY <1>1, <1>2, RestKept DEF RestSound
  <2> QED BY <2>1, <2>2, InvariantWhole
<1>3. CASE w \in Workers /\ ClaimLocally(w)
  <2>1. SoundRow(ClaimedRow(row, w)) /\ ClaimedRow(row, w).status = "dispatched"
    BY <1>1, <1>3, JobRowMoves DEF ClaimLocally
  <2> QED BY <1>1, <1>2, <1>3, <2>1 DEF ClaimLocally, RestSound
<1>4. CASE MarkRunning(w)
  <2>1. SoundRow(WithStatus(row, "running")) /\ WithStatus(row, "running").status # "completed"
    BY <1>1, <1>4, JobRowMoves DEF MarkRunning, JobStatus, WithStatus, Terminal, SoundRow, JobRow
  <2> QED BY <1>1, <1>2, <1>4, <2>1 DEF MarkRunning, RestSound
<1>5. CASE WriteProgress
  <2>1. SoundRow(held.row) /\ held.row.status # "completed" /\ held.progress \in 0..Full
    BY <1>1, <1>5 DEF WriteProgress, RestSound, HeldIsOld, Terminal
  <2> QED BY <1>1, <1>2, <1>5, <2>1 DEF WriteProgress, RestSound
<1>6. CASE Complete(w)
  <2> DEFINE r == WithStatus(row, "completed")
             p == IF row.status \in Terminal THEN progress ELSE Full
  <2>1. SoundRow(r) /\ p \in 0..Full /\ Writes(r, p)
    BY <1>1, <1>6, JobRowMoves DEF Complete, JobStatus
  <2>2. p = Full \/ (r.status = row.status /\ p = progress)
    <3>1. CASE row.status \in Terminal
      BY <3>1 DEF WithStatus
    <3>2. CASE row.status \notin Terminal
      BY <3>2
    <3> QED BY <3>1, <3>2
  <2>3. caching' \in BOOLEAN
    BY <1>6 DEF Complete, Caches
  <2> HIDE DEF r, p
  <2> QED BY <1>1, <1>2, <1>6, <2>1, <2>2, <2>3 DEF Complete, RestSound
<1>7. CASE Fail(w)
  <2>1. SoundRow(FailedRow(row)) /\ FailedRow(row).status # "completed"
    BY <1>1, <1>7, JobRowMoves DEF Fail, FailedRow, Terminal, SoundRow, JobRow
  <2> QED BY <1>1, <1>2, <1>7, <2>1 DEF Fail, RestSound
<1>8. CASE CancelFails
  <2>1. SoundRow(WithStatus(row, "failed"))
    BY <1>1, JobRowMoves DEF JobStatus
  <2>2. WithStatus(row, "failed").status = "completed" => WithStatus(row, "failed").status = row.status
    BY <1>1 DEF WithStatus, SoundRow, JobRow
  <2> QED BY <1>1, <1>2, <1>8, <2>1, <2>2 DEF CancelFails, RestSound
<1> QED BY <1>3, <1>4, <1>5, <1>6, <1>7, <1>8

\* A claim through a lease appends two entries.
LEMMA ClaimStep ==
    ASSUME JournalInv, NEW w \in Workers, NEW l \in Leases, ClaimJob(w, l)
    PROVE  JournalInv'
<1> DEFINE a == OfJob("job_status_changed", row', progress)
           b == OfLease("lease_job_claimed", l)
<1>1. SoundRow(row) /\ progress \in 0..Full /\ RestSound
  BY InvariantParts DEF RowSound
<1>2. row' = ClaimedRow(row, w) /\ SoundRow(row') /\ row'.status = "dispatched" /\ row' \in JobRow
  BY <1>1, JobRowMoves DEF ClaimJob, SoundRow
<1>3. a \in Entry /\ a.type = "job_status_changed" /\ a.status = "dispatched"
  BY <1>1, <1>2, EntriesTyped DEF Types, Lifecycle
<1>4. b \in Entry /\ b.type = "lease_job_claimed" /\ b.status = "none"
  BY LeaseEntriesTyped DEF JournalInv, Types
<1>5. journal' = journal \o <<a, b>> /\ UNCHANGED <<progress, client, accepted>>
  BY DEF ClaimJob, Logs, workerVars
<1> HIDE DEF a, b
<1>6. LatestStatus(<<a, b>>, row.status) = row'.status
  <2> DEFINE s == <<a>>
             t == <<b>>
  <2>1. /\ s \in Seq(Entry) /\ Len(s) = 1 /\ s[1] = a
        /\ t \in Seq(Entry) /\ Len(t) = 1 /\ t[1] = b
        /\ <<a, b>> \in Seq(Entry) /\ Len(<<a, b>>) = 2 /\ <<a, b>>[1] = a /\ <<a, b>>[2] = b
    BY <1>3, <1>4
  <2>2. LatestStatus(<<a>>, row.status) = "dispatched"
    BY <1>3, LatestOfOne DEF Lifecycle
  <2>3. LatestStatus(<<b>>, "dispatched") = "dispatched"
    BY <1>4, LatestOfOne DEF Lifecycle
  <2> DEFINE both == <<a, b>>
  <2> HIDE DEF s, t, both
  <2>4. s \o t \in Seq(Entry) /\ Len(s \o t) = 2 /\ (s \o t)[1] = a /\ (s \o t)[2] = b
    BY <2>1, ConcatProperties, SMTT(30) DEF both
  <2>5. both = s \o t
    BY <2>1, <2>4, SeqEqual DEF both
  <2>6. LatestStatus(both, row.status) = LatestStatus(t, LatestStatus(s, row.status))
    BY <2>1, <2>5, LatestGrows
  <2> QED BY <1>2, <2>2, <2>3, <2>6 DEF s, t, both
<1>7. /\ <<a, b>> \in Seq(Entry) /\ DOMAIN <<a, b>> = 1..2
      /\ \A i \in DOMAIN <<a, b>> : /\ <<a, b>>[i].type # "worker"
                                   /\ <<a, b>>[i].status # "completed"
  BY <1>3, <1>4
<1>8. JournalSound' /\ AnswersSound' /\ RowSound'
  BY <1>1, <1>2, <1>5, <1>6, <1>7, JournalGrows, AnswersStay DEF RowSound
<1>9. rented' \in [Leases -> LeaseRow]
  BY <1>1 DEF ClaimJob, RestSound, LeaseRow
<1>10. RestSound'
  BY <1>1, <1>9, RestKept DEF ClaimJob, RestSound
<1> QED BY <1>8, <1>10, InvariantWhole

-----------------------------------------------------------------------------
(* Journal: leases and the cancellation *)

\* A step that only makes an entry about a lease, or none.
LEMMA LoggedKept ==
    ASSUME JournalInv, UNCHANGED <<row, progress, held, caching, cached, workerVars, client>>,
           \/ UNCHANGED journal
           \/ \E e \in Entry : e.type \notin Lifecycle \cup {"worker"} /\ e.status = "none" /\ Logs(<<e>>),
           rented' \in [Leases -> LeaseRow], cancelling' \in {"no", "asked", "revoked"},
           \/ count' = count
           \/ \E n \in 0..MaxLeases : count' = [count EXCEPT !.leases = n]
    PROVE  JournalInv'
<1>1. JournalSound /\ AnswersSound /\ RowSound /\ RestSound
  BY InvariantParts
<1>2. JournalSound' /\ AnswersSound' /\ RowSound'
  <2>1. CASE UNCHANGED journal
    BY <1>1, <2>1 DEF JournalSound, AnswersSound, RowSound, RowIsJournaled, JournalFollowsRow, CompletedIsFull,
                     ClientCatchesUp, ShownIsJournaled, EntriesAreAnswers, AnsweredOnce, workerVars, SoundRow
  <2>2. ASSUME NEW e \in Entry, e.type \notin Lifecycle \cup {"worker"}, e.status = "none", Logs(<<e>>)
        PROVE  JournalSound' /\ AnswersSound' /\ RowSound'
    BY <2>2, LogSound DEF workerVars
  <2> QED BY <2>1, <2>2
<1>3. /\ count' \in [calls : 0..MaxCalls, events : 0..MaxEvents, faults : 0..MaxFaults, snapshots : 0..MaxSnapshots,
                     leases : 0..MaxLeases, entries : 0..MaxEntries]
      /\ count'.events = count.events /\ count'.faults = count.faults
  BY <1>1 DEF RestSound
<1>4. RestSound'
  BY <1>1, <1>3 DEF RestSound, HeldIsOld, WithinBounds, workerVars
<1> QED BY <1>2, <1>4, InvariantWhole

LEMMA LeaseRowMoves ==
    ASSUME NEW r \in LeaseRow
    PROVE  /\ BoundLease(r) \in LeaseRow /\ RevokedLease(r) \in LeaseRow /\ AttemptedLease(r) \in LeaseRow
           /\ ConfirmedLease(r) \in LeaseRow /\ UnboundClosedLease(r) \in LeaseRow /\ ProvisionedLease \in LeaseRow
<1> USE DEF LeaseRow, LeaseStatus
<1>1. BoundLease(r) \in LeaseRow
  BY DEF BoundLease
<1>2. RevokedLease(r) \in LeaseRow
  BY DEF RevokedLease
<1>3. AttemptedLease(r) \in LeaseRow
  BY DEF AttemptedLease
<1>4. ConfirmedLease(r) \in LeaseRow /\ UnboundClosedLease(r) \in LeaseRow
  BY DEF ConfirmedLease, UnboundClosedLease
<1>5. ProvisionedLease \in LeaseRow
  BY DEF ProvisionedLease, NoLeaseRow
<1> QED BY <1>1, <1>2, <1>3, <1>4, <1>5

LEMMA CancelSteps == ASSUME JournalInv, CancelAsked \/ CancelRevokes PROVE JournalInv'
<1>1. rented \in [Leases -> LeaseRow] /\ JournalTypeOK
  BY DEF JournalInv, JournalTypeOK
<1>2. CASE CancelAsked
  <2>1. /\ Plain("cancellation_requested") \in Entry
        /\ Plain("cancellation_requested").type = "cancellation_requested"
        /\ Plain("cancellation_requested").status = "none"
    BY EntriesTyped DEF Types
  <2> QED BY <1>1, <1>2, <2>1, LoggedKept DEF CancelAsked, Lifecycle
<1>3. CASE CancelRevokes
  <2>1. CASE cancelling' = "revoked" /\ UNCHANGED <<rented, journal>>
    BY <1>1, <1>3, <2>1, LoggedKept DEF CancelRevokes
  <2>2. ASSUME NEW l \in Leases, rented' = [rented EXCEPT ![l] = RevokedLease(@)],
               Logs(<<OfLease("lease_revoked", l)>>), UNCHANGED cancelling
        PROVE  JournalInv'
    <3>1. /\ OfLease("lease_revoked", l) \in Entry /\ OfLease("lease_revoked", l).type = "lease_revoked"
          /\ OfLease("lease_revoked", l).status = "none"
      BY <1>1, LeaseEntriesTyped DEF Types
    <3>2. rented' \in [Leases -> LeaseRow]
      BY <1>1, <2>2, LeaseRowMoves
    <3>3. cancelling' \in {"no", "asked", "revoked"}
      BY <2>2 DEF JournalInv, JournalTypeOK
    <3> QED BY <1>3, <2>2, <3>1, <3>2, <3>3, LoggedKept DEF CancelRevokes, Lifecycle
  <2> QED BY <1>3, <2>1, <2>2 DEF CancelRevokes
<1> QED BY <1>2, <1>3

LEMMA LeaseSteps ==
    ASSUME JournalInv, NEW l \in Leases,
           CreateLease(l) \/ BindLease(l) \/ Revoke(l) \/ Attempt(l) \/ Confirm(l) \/ CloseUnbound(l)
    PROVE  JournalInv'
<1>1. rented \in [Leases -> LeaseRow] /\ cancelling \in {"no", "asked", "revoked"} /\ JournalTypeOK /\ rented[l] \in LeaseRow
  BY DEF JournalInv, JournalTypeOK
<1>2. ASSUME NEW after \in LeaseRow, NEW type \in Types \ (Lifecycle \cup {"worker"}), LeaseStep(l, after, type),
             count' = count \/ \E n \in 0..MaxLeases : count' = [count EXCEPT !.leases = n]
      PROVE  JournalInv'
  <2> DEFINE e == [OfLease(type, l) EXCEPT !.pod = after.bound]
  <2>1. e \in Entry /\ e.type = type /\ e.status = "none"
    BY <1>1, LeaseEntriesTyped DEF LeaseRow
  <2>2. rented' \in [Leases -> LeaseRow]
    BY <1>1, <1>2 DEF LeaseStep
  <2>3. Logs(<<e>>) /\ UNCHANGED <<row, progress, held, caching, cached, cancelling, workerVars, client>>
    BY <1>2 DEF LeaseStep, jobVars
  <2> HIDE DEF e
  <2> QED BY <1>1, <1>2, <2>1, <2>2, <2>3, LoggedKept
<1> USE DEF Types, Lifecycle
<1>3. CASE CreateLease(l)
  <2>1. /\ count.leases + 1 \in 0..MaxLeases
        /\ count' = [count EXCEPT !.leases = count.leases + 1]
    <3>1. count.leases \in 0..MaxLeases /\ MaxLeases \in Nat
      BY <1>1, JournalAssumption DEF JournalTypeOK
    <3>2. count.leases < MaxLeases /\ count' = [count EXCEPT !.leases = count.leases + 1]
      BY <1>3 DEF CreateLease
    <3> QED BY <3>1, <3>2
  <2>2. ProvisionedLease \in LeaseRow /\ LeaseStep(l, ProvisionedLease, "lease_created")
    BY <1>1, <1>3, LeaseRowMoves DEF CreateLease
  <2>3. \E n \in 0..MaxLeases : count' = [count EXCEPT !.leases = n]
    BY <2>1
  <2>4. "lease_created" \in Types \ (Lifecycle \cup {"worker"})
    OBVIOUS
  <2> QED BY <1>2, <2>2, <2>3, <2>4
<1>4. CASE BindLease(l)
  BY <1>1, <1>2, <1>4, LeaseRowMoves DEF BindLease
<1>5. CASE Revoke(l)
  BY <1>1, <1>2, <1>5, LeaseRowMoves DEF Revoke
<1>6. CASE Attempt(l)
  BY <1>1, <1>2, <1>6, LeaseRowMoves DEF Attempt
<1>7. CASE Confirm(l)
  BY <1>1, <1>2, <1>7, LeaseRowMoves DEF Confirm
<1>8. CASE CloseUnbound(l)
  BY <1>1, <1>2, <1>8, LeaseRowMoves DEF CloseUnbound
<1> QED BY <1>3, <1>4, <1>5, <1>6, <1>7, <1>8

-----------------------------------------------------------------------------
(* Journal: calls and events *)

\* A step that leaves the row, the journal, the answers and the client alone.
LEMMA SilentKept ==
    ASSUME JournalInv, UNCHANGED <<row, progress, rented, journal, accepted, client>>, RestSound'
    PROVE  JournalInv'
<1>1. JournalSound /\ AnswersSound /\ RowSound
  BY InvariantParts
<1>2. JournalSound' /\ AnswersSound' /\ RowSound'
  BY <1>1 DEF JournalSound, AnswersSound, RowSound, RowIsJournaled, JournalFollowsRow, CompletedIsFull,
              ClientCatchesUp, ShownIsJournaled, EntriesAreAnswers, AnsweredOnce, SoundRow
<1> QED BY <1>2, InvariantWhole

LEMMA CallSteps ==
    ASSUME JournalInv, NEW w, NEW p,
           (p \in 0 .. Full + 1 /\ ReadProgress(w, p)) \/ CacheResult \/ CoordinatorCrash
    PROVE  JournalInv'
<1>1. RestSound /\ RowSound
  BY InvariantParts
<1>2. CASE p \in 0 .. Full + 1 /\ ReadProgress(w, p)
  <2>1. Clamped(p) \in 0..Full
    BY <1>2, JournalAssumption DEF Clamped
  <2>2. held' = [row |-> row, progress |-> Clamped(p), live |-> TRUE] /\ row \in JobRow
    BY <1>1, <1>2 DEF ReadProgress, RowSound, SoundRow
  <2>3. held' \in [row : JobRow, progress : 0..Full, live : BOOLEAN] /\ held'.row = row
    BY <2>1, <2>2
  <2>4. /\ count.calls + 1 \in 0..MaxCalls
        /\ count' = [count EXCEPT !.calls = @ + 1]
    BY <1>1, <1>2, JournalAssumption DEF ReadProgress, RestSound
  <2>5. /\ count' \in [calls : 0..MaxCalls, events : 0..MaxEvents, faults : 0..MaxFaults, snapshots : 0..MaxSnapshots,
                       leases : 0..MaxLeases, entries : 0..MaxEntries]
        /\ count'.events = count.events /\ count'.faults = count.faults
    BY <1>1, <2>4 DEF RestSound
  <2>6. RestSound'
    BY <1>1, <1>2, <2>3, <2>5 DEF ReadProgress, RestSound, HeldIsOld, RowSound, WithinBounds, workerVars
  <2> QED BY <1>2, <2>6, SilentKept DEF ReadProgress, workerVars
<1>3. CASE CacheResult
  <2>1. RestSound'
    BY <1>1, <1>3 DEF CacheResult, RestSound, HeldIsOld, WithinBounds, workerVars
  <2> QED BY <1>3, <2>1, SilentKept DEF CacheResult, workerVars
<1>4. CASE CoordinatorCrash
  <2>1. NotHeld \in [row : JobRow, progress : 0..Full, live : BOOLEAN] /\ ~NotHeld.live
    BY JournalAssumption, AttemptsAssumption DEF NotHeld, NoJobRow, JobRow, JobStatus
  <2>2. count.faults + 1 \in 0..MaxFaults /\ count' = [count EXCEPT !.faults = @ + 1] /\ count.faults \in Nat
    BY <1>1, <1>4, JournalAssumption DEF CoordinatorCrash, RestSound
  <2>3. /\ count' \in [calls : 0..MaxCalls, events : 0..MaxEvents, faults : 0..MaxFaults, snapshots : 0..MaxSnapshots,
                       leases : 0..MaxLeases, entries : 0..MaxEntries]
        /\ count'.events = count.events /\ count'.faults = count.faults + 1
    BY <1>1, <2>2 DEF RestSound
  <2>4. WithinBounds'
    BY <1>1, <1>4, <2>2, <2>3 DEF CoordinatorCrash, RestSound, WithinBounds, Processes
  <2>5. RestSound'
    BY <1>1, <1>4, <2>1, <2>3, <2>4 DEF CoordinatorCrash, RestSound, HeldIsOld
  <2> QED BY <1>4, <2>5, SilentKept DEF CoordinatorCrash
<1> QED BY <1>2, <1>3, <1>4

\* A worker's client numbers an event that nobody has sent yet.
LEMMA EmitStep ==
    ASSUME JournalInv, NEW w \in Workers, NEW p \in 0 .. Full - 1, Emit(w, p)
    PROVE  JournalInv'
<1>1. RestSound /\ RowSound
  BY InvariantParts
<1>2. /\ number[w] \in 0..MaxEvents /\ number[w] <= count.events /\ process[w] \in Processes
      /\ count.events \in 0..MaxEvents /\ count.events < MaxEvents /\ MaxEvents \in Nat
  BY <1>1, JournalAssumption DEF Emit, RestSound, WithinBounds
<1>3. /\ number' = [number EXCEPT ![w] = number[w] + 1] /\ number[w] + 1 \in 1..MaxEvents
      /\ count' = [count EXCEPT !.events = count.events + 1] /\ count.events + 1 \in 0..MaxEvents
  BY <1>2 DEF Emit
<1>4. /\ number' \in [Workers -> 0..MaxEvents] /\ number'[w] = number[w] + 1
      /\ \A v \in Workers \ {w} : number'[v] = number[v]
  BY <1>1, <1>3 DEF RestSound
<1>5. [worker |-> w, process |-> process[w], number |-> number'[w], value |-> p] \in Request
  BY <1>2, <1>3, <1>4, JournalAssumption DEF Request
<1>6. wire' \subseteq Request /\ wire \subseteq wire'
  BY <1>1, <1>5 DEF Emit, RestSound
<1>7. /\ count' \in [calls : 0..MaxCalls, events : 0..MaxEvents, faults : 0..MaxFaults, snapshots : 0..MaxSnapshots,
                     leases : 0..MaxLeases, entries : 0..MaxEntries]
      /\ count'.events = count.events + 1 /\ count'.faults = count.faults
  BY <1>1, <1>3 DEF RestSound
<1>8. WithinBounds'
  <2> SUFFICES ASSUME NEW v \in Workers PROVE number'[v] <= count'.events /\ process'[v] <= count'.faults
    BY DEF WithinBounds
  <2>1. process'[v] <= count'.faults
    BY <1>1, <1>7 DEF Emit, RestSound, WithinBounds
  <2>2. number[v] <= count.events /\ number[v] \in Nat
    BY <1>1 DEF RestSound, WithinBounds
  <2>3. number'[v] <= count'.events
    BY <1>2, <1>4, <1>7, <2>2
  <2> QED BY <2>1, <2>3
<1>9. RestSound'
  <2>1. UNCHANGED <<row, progress, held, caching, cached, cancelling, process, admitted, accepted, rented, journal, client>>
    BY DEF Emit, jobVars
  <2> HIDE DEF Request
  <2> QED BY <1>1, <1>4, <1>6, <1>7, <1>8, <2>1 DEF RestSound, HeldIsOld
<1> QED BY <1>9, SilentKept DEF Emit, jobVars

\* A new process of the worker: its numbers begin again.
LEMMA RestartStep ==
    ASSUME JournalInv, NEW w \in Workers, RestartWorker(w)
    PROVE  JournalInv'
<1>1. RestSound /\ RowSound
  BY InvariantParts
<1>2. /\ process[w] \in 0..MaxFaults /\ process[w] <= count.faults /\ MaxFaults \in Nat
      /\ count.faults \in 0..MaxFaults /\ count.faults < MaxFaults
  BY <1>1, JournalAssumption DEF RestartWorker, RestSound, WithinBounds, Processes
<1>3. /\ process' = [process EXCEPT ![w] = process[w] + 1] /\ process[w] + 1 \in Processes
      /\ count' = [count EXCEPT !.faults = count.faults + 1] /\ count.faults + 1 \in 0..MaxFaults
      /\ number' = [number EXCEPT ![w] = 0] /\ 0 \in 0..MaxEvents
  BY <1>2, JournalAssumption DEF RestartWorker, Processes
<1>4. /\ process' \in [Workers -> Processes] /\ number' \in [Workers -> 0..MaxEvents]
      /\ process'[w] = process[w] + 1 /\ number'[w] = 0
      /\ \A v \in Workers \ {w} : process'[v] = process[v] /\ number'[v] = number[v]
  BY <1>1, <1>3 DEF RestSound
<1>5. /\ count' \in [calls : 0..MaxCalls, events : 0..MaxEvents, faults : 0..MaxFaults, snapshots : 0..MaxSnapshots,
                     leases : 0..MaxLeases, entries : 0..MaxEntries]
      /\ count'.events = count.events /\ count'.faults = count.faults + 1 /\ count.events \in Nat
  BY <1>1, <1>3 DEF RestSound
<1>6. WithinBounds'
  <2> SUFFICES ASSUME NEW v \in Workers PROVE number'[v] <= count'.events /\ process'[v] <= count'.faults
    BY DEF WithinBounds
  <2>1. /\ number[v] <= count.events /\ number[v] \in Nat
        /\ process[v] <= count.faults /\ process[v] \in Nat
    BY <1>1 DEF RestSound, WithinBounds, Processes
  <2> QED BY <1>2, <1>4, <1>5, <2>1
<1>7. RestSound'
  BY <1>1, <1>4, <1>5, <1>6 DEF RestSound, RestartWorker, jobVars, HeldIsOld
<1> QED BY <1>7, SilentKept DEF RestartWorker, jobVars

LEMMA AdmitStep ==
    ASSUME JournalInv, NEW m \in wire, AdmitEvent(m)
    PROVE  JournalInv'
<1>1. RestSound
  BY InvariantParts
<1>2. RestSound'
  BY <1>1 DEF RestSound, AdmitEvent, jobVars, HeldIsOld, WithinBounds
<1> QED BY <1>2, SilentKept DEF AdmitEvent, jobVars

-----------------------------------------------------------------------------
(* Journal: the answers *)

\* The entry of a request names the request and nothing else.
LEMMA EntryOfRequest ==
    ASSUME NEW m \in Request
    PROVE  /\ OfWorker(m) \in Entry /\ OfWorker(m).type = "worker" /\ OfWorker(m).status = "none"
           /\ OfWorker(m).producer = ProducerOf(m) /\ OfWorker(m).number = m.number
           /\ OfWorker(m).progress = m.value
<1> DEFINE plain == Plain("worker")
<1>1. plain \in Entry /\ plain.type = "worker" /\ plain.status = "none"
  BY EntriesTyped DEF Types
<1>2. /\ m.value \in 0..Full /\ m.number \in 1..MaxEvents /\ ProducerOf(m) \in Producer
  BY DEF Request, ProducerOf, Producer
<1>3. m.number \in 0..MaxEvents
  BY <1>2, JournalAssumption
<1>4. OfWorker(m) = [plain EXCEPT !.progress = m.value, !.producer = ProducerOf(m), !.number = m.number]
  BY DEF OfWorker
<1> HIDE DEF plain
<1> QED BY <1>1, <1>2, <1>3, <1>4 DEF Entry

LEMMA RequestOfEntry ==
    ASSUME NEW m \in Request, NEW k \in Request, OfWorker(m) = OfWorker(k)
    PROVE  m = k
<1>1. ProducerOf(m) = ProducerOf(k) /\ m.number = k.number /\ m.value = k.value
  BY EntryOfRequest
<1>2. m.worker = k.worker /\ m.process = k.process
  BY <1>1 DEF ProducerOf
<1> QED BY <1>1, <1>2 DEF Request

\* A journal has finitely many entries of any kind.
LEMMA FinitelyMany ==
    ASSUME NEW s \in Seq(Entry)
    PROVE  IsFiniteSet({i \in DOMAIN s : s[i].type = "worker"})
<1>1. DOMAIN s = 1..Len(s) /\ Len(s) \in Nat
  BY LenProperties
<1>2. IsFiniteSet(1..Len(s))
  BY <1>1, FS_Interval
<1> QED BY <1>1, <1>2, FS_Subset

\* The first delivery leaves one entry, and another delivery leaves none.
LEMMA AppendStep ==
    ASSUME JournalInv, NEW m \in admitted, AppendEvent(m)
    PROVE  JournalInv'
<1>1. JournalSound /\ AnswersSound /\ RowSound /\ RestSound
  BY InvariantParts
<1>2. m \in Request /\ m \in wire /\ accepted \subseteq Request
  BY <1>1 DEF RestSound
<1>3. RestSound'
  <2>1. UNCHANGED <<row, progress, held, caching, cached, cancelling, process, number, wire, rented, client, count>>
    BY DEF AppendEvent, jobVars
  <2>2. admitted' \subseteq wire /\ accepted' \subseteq wire
    BY <1>1, <1>2 DEF AppendEvent, RestSound
  <2> QED BY <1>1, <2>1, <2>2 DEF RestSound, HeldIsOld, WithinBounds
<1> DEFINE e == OfWorker(m)
<1>4. /\ e \in Entry /\ e.type = "worker" /\ e.status = "none"
      /\ e.producer = ProducerOf(m) /\ e.number = m.number
  BY <1>2, EntryOfRequest
<1>5. UNCHANGED <<row, progress, rented, client>>
  BY DEF AppendEvent, jobVars
<1>6. CASE Replayed(m) = {}
  <2>1. journal' = journal \o <<e>> /\ accepted' = accepted \cup {m}
    BY <1>6 DEF AppendEvent, Logs
  <2> HIDE DEF e
  <2>2. <<e>> \in Seq(Entry) /\ DOMAIN <<e>> = {1} /\ <<e>>[1] = e /\ Len(<<e>>) = 1
    BY <1>4
  <2>3. LatestStatus(<<e>>, row.status) = row.status
    BY <1>4, LatestOfOne DEF Lifecycle
  <2>4. JournalSound' /\ RowSound'
    BY <1>1, <1>4, <1>5, <2>1, <2>2, <2>3, JournalGrows DEF RowSound, SoundRow
  <2>5. m \notin accepted
    BY <1>6, <1>4, <1>1 DEF AnswersSound, EntriesAreAnswers, Replayed, e
  <2>6. journal \in Seq(Entry) /\ DOMAIN journal = 1..Len(journal) /\ Len(journal) \in Nat
    BY <1>1, LenProperties DEF JournalSound
  <2>7. ASSUME NEW i
        PROVE  /\ i \in DOMAIN journal => i \in DOMAIN journal' /\ journal'[i] = journal[i]
               /\ i \in DOMAIN journal' => i \in DOMAIN journal \/ (i = Len(journal) + 1 /\ journal'[i] = e)
    <3>1. i \in DOMAIN journal => i \in DOMAIN journal' /\ journal'[i] = journal[i]
      BY <2>1, <2>2, <2>6, PositionsGrow
    <3>2. ASSUME i \in DOMAIN journal', i \notin DOMAIN journal
          PROVE  i = Len(journal) + 1 /\ journal'[i] = e
      <4>1. i - Len(journal) \in {1} /\ journal'[i] = <<e>>[i - Len(journal)]
        BY <3>2, <2>1, <2>2, <2>6, PositionsGrow
      <4>2. i \in Nat
        <5>1. journal' \in Seq(Entry)
          BY <2>4 DEF JournalSound
        <5> QED BY <3>2, <5>1, LenProperties
      <4> QED BY <2>2, <2>6, <4>1, <4>2
    <3> QED BY <3>1, <3>2
  <2>8. Len(journal) + 1 \in DOMAIN journal' /\ journal'[Len(journal) + 1] = e
    BY <2>1, <2>2, <2>6, PositionsGrow
  <2>9. EntriesAreAnswers'
    <3>1. ASSUME NEW k \in accepted' PROVE \E i \in DOMAIN journal' : journal'[i] = OfWorker(k)
      <4>1. CASE k = m
        BY <2>8, <4>1 DEF e
      <4>2. CASE k \in accepted
        BY <1>1, <2>7, <4>2 DEF AnswersSound, EntriesAreAnswers
      <4> QED BY <2>1, <4>1, <4>2
    <3>2. ASSUME NEW i \in DOMAIN journal', journal'[i].type = "worker"
          PROVE  \E k \in accepted' : journal'[i] = OfWorker(k)
      BY <1>1, <2>1, <2>7, <3>2 DEF AnswersSound, EntriesAreAnswers, e
    <3>3. IsFiniteSet(accepted')
      BY <1>1, <2>1, FS_AddElement DEF AnswersSound, EntriesAreAnswers
    <3> QED BY <3>1, <3>2, <3>3 DEF EntriesAreAnswers
  <2>10. AnsweredOnce'
    <3> DEFINE old == {i \in DOMAIN journal : journal[i].type = "worker"}
               new == {i \in DOMAIN journal' : journal'[i].type = "worker"}
    <3>1. new = old \cup {Len(journal) + 1}
      BY <1>4, <2>7, <2>8
    <3>2. Len(journal) + 1 \notin old
      BY <2>6
    <3>3. IsFiniteSet(old)
      BY <2>6, FinitelyMany
    <3>4. Cardinality(old) = Cardinality(accepted) /\ IsFiniteSet(accepted)
      BY <1>1 DEF AnswersSound, AnsweredOnce, EntriesAreAnswers
    <3> HIDE DEF old, new
    <3>5. Cardinality(new) = Cardinality(old) + 1
      BY <3>1, <3>2, <3>3, FS_AddElement
    <3>6. Cardinality(accepted') = Cardinality(accepted) + 1
      BY <2>1, <2>5, <3>4, FS_AddElement
    <3> QED BY <3>4, <3>5, <3>6 DEF AnsweredOnce, new
  <2> QED BY <1>3, <2>4, <2>9, <2>10, InvariantWhole DEF AnswersSound
<1>7. CASE Replayed(m) # {}
  <2>1. UNCHANGED journal /\ (accepted' = accepted \/ (accepted' = accepted \cup {m} /\ \A i \in Replayed(m) : journal[i] = e))
    BY <1>7 DEF AppendEvent
  <2>2. (\A i \in Replayed(m) : journal[i] = e) => m \in accepted
    <3> SUFFICES ASSUME \A i \in Replayed(m) : journal[i] = e PROVE m \in accepted
      OBVIOUS
    <3>1. PICK i \in DOMAIN journal : journal[i] = e
      BY <1>7 DEF Replayed
    <3>2. PICK k \in accepted : journal[i] = OfWorker(k)
      BY <1>1, <1>4, <3>1 DEF AnswersSound, EntriesAreAnswers
    <3> QED BY <1>2, <3>1, <3>2, RequestOfEntry
  <2>3. accepted' = accepted
    BY <2>1, <2>2
  <2> QED BY <1>3, <1>5, <2>1, <2>3, SilentKept
<1> QED BY <1>6, <1>7

-----------------------------------------------------------------------------
(* Journal: the client *)

\* A step of the client leaves the journal, its answers and the job.
LEMMA ClientKept ==
    ASSUME JournalInv, ClientOnly, ClientCatchesUp', ShownIsJournaled',
           client' \in [at : {"idle", "counting", "ranking", "live"}, base : JobStatus,
                        cursor : Nat, top : 0..Full, status : JobStatus, shown : 0..Full],
           count' \in [calls : 0..MaxCalls, events : 0..MaxEvents,
                       faults : 0..MaxFaults, snapshots : 0..MaxSnapshots,
                       leases : 0..MaxLeases, entries : 0..MaxEntries],
           count'.events = count.events, count'.faults = count.faults
    PROVE  JournalInv'
<1>1. JournalSound /\ AnswersSound /\ RowSound /\ RestSound
  BY InvariantParts
<1>2. UNCHANGED <<row, progress, held, caching, cached, cancelling, process, number, wire, admitted, accepted, rented, journal>>
  BY DEF ClientOnly, jobVars, workerVars
<1>3. JournalSound' /\ AnswersSound' /\ RowSound'
  BY <1>1, <1>2 DEF JournalSound, AnswersSound, RowSound, RowIsJournaled, JournalFollowsRow, CompletedIsFull,
                    EntriesAreAnswers, AnsweredOnce, SoundRow
<1>4. RestSound'
  BY <1>1, <1>2 DEF RestSound, HeldIsOld, WithinBounds
<1> QED BY <1>3, <1>4, InvariantWhole

\* The highest progress is that of an entry, or none has any.
LEMMA HighestIsJournaled ==
    ASSUME NEW s \in Seq(Entry)
    PROVE  /\ HighestProgress(s) \in 0..Full
           /\ \A i \in DOMAIN s : s[i].progress <= HighestProgress(s)
           /\ HighestProgress(s) = 0 \/ \E i \in DOMAIN s : s[i].progress = HighestProgress(s)
<1> DEFINE S == {0} \cup {s[i].progress : i \in DOMAIN s}
<1>1. \A i \in DOMAIN s : s[i] \in Entry
  BY LenProperties, ElementOfSeq
<1>2. S \in SUBSET (0..Full) /\ S # {} /\ Full \in Nat
  BY <1>1, JournalAssumption DEF Entry
<1>3. HighestProgress(s) = Max(S)
  BY DEF HighestProgress
<1>4. \A i \in DOMAIN s : s[i].progress \in S
  OBVIOUS
<1>5. \A x \in S : x = 0 \/ \E i \in DOMAIN s : s[i].progress = x
  OBVIOUS
<1> HIDE DEF S
<1>6. Max(S) \in S /\ \A x \in S : x <= Max(S)
  BY <1>2, LastPosition
<1> QED BY <1>2, <1>3, <1>4, <1>5, <1>6

LEMMA SnapshotRowStep == ASSUME JournalInv, SnapshotRow PROVE JournalInv'
<1>1. RestSound /\ RowSound /\ JournalSound
  BY InvariantParts
<1>2. /\ client' = [client EXCEPT !.at = "counting", !.base = row.status] /\ row.status \in JobStatus
      /\ count' = [count EXCEPT !.snapshots = count.snapshots + 1] /\ count.snapshots + 1 \in 0..MaxSnapshots
  BY <1>1, JournalAssumption DEF SnapshotRow, RestSound, RowSound, SoundRow, JobRow
<1>3. /\ client' \in [at : {"idle", "counting", "ranking", "live"}, base : JobStatus,
                      cursor : Nat, top : 0..Full, status : JobStatus, shown : 0..Full]
      /\ client'.at = "counting" /\ client'.cursor = client.cursor
      /\ client'.top = client.top /\ client'.shown = client.shown
  BY <1>1, <1>2 DEF RestSound
<1>4. /\ count' \in [calls : 0..MaxCalls, events : 0..MaxEvents, faults : 0..MaxFaults, snapshots : 0..MaxSnapshots,
                     leases : 0..MaxLeases, entries : 0..MaxEntries]
      /\ count'.events = count.events /\ count'.faults = count.faults
  BY <1>1, <1>2 DEF RestSound
<1>5. journal' = journal /\ ClientOnly
  BY DEF SnapshotRow, ClientOnly
<1>6. ClientCatchesUp' /\ ShownIsJournaled'
  BY <1>1, <1>3, <1>5 DEF JournalSound, ClientCatchesUp, ShownIsJournaled
<1> QED BY <1>3, <1>4, <1>5, <1>6, ClientKept

LEMMA SnapshotCursorStep == ASSUME JournalInv, SnapshotCursor PROVE JournalInv'
<1>1. RestSound /\ RowSound /\ JournalSound
  BY InvariantParts
<1> DEFINE top == HighestProgress(journal)
<1>2. journal \in Seq(Entry) /\ Len(journal) \in Nat
  BY <1>1, LenProperties DEF JournalSound
<1>3. /\ top \in 0..Full /\ \A i \in DOMAIN journal : journal[i].progress <= top
      /\ top = 0 \/ \E i \in DOMAIN journal : journal[i].progress = top
      /\ \A i \in DOMAIN journal : journal[i].progress \in Nat
  <2>1. \A i \in DOMAIN journal : journal[i] \in Entry
    BY <1>2, LenProperties, ElementOfSeq
  <2>2. \A i \in DOMAIN journal : journal[i].progress \in Nat
    BY <2>1, JournalAssumption DEF Entry
  <2> QED BY <1>2, <2>2, HighestIsJournaled
<1>4. client' = [client EXCEPT !.at = "ranking", !.cursor = Len(journal), !.top = top]
  BY DEF SnapshotCursor
<1> HIDE DEF top
<1>5. /\ client' \in [at : {"idle", "counting", "ranking", "live"}, base : JobStatus,
                      cursor : Nat, top : 0..Full, status : JobStatus, shown : 0..Full]
      /\ client'.at = "ranking" /\ client'.cursor = Len(journal)
      /\ client'.top = top /\ client'.shown = client.shown /\ client.shown \in Nat
  <2>1. client \in [at : {"idle", "counting", "ranking", "live"}, base : JobStatus,
                   cursor : Nat, top : 0..Full, status : JobStatus, shown : 0..Full]
    BY <1>1 DEF RestSound
  <2>2. top \in 0..Full /\ Full \in Nat
    BY <1>3, JournalAssumption
  <2>3. client.shown \in Nat
    BY <2>1, <2>2
  <2> DEFINE n == Len(journal)
  <2>4. client' = [client EXCEPT !.at = "ranking", !.cursor = n, !.top = top] /\ n \in Nat
    BY <1>2, <1>4
  <2> HIDE DEF n
  <2>5. /\ client' \in [at : {"idle", "counting", "ranking", "live"}, base : JobStatus,
                        cursor : Nat, top : 0..Full, status : JobStatus, shown : 0..Full]
        /\ client'.at = "ranking" /\ client'.cursor = n /\ client'.top = top /\ client'.shown = client.shown
    BY <2>1, <2>2, <2>4
  <2> QED BY <2>3, <2>5 DEF n
<1>6. journal' = journal /\ ClientOnly /\ count' = count
  BY DEF SnapshotCursor, ClientOnly
<1>7. top >= client.shown
  BY <1>1, <1>3, <1>5 DEF JournalSound, ShownIsJournaled
<1>8. ClientCatchesUp' /\ ShownIsJournaled'
  <2>1. ClientCatchesUp'
    BY <1>2, <1>5, <1>6 DEF ClientCatchesUp
  <2>2. client'.shown = 0 \/ \E i \in DOMAIN journal : journal[i].progress >= client'.shown
    BY <1>1, <1>5 DEF JournalSound, ShownIsJournaled
  <2>3. client'.top = 0 \/ \E i \in DOMAIN journal : journal[i].progress >= client'.top
    BY <1>3, <1>5
  <2> QED BY <1>5, <1>6, <1>7, <2>1, <2>2, <2>3 DEF ShownIsJournaled
<1> QED BY <1>1, <1>5, <1>6, <1>8, ClientKept DEF RestSound

\* The status shown is the row's, and the progress shown is in the journal.
LEMMA SnapshotStatusStep ==
    ASSUME JournalInv, SnapshotStatus
    PROVE  JournalInv' /\ client'.shown >= client.shown
<1>1. RestSound /\ RowSound /\ JournalSound
  BY InvariantParts
<1>2. journal \in Seq(Entry) /\ Len(journal) \in Nat
  BY <1>1, LenProperties DEF JournalSound
<1>3. PICK i \in Positions(journal) : \A j \in Positions(journal) : j <= i
  BY <1>1, <1>2, LatestExists DEF JournalSound, RowIsJournaled
<1>4. LatestStatus(journal, client.base) = journal[i].status /\ row.status = journal[i].status
  BY <1>1, <1>2, <1>3, LatestAt DEF JournalSound, RowIsJournaled, JournalFollowsRow
<1>5. row.status \in JobStatus /\ client.top \in 0..Full /\ Full \in 0..Full
  BY <1>1, JournalAssumption DEF RowSound, SoundRow, JobRow, RestSound
<1> DEFINE shown == IF row.status = "completed" THEN Full ELSE client.top
<1>6. client' = [client EXCEPT !.at = "live", !.status = row.status, !.shown = shown]
  BY <1>4 DEF SnapshotStatus, Shown
<1>7. /\ shown \in 0..Full /\ shown >= client.top
      /\ shown = client.top \/ (shown = Full /\ row.status = "completed")
  BY <1>5
<1> HIDE DEF shown
<1>8. /\ client' \in [at : {"idle", "counting", "ranking", "live"}, base : JobStatus,
                      cursor : Nat, top : 0..Full, status : JobStatus, shown : 0..Full]
      /\ client'.at = "live" /\ client'.cursor = client.cursor /\ client'.status = row.status
      /\ client'.top = client.top /\ client'.shown = shown /\ client.shown \in 0..Full
  BY <1>1, <1>5, <1>6, <1>7 DEF RestSound
<1>9. journal' = journal /\ row' = row /\ ClientOnly /\ count' = count
  BY DEF SnapshotStatus, ClientOnly, jobVars
<1>10. client.at = "ranking"
  BY DEF SnapshotStatus
<1>11. client'.shown >= client.shown
  BY <1>1, <1>5, <1>7, <1>8, <1>10 DEF JournalSound, ShownIsJournaled
<1>12. ClientCatchesUp'
  BY <1>1, <1>8, <1>9 DEF JournalSound, ClientCatchesUp
<1>13. shown = 0 \/ \E k \in DOMAIN journal : journal[k].progress >= shown
  <2>1. CASE shown = client.top
    BY <1>1, <2>1 DEF JournalSound, ShownIsJournaled
  <2>2. CASE shown = Full /\ row.status = "completed"
    <3>1. i \in DOMAIN journal /\ journal[i].progress = Full
      BY <1>1, <1>3, <1>4, <2>2 DEF JournalSound, CompletedIsFull, Positions
    <3> QED BY <1>5, <2>2, <3>1
  <2> QED BY <1>7, <2>1, <2>2
<1>14. ShownIsJournaled'
  BY <1>1, <1>8, <1>9, <1>13 DEF JournalSound, ShownIsJournaled
<1> QED BY <1>1, <1>8, <1>9, <1>11, <1>12, <1>14, ClientKept DEF RestSound

\* The page after a position of the journal.
LEMMA PageRead ==
    ASSUME NEW c \in Nat, journal \in Seq(Entry), c < Len(journal)
    PROVE  /\ Page(c) \in Seq(Entry) /\ Len(Page(c)) \in 1 .. Len(journal) - c
           /\ \A i \in 1 .. Len(Page(c)) : Page(c)[i] = journal[c + i]
<1> DEFINE n == IF c + PageSize < Len(journal) THEN c + PageSize ELSE Len(journal)
           page == SubSeq(journal, c + 1, n)
<1>1. Len(journal) \in Nat /\ DOMAIN journal = 1..Len(journal) /\ PageSize \in Nat \ {0}
  BY LenProperties, JournalAssumption
<1>2. n \in Nat /\ c + 1 <= n /\ n <= Len(journal) /\ Page(c) = page
  BY <1>1 DEF Page
<1> HIDE DEF n
<1>3. \A i \in c + 1 .. n : journal[i] \in Entry
  BY <1>1, <1>2, ElementOfSeq
<1>4. c + 1 \in Int /\ n \in Int
  BY <1>2
<1>5. /\ page \in Seq(Entry) /\ Len(page) = n - (c + 1) + 1
      /\ \A i \in 1 .. n - (c + 1) + 1 : page[i] = journal[c + 1 + i - 1]
  BY <1>2, <1>3, <1>4, SubSeqProperties
<1>6. n - (c + 1) + 1 = n - c /\ \A i \in Int : c + 1 + i - 1 = c + i
  BY <1>2
<1>7. n - c \in 1 .. Len(journal) - c
  BY <1>1, <1>2
<1> HIDE DEF page
<1>8. ASSUME NEW i \in 1 .. n - c PROVE page[i] = journal[c + i]
  <2>1. i \in Int /\ i \in 1 .. n - (c + 1) + 1
    BY <1>2, <1>6
  <2>2. c + 1 + i - 1 = c + i
    BY <2>1
  <2> QED BY <1>5, <2>1, <2>2
<1> QED BY <1>2, <1>5, <1>6, <1>7, <1>8

LEMMA PollStep ==
    ASSUME JournalInv, Poll
    PROVE  JournalInv' /\ client'.shown = client.shown
<1>1. RestSound /\ RowSound /\ JournalSound
  BY InvariantParts
<1> DEFINE c == client.cursor
           page == Page(c)
           status == LatestStatus(page, client.status)
<1>2. journal \in Seq(Entry) /\ Len(journal) \in Nat /\ DOMAIN journal = 1..Len(journal)
  BY <1>1, LenProperties DEF JournalSound
<1>3. c \in Nat /\ c < Len(journal) /\ client.at = "live" /\ client.status \in JobStatus
  BY <1>1 DEF Poll, RestSound
<1>4. client' = [client EXCEPT !.status = status, !.cursor = c + Len(page)]
  BY DEF Poll
<1>5. /\ page \in Seq(Entry) /\ Len(page) \in 1 .. Len(journal) - c
      /\ \A i \in 1 .. Len(page) : page[i] = journal[c + i]
  BY <1>2, <1>3, PageRead
<1>6. journal' = journal /\ row' = row /\ ClientOnly /\ count' = count
  BY DEF Poll, ClientOnly, jobVars
<1> HIDE DEF page, c
<1>7. DOMAIN page = 1..Len(page) /\ Positions(page) \subseteq 1..Len(page)
  BY <1>5, LenProperties DEF Positions
<1>8. ASSUME NEW i \in 1..Len(page) PROVE i \in Positions(page) <=> c + i \in Positions(journal)
  BY <1>2, <1>3, <1>5, <1>7 DEF Positions
<1>9. \/ Positions(page) = {} /\ status = client.status
      \/ \E i \in Positions(page) : (\A j \in Positions(page) : j <= i) /\ status = page[i].status
  BY <1>5, LatestExists
<1>10. status \in JobStatus
  <2>1. \A i \in Positions(page) : page[i] \in Entry
    BY <1>5, <1>7, ElementOfSeq
  <2> QED BY <1>3, <1>9, <2>1 DEF Entry
<1> HIDE DEF status
<1>11. /\ client' \in [at : {"idle", "counting", "ranking", "live"}, base : JobStatus,
                       cursor : Nat, top : 0..Full, status : JobStatus, shown : 0..Full]
       /\ client'.at = "live" /\ client'.cursor = c + Len(page) /\ client'.status = status
       /\ client'.top = client.top /\ client'.shown = client.shown
  <2>1. c + Len(page) \in Nat
    BY <1>2, <1>3, <1>5
  <2> QED BY <1>1, <1>3, <1>4, <1>10, <2>1 DEF RestSound
<1>12. client'.cursor <= Len(journal)
  BY <1>2, <1>3, <1>5, <1>11
<1>13. ASSUME \A i \in Positions(journal) : i <= c + Len(page)
       PROVE  status = row.status
  <2>1. CASE Positions(page) = {}
    <3>1. ASSUME NEW i \in Positions(journal) PROVE i <= c
      <4>1. i \in Nat /\ i <= c + Len(page)
        BY <1>2, <1>13, <3>1 DEF Positions
      <4>2. ASSUME i > c PROVE FALSE
        <5>1. i - c \in 1..Len(page) /\ c + (i - c) = i
          BY <1>3, <1>5, <4>1, <4>2
        <5> QED BY <1>8, <2>1, <3>1, <5>1
      <4> QED BY <1>3, <4>1, <4>2
    <3>2. client.status = row.status
      BY <1>1, <1>3, <3>1 DEF JournalSound, ClientCatchesUp, c
    <3> QED BY <1>9, <2>1, <3>2
  <2>2. ASSUME NEW i \in Positions(page), \A j \in Positions(page) : j <= i, status = page[i].status
        PROVE  status = row.status
    <3>1. i \in 1..Len(page) /\ c + i \in Positions(journal) /\ page[i] = journal[c + i]
      BY <1>5, <1>7, <1>8, <2>2
    <3>2. ASSUME NEW j \in Positions(journal) PROVE j <= c + i
      <4>1. j \in Nat /\ j <= c + Len(page)
        BY <1>2, <1>13, <3>2 DEF Positions
      <4>2. CASE j <= c
        BY <1>3, <3>1, <4>1, <4>2
      <4>3. CASE j > c
        <5>1. j - c \in 1..Len(page) /\ c + (j - c) = j
          BY <1>3, <1>5, <4>1, <4>3
        <5>2. j - c <= i
          BY <1>8, <2>2, <3>2, <5>1
        <5> QED BY <1>3, <3>1, <4>1, <5>2
      <4> QED BY <1>3, <4>1, <4>2, <4>3
    <3>3. LatestStatus(journal, "none") = journal[c + i].status
      BY <1>2, <3>1, <3>2, LatestAt
    <3> QED BY <1>1, <2>2, <3>1, <3>3 DEF JournalSound, RowIsJournaled, JournalFollowsRow
  <2> QED BY <1>9, <2>1, <2>2
<1>14. ClientCatchesUp'
  BY <1>6, <1>11, <1>12, <1>13 DEF ClientCatchesUp
<1>15. ShownIsJournaled'
  BY <1>1, <1>6, <1>11 DEF JournalSound, ShownIsJournaled
<1> QED BY <1>1, <1>6, <1>11, <1>14, <1>15, ClientKept DEF RestSound

-----------------------------------------------------------------------------
(* Journal: the theorems *)

LEMMA JournalStarts == JournalInit => JournalInv
<1> SUFFICES ASSUME JournalInit PROVE JournalInv
  OBVIOUS
<1> USE DEF JournalInit, Created
<1> DEFINE e == OfJob("job_created", CreatedRow, 0)
<1>1. /\ Full \in Nat \ {0} /\ 0 \in 0..Full /\ MaxEvents \in Nat /\ MaxFaults \in Nat /\ MaxCalls \in Nat
      /\ MaxSnapshots \in Nat /\ MaxLeases \in Nat /\ MaxEntries \in Nat /\ MaxAttempts \in Nat \ {0}
  BY JournalAssumption, AttemptsAssumption
<1>2. NoJobRow \in JobRow
  BY <1>1 DEF NoJobRow, JobRow, JobStatus
<1>3. SoundRow(CreatedRow) /\ CreatedRow.status = "queued" /\ CreatedRow \in JobRow
  BY <1>1 DEF CreatedRow, NoJobRow, SoundRow, JobRow, JobStatus
<1>4. e \in Entry /\ e.type = "job_created" /\ e.status = "queued" /\ e.progress = 0
  BY <1>1, <1>3, EntriesTyped DEF Types, Lifecycle
<1> HIDE DEF e
<1>5. /\ journal = <<e>> /\ journal \in Seq(Entry) /\ DOMAIN journal = {1} /\ journal[1] = e /\ Len(journal) = 1
  BY <1>4 DEF e
<1>6. LatestStatus(journal, "none") = "queued" /\ Positions(journal) = {1}
  <2>1. LatestStatus(<<e>>, "none") = "queued"
    BY <1>4, LatestOfOne DEF Lifecycle
  <2> QED BY <1>4, <1>5, <2>1 DEF Positions, Lifecycle
<1>7. SoundRow(row) /\ RowIsJournaled /\ CompletedIsFull
  BY <1>3, <1>4, <1>5, <1>6 DEF RowIsJournaled, JournalFollowsRow, CompletedIsFull
<1>8. ClientCatchesUp /\ ShownIsJournaled
  BY <1>5 DEF ClientCatchesUp, ShownIsJournaled
<1>9. EntriesAreAnswers /\ AnsweredOnce
  <2>1. {i \in DOMAIN journal : journal[i].type = "worker"} = {} /\ accepted = {}
    BY <1>4, <1>5
  <2> QED BY <1>4, <1>5, <2>1, FS_EmptySet DEF EntriesAreAnswers, AnsweredOnce
<1>10. HeldIsOld /\ WithinBounds
  BY <1>1 DEF HeldIsOld, NotHeld, WithinBounds, Unused
<1>11. NoLeaseRow \in LeaseRow
  BY DEF NoLeaseRow, LeaseRow, LeaseStatus
<1>12. JournalTypeOK
  <2>1. row \in JobRow /\ progress \in 0..Full /\ rented \in [Leases -> LeaseRow] /\ journal \in Seq(Entry)
    BY <1>1, <1>3, <1>5, <1>11
  <2>2. held \in [row : JobRow, progress : 0..Full, live : BOOLEAN]
    BY <1>1, <1>2 DEF NotHeld
  <2>3. process \in [Workers -> Processes] /\ number \in [Workers -> 0..MaxEvents]
    BY <1>1 DEF Processes
  <2>4. client \in [at : {"idle", "counting", "ranking", "live"}, base : JobStatus,
                    cursor : Nat, top : 0..Full, status : JobStatus, shown : 0..Full]
    BY <1>1 DEF JobStatus
  <2>5. count \in [calls : 0..MaxCalls, events : 0..MaxEvents, faults : 0..MaxFaults, snapshots : 0..MaxSnapshots,
                   leases : 0..MaxLeases, entries : 0..MaxEntries]
    BY <1>1 DEF Unused
  <2> QED BY <2>1, <2>2, <2>3, <2>4, <2>5 DEF JournalTypeOK
<1> QED BY <1>7, <1>8, <1>9, <1>10, <1>12 DEF JournalInv

\* Every step keeps the invariant, and a snapshot shows no less than the last.
LEMMA JournalSteps ==
    ASSUME JournalInv, [JournalNext]_journalVars
    PROVE  JournalInv' /\ client'.shown >= client.shown
<1>1. client.shown \in 0..Full /\ client.shown >= client.shown
  BY JournalAssumption DEF JournalInv, JournalTypeOK
<1>2. ASSUME NEW w \in Workers, NEW l \in Leases, ClaimJob(w, l) PROVE JournalInv' /\ client' = client
  BY <1>2, ClaimStep DEF ClaimJob
<1>3. ASSUME NEW w \in Workers, ClaimLocally(w) \/ MarkRunning(w) \/ Complete(w) \/ Fail(w)
      PROVE  JournalInv' /\ client' = client
  BY <1>3, RowSteps DEF ClaimLocally, MarkRunning, Complete, Fail
<1>4. ASSUME WriteProgress \/ CancelFails PROVE JournalInv' /\ client' = client
  BY <1>4, RowSteps DEF WriteProgress, CancelFails
<1>5. ASSUME NEW w \in Workers, RestartWorker(w) PROVE JournalInv' /\ client' = client
  BY <1>5, RestartStep DEF RestartWorker
<1>6. ASSUME NEW w \in Workers, NEW p \in 0 .. Full + 1, ReadProgress(w, p) PROVE JournalInv' /\ client' = client
  BY <1>6, CallSteps DEF ReadProgress
<1>7. ASSUME NEW w \in Workers, NEW p \in 0 .. Full - 1, Emit(w, p) PROVE JournalInv' /\ client' = client
  BY <1>7, EmitStep DEF Emit
<1>8. ASSUME CacheResult \/ CoordinatorCrash PROVE JournalInv' /\ client' = client
  BY <1>8, CallSteps DEF CacheResult, CoordinatorCrash
<1>9. ASSUME CancelAsked \/ CancelRevokes PROVE JournalInv' /\ client' = client
  BY <1>9, CancelSteps DEF CancelAsked, CancelRevokes
<1>10. ASSUME NEW l \in Leases,
              CreateLease(l) \/ BindLease(l) \/ Revoke(l) \/ Attempt(l) \/ Confirm(l) \/ CloseUnbound(l)
       PROVE  JournalInv' /\ client' = client
  BY <1>10, LeaseSteps DEF CreateLease, BindLease, Revoke, Attempt, Confirm, CloseUnbound, LeaseStep
<1>11. ASSUME NEW m \in wire, AdmitEvent(m) PROVE JournalInv' /\ client' = client
  BY <1>11, AdmitStep DEF AdmitEvent
<1>12. ASSUME NEW m \in admitted, AppendEvent(m) PROVE JournalInv' /\ client' = client
  BY <1>12, AppendStep DEF AppendEvent
<1>13. CASE SnapshotRow
  <2>1. client'.shown = client.shown
    BY <1>13 DEF SnapshotRow, JournalInv, JournalTypeOK
  <2> QED BY <1>1, <1>13, <2>1, SnapshotRowStep
<1>14. CASE SnapshotCursor
  <2>1. client'.shown = client.shown
    BY <1>14 DEF SnapshotCursor, JournalInv, JournalTypeOK
  <2> QED BY <1>1, <1>14, <2>1, SnapshotCursorStep
<1>15. CASE SnapshotStatus
  BY <1>15, SnapshotStatusStep
<1>16. CASE Poll
  BY <1>1, <1>16, PollStep
<1>17. CASE UNCHANGED journalVars
  <2>1. RestSound'
    BY <1>17, InvariantParts
       DEF journalVars, jobVars, workerVars, RestSound, HeldIsOld, WithinBounds
  <2> QED BY <1>1, <1>17, <2>1, SilentKept DEF journalVars, jobVars, workerVars
<1> QED
  BY <1>1, <1>2, <1>3, <1>4, <1>5, <1>6, <1>7, <1>8, <1>9, <1>10, <1>11, <1>12, <1>13, <1>14, <1>15, <1>16, <1>17
     DEF JournalNext

\* Between any two steps of the job's row, its leases, the events and the
\* client's queries the journal, the row, the answers and the client agree.
THEOREM JournalInvariant == JournalSpec => []JournalInv
<1>1. JournalInit => JournalInv
  BY JournalStarts
<1>2. JournalInv /\ [JournalNext]_journalVars => JournalInv'
  BY JournalSteps
<1> QED BY <1>1, <1>2, PTL DEF JournalSpec

\* The status of the row is that of the journal's latest lifecycle entry: the
\* stale write of set_progress compares with the row, not with what it has read.
THEOREM JournalSaysTheStatus == JournalSpec => []JournalFollowsRow
<1>1. JournalInv => JournalFollowsRow
  BY DEF JournalInv, RowIsJournaled
<1> QED BY <1>1, JournalInvariant, PTL

\* A request of the event endpoint that was answered has exactly one entry,
\* through every redelivery, restart and crash.
THEOREM AnswersAreJournaledOnce == JournalSpec => []AnsweredOnce
<1>1. JournalInv => AnsweredOnce
  BY DEF JournalInv
<1> QED BY <1>1, JournalInvariant, PTL

\* A client that reads on from its snapshot's cursor to the end of the journal
\* knows the status of the job, whatever happened between its three queries.
THEOREM ResumingCatchesUp == JournalSpec => []ResumedClientIsCurrent
<1>1. ASSUME JournalInv PROVE ResumedClientIsCurrent
  <2>1. journal \in Seq(Entry) /\ ClientCatchesUp
    BY <1>1 DEF JournalInv, JournalTypeOK
  <2>2. \A i \in Positions(journal) : i <= Len(journal)
    BY <2>1, LenProperties DEF Positions
  <2> QED BY <2>1, <2>2 DEF ClientCatchesUp, ResumedClientIsCurrent
<1> QED BY <1>1, JournalInvariant, PTL

\* What a snapshot shows of the progress never falls, although a retried job
\* starts over and reports may arrive late: the highest entry is shown.
THEOREM ShownProgressRises == JournalSpec => ShownProgressNeverFalls
<1>1. JournalInv /\ [JournalNext]_journalVars => [client'.shown >= client.shown]_journalVars
  BY JournalSteps
<1> QED BY <1>1, JournalInvariant, PTL DEF JournalSpec, ShownProgressNeverFalls

-----------------------------------------------------------------------------
(* Journal: billing and the partition cache *)

\* What the journal says of the machines: a receipt for those that are gone,
\* and the instance of each that was bound.
Gone(r) == r.bound /\ r.status = "closed"

ReceiptsAreTrue == \A i \in DOMAIN journal : journal[i].type \in Receipts => \E l \in Leases : Gone(rented[l])

MachinesAreJournaled ==
    \A l \in Leases : /\ Gone(rented[l]) => \E i \in DOMAIN journal : journal[i].type \in Receipts
                      /\ rented[l].bound => \E i \in DOMAIN journal : journal[i].pod = TRUE

\* A result that is cached, or about to be, has its entry.
CachedIsJournaled ==
    caching \/ cached => \E i \in Positions(journal) : journal[i].status = "completed"

BillingInv == ReceiptsAreTrue /\ MachinesAreJournaled /\ CachedIsJournaled

LEMMA EntryFields ==
    /\ \A type, r, p : OfJob(type, r, p).type = type
    /\ \A type : Plain(type).type = type
    /\ \A type, l : OfLease(type, l).type = type
    /\ \A type, l, b : /\ [OfLease(type, l) EXCEPT !.pod = b].type = type
                       /\ [OfLease(type, l) EXCEPT !.pod = b].pod = b
    /\ \A m : OfWorker(m).type = "worker"
  BY DEF OfJob, OfLease, OfWorker, Plain

\* The entries of a longer journal: the old ones where they were, and the new.
LEMMA EntriesOf ==
    ASSUME NEW S, NEW s \in Seq(S), NEW t \in Seq(S)
    PROVE  /\ \A i \in DOMAIN s : i \in DOMAIN (s \o t) /\ (s \o t)[i] = s[i]
           /\ \A i \in DOMAIN (s \o t) : \/ i \in DOMAIN s /\ (s \o t)[i] = s[i]
                                         \/ \E j \in DOMAIN t : (s \o t)[i] = t[j]
           /\ \A j \in DOMAIN t : \E i \in DOMAIN (s \o t) : (s \o t)[i] = t[j]
<1> DEFINE st == s \o t
<1>1. /\ st \in Seq(S) /\ Len(st) = Len(s) + Len(t)
      /\ \A k \in 1 .. Len(s) + Len(t) : st[k] = IF k <= Len(s) THEN s[k] ELSE t[k - Len(s)]
  BY ConcatProperties
<1>2. /\ Len(s) \in Nat /\ DOMAIN s = 1..Len(s) /\ Len(t) \in Nat /\ DOMAIN t = 1..Len(t)
      /\ DOMAIN st = 1 .. Len(s) + Len(t)
  BY <1>1, LenProperties
<1> HIDE DEF st
<1>3. \A i \in DOMAIN s : i \in DOMAIN st /\ st[i] = s[i]
  BY <1>1, <1>2
<1>4. ASSUME NEW i \in DOMAIN st PROVE (i \in DOMAIN s /\ st[i] = s[i]) \/ \E j \in DOMAIN t : st[i] = t[j]
  <2>1. CASE i <= Len(s)
    BY <1>1, <1>2, <2>1
  <2>2. CASE ~(i <= Len(s))
    <3>1. i - Len(s) \in DOMAIN t /\ st[i] = t[i - Len(s)]
      BY <1>1, <1>2, <2>2
    <3> QED BY <3>1
  <2> QED BY <2>1, <2>2
<1>5. ASSUME NEW j \in DOMAIN t PROVE \E i \in DOMAIN st : st[i] = t[j]
  <2>1. Len(s) + j \in DOMAIN st /\ st[Len(s) + j] = t[j]
    BY <1>1, <1>2
  <2> QED BY <2>1
<1> QED BY <1>3, <1>4, <1>5 DEF st

\* What a step may append: no more than two entries.
Appended(es) ==
    \/ es = <<>>
    \/ \E e : es = <<e>>
    \/ \E e, f : es = <<e, f>>

LEMMA JournalKeepsEntries ==
    ASSUME journal \in Seq(Entry), NEW es, Appended(es), journal' = journal \o es
    PROVE  /\ \A i \in DOMAIN journal : i \in DOMAIN journal' /\ journal'[i] = journal[i]
           /\ \A i \in DOMAIN journal' : \/ i \in DOMAIN journal /\ journal'[i] = journal[i]
                                         \/ \E j \in DOMAIN es : journal'[i] = es[j]
           /\ \A j \in DOMAIN es : \E i \in DOMAIN journal' : journal'[i] = es[j]
<1>1. \E S : journal \in Seq(S) /\ es \in Seq(S)
  <2>1. CASE es = <<>>
    BY <2>1
  <2>2. ASSUME NEW e, es = <<e>> PROVE \E S : journal \in Seq(S) /\ es \in Seq(S)
    <3>1. journal \in Seq(Entry \cup {e}) /\ es \in Seq(Entry \cup {e})
      BY <2>2
    <3> QED BY <3>1
  <2>3. ASSUME NEW e, NEW f, es = <<e, f>> PROVE \E S : journal \in Seq(S) /\ es \in Seq(S)
    <3>1. journal \in Seq(Entry \cup {e, f}) /\ es \in Seq(Entry \cup {e, f})
      BY <2>3
    <3> QED BY <3>1
  <2> QED BY <2>1, <2>2, <2>3 DEF Appended
<1>2. PICK S : journal \in Seq(S) /\ es \in Seq(S)
  BY <1>1
<1> QED BY <1>2, EntriesOf

\* No machine is bound by the step, and none goes.
SameMachines ==
    \A l \in Leases : /\ rented'[l].bound => rented[l].bound
                      /\ Gone(rented[l]) <=> Gone(rented'[l])

\* What a step says of the machines, and what it appends.
NothingOfMachines ==
    SameMachines /\ \E es : /\ Appended(es) /\ journal' = journal \o es
                            /\ \A j \in DOMAIN es : es[j].type \notin Receipts

MachineBound(l) ==
    /\ \E e : journal' = journal \o <<e>> /\ e.type \notin Receipts /\ e.pod = TRUE
    /\ \A k \in Leases : /\ k # l => rented'[k] = rented[k]
                         /\ Gone(rented[k]) <=> Gone(rented'[k])

MachineGone(l) ==
    /\ \E e : journal' = journal \o <<e>> /\ e.type \in Receipts
    /\ \A k \in Leases \ {l} : rented'[k] = rented[k]
    /\ rented[l].bound /\ Gone(rented'[l])

MachineStep ==
    \/ UNCHANGED <<journal, rented>>
    \/ NothingOfMachines
    \/ \E l \in Leases : MachineBound(l) \/ MachineGone(l)

LEMMA MachineStepKeeps ==
    ASSUME JournalInv, ReceiptsAreTrue, MachinesAreJournaled, MachineStep
    PROVE  /\ ReceiptsAreTrue' /\ MachinesAreJournaled'
           /\ \A i \in DOMAIN journal : i \in DOMAIN journal' /\ journal'[i] = journal[i]
<1>0. journal \in Seq(Entry)
  BY DEF JournalInv, JournalTypeOK
<1>1. CASE UNCHANGED <<journal, rented>>
  BY <1>1 DEF ReceiptsAreTrue, MachinesAreJournaled
<1>2. CASE NothingOfMachines
  <2>1. PICK es : Appended(es) /\ journal' = journal \o es /\ \A j \in DOMAIN es : es[j].type \notin Receipts
    BY <1>2 DEF NothingOfMachines
  <2>2. /\ \A i \in DOMAIN journal : i \in DOMAIN journal' /\ journal'[i] = journal[i]
        /\ \A i \in DOMAIN journal' : journal'[i].type \in Receipts => i \in DOMAIN journal /\ journal'[i] = journal[i]
    BY <1>0, <2>1, JournalKeepsEntries
  <2>3. ReceiptsAreTrue'
    BY <1>2, <2>2 DEF ReceiptsAreTrue, NothingOfMachines, SameMachines
  <2>4. MachinesAreJournaled'
    <3> SUFFICES ASSUME NEW l \in Leases
                 PROVE  /\ Gone(rented'[l]) => \E i \in DOMAIN journal' : journal'[i].type \in Receipts
                        /\ rented'[l].bound => \E i \in DOMAIN journal' : journal'[i].pod = TRUE
      BY DEF MachinesAreJournaled
    <3>1. (rented'[l].bound => rented[l].bound) /\ (Gone(rented'[l]) => Gone(rented[l]))
      BY <1>2 DEF NothingOfMachines, SameMachines
    <3> QED BY <2>2, <3>1 DEF MachinesAreJournaled
  <2> QED BY <2>2, <2>3, <2>4
<1>3. ASSUME NEW l \in Leases, MachineBound(l) \/ MachineGone(l)
      PROVE  /\ ReceiptsAreTrue' /\ MachinesAreJournaled'
             /\ \A i \in DOMAIN journal : i \in DOMAIN journal' /\ journal'[i] = journal[i]
  <2>1. PICK e : /\ journal' = journal \o <<e>>
                 /\ \/ MachineBound(l) /\ e.type \notin Receipts /\ e.pod = TRUE
                    \/ MachineGone(l) /\ e.type \in Receipts
    BY <1>3 DEF MachineBound, MachineGone
  <2>2. Appended(<<e>>) /\ DOMAIN <<e>> = {1} /\ <<e>>[1] = e
    BY DEF Appended
  <2>3. /\ \A i \in DOMAIN journal : i \in DOMAIN journal' /\ journal'[i] = journal[i]
        /\ \A i \in DOMAIN journal' : (i \in DOMAIN journal /\ journal'[i] = journal[i]) \/ journal'[i] = e
        /\ \E i \in DOMAIN journal' : journal'[i] = e
    BY <1>0, <2>1, <2>2, JournalKeepsEntries
  <2>4. CASE MachineBound(l) /\ e.type \notin Receipts /\ e.pod = TRUE
    <3>1. \A k \in Leases : Gone(rented'[k]) <=> Gone(rented[k])
      BY <2>4 DEF MachineBound
    <3>2. ReceiptsAreTrue'
      BY <2>3, <2>4, <3>1 DEF ReceiptsAreTrue
    <3>3. MachinesAreJournaled'
      BY <2>3, <2>4, <3>1 DEF MachinesAreJournaled
    <3> QED BY <2>3, <3>2, <3>3
  <2>5. CASE MachineGone(l) /\ e.type \in Receipts
    <3>1. Gone(rented'[l]) /\ rented[l].bound /\ \A k \in Leases \ {l} : rented'[k] = rented[k]
      BY <2>5 DEF MachineGone
    <3>2. ReceiptsAreTrue'
      BY <3>1 DEF ReceiptsAreTrue
    <3>3. ASSUME NEW k \in Leases
          PROVE  /\ \E i \in DOMAIN journal' : journal'[i].type \in Receipts
                 /\ rented'[k].bound => \E i \in DOMAIN journal' : journal'[i].pod = TRUE
      <4>1. rented'[k].bound => rented[k].bound
        BY <3>1
      <4> QED BY <2>3, <2>5, <4>1 DEF MachinesAreJournaled
    <3> QED BY <2>3, <3>2, <3>3 DEF MachinesAreJournaled
  <2> QED BY <2>1, <2>4, <2>5
<1> QED BY <1>1, <1>2, <1>3 DEF MachineStep

\* Every step is one of these.
LEMMA StepsOfMachines ==
    ASSUME JournalInv, [JournalNext]_journalVars
    PROVE  MachineStep
<1>0. rented \in [Leases -> LeaseRow] /\ journal \in Seq(Entry)
  BY DEF JournalInv, JournalTypeOK
<1>1. ASSUME SameMachines, NEW e, e.type \notin Receipts, Logs(<<e>>) PROVE MachineStep
  <2>1. Appended(<<e>>) /\ DOMAIN <<e>> = {1} /\ <<e>>[1] = e
    BY DEF Appended
  <2> QED BY <1>1, <2>1 DEF MachineStep, NothingOfMachines, Logs
<1>2. rented' = rented => SameMachines
  BY DEF SameMachines
<1>3. ASSUME NEW r, NEW p, Writes(r, p), rented' = rented PROVE MachineStep
  <2>1. CASE Change(r, p) = <<>>
    <3>1. Appended(<<>>) /\ DOMAIN <<>> = {} /\ journal' = journal \o <<>>
      BY <1>3, <2>1 DEF Appended, Writes, Logs
    <3> QED BY <1>2, <1>3, <3>1 DEF MachineStep, NothingOfMachines
  <2>2. ASSUME NEW type \in {"job_status_changed", "job_progress_changed"}, Change(r, p) = <<OfJob(type, r, p)>>
        PROVE  MachineStep
    BY <1>1, <1>2, <1>3, <2>2, EntryFields DEF Writes, Receipts
  <2> QED BY <2>1, <2>2 DEF Change
<1>4. ASSUME NEW w \in Workers, NEW l \in Leases, ClaimJob(w, l) PROVE MachineStep
  <2> DEFINE a == OfJob("job_status_changed", row', progress)
             b == OfLease("lease_job_claimed", l)
  <2>1. a.type = "job_status_changed" /\ b.type = "lease_job_claimed"
    BY EntryFields
  <2>2. journal' = journal \o <<a, b>>
    BY <1>4 DEF ClaimJob, Logs
  <2>3. SameMachines
    BY <1>0, <1>4 DEF ClaimJob, SameMachines, Gone, LeaseRow
  <2> HIDE DEF a, b
  <2>4. Appended(<<a, b>>) /\ DOMAIN <<a, b>> = {1, 2} /\ <<a, b>>[1] = a /\ <<a, b>>[2] = b
    BY DEF Appended
  <2> QED BY <2>1, <2>2, <2>3, <2>4 DEF MachineStep, NothingOfMachines, Receipts
<1>5. ASSUME NEW w \in Workers, ClaimLocally(w) \/ MarkRunning(w) \/ Complete(w) \/ Fail(w) \/ RestartWorker(w)
      PROVE  MachineStep
  BY <1>3, <1>5 DEF ClaimLocally, MarkRunning, Complete, Fail, RestartWorker, MachineStep
<1>6. ASSUME NEW w \in Workers, NEW p, ReadProgress(w, p) \/ Emit(w, p) PROVE MachineStep
  BY <1>6 DEF ReadProgress, Emit, MachineStep
<1>7. CASE WriteProgress \/ CacheResult \/ CancelFails
  BY <1>3, <1>7 DEF WriteProgress, CacheResult, CancelFails, MachineStep
<1>8. CASE CancelAsked
  BY <1>1, <1>2, <1>8, EntryFields DEF CancelAsked, Receipts
<1>9. CASE CancelRevokes
  <2>1. CASE UNCHANGED <<rented, journal>>
    BY <2>1 DEF MachineStep
  <2>2. ASSUME NEW l \in Leases, rented' = [rented EXCEPT ![l] = RevokedLease(@)], Logs(<<OfLease("lease_revoked", l)>>)
        PROVE  MachineStep
    <3>1. SameMachines
      BY <1>0, <2>2 DEF SameMachines, Gone, RevokedLease, LeaseRow, OpenStatus, Revoked
    <3> QED BY <1>1, <2>2, <3>1, EntryFields DEF Receipts
  <2> QED BY <1>9, <2>1, <2>2 DEF CancelRevokes
<1>10. ASSUME NEW l \in Leases, NEW after, NEW type, LeaseStep(l, after, type)
       PROVE  /\ rented' = [rented EXCEPT ![l] = after]
              /\ \E e : Logs(<<e>>) /\ e.type = type /\ e.pod = after.bound
  <2> DEFINE e == [OfLease(type, l) EXCEPT !.pod = after.bound]
  <2>1. e.type = type /\ e.pod = after.bound
    BY EntryFields
  <2>2. Logs(<<e>>) /\ rented' = [rented EXCEPT ![l] = after]
    BY <1>10 DEF LeaseStep
  <2> HIDE DEF e
  <2> QED BY <2>1, <2>2
<1>11. ASSUME NEW l \in Leases, NEW after, NEW type, type \notin Receipts, LeaseStep(l, after, type),
              after.bound => rented[l].bound, Gone(after) <=> Gone(rented[l])
       PROVE  MachineStep
  <2> DEFINE e == [OfLease(type, l) EXCEPT !.pod = after.bound]
  <2>1. rented' = [rented EXCEPT ![l] = after] /\ Logs(<<e>>) /\ e.type = type
    BY <1>11, EntryFields DEF LeaseStep
  <2> HIDE DEF e
  <2>2. rented'[l] = after /\ \A k \in Leases \ {l} : rented'[k] = rented[k]
    BY <1>0, <2>1
  <2>3. SameMachines
    BY <1>11, <2>2 DEF SameMachines
  <2> QED BY <1>1, <1>11, <2>1, <2>3
<1>12. ASSUME NEW l \in Leases, CreateLease(l) \/ Revoke(l) \/ Attempt(l) \/ CloseUnbound(l) PROVE MachineStep
  <2>1. rented[l] \in LeaseRow
    BY <1>0
  <2>2. ASSUME NEW after, NEW type, LeaseStep(l, after, type), type # "provider_termination_completed",
               after.bound => rented[l].bound, Gone(after) <=> Gone(rented[l])
        PROVE  MachineStep
    BY <1>11, <2>2 DEF Receipts
  <2>3. CASE CreateLease(l)
    <3>1. ~ProvisionedLease.bound /\ ~Gone(ProvisionedLease) /\ ~Gone(rented[l])
      BY <2>3 DEF CreateLease, ProvisionedLease, NoLeaseRow, Gone
    <3> QED BY <2>2, <2>3, <3>1 DEF CreateLease
  <2>4. CASE Revoke(l)
    <3>1. RevokedLease(rented[l]).bound = rented[l].bound /\ ~Gone(RevokedLease(rented[l])) /\ ~Gone(rented[l])
      BY <2>1, <2>4 DEF Revoke, RevokedLease, LeaseRow, OpenStatus, Gone
    <3> QED BY <2>2, <2>4, <3>1 DEF Revoke
  <2>5. CASE Attempt(l)
    <3>1. AttemptedLease(rented[l]).bound = rented[l].bound /\ ~Gone(AttemptedLease(rented[l])) /\ ~Gone(rented[l])
      BY <2>1, <2>5 DEF Attempt, AttemptedLease, LeaseRow, OpenStatus, Gone
    <3> QED BY <2>2, <2>5, <3>1 DEF Attempt
  <2>6. CASE CloseUnbound(l)
    <3>1. ~UnboundClosedLease(rented[l]).bound /\ ~rented[l].bound
      BY <2>1, <2>6 DEF CloseUnbound, UnboundClosedLease, LeaseRow
    <3> QED BY <2>2, <2>6, <3>1 DEF CloseUnbound, Gone
  <2> QED BY <1>12, <2>3, <2>4, <2>5, <2>6
<1>13. ASSUME NEW l \in Leases, BindLease(l) PROVE MachineStep
  <2> DEFINE after == BoundLease(rented[l])
  <2>1. after.bound = TRUE /\ ~Gone(after) /\ ~Gone(rented[l])
    BY <1>0, <1>13 DEF BindLease, BoundLease, LeaseRow, Gone
  <2> HIDE DEF after
  <2>2. LeaseStep(l, after, "lease_bound")
    BY <1>13 DEF BindLease, after
  <2>3. /\ rented' = [rented EXCEPT ![l] = after]
        /\ \E e : Logs(<<e>>) /\ e.type = "lease_bound" /\ e.pod = TRUE
    BY <1>10, <2>1, <2>2
  <2>4. MachineBound(l)
    BY <1>0, <2>1, <2>3 DEF MachineBound, Logs, Receipts
  <2> QED BY <2>4 DEF MachineStep
<1>14. ASSUME NEW l \in Leases, Confirm(l) PROVE MachineStep
  <2> DEFINE after == ConfirmedLease(rented[l])
  <2>1. rented[l].bound /\ Gone(after)
    BY <1>0, <1>14 DEF Confirm, ConfirmedLease, LeaseRow, Gone
  <2> HIDE DEF after
  <2>2. LeaseStep(l, after, "provider_termination_completed")
    BY <1>14 DEF Confirm, after
  <2>3. /\ rented' = [rented EXCEPT ![l] = after]
        /\ \E e : Logs(<<e>>) /\ e.type = "provider_termination_completed"
    BY <1>10, <2>2
  <2>4. MachineGone(l)
    BY <1>0, <2>1, <2>3 DEF MachineGone, Logs, Receipts
  <2> QED BY <2>4 DEF MachineStep
<1>15. ASSUME NEW m, AdmitEvent(m) PROVE MachineStep
  BY <1>15 DEF AdmitEvent, MachineStep
<1>16. ASSUME NEW m, AppendEvent(m) PROVE MachineStep
  <2>1. rented' = rented /\ (UNCHANGED journal \/ Logs(<<OfWorker(m)>>))
    BY <1>16 DEF AppendEvent
  <2> QED BY <1>1, <1>2, <2>1, EntryFields DEF MachineStep, Receipts
<1>17. CASE CoordinatorCrash \/ SnapshotRow \/ SnapshotCursor \/ SnapshotStatus \/ Poll \/ UNCHANGED journalVars
  BY <1>17 DEF CoordinatorCrash, SnapshotRow, SnapshotCursor, SnapshotStatus, Poll, ClientOnly, journalVars, MachineStep
<1> QED BY <1>4, <1>5, <1>6, <1>7, <1>8, <1>9, <1>12, <1>13, <1>14, <1>15, <1>16, <1>17 DEF JournalNext

\* Only a job whose row is completed is to be cached.
LEMMA CachingStarts ==
    ASSUME JournalInv, [JournalNext]_journalVars, caching' \/ cached'
    PROVE  caching \/ cached \/ row'.status = "completed"
<1>1. ASSUME NEW w, Complete(w) PROVE caching \/ cached \/ row'.status = "completed"
  BY <1>1 DEF Complete, Caches
<1>2. CASE UNCHANGED <<caching, cached>>
  BY <1>2
<1>3. CASE CacheResult
  BY <1>3 DEF CacheResult
<1>4. CASE CoordinatorCrash
  BY <1>4 DEF CoordinatorCrash
<1>5. \/ UNCHANGED <<caching, cached>> \/ CacheResult \/ CoordinatorCrash
      \/ \E w \in Workers : Complete(w)
  BY DEF JournalNext, journalVars, jobVars, ClaimJob, ClaimLocally, MarkRunning, Fail, RestartWorker, ReadProgress,
         Emit, WriteProgress, CancelAsked, CancelRevokes, CancelFails, CreateLease, BindLease, Revoke, Attempt,
         Confirm, CloseUnbound, LeaseStep, AdmitEvent, AppendEvent, SnapshotRow, SnapshotCursor, SnapshotStatus,
         Poll, ClientOnly
<1> QED BY <1>1, <1>2, <1>3, <1>4, <1>5

\* The journal's account of the machines and of the cached result is true in
\* every state: the receipts, the instances and the completed entry stay.
THEOREM BillingInvariant == JournalSpec => []BillingInv
<1>1. JournalInit => BillingInv
  <2> SUFFICES ASSUME JournalInit PROVE BillingInv
    OBVIOUS
  <2> DEFINE e == OfJob("job_created", CreatedRow, 0)
  <2>1. e.type = "job_created"
    BY EntryFields
  <2>2. journal = <<e>> /\ ~caching /\ ~cached /\ rented = [l \in Leases |-> NoLeaseRow]
    BY DEF JournalInit, Created
  <2> HIDE DEF e
  <2>3. DOMAIN journal = {1} /\ journal[1] = e
    BY <2>2
  <2> QED BY <2>1, <2>2, <2>3 DEF BillingInv, ReceiptsAreTrue, MachinesAreJournaled, CachedIsJournaled, Receipts,
                                  NoLeaseRow, Gone
<1>2. ASSUME JournalInv, BillingInv, [JournalNext]_journalVars PROVE BillingInv'
  <2>1. JournalInv' /\ MachineStep
    BY <1>2, JournalSteps, StepsOfMachines
  <2>2. /\ ReceiptsAreTrue' /\ MachinesAreJournaled'
        /\ \A i \in DOMAIN journal : i \in DOMAIN journal' /\ journal'[i] = journal[i]
    BY <1>2, <2>1, MachineStepKeeps DEF BillingInv
  <2>3. CASE caching \/ cached
    <3>1. PICK i \in Positions(journal) : journal[i].status = "completed"
      BY <1>2, <2>3 DEF BillingInv, CachedIsJournaled
    <3>2. i \in Positions(journal') /\ journal'[i].status = "completed"
      BY <2>2, <3>1 DEF Positions
    <3> QED BY <2>2, <3>2 DEF BillingInv, CachedIsJournaled
  <2>4. CASE row'.status = "completed"
    <3>1. journal' \in Seq(Entry) /\ LatestStatus(journal', "none") = "completed"
      BY <2>1, <2>4 DEF JournalInv, JournalTypeOK, RowIsJournaled, JournalFollowsRow
    <3>2. \E i \in Positions(journal') : journal'[i].status = "completed"
      BY <3>1, LatestExists
    <3> QED BY <2>2, <3>2 DEF BillingInv, CachedIsJournaled
  <2>5. CASE ~(caching' \/ cached')
    BY <2>2, <2>5 DEF BillingInv, CachedIsJournaled
  <2> QED BY <1>2, <2>3, <2>4, <2>5, CachingStarts
<1> QED BY <1>1, <1>2, JournalInvariant, PTL DEF JournalSpec

\* What the partition cache holds is the result of a job that has completed,
\* although the row and the cache are written in two transactions (complete_job).
THEOREM CachedResultsAreOfCompletedJobs == JournalSpec => []CachedWasCompleted
<1>1. BillingInv => CachedWasCompleted
  BY DEF BillingInv, CachedIsJournaled, CachedWasCompleted
<1> QED BY <1>1, BillingInvariant, PTL

\* A job that was on one machine only is shown as stopped exactly when that
\* machine is confirmed gone (job_visibility.py).
THEOREM OneMachineIsBilledTruly == JournalSpec => []OneMachineBilling
<1>1. ASSUME BillingInv, NEW l \in Leases, rented[l].bound, \A k \in Leases \ {l} : ~rented[k].bound
      PROVE  Billing = "stopped" <=> rented[l].status = "closed"
  <2>1. \E i \in DOMAIN journal : journal[i].pod
    BY <1>1 DEF BillingInv, MachinesAreJournaled
  <2>2. Billing = "stopped" <=> \E i \in DOMAIN journal : journal[i].type \in Receipts
    BY <2>1 DEF Billing
  <2>3. (\E i \in DOMAIN journal : journal[i].type \in Receipts) => Gone(rented[l])
    BY <1>1 DEF BillingInv, ReceiptsAreTrue, Gone
  <2>4. Gone(rented[l]) => \E i \in DOMAIN journal : journal[i].type \in Receipts
    BY <1>1 DEF BillingInv, MachinesAreJournaled
  <2> QED BY <1>1, <2>2, <2>3, <2>4 DEF Gone
<1>2. BillingInv => OneMachineBilling
  BY <1>1 DEF OneMachineBilling
<1> QED BY <1>2, BillingInvariant, PTL

=============================================================================
