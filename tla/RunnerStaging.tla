---------------------------- MODULE RunnerStaging ----------------------------
(***************************************************************************)
(* What one rented runner puts on its disk before it may execute a job     *)
(* (cloud_offload/worker.py): node packs and their Python environment, the *)
(* profile's weights, and the model file the job declares; from the        *)
(* prepared cache where a manifest lists them, from their origin           *)
(* otherwise.  The same staging runs twice: at boot, without a job, before *)
(* ComfyUI is started, and in the worker process, for the claimed job.     *)
(*                                                                         *)
(* The container may be restarted at any step; its disk and its boot       *)
(* report survive, the process's memory does not.                          *)
(***************************************************************************)
EXTENDS QueueRows, FiniteSets

CONSTANTS Me,            \* this runner's worker_id
          NoJob,
          Leased,        \* CLOUD_OFFLOAD_LEASE_ID is set
          Packs,         \* CLOUD_OFFLOAD_CUSTOM_NODES
          GitPacks,      \* the packs installed by git; the others come from the registry
          Pinned,        \* the digests of the profile's weights that are named file by file
          Snapshot,      \* the digests of the files of the profile's snapshot
          Digests,
          Declares,      \* the digest of the model file each job declares, all at one path
          Uncached,      \* digests whose policy refuses the cache
          Env, NoEnv,    \* the environment's key, and no environment bundle
          None, Torn,    \* no file, and a file of any other content
          Placed,        \* the manifest an exact placement instruction names
          Foreign,       \* the manifest another runner of the profile publishes
          MaxAccidents   \* bound on restarts, failures, and another runner's publications

ASSUME RunnerShape ==
    /\ Me \in Workers /\ NoJob \notin Jobs /\ Leased \in BOOLEAN
    /\ Packs # {} /\ GitPacks \subseteq Packs
    /\ Pinned \cup Snapshot \cup Uncached \subseteq Digests
    /\ Declares \in [Jobs -> Digests]
    /\ {None, Torn} \cap Digests = {}
    /\ MaxAccidents \in Nat

VARIABLES disk,        \* the container's file system
          report,      \* the boot restore report
          volume,      \* the profile's newest manifest, and every portable digest listed
          setup,       \* the launch environment
          proc,        \* the running process
          late,        \* what an abandoned download thread still writes
          jobs, lease, \* the coordinator's rows
          accidents

runnerVars == <<disk, report, volume, setup, proc, late, jobs, lease, accidents>>

-----------------------------------------------------------------------------
(* State *)

PackStates == {"absent", "partial", "whole"}

Manifest == [packs   : [Packs -> PackStates],      \* the directory each bundle holds
             env     : {NoEnv} \cup SUBSET Packs,  \* the packs whose requirements it holds
             weights : SUBSET Digests,
             models  : SUBSET Digests]

\* The manifests of others: a runner of this code publishes no half a checkout
\* (PublishedPacksAreWhole), and an instruction names what one of them published.
ASSUME OthersManifests ==
    /\ {Placed, Foreign} \subseteq Manifest
    /\ \A m \in {Placed, Foreign}, p \in GitPacks : m.packs[p] # "partial"

Nothing == [packs |-> [p \in Packs |-> "absent"], env |-> NoEnv, weights |-> {}, models |-> {}]

Listed(m) == m.weights \cup m.models

NoReport == [of |-> Nothing, keys |-> {}]

\* A new process remembers nothing.
Fresh(pc) == [pc |-> pc, job |-> NoJob, running |-> TRUE, batch |-> {},
              nodesStaged |-> FALSE, weightsStaged |-> FALSE, snapshotDone |-> FALSE,
              restored |-> {}, ready |-> FALSE, todo |-> {}, pack |-> NoEnv,
              wasRestored |-> FALSE, pending |-> Nothing, own |-> Nothing,
              fromCache |-> {}]

Steps == {"boot", "env", "packs", "install", "requirements", "comfy", "loop", "next",
          "weights", "assets", "fetch", "flush", "ready", "executing", "uploading",
          "failing", "exit"}

DiskState == [pack : [Packs -> PackStates], deps : SUBSET Packs, marker : BOOLEAN,
              weights : SUBSET Digests,
              asset : [has : Digests \cup {None, Torn}, link : BOOLEAN]]

ProcessState == [pc : Steps, job : Jobs \cup {NoJob}, running : BOOLEAN, batch : SUBSET Jobs,
                 nodesStaged : BOOLEAN, weightsStaged : BOOLEAN, snapshotDone : BOOLEAN,
                 restored : SUBSET (Packs \cup {Env}), ready : BOOLEAN, todo : SUBSET Packs,
                 pack : Packs \cup {NoEnv}, wasRestored : BOOLEAN, pending : Manifest,
                 own : Manifest, fromCache : SUBSET Digests]

RunnerTypeOK ==
    /\ disk \in DiskState /\ proc \in ProcessState
    /\ report.of \in Manifest /\ report.keys \subseteq Packs \cup {Env}
    /\ volume.latest \in Manifest /\ volume.shared \subseteq Digests
    /\ setup \in [cache : BOOLEAN, deny : BOOLEAN, placed : BOOLEAN]
    /\ late \in Digests \cup {None}
    /\ jobs \in [Jobs -> JobRow] /\ lease \in LeaseRow
    /\ accidents \in 0..MaxAccidents

\* A runner that has just been rented: an empty disk, a volume that may hold
\* another runner's work, and a cache policy that may refuse cold staging.
StagingInit ==
    /\ disk = [pack |-> [p \in Packs |-> "absent"], deps |-> {}, marker |-> FALSE,
               weights |-> {}, asset |-> [has |-> None, link |-> FALSE]]
    /\ report = NoReport
    /\ setup \in {s \in [cache : BOOLEAN, deny : BOOLEAN, placed : BOOLEAN] :
                    s.deny \/ s.placed => s.cache}
    /\ volume \in {[latest |-> m, shared |-> Listed(m)] :
                     m \in IF setup.placed THEN {Placed}
                           ELSE IF setup.cache THEN {Nothing, Foreign} ELSE {Nothing}}
    /\ proc = Fresh("boot")
    /\ late = None
    /\ accidents = 0

Booting == proc.job = NoJob

Accident == accidents < MaxAccidents /\ accidents' = accidents + 1

\* A selection in which what this process published comes first.
OwnFirst == IF ~setup.cache THEN Nothing
            ELSE IF proc.own # Nothing THEN proc.own
            ELSE IF setup.placed THEN Placed ELSE volume.latest

\* An exact placement instruction is authoritative; then comes what this
\* process published itself; then the newest manifest on the volume.
Selected ==
    IF ~setup.cache THEN Nothing
    ELSE IF setup.placed THEN Placed
    ELSE IF proc.own # Nothing THEN proc.own
    ELSE volume.latest

\* A manifest becomes the newest of its profile and lists its digests for all.
Published(m) == [latest |-> m, shared |-> volume.shared \cup Listed(m)]

\* An exception: the boot exits, a job fails.
Raised == [proc EXCEPT !.pc = IF Booting THEN "exit" ELSE "failing"]

\* A restore that fails is a miss, unless the policy refuses cold staging.
RefusedTo(pc) == IF setup.deny THEN Raised ELSE [proc EXCEPT !.pc = pc]

\* _record_boot_cache_hit, for a restore before any job: entries of another
\* manifest are dropped.
ReportedHit(key) ==
    IF ~Booting THEN report
    ELSE [of |-> Selected,
          keys |-> {key} \cup (IF report.of = Selected THEN report.keys ELSE {})]

Coordinators == <<jobs, lease, setup>>

-----------------------------------------------------------------------------
(* Node packs and their environment *)

\* stage_node_packs drops the report of an earlier boot; what stays is disk.
Boot ==
    /\ proc.pc = "boot"
    /\ report' = NoReport
    /\ proc' = [proc EXCEPT !.pc = "env"]
    /\ UNCHANGED <<disk, volume, late, accidents, Coordinators>>

\* Where staging goes once it knows whether the environment is ready.
AfterEnvironment(ready) ==
    [proc EXCEPT !.ready = ready, !.todo = IF proc.nodesStaged THEN {} ELSE Packs,
                 !.pc = IF proc.nodesStaged THEN "weights" ELSE "packs"]

\* The marker names this environment, or no bundle of it is listed.  Without a
\* cache there is no dependency lock, and no environment is ever ready.
EnvironmentAsItIs ==
    /\ proc.pc = "env"
    /\ disk.marker \/ Selected.env = NoEnv
    /\ proc' = AfterEnvironment(disk.marker)
    /\ UNCHANGED <<disk, report, volume, late, accidents, Coordinators>>

\* The bundle replaces the environment and brings the marker.
EnvironmentRestored ==
    /\ proc.pc = "env" /\ ~disk.marker /\ Selected.env # NoEnv
    /\ disk' = [disk EXCEPT !.deps = Selected.env, !.marker = TRUE]
    /\ report' = ReportedHit(Env)
    /\ proc' = [AfterEnvironment(TRUE) EXCEPT !.restored = @ \cup {Env}]
    /\ UNCHANGED <<volume, late, accidents, Coordinators>>

EnvironmentRefused ==
    /\ proc.pc = "env" /\ ~disk.marker /\ Selected.env # NoEnv
    /\ Accident
    /\ proc' = IF setup.deny THEN Raised ELSE AfterEnvironment(FALSE)
    /\ UNCHANGED <<disk, report, volume, late, Coordinators>>

\* _populate_custom_node_bundle, when there is a job and a cache.
WithBundle(p, state) ==
    IF Booting \/ ~setup.cache THEN proc.pending
    ELSE [proc.pending EXCEPT !.packs[p] = state]

PackDone(p) == [proc EXCEPT !.pc = "packs", !.todo = @ \ {p}, !.pack = NoEnv, !.wasRestored = FALSE]

\* A directory that is already there is taken for an installed pack; its
\* requirements are not looked at.
PackPresent(p) ==
    /\ proc.pc = "packs" /\ p \in proc.todo /\ disk.pack[p] # "absent"
    /\ proc' = [PackDone(p) EXCEPT !.pending = IF p \in proc.restored THEN @
                                               ELSE WithBundle(p, disk.pack[p])]
    /\ UNCHANGED <<disk, report, volume, late, accidents, Coordinators>>

\* A restored bundle needs its requirements only in an environment that was
\* not restored with it.
PackRestored(p) ==
    /\ proc.pc = "packs" /\ p \in proc.todo /\ disk.pack[p] = "absent"
    /\ Selected.packs[p] # "absent"
    /\ disk' = [disk EXCEPT !.pack[p] = Selected.packs[p]]
    /\ report' = ReportedHit(p)
    /\ proc' = [(IF proc.ready THEN PackDone(p)
                 ELSE [proc EXCEPT !.pc = "requirements", !.pack = p, !.wasRestored = TRUE])
                EXCEPT !.restored = @ \cup {p}]
    /\ UNCHANGED <<volume, late, accidents, Coordinators>>

PackRefused(p) ==
    /\ proc.pc = "packs" /\ p \in proc.todo /\ disk.pack[p] = "absent"
    /\ Selected.packs[p] # "absent"
    /\ Accident
    /\ proc' = [RefusedTo("install") EXCEPT !.pack = p]
    /\ UNCHANGED <<disk, report, volume, late, Coordinators>>

PackMissed(p) ==
    /\ proc.pc = "packs" /\ p \in proc.todo /\ disk.pack[p] = "absent"
    /\ Selected.packs[p] = "absent"
    /\ proc' = [proc EXCEPT !.pc = "install", !.pack = p]
    /\ UNCHANGED <<disk, report, volume, late, accidents, Coordinators>>

PackInstalled ==
    /\ proc.pc = "install"
    /\ disk' = [disk EXCEPT !.pack[proc.pack] = "whole"]
    /\ proc' = [proc EXCEPT !.pc = "requirements", !.wasRestored = FALSE]
    /\ UNCHANGED <<report, volume, late, accidents, Coordinators>>

\* A checkout in the pack's own directory.
ClonedInPlace(p) == {"absent", "partial"}

\* An installation that stops half way.  A checkout is renamed into place when
\* its commit is verified; a registry archive is unpacked in place.
HalfInstalled(p) == IF p \in GitPacks THEN {"absent"} ELSE {"absent", "partial"}

PackFailed ==
    /\ proc.pc = "install"
    /\ Accident
    /\ \E left \in HalfInstalled(proc.pack) : disk' = [disk EXCEPT !.pack[proc.pack] = left]
    /\ proc' = [Raised EXCEPT !.pack = NoEnv]
    /\ UNCHANGED <<report, volume, late, Coordinators>>

RequirementsInstalled ==
    /\ proc.pc = "requirements"
    /\ disk' = [disk EXCEPT !.deps = @ \cup {proc.pack}]
    /\ proc' = [PackDone(proc.pack) EXCEPT
                  !.pending = IF proc.wasRestored THEN @
                              ELSE WithBundle(proc.pack, disk.pack[proc.pack])]
    /\ UNCHANGED <<report, volume, late, accidents, Coordinators>>

RequirementsFailed ==
    /\ proc.pc = "requirements"
    /\ Accident
    /\ proc' = [Raised EXCEPT !.pack = NoEnv]
    /\ UNCHANGED <<disk, report, volume, late, Coordinators>>

\* Every pack is there: the environment is marked ready, and its bundle joins
\* the job's publications unless it was restored.
PacksStaged ==
    /\ proc.pc = "packs" /\ proc.todo = {}
    /\ disk' = [disk EXCEPT !.marker = @ \/ setup.cache]
    /\ proc' = [proc EXCEPT
                  !.nodesStaged = TRUE,
                  !.pending.env = IF Booting \/ ~setup.cache \/ Env \in proc.restored THEN @
                                  ELSE disk.deps,
                  !.pc = IF Booting THEN "comfy" ELSE "weights"]
    /\ UNCHANGED <<report, volume, late, accidents, Coordinators>>

\* A bundle that cannot be written to the volume fails the job, marked or not.
BundleRefused ==
    /\ proc.pc = "packs" /\ ~Booting /\ setup.cache
    /\ Accident
    /\ disk' \in {disk, [disk EXCEPT !.marker = @ \/ proc.todo = {}]}
    /\ proc' = Raised
    /\ UNCHANGED <<report, volume, late, Coordinators>>

NodeStep ==
    \/ Boot \/ EnvironmentAsItIs \/ EnvironmentRestored \/ EnvironmentRefused
    \/ \E p \in Packs : PackPresent(p) \/ PackRestored(p) \/ PackRefused(p) \/ PackMissed(p)
    \/ PackInstalled \/ PackFailed \/ RequirementsInstalled \/ RequirementsFailed
    \/ PacksStaged \/ BundleRefused

-----------------------------------------------------------------------------
(* The profile's weights *)

\* The coordinator made the running job terminal with a cancellation.
Cancelled(j) == jobs[j].status = "failed"

\* Files that are present are skipped unread; the snapshot is always restored
\* or fetched, until one job has staged everything.
WeightsStaged ==
    /\ proc.pc = "weights"
    /\ proc.weightsStaged \/ (Pinned \subseteq disk.weights /\ (proc.snapshotDone \/ Snapshot = {}))
    /\ proc' = [proc EXCEPT !.pc = "assets", !.snapshotDone = FALSE]
    /\ UNCHANGED <<disk, report, volume, late, accidents, Coordinators>>

MissingFile(d) == proc.pc = "weights" /\ ~proc.weightsStaged /\ d \in Pinned \ disk.weights

\* The snapshot comes when no file is missing.
MissingSnapshot ==
    /\ proc.pc = "weights" /\ ~proc.weightsStaged
    /\ Pinned \subseteq disk.weights
    /\ ~proc.snapshotDone /\ Snapshot # {}

WithWeights(wanted) == [disk EXCEPT !.weights = @ \cup wanted]

\* The download, after a restore that was refused if the manifest lists it.
FromOrigin(wanted) ==
    IF wanted \cap Selected.weights # {} THEN ~setup.deny /\ Accident ELSE UNCHANGED accidents

\* A file or a snapshot is published at once, in a manifest of its own, unless
\* its policy refuses the cache.
ListsWeights(wanted, progress) ==
    LET listed == [Selected EXCEPT !.weights = @ \cup wanted]
    IN  IF setup.cache /\ wanted \cap Uncached = {}
        THEN volume' = Published(listed) /\ proc' = [progress EXCEPT !.own = listed]
        ELSE volume' = volume /\ proc' = progress

FileRestored(d) ==
    /\ MissingFile(d) /\ d \in Selected.weights
    /\ disk' = WithWeights({d})
    /\ proc' = [proc EXCEPT !.fromCache = @ \cup {d}]
    /\ UNCHANGED <<report, volume, late, accidents, Coordinators>>

FileFetched(d) ==
    /\ MissingFile(d)
    /\ FromOrigin({d})
    /\ disk' = WithWeights({d})
    /\ ListsWeights({d}, proc)
    /\ UNCHANGED <<report, late, Coordinators>>

\* The files that the manifest lists are the snapshot, all of them or not.
SnapshotRestored ==
    /\ MissingSnapshot
    /\ LET listed == Snapshot \cap Selected.weights
       IN  /\ listed # {}
           /\ disk' = WithWeights(listed)
           /\ proc' = [proc EXCEPT !.fromCache = @ \cup listed, !.snapshotDone = TRUE]
    /\ UNCHANGED <<report, volume, late, accidents, Coordinators>>

SnapshotFetched ==
    /\ MissingSnapshot
    /\ FromOrigin(Snapshot)
    /\ disk' = WithWeights(Snapshot)
    /\ ListsWeights(Snapshot, [proc EXCEPT !.snapshotDone = TRUE])
    /\ UNCHANGED <<report, late, Coordinators>>

\* The manifest was refused: the weights stay, unlisted, and so does the job.
WeightsUnlisted ==
    /\ setup.cache
    /\ Accident
    /\ \/ \E d \in Digests \ Selected.weights :
            MissingFile(d) /\ disk' = WithWeights({d}) /\ UNCHANGED proc
       \/ /\ MissingSnapshot /\ Snapshot \cap Selected.weights = {}
          /\ disk' = WithWeights(Snapshot)
          /\ proc' = [proc EXCEPT !.snapshotDone = TRUE]
    /\ UNCHANGED <<report, volume, late, Coordinators>>

\* The download failed, the volume refused the blob, or a restore was refused
\* and the policy allows no other source.
WeightsFailed ==
    /\ \/ \E d \in Digests : MissingFile(d) /\ disk' \in {disk, WithWeights({d})}
       \/ MissingSnapshot /\ disk' \in {disk, WithWeights(Snapshot)}
    /\ Accident
    /\ proc' = Raised
    /\ UNCHANGED <<report, volume, late, Coordinators>>

-----------------------------------------------------------------------------
(* The model file the job declares *)

Declared == Declares[proc.job]

Holds(d, link) == [disk EXCEPT !.asset = [has |-> d, link |-> link]]

\* The publication of the file waits for the flush, if its policy allows one.
WithModel(d) ==
    IF ~setup.cache \/ d \in Uncached THEN proc.pending
    ELSE [proc.pending EXCEPT !.models = @ \cup {d}]

\* A restore is tried when nothing is there, or a link into the cache.
MayRestore == disk.asset.has = None \/ disk.asset.link

InCache(d) == setup.cache /\ d \in Listed(Selected) \cup volume.shared

\* A digest that only another profile's manifest lists is listed again.
AssetRestored ==
    /\ proc.pc = "assets" /\ MayRestore /\ InCache(Declared)
    /\ disk' = Holds(Declared, TRUE)
    /\ proc' = [proc EXCEPT !.pc = "flush", !.weightsStaged = TRUE,
                            !.pending = IF Declared \in Listed(Selected) THEN @ ELSE WithModel(Declared)]
    /\ UNCHANGED <<report, volume, late, accidents, Coordinators>>

AssetDenied ==
    /\ proc.pc = "assets" /\ MayRestore /\ InCache(Declared) /\ setup.deny
    /\ Accident
    /\ proc' = Raised
    /\ UNCHANGED <<disk, report, volume, late, Coordinators>>

\* The file is hashed when no restore was made.
NoRestore ==
    IF MayRestore /\ InCache(Declared) THEN ~setup.deny /\ Accident ELSE UNCHANGED accidents

\* A present file that is taken for published.
PresentIsPublished(d) == proc.pending

\* The declared bytes are there: what the selected manifest does not list is
\* published again, for an earlier publication may have failed.
PresentIsListed(d) == IF d \in Listed(Selected) THEN proc.pending ELSE WithModel(d)

AssetPresent ==
    /\ proc.pc = "assets" /\ disk.asset.has = Declared
    /\ NoRestore
    /\ proc' = [proc EXCEPT !.pc = "flush", !.weightsStaged = TRUE,
                            !.pending = PresentIsListed(Declared)]
    /\ UNCHANGED <<disk, report, volume, late, Coordinators>>

\* Other bytes at the path move to the quarantine; then the origin is asked.
AssetWanted ==
    /\ proc.pc = "assets" /\ disk.asset.has # Declared
    /\ NoRestore
    /\ disk' = Holds(None, FALSE)
    /\ proc' = [proc EXCEPT !.pc = "fetch"]
    /\ UNCHANGED <<report, volume, late, Coordinators>>

\* What the origin delivered is hashed before it is used.
AssetFetched ==
    /\ proc.pc = "fetch"
    /\ disk' = Holds(Declared, FALSE)
    /\ proc' = [proc EXCEPT !.pc = "flush", !.weightsStaged = TRUE, !.pending = WithModel(Declared)]
    /\ UNCHANGED <<report, volume, late, accidents, Coordinators>>

\* A download that fails or delivers other bytes leaves them at the path; one
\* that succeeds may find the volume full.
AssetFailed ==
    /\ proc.pc = "fetch"
    /\ Accident
    /\ \E left \in {None, Torn, Declared} : disk' = Holds(left, FALSE)
    /\ proc' = Raised
    /\ UNCHANGED <<report, volume, late, Coordinators>>

-----------------------------------------------------------------------------
(* Publication *)

Merged(m, d) ==
    [packs   |-> [p \in Packs |-> IF d.packs[p] # "absent" THEN d.packs[p] ELSE m.packs[p]],
     env     |-> IF d.env # NoEnv THEN d.env ELSE m.env,
     weights |-> m.weights \ d.models,
     models  |-> m.models \cup d.models]

\* _flush_prepared_manifest: the job's artifacts, added to the selected manifest.
Flushed ==
    /\ proc.pc = "flush"
    /\ IF proc.pending = Nothing
       THEN /\ proc' = [proc EXCEPT !.pc = "ready"]
            /\ UNCHANGED volume
       ELSE LET m == Merged(Selected, proc.pending)
            IN  /\ volume' = Published(m)
                /\ proc' = [proc EXCEPT !.pc = "ready", !.own = m, !.pending = Nothing]
    /\ UNCHANGED <<disk, report, late, accidents, Coordinators>>

\* The manifest does not verify, or the coordinator refuses it.
FlushRefused ==
    /\ proc.pc = "flush" /\ proc.pending # Nothing
    /\ Accident
    /\ proc' = Raised
    /\ UNCHANGED <<disk, report, volume, late, Coordinators>>

\* Another runner of the profile publishes its own manifest.
OtherPublishes ==
    /\ setup.cache /\ volume.latest # Foreign
    /\ Accident
    /\ volume' = Published(Foreign)
    /\ UNCHANGED <<disk, report, proc, late, Coordinators>>

StagingStep ==
    \/ NodeStep
    \/ WeightsStaged \/ WeightsUnlisted \/ WeightsFailed \/ SnapshotRestored \/ SnapshotFetched
    \/ \E d \in Digests : FileRestored(d) \/ FileFetched(d)
    \/ AssetRestored \/ AssetDenied \/ AssetPresent \/ AssetWanted \/ AssetFetched \/ AssetFailed
    \/ Flushed \/ FlushRefused \/ OtherPublishes

=============================================================================
