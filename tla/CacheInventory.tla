---------------------------- MODULE CacheInventory ----------------------------
(***************************************************************************)
(* What the coordinator's registry knows of one cache volume's content:    *)
(* the manifests it lists, one artifact row per digest, the digests        *)
(* reported corrupt, and the volume's health (cache_registry.py).  The     *)
(* index on the volume itself is the truth it projects; workers publish to *)
(* it, and the canary of the benchmark adds and removes a manifest from    *)
(* another process.                                                        *)
(*                                                                         *)
(* The registry is written by one transaction at a time.  What goes wrong  *)
(* goes wrong between them: an announcement reads the known manifests and  *)
(* reconciles in two transactions, a verification awaits the index it then *)
(* applies, and a worker's report arrives long after the bytes were read.  *)
(***************************************************************************)
EXTENDS Integers, FiniteSets

CONSTANTS Manifests,       \* of one profile, named in the order they are created
          Canary,          \* the manifest the benchmark publishes and removes
          Digests,
          Poison,          \* the digest of the blob the canary corrupts
          Holds,           \* the digests of a manifest
          Older,           \* the pairs <<m, n>> where m was created before n
          Readers,         \* coordinator requests that read the index
          MaxCorruptions,  \* bound on the blobs damaged
          MaxReports       \* bound on the reports on their way

ASSUME InventoryShape ==
    /\ Canary \in Manifests /\ Poison \in Digests
    /\ Holds \in [Manifests -> SUBSET Digests] /\ Poison \in Holds[Canary]
    /\ MaxCorruptions \in Nat /\ MaxReports \in Nat

VARIABLES index,      \* the manifests of the volume's latest index
          bad,        \* the digests whose blob has other bytes
          listed,     \* cache_manifests
          artifact,   \* cache_artifacts.eligibility
          invalid,    \* cache_invalidations
          health,     \* cache_volumes.status
          reader,     \* an index that was read and not yet reconciled
          merge,      \* announcements between their two transactions
          canary,     \* the benchmark's progress, and the index it has read
          mail,       \* announcements and reports of workers, on their way
          published,  \* manifests published so far
          damaged

inventoryVars == <<index, bad, listed, artifact, invalid, health, reader, merge, canary, mail, published, damaged>>

-----------------------------------------------------------------------------
(* State *)

Processes == {"server", "bench"}

NoMerge == [on |-> FALSE, known |-> {}]

\* A worker announces a manifest it published; it reports a digest it read
\* whole, with the bytes it should have, or with others.
Announcement(m) == [what |-> "announce", about |-> m]
Hit(d)          == [what |-> "hit", about |-> d]
Corruption(d)   == [what |-> "corrupt", about |-> d]

CanaryRow ==
    [pc : {"idle", "read", "put", "announced", "live", "restored", "cleanup", "done"},
     was : SUBSET Manifests,     \* the index it found, to be put back
     doomed : SUBSET Manifests]  \* listed for removal

InventoryTypeOK ==
    /\ index \subseteq Manifests /\ listed \subseteq Manifests /\ published \subseteq Manifests
    /\ bad \subseteq Digests /\ invalid \subseteq Digests
    /\ artifact \in [Digests -> {"none", "eligible", "invalidated", "unknown"}]
    /\ health \in {"ready", "degraded"}
    /\ reader \in [Readers -> [busy : BOOLEAN, read : BOOLEAN, index : SUBSET Manifests]]
    /\ merge \in [Processes -> [on : BOOLEAN, known : SUBSET Manifests]]
    /\ canary \in CanaryRow
    /\ mail \subseteq [what : {"announce"}, about : Manifests] \cup [what : {"hit", "corrupt"}, about : Digests]
    /\ damaged \in 0..MaxCorruptions

Resting == [busy |-> FALSE, read |-> FALSE, index |-> {}]

InventoryInit ==
    /\ index = {} /\ bad = {} /\ listed = {} /\ invalid = {}
    /\ artifact = [d \in Digests |-> "none"]
    /\ health = "ready"
    /\ reader = [r \in Readers |-> Resting]
    /\ merge = [p \in Processes |-> NoMerge]
    /\ canary = [pc |-> "idle", was |-> {}, doomed |-> {}]
    /\ mail = {} /\ published = {}
    /\ damaged = 0

HeldBy(ms) == UNION {Holds[m] : m \in ms}

Registry == <<listed, artifact, invalid, health>>
Volume   == <<index, bad, published, damaged>>

\* No coroutine of the coordinator runs between the transactions of another.
ServerFree == ~merge["server"].on

-----------------------------------------------------------------------------
(* The registry's transactions *)

\* An artifact of a listed manifest is eligible unless its digest was reported.
Eligibility(d) == IF d \in invalid THEN "invalidated" ELSE "eligible"

\* reconcile_index: manifests are added and never removed; artifacts that none
\* of them holds have drifted, and degrade the volume with any report.
Reconcile(ms) ==
    LET drifted == {d \in Digests : artifact[d] # "none"} \ HeldBy(ms) IN
    /\ listed' = listed \cup ms
    /\ artifact' = [d \in Digests |->
                      IF d \in HeldBy(ms) THEN Eligibility(d)
                      ELSE IF d \in drifted THEN "unknown" ELSE "none"]
    /\ health' = IF drifted = {} /\ invalid = {} THEN "ready" ELSE "degraded"
    /\ UNCHANGED invalid

\* _refresh_volume_health
Health(arts, inv) ==
    IF inv = {} /\ \A d \in Digests : arts[d] \in {"none", "eligible"} THEN "ready" ELSE "degraded"

\* mark_verified, and record_observation of a hit that read the whole digest
MarkVerified(d) ==
    /\ invalid' = invalid \ {d}
    /\ artifact' = [artifact EXCEPT ![d] = IF @ = "none" THEN @ ELSE "eligible"]
    /\ health' = Health(artifact', invalid')
    /\ UNCHANGED listed

\* record_observation of a corruption
Invalidate(d) ==
    /\ invalid' = invalid \cup {d}
    /\ artifact' = [artifact EXCEPT ![d] = IF @ = "none" THEN @ ELSE "invalidated"]
    /\ health' = "degraded"
    /\ UNCHANGED listed

AllOfIt(m) == Holds[m]

\* remove_manifest: the digests no other manifest holds are forgotten with
\* their reports; the others get their eligibility afresh.
Orphans(m) == Holds[m] \ HeldBy(listed \ {m})

Remove(m) ==
    /\ listed' = listed \ {m}
    /\ invalid' = invalid \ Orphans(m)
    /\ artifact' = [d \in Digests |->
                      IF d \in Orphans(m) \/ artifact[d] = "none" THEN "none"
                      ELSE IF d \in Holds[m] THEN Eligibility(d) ELSE artifact[d]]
    /\ health' = Health(artifact', invalid')

-----------------------------------------------------------------------------
(* Workers *)

Post(msg) == Cardinality(mail) < MaxReports /\ mail' = mail \cup {msg}

\* A publication verifies the blobs that are there, uploads the others, and
\* puts the manifest in the volume's index.
Publish(m) ==
    /\ m \notin published \cup {Canary} /\ Holds[m] \cap bad = {}
    /\ published' = published \cup {m}
    /\ index' = index \cup {m}
    /\ UNCHANGED <<bad, damaged>>

\* The announcement is retried until the coordinator answers.
WorkerPublishes(m) ==
    /\ Publish(m)
    /\ Post(Announcement(m))
    /\ UNCHANGED <<Registry, reader, merge, canary>>

\* A worker restores a listed manifest and reads one of its blobs whole; a
\* corrupt blob is moved to quarantine, and replaced from its canonical source.
WorkerReads(d) ==
    /\ d \in HeldBy(listed)
    /\ \/ d \notin bad /\ Post(Hit(d)) /\ UNCHANGED bad
       \/ d \in bad /\ Post(Corruption(d)) /\ (UNCHANGED bad \/ bad' = bad \ {d})
    /\ UNCHANGED <<Registry, reader, merge, canary, index, published, damaged>>

BlobDamaged(d) ==
    /\ d \in HeldBy(published) \ bad /\ damaged < MaxCorruptions
    /\ bad' = bad \cup {d} /\ damaged' = damaged + 1
    /\ UNCHANGED <<Registry, reader, merge, canary, mail, index, published>>

-----------------------------------------------------------------------------
(* The coordinator *)

Delivered(msg) == msg \in mail /\ mail' = mail \ {msg}

\* announce_manifest merges the manifest with the rows it has read; another
\* process may write in between.
ReadsKnown(p, m) ==
    /\ ~merge[p].on
    /\ merge' = [merge EXCEPT ![p] = [on |-> TRUE, known |-> listed \cup {m}]]

Announced(m) ==
    /\ Delivered(Announcement(m)) /\ ReadsKnown("server", m)
    /\ UNCHANGED <<Registry, Volume, reader, canary>>

Merge ==
    /\ merge["server"].on
    /\ Reconcile(merge["server"].known)
    /\ merge' = [merge EXCEPT !["server"] = NoMerge]
    /\ UNCHANGED <<Volume, reader, canary, mail>>

\* worker_record_cache_observation and worker_sign_cache_trust_receipt
ReportArrives(d) ==
    /\ ServerFree
    /\ \/ Delivered(Hit(d)) /\ MarkVerified(d)
       \/ Delivered(Corruption(d)) /\ Invalidate(d)
    /\ UNCHANGED <<Volume, reader, merge, canary>>

\* A post that fails is logged and not repeated.
ReportLost(d) ==
    /\ \E msg \in {Hit(d), Corruption(d)} : Delivered(msg)
    /\ UNCHANGED <<Registry, Volume, reader, merge, canary>>

\* verify_cache_volume begins; prepopulate_cache and
\* refresh_cache_manifest_profile publish a manifest first.
BeginRead(r) ==
    /\ ServerFree /\ ~reader[r].busy
    /\ reader' = [reader EXCEPT ![r].busy = TRUE]
    /\ UNCHANGED Volume \/ \E m \in Manifests : Publish(m)
    /\ UNCHANGED <<Registry, merge, canary, mail>>

ReadIndex(r) ==
    /\ reader[r].busy /\ ~reader[r].read
    /\ reader' = [reader EXCEPT ![r].read = TRUE, ![r].index = index]
    /\ UNCHANGED <<Registry, Volume, merge, canary, mail>>

\* A volume without an index is ready; one that cannot be read is degraded.
Project(r) ==
    /\ ServerFree /\ reader[r].read
    /\ \/ reader[r].index # {} /\ Reconcile(reader[r].index)
       \/ reader[r].index = {} /\ health' = "ready" /\ UNCHANGED <<listed, artifact, invalid>>
       \/ health' = "degraded" /\ UNCHANGED <<listed, artifact, invalid>>
    /\ reader' = [reader EXCEPT ![r] = Resting]
    /\ UNCHANGED <<Volume, merge, canary, mail>>

\* The volume is adopted again: upsert_volume makes any row ready.
AdoptedAgain ==
    /\ ServerFree /\ health = "degraded" /\ health' = "ready"
    /\ UNCHANGED <<listed, artifact, invalid, Volume, reader, merge, canary, mail>>

-----------------------------------------------------------------------------
(* The benchmark's corruption canary, another process *)

Canaried(from, to) == canary.pc \in from /\ canary' = [canary EXCEPT !.pc = to]

\* prepare_corruption reads the index that it will put back,
CanaryReads ==
    /\ canary.pc = "idle" /\ index # {} /\ Poison \notin HeldBy(published)
    /\ canary' = [canary EXCEPT !.pc = "read", !.was = index]
    /\ UNCHANGED <<Registry, Volume, reader, merge, mail>>

\* puts the blob with other bytes,
CanaryPuts ==
    /\ Canaried({"read"}, "put")
    /\ Poison \notin HeldBy(published)
    /\ bad' = bad \cup {Poison} /\ published' = published \cup {Canary}
    /\ UNCHANGED <<Registry, index, damaged, reader, merge, mail>>

\* announces its manifest in two transactions,
CanaryAnnounces ==
    \/ /\ canary.pc = "put" /\ ReadsKnown("bench", Canary)
       /\ UNCHANGED <<Registry, Volume, reader, canary, mail>>
    \/ /\ merge["bench"].on /\ Canaried({"put"}, "announced")
       /\ Reconcile(merge["bench"].known)
       /\ merge' = [merge EXCEPT !["bench"] = NoMerge]
       /\ UNCHANGED <<Volume, reader, mail>>

\* and makes its index the latest, whatever was published since.
CanaryGoesLive ==
    /\ Canaried({"announced"}, "live")
    /\ index' = canary.was \cup {Canary}
    /\ UNCHANGED <<Registry, bad, published, damaged, reader, merge, mail>>

\* observe_corruption puts valid bytes once the blob was found corrupt.
CanaryRepairs ==
    /\ canary.pc = "live" /\ Poison \in bad
    /\ bad' = bad \ {Poison}
    /\ UNCHANGED <<Registry, index, published, damaged, reader, merge, canary, mail>>

\* cleanup_corruption puts the first index back if nothing else was published,
CanaryRestores ==
    /\ index \in {canary.was, canary.was \cup {Canary}}
    /\ Canaried({"put", "announced", "live"}, "restored")
    /\ index' = canary.was
    /\ merge' = [merge EXCEPT !["bench"] = NoMerge]
    /\ UNCHANGED <<Registry, bad, published, damaged, reader, mail>>

\* lists once the manifests that hold the digest, its own among them,
CanaryLists ==
    /\ canary.pc = "restored"
    /\ canary' = [canary EXCEPT !.pc = "cleanup", !.doomed = {Canary} \cup {m \in listed : Poison \in Holds[m]}]
    /\ UNCHANGED <<Registry, Volume, reader, merge, mail>>

\* removes them one by one, if they are still there, and then the blob.
CanaryRemoves(m) ==
    /\ canary.pc = "cleanup" /\ m \in canary.doomed
    /\ canary' = [canary EXCEPT !.doomed = @ \ {m}]
    /\ \/ m \in listed /\ Remove(m)
       \/ m \notin listed /\ UNCHANGED Registry
    /\ UNCHANGED <<Volume, reader, merge, mail>>

CanaryEnds ==
    /\ canary.doomed = {} /\ Canaried({"cleanup"}, "done")
    /\ bad' = bad \ {Poison}
    /\ UNCHANGED <<Registry, index, published, damaged, reader, merge, mail>>

-----------------------------------------------------------------------------
(* What placement uses *)

Newest == CHOOSE m \in listed : \A n \in listed : m = n \/ <<n, m>> \in Older

CoveredUnchecked ==
    IF health # "ready" \/ listed = {} THEN {}
    ELSE Holds[Newest] \cup {d \in Digests : artifact[d] = "eligible"}

\* volume_coverage of a ready volume: the newest manifest of the profile, less
\* the digests reported, and what else has an eligible artifact row.
Covered ==
    IF health # "ready" \/ listed = {} THEN {}
    ELSE (Holds[Newest] \ invalid) \cup {d \in Digests \ Holds[Newest] : artifact[d] = "eligible"}

-----------------------------------------------------------------------------
(* Specification *)

InventoryNext ==
    \/ \E m \in Manifests : WorkerPublishes(m) \/ Announced(m) \/ CanaryRemoves(m)
    \/ \E d \in Digests : WorkerReads(d) \/ BlobDamaged(d) \/ ReportArrives(d) \/ ReportLost(d)
    \/ \E r \in Readers : BeginRead(r) \/ ReadIndex(r) \/ Project(r)
    \/ Merge \/ AdoptedAgain
    \/ CanaryReads \/ CanaryPuts \/ CanaryAnnounces \/ CanaryGoesLive \/ CanaryRepairs
    \/ CanaryRestores \/ CanaryLists \/ CanaryEnds

InventorySpec == InventoryInit /\ [][InventoryNext]_inventoryVars

-----------------------------------------------------------------------------
(* Properties *)

\* A digest that a worker reported corrupt is not counted as cached until it
\* is verified again, whatever was announced, reconciled or removed since, and
\* although adopting the volume again makes it ready (volume_coverage).
NoReportedDigestIsCovered == Covered \cap invalid = {}

\* Every digest of a listed manifest has its artifact row, through merges,
\* reconciliations of an old index and the removal of manifests that share it
\* (reconcile_index, remove_manifest).
ListedIsProjected == \A d \in HeldBy(listed) : artifact[d] # "none"

\* A report is cleared by a new verification of the whole digest, so never
\* while the blob still has the bytes that were reported, unless the last
\* manifest that held it is removed (mark_verified, record_observation).
ReportStandsUntilVerified ==
    [][\A d \in bad \cap invalid : d \in invalid' \/ d \notin HeldBy(listed')]_inventoryVars

=============================================================================
