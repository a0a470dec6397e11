---------------------------- MODULE PreparedVolume ----------------------------
(***************************************************************************)
(* The content-addressed store on one cache volume (prepared_state.py):    *)
(* blobs at their digest's key, an index of published manifests behind one *)
(* pointer, and trust receipts that spare a whole read.  Workers reach the *)
(* volume through its mount (PreparedStateCAS), the coordinator through    *)
(* the provider's S3 gateway (RunPodS3PreparedStore).                      *)
(*                                                                         *)
(* Each side has its own publication lock, and neither excludes the other. *)
(* Nothing holds a blob while it is read, remembered and trusted.          *)
(***************************************************************************)
EXTENDS Integers, FiniteSets

CONSTANTS Workers,
          Threads,          \* requests of the coordinator that use the S3 gateway
          Profiles,         \* the manifests that may be published
          Blobs,            \* digests
          Needs,            \* the digests of a manifest
          NoOne,
          MaxGeneration,    \* bound on the generations of one blob
          MaxAccidents      \* bound on crashes and on blobs replaced from outside

ASSUME PreparedShape ==
    /\ Needs \in [Profiles -> SUBSET Blobs]
    /\ NoOne \notin Workers \cup Threads
    /\ MaxGeneration \in Nat \ {0} /\ MaxAccidents \in Nat

VARIABLES object,      \* the bytes at a digest's key, and their size and mtime
          latest,      \* the index behind the pointer, and the side that wrote it
          lock,        \* the holder of each side's publication lock
          receipt,     \* trust-receipts/: the manifest and generation they bind
          worker,      \* a worker's progress
          remembered,  \* _full_verified_objects
          verified,    \* _verified_prepared_digests of the running job
          leftover,    \* workers whose staging directory survived a crash
          thread,      \* a coordinator request's progress
          torn,        \* generations put between a verification and the look at its generation
          accidents

preparedVars == <<object, latest, lock, receipt, worker, remembered,
                  verified, leftover, thread, torn, accidents>>

-----------------------------------------------------------------------------
(* State *)

Generations == 0..MaxGeneration
Sides       == {"mount", "s3"}
NoReceipt   == [of |-> NoOne, gen |-> 0]
Resting     == [pc |-> "idle", blob |-> NoOne, man |-> NoOne, base |-> {}]
Waiting     == [pc |-> "idle", man |-> NoOne, base |-> {}, doomed |-> {}]

PreparedTypeOK ==
    /\ object \in [Blobs -> [bytes : {"none", "good", "bad"}, gen : Generations]]
    /\ latest \in [held : SUBSET Profiles, by : Sides]
    /\ lock \in [Sides -> Workers \cup Threads \cup {NoOne}]
    /\ receipt \in [Blobs -> [of : Profiles \cup {NoOne}, gen : Generations]]
    /\ worker \in [Workers ->
         [pc : {"idle", "read", "issue", "corrupt", "copying", "linked",
                "checked", "merging", "issuing"},
          blob : Blobs \cup {NoOne}, man : Profiles \cup {NoOne},
          base : SUBSET Profiles]]
    /\ remembered \in [Workers -> [Blobs -> Generations]]
    /\ verified \in [Workers -> SUBSET Blobs]
    /\ leftover \subseteq Workers
    /\ thread \in [Threads ->
         [pc : {"idle", "checked", "merging", "removing", "deleting"}, man : Profiles \cup {NoOne},
          base : SUBSET Profiles, doomed : SUBSET Blobs]]
    /\ torn \subseteq Blobs \X Generations
    /\ accidents \in 0..MaxAccidents

PreparedInit ==
    /\ object = [d \in Blobs |-> [bytes |-> "none", gen |-> 0]]
    /\ latest = [held |-> {}, by |-> "s3"]
    /\ lock = [s \in Sides |-> NoOne]
    /\ receipt = [d \in Blobs |-> NoReceipt]
    /\ worker = [w \in Workers |-> Resting]
    /\ remembered = [w \in Workers |-> [d \in Blobs |-> 0]]
    /\ verified = [w \in Workers |-> {}]
    /\ leftover = {} /\ torn = {}
    /\ thread = [c \in Threads |-> Waiting]
    /\ accidents = 0

Volume   == <<object, latest, lock, receipt>>
Memory   == <<remembered, verified>>
History  == <<torn, accidents>>

At(w, pc)  == worker[w].pc = pc
Blob(w)    == worker[w].blob
Present(d) == object[d].bytes # "none"
NeededBy(ms) == UNION {Needs[m] : m \in ms}

\* Every write of a blob gives it another modification time.
Placed(d, bytes) ==
    /\ object[d].gen < MaxGeneration
    /\ object' = [object EXCEPT ![d] = [bytes |-> bytes, gen |-> @.gen + 1]]

Removed(d) == object' = [object EXCEPT ![d].bytes = "none"]

-----------------------------------------------------------------------------
(* A worker verifies a blob *)

\* verify_object has read the whole of target ...
ReadsWhole(w, d, m) ==
    worker' = [worker EXCEPT ![w] =
        IF object[d].bytes = "good"
        THEN [Resting EXCEPT !.pc = "read", !.blob = d, !.man = m]
        ELSE [Resting EXCEPT !.pc = "corrupt", !.blob = d]]

\* ... and then takes the generation that is there now.  Without a file there
\* is none to take, and the restore fails.
Remember(w) ==
    LET d == Blob(w) IN
    /\ At(w, "read")
    /\ IF Present(d)
       THEN /\ remembered' = [remembered EXCEPT ![w][d] = object[d].gen]
            /\ verified' = [verified EXCEPT ![w] = @ \cup {d}]
            /\ worker' = [worker EXCEPT ![w] =
                            IF @.man = NoOne THEN Resting ELSE [@ EXCEPT !.pc = "issue"]]
       ELSE /\ worker' = [worker EXCEPT ![w] = Resting]
            /\ UNCHANGED Memory
    /\ UNCHANGED <<Volume, leftover, thread, History>>

TrustedAnyway(w, d) == IF Present(d) THEN object[d].gen ELSE 0

\* _issue_trust_receipt signs for the generation that is there if it is the one
\* that was remembered; 0 stands for no receipt.
MayTrust(w, d) == IF Present(d) /\ remembered[w][d] = object[d].gen THEN object[d].gen ELSE 0

IssuesReceipt(w) ==
    /\ At(w, "issue")
    /\ IF MayTrust(w, Blob(w)) = 0 THEN UNCHANGED receipt
       ELSE receipt' = [receipt EXCEPT ![Blob(w)] = [of |-> worker[w].man, gen |-> MayTrust(w, Blob(w))]]
    /\ worker' = [worker EXCEPT ![w] = Resting]
    /\ UNCHANGED <<object, latest, lock, Memory, leftover, thread, History>>

-----------------------------------------------------------------------------
(* A worker restores: restore_artifact, _restore_declared_asset *)

Trusted(d, m) == Present(d) /\ receipt[d] = [of |-> m, gen |-> object[d].gen]

Restore(w, d, m) ==
    /\ At(w, "idle") /\ m \in latest.held /\ d \in Needs[m]
    /\ \/ /\ Trusted(d, m)                      \* the signed samples match,
          /\ verified' = [verified EXCEPT ![w] = @ \cup {d}]
          /\ UNCHANGED worker
       \/ /\ Trusted(d, m) /\ object[d].bytes = "bad"  \* one of them does not,
          /\ worker' = [worker EXCEPT ![w] = [Resting EXCEPT !.pc = "corrupt", !.blob = d]]
          /\ UNCHANGED verified
       \/ /\ ~Trusted(d, m) /\ ReadsWhole(w, d, m)     \* or nothing is signed
          /\ UNCHANGED verified
    /\ UNCHANGED <<Volume, remembered, leftover, thread, History>>

\* The receipt goes first; then whatever is at the key now is moved away.
Quarantine(w) ==
    LET d == Blob(w) IN
    /\ At(w, "corrupt")
    /\ receipt' = [receipt EXCEPT ![d] = NoReceipt]
    /\ remembered' = [remembered EXCEPT ![w][d] = 0]
    /\ Removed(d)
    /\ worker' = [worker EXCEPT ![w] = Resting]
    /\ UNCHANGED <<latest, lock, verified, leftover, thread, History>>

-----------------------------------------------------------------------------
(* A worker populates: publish_blob *)

\* A target with other bytes is an error, and stays.  A staging directory that
\* survived the worker's crash refuses the next copy.
Populate(w, d) ==
    /\ At(w, "idle") /\ d \notin verified[w]
    /\ \/ object[d].bytes = "good" /\ ReadsWhole(w, d, NoOne)
       \/ /\ ~Present(d) /\ w \notin leftover
          /\ worker' = [worker EXCEPT ![w] =
                          [Resting EXCEPT !.pc = "copying", !.blob = d]]
    /\ UNCHANGED <<Volume, Memory, leftover, thread, History>>

\* The copy is verified in staging; os.link creates the key, or finds that
\* another writer has.
Link(w) ==
    /\ At(w, "copying") /\ ~Present(Blob(w))
    /\ Placed(Blob(w), "good")
    /\ worker' = [worker EXCEPT ![w].pc = "linked"]

Linked(w) ==
    /\ \/ Link(w)
       \/ At(w, "copying") /\ object[Blob(w)].bytes = "good" /\ ReadsWhole(w, Blob(w), NoOne) /\ UNCHANGED object
       \/ At(w, "copying") /\ object[Blob(w)].bytes = "bad" /\ worker' = [worker EXCEPT ![w] = Resting] /\ UNCHANGED object
    /\ UNCHANGED <<latest, lock, receipt, Memory, leftover, thread, History>>

\* The link is the verified file: its generation is remembered without a read.
Committed(w) ==
    LET d == Blob(w) IN
    /\ At(w, "linked")
    /\ IF Present(d)
       THEN /\ remembered' = [remembered EXCEPT ![w][d] = object[d].gen]
            /\ verified' = [verified EXCEPT ![w] = @ \cup {d}]
       ELSE UNCHANGED Memory
    /\ worker' = [worker EXCEPT ![w] = Resting]
    /\ UNCHANGED <<Volume, leftover, thread, History>>

-----------------------------------------------------------------------------
(* A worker publishes: publish_manifest, publish_index *)

\* Blobs verified or sampled earlier in the job are not read again.
Publish(w, m) ==
    /\ At(w, "idle") /\ Needs[m] \cap verified[w] # {}
    /\ \A d \in Needs[m] \ verified[w] : object[d].bytes = "good"
    /\ remembered' = [remembered EXCEPT ![w] =
                        [d \in Blobs |-> IF d \in Needs[m] \ verified[w] THEN object[d].gen ELSE @[d]]]
    /\ worker' = [worker EXCEPT ![w] = [Resting EXCEPT !.pc = "checked", !.man = m]]
    /\ UNCHANGED <<Volume, verified, leftover, thread, History>>

LoadsUnlocked(w) ==
    /\ At(w, "checked")
    /\ lock' = [lock EXCEPT !["mount"] = w]
    /\ worker' = [worker EXCEPT ![w].pc = "merging", ![w].base = latest.held]

\* The index is read under flock; one that cannot be read counts as empty.
Loads(w) ==
    /\ At(w, "checked") /\ lock["mount"] = NoOne
    /\ lock' = [lock EXCEPT !["mount"] = w]
    /\ \E base \in {latest.held, {}} :
         worker' = [worker EXCEPT ![w].pc = "merging", ![w].base = base]

WorkerLoads(w) ==
    /\ Loads(w)
    /\ UNCHANGED <<object, latest, receipt, Memory, leftover, thread, History>>

\* The index file, and then the pointer.
WorkerMerges(w) ==
    /\ At(w, "merging")
    /\ latest' = [held |-> worker[w].base \cup {worker[w].man}, by |-> "mount"]
    /\ lock' = [lock EXCEPT !["mount"] = NoOne]
    /\ worker' = [worker EXCEPT ![w].pc = "issuing"]
    /\ UNCHANGED <<object, receipt, Memory, leftover, thread, History>>

\* Receipts are issued last, for what this process has read.
IssuesReceipts(w) ==
    LET m == worker[w].man
        trusts == {d \in Needs[m] : MayTrust(w, d) # 0}
    IN
    /\ At(w, "issuing")
    /\ \E signed \in {{}, trusts} :
         receipt' = [d \in Blobs |-> IF d \in signed THEN [of |-> m, gen |-> MayTrust(w, d)]
                                     ELSE receipt[d]]
    /\ worker' = [worker EXCEPT ![w] = Resting]
    /\ UNCHANGED <<object, latest, lock, Memory, leftover, thread, History>>

\* _begin_cache_restore: nothing is verified yet.
BeginJob(w) ==
    /\ At(w, "idle") /\ verified[w] # {}
    /\ verified' = [verified EXCEPT ![w] = {}]
    /\ UNCHANGED <<Volume, worker, remembered, leftover, thread, History>>

\* The process dies: its memory and its flock are gone, its staging is not.
WorkerCrashes(w) ==
    /\ ~At(w, "idle") /\ accidents < MaxAccidents
    /\ accidents' = accidents + 1
    /\ leftover' = IF worker[w].pc \in {"copying", "linked"} THEN leftover \cup {w} ELSE leftover
    /\ worker' = [worker EXCEPT ![w] = Resting]
    /\ verified' = [verified EXCEPT ![w] = {}]
    /\ remembered' = [remembered EXCEPT ![w] = [d \in Blobs |-> 0]]
    /\ lock' = [lock EXCEPT !["mount"] = IF @ = w THEN NoOne ELSE @]
    /\ UNCHANGED <<object, latest, receipt, thread, torn>>

-----------------------------------------------------------------------------
(* The coordinator *)

\* upload_verified: an object of the right size is taken as it is.
Upload(c, d) ==
    /\ thread[c].pc = "idle" /\ object[d].bytes # "good"
    /\ Placed(d, "good")
    /\ UNCHANGED <<latest, lock, receipt, worker, Memory, leftover, thread, History>>

\* publish_manifest downloads and verifies every object before its lock,
S3Publish(c, m) ==
    /\ thread[c].pc = "idle" /\ \A d \in Needs[m] : object[d].bytes = "good"
    /\ thread' = [thread EXCEPT ![c] = [Waiting EXCEPT !.pc = "checked", !.man = m]]
    /\ UNCHANGED <<Volume, worker, Memory, leftover, History>>

\* remove_manifest works under the lock, on a manifest the index lists or on
\* one it was given and the index has lost.
S3Loads(c, m) ==
    /\ lock["s3"] = NoOne
    /\ lock' = [lock EXCEPT !["s3"] = c]
    /\ \/ thread[c].pc = "checked" /\ m = thread[c].man
          /\ thread' = [thread EXCEPT ![c].pc = "merging", ![c].base = latest.held]
       \/ thread[c].pc = "idle"
          /\ thread' = [thread EXCEPT ![c] =
                          [Waiting EXCEPT !.pc = "removing", !.man = m, !.base = latest.held]]
    /\ UNCHANGED <<object, latest, receipt, worker, Memory, leftover, History>>

S3Merges(c) ==
    /\ thread[c].pc = "merging"
    /\ latest' = [held |-> thread[c].base \cup {thread[c].man}, by |-> "s3"]
    /\ lock' = [lock EXCEPT !["s3"] = NoOne]
    /\ thread' = [thread EXCEPT ![c] = Waiting]
    /\ UNCHANGED <<object, receipt, worker, Memory, leftover, History>>

AllItNeeds(c) == Needs[thread[c].man]

\* What no remaining entry of the index it wrote refers to.
Unreferenced(c) == Needs[thread[c].man] \ NeededBy(thread[c].base \ {thread[c].man})

S3Unlists(c) ==
    /\ thread[c].pc = "removing"
    /\ latest' = [held |-> thread[c].base \ {thread[c].man}, by |-> "s3"]
    /\ thread' = [thread EXCEPT ![c].pc = "deleting", ![c].doomed = Unreferenced(c)]
    /\ UNCHANGED <<object, lock, receipt, worker, Memory, leftover, History>>

S3Deletes(c, d) ==
    /\ thread[c].pc = "deleting" /\ d \in thread[c].doomed
    /\ Removed(d)
    /\ thread' = [thread EXCEPT ![c].doomed = @ \ {d}]
    /\ UNCHANGED <<latest, lock, receipt, worker, Memory, leftover, History>>

\* A request of the gateway fails at any point, or the last one has been made.
S3Ends(c) ==
    /\ thread[c].pc # "idle"
    /\ lock' = [lock EXCEPT !["s3"] = IF @ = c THEN NoOne ELSE @]
    /\ thread' = [thread EXCEPT ![c] = Waiting]
    /\ UNCHANGED <<object, latest, receipt, worker, Memory, leftover, History>>

\* Someone else writes other bytes at the key.
Replaced(d) ==
    /\ object[d].bytes = "good" /\ accidents < MaxAccidents
    /\ Placed(d, "bad")
    /\ torn' = IF \E w \in Workers : worker[w].pc \in {"read", "linked"} /\ Blob(w) = d
               THEN torn \cup {<<d, object[d].gen + 1>>} ELSE torn
    /\ accidents' = accidents + 1
    /\ UNCHANGED <<latest, lock, receipt, worker, Memory, leftover, thread>>

-----------------------------------------------------------------------------
(* Specification *)

PreparedNext ==
    \/ \E w \in Workers :
         \/ Remember(w) \/ IssuesReceipt(w) \/ Quarantine(w)
         \/ Linked(w) \/ Committed(w)
         \/ WorkerLoads(w) \/ WorkerMerges(w) \/ IssuesReceipts(w) \/ BeginJob(w) \/ WorkerCrashes(w)
         \/ \E d \in Blobs : Populate(w, d) \/ \E m \in Profiles : Restore(w, d, m)
         \/ \E m \in Profiles : Publish(w, m)
    \/ \E c \in Threads :
         \/ S3Merges(c) \/ S3Unlists(c) \/ S3Ends(c)
         \/ \E d \in Blobs : Upload(c, d) \/ S3Deletes(c, d)
         \/ \E m \in Profiles : S3Publish(c, m) \/ S3Loads(c, m)
    \/ \E d \in Blobs : Replaced(d)

PreparedSpec == PreparedInit /\ [][PreparedNext]_preparedVars

-----------------------------------------------------------------------------
(* Properties *)

\* A receipt that matches the object on the volume names a generation that its
\* issuer had read whole, or verified before linking it; a blob replaced since
\* never matches, unless the replacement came between the read and the
\* generation taken for it (_remember_full_verification, _issue_trust_receipt).
TrustedGenerationWasReadWhole ==
    \A d \in Blobs :
       object[d].bytes = "bad" /\ receipt[d].gen = object[d].gen => <<d, object[d].gen>> \in torn

\* A manifest leaves the index when the coordinator removes it.  Otherwise only
\* a writer of the other side, who had read the index before, drops it, or a
\* worker that could not read the index (publish_index, publish_manifest).
PublicationsKept ==
    [][\A m \in latest.held \ latest'.held :
          \/ latest.by # latest'.by
          \/ \E c \in Threads : S3Unlists(c) /\ thread[c].man = m
          \/ \E w \in Workers : WorkerMerges(w) /\ worker[w].base = {}]_preparedVars

\* Removing a manifest deletes no blob that a listed manifest still refers to,
\* unless a worker has published since (remove_manifest).
ExpiryKeepsSharedObjects ==
    [][\A c \in Threads, d \in Blobs :
          S3Deletes(c, d) => d \notin NeededBy(latest.held) \/ latest.by = "mount"]_preparedVars

\* docs/storage-aware-cloud-offload.md:322: the pointer is published "with a
\* conditional write", so a writer never replaces an index it has not read.
PointerWriteIsConditional ==
    [][/\ \A w \in Workers : WorkerMerges(w) => worker[w].base = latest.held
       /\ \A c \in Threads : S3Merges(c) \/ S3Unlists(c) => thread[c].base = latest.held]_preparedVars

=============================================================================
