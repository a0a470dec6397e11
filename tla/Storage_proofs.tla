--------------------------- MODULE Storage_proofs ---------------------------
(***************************************************************************)
(* Theorems about what is stored on a cache volume.                        *)
(*                                                                         *)
(* The content-addressed store: who writes the index holds its side's lock,*)
(* a trust receipt is for bytes that were read whole, and no publication is*)
(* lost, for any workers, coordinator requests, manifests and blobs.       *)
(*                                                                         *)
(* The upload of an object in parts, for every number of parts, every window*)
(* and any number of uploads that fail or die.                             *)
(***************************************************************************)
EXTENDS PreparedVolume, MultipartUpload, FiniteSetTheorems, WellFoundedInduction, TLAPS

-----------------------------------------------------------------------------
(* Volume: the inductive invariant *)

\* A row names the blob and the manifest that its next step is about.
Named(r) ==
    /\ r.pc \in {"read", "issue", "corrupt", "copying", "linked"} => r.blob \in Blobs
    /\ r.pc \in {"issue", "checked", "merging", "issuing"} => r.man \in Profiles

RowsAreNamed ==
    /\ \A w \in Workers : Named(worker[w])
    /\ \A c \in Threads : thread[c].pc # "idle" => thread[c].man \in Profiles

\* Nobody remembers or signs a generation that has not been put yet.
NothingIsAhead ==
    \A d \in Blobs :
        /\ receipt[d].gen <= object[d].gen
        /\ object[d].bytes = "bad" => object[d].gen > 0
        /\ \A w \in Workers : remembered[w][d] <= object[d].gen

\* Whoever still trusts a blob that was replaced, or is about to, was
\* overtaken between the whole read and the look at the generation.
TrustIsTorn ==
    \A d \in Blobs :
        object[d].bytes = "bad" /\ <<d, object[d].gen>> \notin torn =>
            /\ receipt[d].gen # object[d].gen
            /\ \A w \in Workers : /\ remembered[w][d] # object[d].gen
                                  /\ worker[w].pc \in {"read", "linked"} => Blob(w) # d

\* Who is writing the index holds its side's lock, and has read the index
\* unless the other side has written it since.
MountIsLocked ==
    \A w \in Workers : At(w, "merging") =>
        /\ lock["mount"] = w
        /\ latest.by = "mount" => worker[w].base \in {latest.held, {}}

GatewayIsLocked ==
    \A c \in Threads :
        /\ thread[c].pc \in {"merging", "removing", "deleting"} => lock["s3"] = c
        /\ thread[c].pc \in {"merging", "removing"} /\ latest.by = "s3" => thread[c].base = latest.held
        /\ thread[c].pc = "deleting" /\ latest.by = "s3" => thread[c].doomed \cap NeededBy(latest.held) = {}

VolumeInv == PreparedTypeOK /\ RowsAreNamed /\ NothingIsAhead /\ TrustIsTorn /\ MountIsLocked /\ GatewayIsLocked

-----------------------------------------------------------------------------
(* Volume: types *)

Pcs == {"idle", "read", "issue", "corrupt", "copying", "linked", "checked", "merging", "issuing"}

WorkerRow == [pc : Pcs, blob : Blobs \cup {NoOne}, man : Profiles \cup {NoOne}, base : SUBSET Profiles]

ThreadPcs == {"idle", "checked", "merging", "removing", "deleting"}

ThreadRow == [pc : ThreadPcs, man : Profiles \cup {NoOne}, base : SUBSET Profiles, doomed : SUBSET Blobs]

LEMMA RestingRows ==
    /\ Resting \in WorkerRow /\ Resting.pc = "idle"
    /\ Waiting \in ThreadRow /\ Waiting.pc = "idle"
    /\ \A pc \in Pcs, d \in Blobs \cup {NoOne}, m \in Profiles \cup {NoOne} :
         /\ [Resting EXCEPT !.pc = pc, !.blob = d, !.man = m] \in WorkerRow
         /\ [Resting EXCEPT !.pc = pc, !.blob = d] \in WorkerRow
         /\ [Resting EXCEPT !.pc = pc, !.man = m] \in WorkerRow
  BY DEF Resting, Waiting, WorkerRow, ThreadRow, Pcs, ThreadPcs

\* The row a whole read leads to.
LEMMA WholeRead ==
    ASSUME PreparedTypeOK, NEW w \in Workers, NEW d \in Blobs, NEW m \in Profiles \cup {NoOne}, ReadsWhole(w, d, m)
    PROVE  \E r \in WorkerRow :
              /\ worker' = [worker EXCEPT ![w] = r] /\ r.blob = d
              /\ r.pc \in {"read", "corrupt"} /\ (r.pc = "read" => object[d].bytes = "good")
<1> DEFINE r == IF object[d].bytes = "good" THEN [Resting EXCEPT !.pc = "read", !.blob = d, !.man = m]
                ELSE [Resting EXCEPT !.pc = "corrupt", !.blob = d]
<1>1. worker' = [worker EXCEPT ![w] = r]
  BY DEF ReadsWhole
<1>2. r \in WorkerRow /\ r.blob = d /\ r.pc \in {"read", "corrupt"} /\ (r.pc = "read" => object[d].bytes = "good")
  BY DEF Resting, WorkerRow, Pcs
<1> HIDE DEF r
<1> QED BY <1>1, <1>2

\* What a step of one worker makes of its row: it has read a whole good blob,
\* has put one, or is past both; and the index is read in one action only.
RowStep(w) ==
    \E r \in WorkerRow :
        /\ worker' = [worker EXCEPT ![w] = r] /\ Named(r)
        /\ r.pc \in {"read", "linked"} => object'[r.blob].bytes = "good"
        /\ r.pc = "merging" => WorkerLoads(w)

\* Receipts and memories that a step of one worker may leave.
TrustStep(w) ==
    /\ torn' = torn
    /\ \A d \in Blobs :
        /\ object'[d].gen >= object[d].gen
        /\ object'[d].bytes = "bad" => object'[d] = object[d]
        /\ \/ receipt'[d].gen \in {receipt[d].gen, 0}
           \/ receipt'[d].gen = object[d].gen /\ remembered[w][d] = object[d].gen
        /\ \A v \in Workers \ {w} : remembered'[v][d] = remembered[v][d]
        /\ \/ remembered'[w][d] \in {remembered[w][d], 0}
           \/ /\ remembered'[w][d] = object[d].gen
              /\ object[d].bytes = "good" \/ (worker[w].pc \in {"read", "linked"} /\ Blob(w) = d)

LEMMA TrustKept ==
    ASSUME VolumeInv, NEW w \in Workers, TrustStep(w), RowStep(w) \/ UNCHANGED worker, PreparedTypeOK'
    PROVE  NothingIsAhead' /\ TrustIsTorn'
<1>1. /\ \A d \in Blobs : /\ object[d].gen \in Nat /\ object'[d].gen \in Nat
                          /\ receipt[d].gen \in Nat /\ receipt'[d].gen \in Nat
                          /\ object[d].bytes = "bad" => object[d].gen > 0
      /\ \A v \in Workers, d \in Blobs : remembered[v][d] \in Nat /\ remembered'[v][d] \in Nat
      /\ NothingIsAhead /\ TrustIsTorn
  <2>1. Generations \subseteq Nat
    BY PreparedShape DEF Generations
  <2>2. \A d \in Blobs : object[d].gen \in Generations /\ receipt[d].gen \in Generations
    BY DEF VolumeInv, PreparedTypeOK
  <2>3. \A d \in Blobs : object'[d].gen \in Generations /\ receipt'[d].gen \in Generations
    BY DEF PreparedTypeOK
  <2>4. \A v \in Workers, d \in Blobs : remembered[v][d] \in Generations /\ remembered'[v][d] \in Generations
    BY DEF VolumeInv, PreparedTypeOK
  <2> QED BY <2>1, <2>2, <2>3, <2>4 DEF VolumeInv, NothingIsAhead
<1>2. ASSUME NEW v \in Workers, NEW d \in Blobs, worker'[v].pc \in {"read", "linked"}, Blob(v)' = d, object'[d].bytes = "bad"
      PROVE  worker[v].pc \in {"read", "linked"} /\ Blob(v) = d
  <2>1. CASE UNCHANGED worker
    BY <1>2, <2>1 DEF Blob
  <2>2. CASE RowStep(w)
    <3>1. PICK r \in WorkerRow : /\ worker' = [worker EXCEPT ![w] = r]
                                 /\ r.pc \in {"read", "linked"} => object'[r.blob].bytes = "good"
      BY <2>2 DEF RowStep
    <3>2. CASE v = w
      BY <1>2, <3>1, <3>2 DEF VolumeInv, PreparedTypeOK, Blob
    <3>3. CASE v # w
      BY <1>2, <3>1, <3>3 DEF VolumeInv, PreparedTypeOK, Blob
    <3> QED BY <3>2, <3>3
  <2> QED BY <2>1, <2>2
<1>3. NothingIsAhead'
  <2> SUFFICES ASSUME NEW d \in Blobs
               PROVE  /\ receipt'[d].gen <= object'[d].gen
                      /\ object'[d].bytes = "bad" => object'[d].gen > 0
                      /\ \A v \in Workers : remembered'[v][d] <= object'[d].gen
    BY DEF NothingIsAhead
  <2>1. receipt'[d].gen <= object'[d].gen
    BY <1>1 DEF TrustStep, NothingIsAhead
  <2>2. object'[d].bytes = "bad" => object'[d].gen > 0
    BY <1>1 DEF TrustStep
  <2>3. ASSUME NEW v \in Workers PROVE remembered'[v][d] <= object'[d].gen
    <3>1. CASE v = w
      BY <1>1, <3>1 DEF TrustStep, NothingIsAhead
    <3>2. CASE v # w
      BY <1>1, <3>2 DEF TrustStep, NothingIsAhead
    <3> QED BY <3>1, <3>2
  <2> QED BY <2>1, <2>2, <2>3
<1>4. TrustIsTorn'
  <2> SUFFICES ASSUME NEW d \in Blobs, object'[d].bytes = "bad", <<d, object'[d].gen>> \notin torn'
               PROVE  /\ receipt'[d].gen # object'[d].gen
                      /\ \A v \in Workers : /\ remembered'[v][d] # object'[d].gen
                                            /\ worker'[v].pc \in {"read", "linked"} => Blob(v)' # d
    BY DEF TrustIsTorn
  <2>1. /\ object'[d] = object[d] /\ object[d].gen > 0
        /\ receipt[d].gen # object[d].gen
        /\ \A v \in Workers : /\ remembered[v][d] # object[d].gen
                              /\ worker[v].pc \in {"read", "linked"} => Blob(v) # d
    BY <1>1 DEF TrustStep, TrustIsTorn
  <2>2. receipt'[d].gen # object'[d].gen
    BY <1>1, <2>1 DEF TrustStep
  <2>3. ASSUME NEW v \in Workers PROVE remembered'[v][d] # object'[d].gen
    <3>1. CASE v = w
      BY <1>1, <2>1, <3>1 DEF TrustStep
    <3>2. CASE v # w
      BY <1>1, <2>1, <3>2 DEF TrustStep
    <3> QED BY <3>1, <3>2
  <2>4. \A v \in Workers : worker'[v].pc \in {"read", "linked"} => Blob(v)' # d
    BY <1>2, <2>1
  <2> QED BY <2>2, <2>3, <2>4
<1> QED BY <1>3, <1>4

\* A step of a worker that does not touch the index.
LEMMA LocksKept ==
    ASSUME VolumeInv, NEW w \in Workers, RowStep(w) \/ UNCHANGED worker, UNCHANGED <<latest, lock, thread>>
    PROVE  MountIsLocked' /\ GatewayIsLocked'
<1>1. GatewayIsLocked'
  BY DEF VolumeInv, GatewayIsLocked
<1>2. ASSUME NEW v \in Workers, worker'[v].pc = "merging" PROVE worker'[v] = worker[v]
  <2>1. CASE UNCHANGED worker
    BY <2>1
  <2>2. CASE RowStep(w)
    <3>1. PICK r \in WorkerRow : /\ worker' = [worker EXCEPT ![w] = r]
                                 /\ r.pc = "merging" => WorkerLoads(w)
      BY <2>2 DEF RowStep
    <3>2. ASSUME WorkerLoads(w), r.pc = "merging", v = w PROVE FALSE
      BY <3>2, PreparedShape DEF WorkerLoads, Loads, VolumeInv, PreparedTypeOK, Sides
    <3> QED BY <1>2, <3>1, <3>2 DEF VolumeInv, PreparedTypeOK
  <2> QED BY <2>1, <2>2
<1>3. MountIsLocked'
  BY <1>2 DEF VolumeInv, MountIsLocked, At
<1> QED BY <1>1, <1>3

-----------------------------------------------------------------------------
(* Volume: the steps of a worker *)

LEMMA TypeParts ==
    ASSUME VolumeInv
    PROVE  /\ worker \in [Workers -> WorkerRow] /\ thread \in [Threads -> ThreadRow]
           /\ object \in [Blobs -> [bytes : {"none", "good", "bad"}, gen : Generations]]
           /\ receipt \in [Blobs -> [of : Profiles \cup {NoOne}, gen : Generations]]
           /\ remembered \in [Workers -> [Blobs -> Generations]] /\ verified \in [Workers -> SUBSET Blobs]
           /\ Generations \subseteq Nat /\ 0 \in Generations
  BY PreparedShape DEF VolumeInv, PreparedTypeOK, WorkerRow, Pcs, ThreadRow, ThreadPcs, Generations

\* A step of one worker that leaves the index and the other actors alone.
LEMMA WorkerKept ==
    ASSUME VolumeInv, NEW w \in Workers, TrustStep(w), RowStep(w) \/ UNCHANGED worker,
           UNCHANGED <<latest, lock, thread, leftover, accidents>>,
           object' \in [Blobs -> [bytes : {"none", "good", "bad"}, gen : Generations]],
           receipt' \in [Blobs -> [of : Profiles \cup {NoOne}, gen : Generations]],
           remembered' \in [Workers -> [Blobs -> Generations]],
           verified' \in [Workers -> SUBSET Blobs]
    PROVE  VolumeInv'
<1>1. worker' \in [Workers -> WorkerRow] /\ \A v \in Workers : Named(worker'[v])
  <2>1. CASE UNCHANGED worker
    BY <2>1, TypeParts DEF VolumeInv, RowsAreNamed
  <2>2. CASE RowStep(w)
    BY <2>2, TypeParts DEF RowStep, VolumeInv, RowsAreNamed
  <2> QED BY <2>1, <2>2
<1>2. PreparedTypeOK'
  <2>1. PreparedTypeOK /\ torn' = torn
    BY DEF VolumeInv, TrustStep
  <2> QED BY <1>1, <2>1 DEF PreparedTypeOK, WorkerRow, Pcs
<1>3. RowsAreNamed'
  BY <1>1 DEF VolumeInv, RowsAreNamed
<1> QED BY <1>2, <1>3, TrustKept, LocksKept DEF VolumeInv

LEMMA RememberStep == ASSUME VolumeInv, NEW w \in Workers, Remember(w) PROVE VolumeInv'
<1> DEFINE d == Blob(w)
           r == IF Present(d) /\ worker[w].man # NoOne THEN [worker[w] EXCEPT !.pc = "issue"] ELSE Resting
<1>1. worker[w] \in WorkerRow /\ worker[w].pc = "read" /\ d \in Blobs /\ d = worker[w].blob
  BY TypeParts DEF VolumeInv, RowsAreNamed, Named, Remember, Blob, At
<1>2. worker' = [worker EXCEPT ![w] = r]
  BY DEF Remember
<1>3. r \in WorkerRow /\ r.pc \in {"idle", "issue"} /\ (r.pc = "issue" => r.blob = d /\ r.man \in Profiles)
  <2> DEFINE next == [worker[w] EXCEPT !.pc = "issue"]
  <2>1. next \in WorkerRow /\ next.pc = "issue" /\ next.blob = d /\ next.man = worker[w].man
    <3> HIDE DEF d
    <3> QED BY <1>1 DEF WorkerRow, Pcs
  <2>2. worker[w].man \in Profiles \cup {NoOne}
    BY <1>1 DEF WorkerRow
  <2>3. (r = next /\ worker[w].man # NoOne) \/ r = Resting
    OBVIOUS
  <2> HIDE DEF r, next, d
  <2> QED BY <2>1, <2>2, <2>3, RestingRows
<1>4. RowStep(w)
  <2> HIDE DEF r, d
  <2> QED BY <1>1, <1>2, <1>3 DEF RowStep, Named
<1>5. CASE Present(d)
  <2> DEFINE g == object[d].gen
  <2>1. /\ remembered' = [remembered EXCEPT ![w][d] = g] /\ verified' = [verified EXCEPT ![w] = verified[w] \cup {d}]
        /\ UNCHANGED <<object, latest, lock, receipt, leftover, thread, torn, accidents>>
    BY <1>5 DEF Remember, Volume, History
  <2>2. g \in Generations
    BY <1>1, TypeParts
  <2>3. /\ remembered' \in [Workers -> [Blobs -> Generations]] /\ verified' \in [Workers -> SUBSET Blobs]
        /\ \A v \in Workers, k \in Blobs : remembered'[v][k] = remembered[v][k] \/ (v = w /\ k = d /\ remembered'[v][k] = g)
    <3> HIDE DEF d, g
    <3> QED BY <1>1, <2>1, <2>2, TypeParts
  <2>4. TrustStep(w)
    BY <1>1, <2>1, <2>3, TypeParts DEF TrustStep
  <2> QED BY <1>4, <2>1, <2>3, <2>4, TypeParts, WorkerKept
<1>6. CASE ~Present(d)
  <2>1. UNCHANGED <<object, latest, lock, receipt, remembered, verified, leftover, thread, torn, accidents>>
    BY <1>6 DEF Remember, Volume, Memory, History
  <2>2. TrustStep(w)
    BY <2>1, TypeParts DEF TrustStep
  <2> QED BY <1>4, <2>1, <2>2, TypeParts, WorkerKept
<1> QED BY <1>5, <1>6

\* A receipt for a generation that its issuer remembers.
LEMMA IssueStep == ASSUME VolumeInv, NEW w \in Workers, IssuesReceipt(w) PROVE VolumeInv'
<1> DEFINE d == Blob(w)
           g == MayTrust(w, d)
<1>1. d \in Blobs /\ worker[w].man \in Profiles
  BY DEF VolumeInv, RowsAreNamed, Named, IssuesReceipt, Blob, At
<1>2. RowStep(w)
  BY RestingRows DEF RowStep, Named, IssuesReceipt
<1>3. UNCHANGED <<object, latest, lock, remembered, verified, leftover, thread, torn, accidents>>
  BY DEF IssuesReceipt, Memory, History
<1>4. g = 0 \/ (g = object[d].gen /\ remembered[w][d] = object[d].gen)
  BY DEF MayTrust
<1>5. g \in Generations
  BY <1>1, <1>4, TypeParts
<1>6. /\ receipt' \in [Blobs -> [of : Profiles \cup {NoOne}, gen : Generations]]
      /\ \A k \in Blobs : receipt'[k] = receipt[k] \/ (k = d /\ receipt'[k].gen = g)
  <2> DEFINE new == [of |-> worker[w].man, gen |-> g]
  <2>1. UNCHANGED receipt \/ receipt' = [receipt EXCEPT ![d] = new]
    BY DEF IssuesReceipt
  <2>2. new \in [of : Profiles \cup {NoOne}, gen : Generations] /\ new.gen = g
    BY <1>1, <1>5
  <2> HIDE DEF d, g, new
  <2>3. receipt \in [Blobs -> [of : Profiles \cup {NoOne}, gen : Generations]]
    BY TypeParts
  <2> QED BY <1>1, <2>1, <2>2, <2>3
<1>7. TrustStep(w)
  BY <1>1, <1>3, <1>4, <1>6, TypeParts DEF TrustStep
<1> QED BY <1>2, <1>3, <1>6, <1>7, TypeParts, WorkerKept

LEMMA RestoreStep ==
    ASSUME VolumeInv, NEW w \in Workers, NEW d \in Blobs, NEW m \in Profiles, Restore(w, d, m)
    PROVE  VolumeInv'
<1>1. UNCHANGED <<object, latest, lock, receipt, remembered, leftover, thread, torn, accidents>>
  BY DEF Restore, Volume, History
<1>2. TrustStep(w)
  BY <1>1, TypeParts DEF TrustStep
<1>3. verified' \in [Workers -> SUBSET Blobs]
  BY TypeParts DEF Restore
<1>4. RowStep(w) \/ UNCHANGED worker
  <2>1. CASE worker' = [worker EXCEPT ![w] = [Resting EXCEPT !.pc = "corrupt", !.blob = d]]
    <3>1. [Resting EXCEPT !.pc = "corrupt", !.blob = d] \in WorkerRow
      BY DEF Resting, WorkerRow, Pcs
    <3> QED BY <2>1, <3>1 DEF RowStep, Named, Resting
  <2>2. CASE ReadsWhole(w, d, m)
    BY <1>1, <2>2, WholeRead DEF RowStep, Named, VolumeInv
  <2> QED BY <2>1, <2>2 DEF Restore
<1> QED BY <1>1, <1>2, <1>3, <1>4, TypeParts, WorkerKept

LEMMA QuarantineStep == ASSUME VolumeInv, NEW w \in Workers, Quarantine(w) PROVE VolumeInv'
<1> DEFINE d == Blob(w)
<1>1. d \in Blobs
  BY DEF VolumeInv, RowsAreNamed, Named, Quarantine, Blob, At
<1>2. RowStep(w)
  BY RestingRows DEF RowStep, Named, Quarantine
<1>3. /\ receipt' = [receipt EXCEPT ![d] = NoReceipt] /\ remembered' = [remembered EXCEPT ![w][d] = 0]
      /\ object' = [object EXCEPT ![d].bytes = "none"]
      /\ UNCHANGED <<latest, lock, verified, leftover, thread, torn, accidents>>
  BY DEF Quarantine, Removed, History
<1> HIDE DEF d
<1>4. /\ receipt' \in [Blobs -> [of : Profiles \cup {NoOne}, gen : Generations]]
      /\ \A k \in Blobs : receipt'[k].gen \in {receipt[k].gen, 0}
  BY <1>1, <1>3, TypeParts DEF NoReceipt
<1>5. /\ remembered' \in [Workers -> [Blobs -> Generations]]
      /\ \A v \in Workers, k \in Blobs : remembered'[v][k] = remembered[v][k] \/ (v = w /\ remembered'[v][k] = 0)
  BY <1>1, <1>3, TypeParts
<1>6. /\ object' \in [Blobs -> [bytes : {"none", "good", "bad"}, gen : Generations]]
      /\ \A k \in Blobs : /\ object'[k].gen = object[k].gen
                          /\ object'[k].bytes = "bad" => object'[k] = object[k]
  BY <1>1, <1>3, TypeParts
<1>7. TrustStep(w)
  BY <1>3, <1>4, <1>5, <1>6, TypeParts DEF TrustStep
<1> QED BY <1>2, <1>3, <1>4, <1>5, <1>6, <1>7, TypeParts, WorkerKept

LEMMA PopulateStep ==
    ASSUME VolumeInv, NEW w \in Workers, NEW d \in Blobs, Populate(w, d)
    PROVE  VolumeInv'
<1>1. UNCHANGED <<object, latest, lock, receipt, remembered, verified, leftover, thread, torn, accidents>>
  BY DEF Populate, Volume, Memory, History
<1>2. TrustStep(w)
  BY <1>1, TypeParts DEF TrustStep
<1>3. RowStep(w)
  <2>1. CASE worker' = [worker EXCEPT ![w] = [Resting EXCEPT !.pc = "copying", !.blob = d]]
    <3>1. [Resting EXCEPT !.pc = "copying", !.blob = d] \in WorkerRow
      BY DEF Resting, WorkerRow, Pcs
    <3> QED BY <2>1, <3>1 DEF RowStep, Named, Resting
  <2>2. CASE ReadsWhole(w, d, NoOne)
    BY <1>1, <2>2, WholeRead DEF RowStep, Named, VolumeInv
  <2> QED BY <2>1, <2>2 DEF Populate
<1> QED BY <1>1, <1>2, <1>3, TypeParts, WorkerKept

\* A blob that is put is a good one, and its generation is a new one.
LEMMA PlacedGood ==
    ASSUME VolumeInv, NEW d \in Blobs, NEW bytes \in {"good", "bad"}, Placed(d, bytes)
    PROVE  /\ object' \in [Blobs -> [bytes : {"none", "good", "bad"}, gen : Generations]]
           /\ object'[d].bytes = bytes /\ object'[d].gen = object[d].gen + 1
           /\ \A k \in Blobs \ {d} : object'[k] = object[k]
<1> DEFINE new == [bytes |-> bytes, gen |-> object[d].gen + 1]
<1>1. object' = [object EXCEPT ![d] = new]
  BY DEF Placed
<1>2. object[d].gen \in 0..MaxGeneration /\ object[d].gen < MaxGeneration /\ MaxGeneration \in Nat
  BY TypeParts, PreparedShape DEF Placed, Generations
<1>3. object[d].gen + 1 \in Generations
  BY <1>2 DEF Generations
<1> QED BY <1>1, <1>3, TypeParts

LEMMA LinkStep == ASSUME VolumeInv, NEW w \in Workers, Linked(w) PROVE VolumeInv'
<1> DEFINE d == Blob(w)
<1>1. worker[w] \in WorkerRow /\ worker[w].pc = "copying" /\ d \in Blobs /\ worker[w].blob = d
  BY TypeParts DEF VolumeInv, RowsAreNamed, Named, Linked, Link, Blob, At
<1>2. UNCHANGED <<latest, lock, receipt, remembered, verified, leftover, thread, torn, accidents>>
  BY DEF Linked, Memory, History
<1>3. CASE Link(w)
  <2> DEFINE r == [worker[w] EXCEPT !.pc = "linked"]
  <2>1. worker' = [worker EXCEPT ![w] = r] /\ Placed(d, "good")
    BY <1>3 DEF Link
  <2>2. r \in WorkerRow /\ r.pc = "linked" /\ r.blob = d
    BY <1>1 DEF WorkerRow, Pcs
  <2>3. /\ object' \in [Blobs -> [bytes : {"none", "good", "bad"}, gen : Generations]]
        /\ object'[d].bytes = "good" /\ object'[d].gen = object[d].gen + 1
        /\ \A k \in Blobs \ {d} : object'[k] = object[k]
    BY <1>1, <2>1, PlacedGood
  <2> HIDE DEF r, d
  <2>4. RowStep(w)
    BY <1>1, <2>1, <2>2, <2>3 DEF RowStep, Named
  <2>5. TrustStep(w)
    BY <1>1, <1>2, <2>3, TypeParts DEF TrustStep
  <2> QED BY <1>2, <2>3, <2>4, <2>5, TypeParts, WorkerKept
<1>4. CASE UNCHANGED object /\ (ReadsWhole(w, d, NoOne) \/ worker' = [worker EXCEPT ![w] = Resting])
  <2>1. TrustStep(w)
    BY <1>2, <1>4, TypeParts DEF TrustStep
  <2>2. RowStep(w)
    <3>1. CASE ReadsWhole(w, d, NoOne)
      BY <1>1, <1>4, <3>1, WholeRead DEF RowStep, Named, VolumeInv
    <3>2. CASE worker' = [worker EXCEPT ![w] = Resting]
      BY <3>2, RestingRows DEF RowStep, Named
    <3> QED BY <1>4, <3>1, <3>2
  <2> QED BY <1>2, <1>4, <2>1, <2>2, TypeParts, WorkerKept
<1> QED BY <1>3, <1>4 DEF Linked

\* The generation that is remembered was put by the worker, or came after it.
LEMMA CommitStep == ASSUME VolumeInv, NEW w \in Workers, Committed(w) PROVE VolumeInv'
<1> DEFINE d == Blob(w)
           g == object[d].gen
<1>1. worker[w].pc = "linked" /\ d \in Blobs /\ d = worker[w].blob
  BY DEF VolumeInv, RowsAreNamed, Named, Committed, Blob, At
<1>2. RowStep(w)
  BY RestingRows DEF RowStep, Named, Committed
<1>3. UNCHANGED <<object, latest, lock, receipt, leftover, thread, torn, accidents>>
  BY DEF Committed, Volume, History
<1>4. g \in Generations
  BY <1>1, TypeParts
<1>5. /\ remembered' \in [Workers -> [Blobs -> Generations]] /\ verified' \in [Workers -> SUBSET Blobs]
      /\ \A v \in Workers, k \in Blobs : remembered'[v][k] = remembered[v][k] \/ (v = w /\ k = d /\ remembered'[v][k] = g)
  <2>1. CASE UNCHANGED <<remembered, verified>>
    BY <2>1, TypeParts
  <2>2. CASE remembered' = [remembered EXCEPT ![w][d] = g] /\ verified' = [verified EXCEPT ![w] = verified[w] \cup {d}]
    <3> HIDE DEF d, g
    <3> QED BY <1>1, <1>4, <2>2, TypeParts
  <2> QED BY <2>1, <2>2 DEF Committed, Memory
<1>6. TrustStep(w)
  BY <1>1, <1>3, <1>5, TypeParts DEF TrustStep
<1> QED BY <1>2, <1>3, <1>5, <1>6, TypeParts, WorkerKept

\* A manifest is published only over good blobs.
LEMMA PublishStep ==
    ASSUME VolumeInv, NEW w \in Workers, NEW m \in Profiles, Publish(w, m)
    PROVE  VolumeInv'
<1> DEFINE row == [d \in Blobs |-> IF d \in Needs[m] \ verified[w] THEN object[d].gen ELSE remembered[w][d]]
<1>1. UNCHANGED <<object, latest, lock, receipt, verified, leftover, thread, torn, accidents>>
  BY DEF Publish, Volume, History
<1>2. RowStep(w)
  <2>1. [Resting EXCEPT !.pc = "checked", !.man = m] \in WorkerRow
    BY RestingRows DEF Pcs
  <2> QED BY <2>1 DEF RowStep, Named, Publish, Resting
<1>3. remembered' = [remembered EXCEPT ![w] = row]
  BY DEF Publish
<1>4. row \in [Blobs -> Generations]
  BY TypeParts
<1>5. /\ remembered' \in [Workers -> [Blobs -> Generations]]
      /\ remembered'[w] = row /\ \A v \in Workers \ {w} : remembered'[v] = remembered[v]
  <2> HIDE DEF row
  <2> QED BY <1>3, <1>4, TypeParts
<1>6. \A d \in Blobs : row[d] = remembered[w][d] \/ (row[d] = object[d].gen /\ object[d].bytes = "good")
  BY DEF Publish
<1>7. TrustStep(w)
  <2> HIDE DEF row
  <2> QED BY <1>1, <1>5, <1>6, TypeParts DEF TrustStep
<1> QED BY <1>1, <1>2, <1>5, <1>7, TypeParts, WorkerKept

\* Receipts for what the worker remembers, or none.
LEMMA ReceiptsStep == ASSUME VolumeInv, NEW w \in Workers, IssuesReceipts(w) PROVE VolumeInv'
<1> DEFINE m == worker[w].man
<1>1. m \in Profiles
  BY DEF VolumeInv, RowsAreNamed, Named, IssuesReceipts, At
<1>2. UNCHANGED <<object, latest, lock, remembered, verified, leftover, thread, torn, accidents>>
  BY DEF IssuesReceipts, Memory, History
<1>3. RowStep(w)
  BY RestingRows DEF RowStep, Named, IssuesReceipts
<1>4. PICK signed : receipt' = [d \in Blobs |-> IF d \in signed THEN [of |-> m, gen |-> MayTrust(w, d)] ELSE receipt[d]]
  BY DEF IssuesReceipts
<1>5. \A d \in Blobs : /\ MayTrust(w, d) \in Generations
                       /\ MayTrust(w, d) = 0 \/ (MayTrust(w, d) = object[d].gen /\ remembered[w][d] = object[d].gen)
  BY TypeParts DEF MayTrust
<1> HIDE DEF m
<1>6. /\ receipt' \in [Blobs -> [of : Profiles \cup {NoOne}, gen : Generations]]
      /\ \A d \in Blobs : receipt'[d] = receipt[d] \/ receipt'[d].gen = MayTrust(w, d)
  BY <1>1, <1>4, <1>5, TypeParts
<1>7. TrustStep(w)
  BY <1>2, <1>5, <1>6, TypeParts DEF TrustStep
<1> QED BY <1>2, <1>3, <1>6, <1>7, TypeParts, WorkerKept

LEMMA BeginStep == ASSUME VolumeInv, NEW w \in Workers, BeginJob(w) PROVE VolumeInv'
<1>1. /\ UNCHANGED <<object, latest, lock, receipt, worker, remembered, leftover, thread, torn, accidents>>
      /\ verified' \in [Workers -> SUBSET Blobs]
  BY TypeParts DEF BeginJob, Volume, History
<1>2. TrustStep(w)
  BY <1>1, TypeParts DEF TrustStep
<1> QED BY <1>1, <1>2, TypeParts, WorkerKept

-----------------------------------------------------------------------------
(* Volume: the index, and the steps of a crash *)

\* A step that leaves the blobs, what is signed for them and who trusts them.
LEMMA TrustQuiet ==
    ASSUME VolumeInv, UNCHANGED <<object, receipt, remembered, torn>>,
           \A v \in Workers : worker'[v].pc \in {"read", "linked"} => worker'[v] = worker[v]
    PROVE  NothingIsAhead' /\ TrustIsTorn'
  BY DEF VolumeInv, NothingIsAhead, TrustIsTorn, Blob

\* A step of one worker, seen from the rows of the others.
LEMMA OneRow ==
    ASSUME VolumeInv, NEW w \in Workers, NEW r \in WorkerRow, Named(r), worker' = [worker EXCEPT ![w] = r]
    PROVE  /\ worker' \in [Workers -> WorkerRow] /\ \A v \in Workers : Named(worker'[v])
           /\ worker'[w] = r /\ \A v \in Workers \ {w} : worker'[v] = worker[v]
  BY TypeParts DEF VolumeInv, RowsAreNamed

LEMMA LoadStep == ASSUME VolumeInv, NEW w \in Workers, WorkerLoads(w) PROVE VolumeInv'
<1>1. PICK base \in {latest.held, {}} : worker' = [worker EXCEPT ![w].pc = "merging", ![w].base = base]
  BY DEF WorkerLoads, Loads
<1> DEFINE r == [worker[w] EXCEPT !.pc = "merging", !.base = base]
<1>2. worker' = [worker EXCEPT ![w] = r]
  BY <1>1, TypeParts
<1>3. worker[w] \in WorkerRow /\ worker[w].pc = "checked" /\ worker[w].man \in Profiles /\ latest.held \subseteq Profiles
  BY TypeParts DEF WorkerLoads, Loads, At, VolumeInv, RowsAreNamed, Named, PreparedTypeOK
<1>4. r \in WorkerRow /\ r.pc = "merging" /\ r.base = base /\ Named(r)
  BY <1>3 DEF WorkerRow, Pcs, Named
<1> HIDE DEF r
<1>5. /\ worker' \in [Workers -> WorkerRow] /\ \A v \in Workers : Named(worker'[v])
      /\ worker'[w] = r /\ \A v \in Workers \ {w} : worker'[v] = worker[v]
  BY <1>2, <1>4, OneRow
<1>6. /\ lock["mount"] = NoOne /\ lock' = [lock EXCEPT !["mount"] = w]
      /\ UNCHANGED <<object, latest, receipt, remembered, verified, leftover, thread, torn, accidents>>
  BY DEF WorkerLoads, Loads, Memory, History
<1>7. lock' \in [Sides -> Workers \cup Threads \cup {NoOne}] /\ lock'["mount"] = w /\ lock'["s3"] = lock["s3"]
  BY <1>6 DEF VolumeInv, PreparedTypeOK, Sides
<1>8. PreparedTypeOK'
  <2>1. PreparedTypeOK
    BY DEF VolumeInv
  <2> QED BY <1>5, <1>6, <1>7, <2>1 DEF PreparedTypeOK, WorkerRow, Pcs
<1>9. NothingIsAhead' /\ TrustIsTorn'
  BY <1>4, <1>5, <1>6, TrustQuiet
<1>10. MountIsLocked'
  <2>1. \A v \in Workers : worker[v].pc # "merging"
    BY <1>6, PreparedShape DEF VolumeInv, MountIsLocked, At
  <2> QED BY <1>4, <1>5, <1>6, <1>7, <2>1 DEF MountIsLocked, At
<1>11. GatewayIsLocked' /\ RowsAreNamed'
  BY <1>5, <1>6, <1>7 DEF VolumeInv, GatewayIsLocked, RowsAreNamed
<1> QED BY <1>8, <1>9, <1>10, <1>11 DEF VolumeInv

\* The index is written under the lock of the mount.
LEMMA MergeStep ==
    ASSUME VolumeInv, NEW w \in Workers, WorkerMerges(w)
    PROVE  /\ VolumeInv' /\ latest'.by = "mount"
           /\ latest.by = "mount" /\ worker[w].base # {} => latest.held \subseteq latest'.held
<1> DEFINE r == [worker[w] EXCEPT !.pc = "issuing"]
<1>1. worker[w] \in WorkerRow /\ worker[w].pc = "merging" /\ worker[w].man \in Profiles /\ worker[w].base \subseteq Profiles
  BY TypeParts DEF WorkerMerges, At, VolumeInv, RowsAreNamed, Named, WorkerRow
<1>2. worker' = [worker EXCEPT ![w] = r]
  BY TypeParts DEF WorkerMerges
<1>3. r \in WorkerRow /\ r.pc = "issuing" /\ Named(r)
  BY <1>1 DEF WorkerRow, Pcs, Named
<1> HIDE DEF r
<1>4. /\ worker' \in [Workers -> WorkerRow] /\ \A v \in Workers : Named(worker'[v])
      /\ worker'[w] = r /\ \A v \in Workers \ {w} : worker'[v] = worker[v]
  BY <1>2, <1>3, OneRow
<1>5. /\ latest' = [held |-> worker[w].base \cup {worker[w].man}, by |-> "mount"]
      /\ lock' = [lock EXCEPT !["mount"] = NoOne]
      /\ UNCHANGED <<object, receipt, remembered, verified, leftover, thread, torn, accidents>>
  BY DEF WorkerMerges, Memory, History
<1>6. /\ latest' \in [held : SUBSET Profiles, by : Sides] /\ latest'.by = "mount"
      /\ latest'.held = worker[w].base \cup {worker[w].man}
  BY <1>1, <1>5 DEF Sides
<1>7. lock' \in [Sides -> Workers \cup Threads \cup {NoOne}] /\ lock'["mount"] = NoOne /\ lock'["s3"] = lock["s3"]
  BY <1>5 DEF VolumeInv, PreparedTypeOK, Sides
<1>8. PreparedTypeOK'
  <2>1. PreparedTypeOK
    BY DEF VolumeInv
  <2> QED BY <1>4, <1>5, <1>6, <1>7, <2>1 DEF PreparedTypeOK, WorkerRow, Pcs
<1>9. NothingIsAhead' /\ TrustIsTorn'
  BY <1>3, <1>4, <1>5, TrustQuiet
<1>10. MountIsLocked'
  <2>1. \A v \in Workers \ {w} : worker[v].pc # "merging"
    BY <1>1 DEF VolumeInv, MountIsLocked, At
  <2> QED BY <1>3, <1>4, <2>1 DEF MountIsLocked, At
<1>11. GatewayIsLocked' /\ RowsAreNamed'
  BY <1>4, <1>5, <1>6, <1>7 DEF VolumeInv, GatewayIsLocked, RowsAreNamed
<1>12. latest.by = "mount" /\ worker[w].base # {} => latest.held \subseteq latest'.held
  BY <1>1, <1>6 DEF VolumeInv, MountIsLocked, At
<1> QED BY <1>6, <1>8, <1>9, <1>10, <1>11, <1>12 DEF VolumeInv

\* A process that dies forgets what it trusts and leaves its lock.
LEMMA CrashStep == ASSUME VolumeInv, NEW w \in Workers, WorkerCrashes(w) PROVE VolumeInv'
<1>1. /\ worker' = [worker EXCEPT ![w] = Resting] /\ Resting \in WorkerRow /\ Resting.pc = "idle" /\ Named(Resting)
      /\ UNCHANGED <<object, latest, receipt, thread, torn>>
  BY RestingRows DEF WorkerCrashes, Named
<1>2. /\ worker' \in [Workers -> WorkerRow] /\ \A v \in Workers : Named(worker'[v])
      /\ worker'[w] = Resting /\ \A v \in Workers \ {w} : worker'[v] = worker[v]
  BY <1>1, OneRow
<1>3. /\ verified' \in [Workers -> SUBSET Blobs] /\ leftover' \subseteq Workers
  BY TypeParts DEF WorkerCrashes, VolumeInv, PreparedTypeOK
<1>4. accidents' \in 0..MaxAccidents
  BY PreparedShape DEF WorkerCrashes, VolumeInv, PreparedTypeOK
<1>5. /\ remembered' \in [Workers -> [Blobs -> Generations]]
      /\ \A v \in Workers, d \in Blobs : remembered'[v][d] = remembered[v][d] \/ (v = w /\ remembered'[v][d] = 0)
  <2> DEFINE none == [d \in Blobs |-> 0]
  <2>1. remembered' = [remembered EXCEPT ![w] = none] /\ none \in [Blobs -> Generations] /\ \A d \in Blobs : none[d] = 0
    BY TypeParts DEF WorkerCrashes
  <2> HIDE DEF none
  <2> QED BY <2>1, TypeParts
<1>6. /\ lock' \in [Sides -> Workers \cup Threads \cup {NoOne}]
      /\ lock'["mount"] = lock["mount"] \/ lock["mount"] = w
      /\ lock'["s3"] = lock["s3"]
  <2> DEFINE next == IF lock["mount"] = w THEN NoOne ELSE lock["mount"]
  <2>1. lock' = [lock EXCEPT !["mount"] = next]
    BY DEF WorkerCrashes
  <2>2. lock \in [Sides -> Workers \cup Threads \cup {NoOne}]
    BY DEF VolumeInv, PreparedTypeOK
  <2>3. next \in Workers \cup Threads \cup {NoOne} /\ (next = lock["mount"] \/ lock["mount"] = w)
    BY <2>2 DEF Sides
  <2> HIDE DEF next
  <2> QED BY <2>1, <2>2, <2>3 DEF Sides
<1>7. PreparedTypeOK'
  <2>1. PreparedTypeOK
    BY DEF VolumeInv
  <2> QED BY <1>1, <1>2, <1>3, <1>4, <1>5, <1>6, <2>1 DEF PreparedTypeOK, WorkerRow, Pcs
<1>8. TrustStep(w)
  BY <1>1, <1>5, TypeParts DEF TrustStep
<1>9. RowStep(w)
  BY <1>1 DEF RowStep
<1>10. NothingIsAhead' /\ TrustIsTorn'
  BY <1>7, <1>8, <1>9, TrustKept
<1>11. MountIsLocked'
  BY <1>1, <1>2, <1>6 DEF VolumeInv, MountIsLocked, At
<1>12. GatewayIsLocked' /\ RowsAreNamed'
  BY <1>1, <1>2, <1>6 DEF VolumeInv, GatewayIsLocked, RowsAreNamed
<1> QED BY <1>7, <1>10, <1>11, <1>12 DEF VolumeInv

-----------------------------------------------------------------------------
(* Volume: the steps of the coordinator *)

\* A good blob is put where there was none or another one.
LEMMA S3UploadStep ==
    ASSUME VolumeInv, NEW c \in Threads, NEW d \in Blobs, Upload(c, d)
    PROVE  VolumeInv'
<1>1. Placed(d, "good") /\ UNCHANGED <<latest, lock, receipt, worker, remembered, verified, leftover, thread, torn, accidents>>
  BY DEF Upload, Memory, History
<1>2. /\ object' \in [Blobs -> [bytes : {"none", "good", "bad"}, gen : Generations]]
      /\ object'[d].bytes = "good" /\ object'[d].gen = object[d].gen + 1
      /\ \A k \in Blobs \ {d} : object'[k] = object[k]
  BY <1>1, PlacedGood
<1>3. PreparedTypeOK'
  <2>1. PreparedTypeOK
    BY DEF VolumeInv
  <2> QED BY <1>1, <1>2, <2>1 DEF PreparedTypeOK
<1>4. \A k \in Blobs : /\ object[k].gen \in Nat /\ receipt[k].gen \in Nat
                       /\ \A v \in Workers : remembered[v][k] \in Nat
  BY TypeParts
<1>5. NothingIsAhead'
  <2> SUFFICES ASSUME NEW k \in Blobs
               PROVE  /\ receipt[k].gen <= object'[k].gen
                      /\ object'[k].bytes = "bad" => object'[k].gen > 0
                      /\ \A v \in Workers : remembered[v][k] <= object'[k].gen
    BY <1>1 DEF NothingIsAhead
  <2>1. CASE k = d
    BY <1>2, <1>4, <2>1 DEF VolumeInv, NothingIsAhead
  <2>2. CASE k # d
    BY <1>2, <1>4, <2>2 DEF VolumeInv, NothingIsAhead
  <2> QED BY <2>1, <2>2
<1>6. TrustIsTorn'
  BY <1>1, <1>2 DEF VolumeInv, TrustIsTorn, Blob
<1>7. MountIsLocked' /\ GatewayIsLocked' /\ RowsAreNamed'
  BY <1>1 DEF VolumeInv, MountIsLocked, GatewayIsLocked, RowsAreNamed, At
<1> QED BY <1>3, <1>5, <1>6, <1>7 DEF VolumeInv

\* Bytes from outside have a generation of their own; who has read the blob
\* and not yet looked at its generation may take the new one for the old.
LEMMA ReplaceStep == ASSUME VolumeInv, NEW d \in Blobs, Replaced(d) PROVE VolumeInv'
<1>1. Placed(d, "bad") /\ UNCHANGED <<latest, lock, receipt, worker, remembered, verified, leftover, thread>>
  BY DEF Replaced, Memory
<1>2. /\ object' \in [Blobs -> [bytes : {"none", "good", "bad"}, gen : Generations]]
      /\ object'[d].bytes = "bad" /\ object'[d].gen = object[d].gen + 1
      /\ \A k \in Blobs \ {d} : object'[k] = object[k]
  BY <1>1, PlacedGood
<1>3. \A k \in Blobs : /\ object[k].gen \in Nat /\ object'[k].gen \in Generations /\ receipt[k].gen \in Nat
                       /\ \A v \in Workers : remembered[v][k] \in Nat
  BY <1>2, TypeParts
<1>4. /\ torn' \in {torn, torn \cup {<<d, object'[d].gen>>}}
      /\ (\E v \in Workers : worker[v].pc \in {"read", "linked"} /\ Blob(v) = d) => <<d, object'[d].gen>> \in torn'
  BY <1>2 DEF Replaced
<1>5. PreparedTypeOK'
  <2>1. PreparedTypeOK
    BY DEF VolumeInv
  <2>2. accidents' \in 0..MaxAccidents
    BY <2>1, PreparedShape DEF Replaced, PreparedTypeOK
  <2>3. torn' \subseteq Blobs \X Generations
    BY <1>3, <1>4, <2>1 DEF PreparedTypeOK
  <2> QED BY <1>1, <1>2, <2>1, <2>2, <2>3 DEF PreparedTypeOK
<1>6. NothingIsAhead'
  <2> SUFFICES ASSUME NEW k \in Blobs
               PROVE  /\ receipt[k].gen <= object'[k].gen
                      /\ object'[k].bytes = "bad" => object'[k].gen > 0
                      /\ \A v \in Workers : remembered[v][k] <= object'[k].gen
    BY <1>1 DEF NothingIsAhead
  <2>1. CASE k = d
    BY <1>2, <1>3, <2>1 DEF VolumeInv, NothingIsAhead
  <2>2. CASE k # d
    BY <1>2, <1>3, <2>2 DEF VolumeInv, NothingIsAhead
  <2> QED BY <2>1, <2>2
<1>7. TrustIsTorn'
  <2> SUFFICES ASSUME NEW k \in Blobs, object'[k].bytes = "bad", <<k, object'[k].gen>> \notin torn'
               PROVE  /\ receipt[k].gen # object'[k].gen
                      /\ \A v \in Workers : /\ remembered[v][k] # object'[k].gen
                                            /\ worker[v].pc \in {"read", "linked"} => Blob(v) # k
    BY <1>1 DEF TrustIsTorn, Blob
  <2>1. CASE k = d
    <3>1. /\ receipt[k].gen <= object[k].gen
          /\ \A v \in Workers : remembered[v][k] <= object[k].gen
      BY DEF VolumeInv, NothingIsAhead
    <3> QED BY <1>2, <1>3, <1>4, <2>1, <3>1
  <2>2. CASE k # d
    <3>1. <<k, object[k].gen>> \notin torn /\ object[k].bytes = "bad" /\ object'[k] = object[k]
      BY <1>2, <1>4, <2>2
    <3> QED BY <3>1 DEF VolumeInv, TrustIsTorn
  <2> QED BY <2>1, <2>2
<1>8. MountIsLocked' /\ GatewayIsLocked' /\ RowsAreNamed'
  BY <1>1 DEF VolumeInv, MountIsLocked, GatewayIsLocked, RowsAreNamed, At
<1> QED BY <1>5, <1>6, <1>7, <1>8 DEF VolumeInv

\* A step of the gateway that leaves the blobs and the workers alone.
LEMMA GatewayKept ==
    ASSUME VolumeInv, NEW c \in Threads, NEW r \in ThreadRow, r.pc # "idle" => r.man \in Profiles,
           thread' = [thread EXCEPT ![c] = r],
           UNCHANGED <<object, receipt, worker, remembered, verified, leftover, torn, accidents>>,
           latest' \in [held : SUBSET Profiles, by : Sides],
           latest' = latest \/ latest'.by = "s3",
           lock' \in [Sides -> Workers \cup Threads \cup {NoOne}], lock'["mount"] = lock["mount"]
    PROVE  /\ PreparedTypeOK' /\ RowsAreNamed' /\ NothingIsAhead' /\ TrustIsTorn' /\ MountIsLocked'
           /\ thread'[c] = r /\ \A b \in Threads \ {c} : thread'[b] = thread[b]
<1>1. /\ thread' \in [Threads -> ThreadRow] /\ thread'[c] = r
      /\ \A b \in Threads \ {c} : thread'[b] = thread[b]
  BY TypeParts
<1>2. PreparedTypeOK'
  <2>1. PreparedTypeOK
    BY DEF VolumeInv
  <2> QED BY <1>1, <2>1 DEF PreparedTypeOK, ThreadRow, ThreadPcs
<1>3. RowsAreNamed'
  BY <1>1 DEF VolumeInv, RowsAreNamed
<1>4. NothingIsAhead' /\ TrustIsTorn'
  BY TrustQuiet
<1>5. MountIsLocked'
  BY DEF VolumeInv, MountIsLocked, At
<1> QED BY <1>1, <1>2, <1>3, <1>4, <1>5

LEMMA S3PublishStep ==
    ASSUME VolumeInv, NEW c \in Threads, NEW m \in Profiles, S3Publish(c, m)
    PROVE  VolumeInv'
<1> DEFINE r == [Waiting EXCEPT !.pc = "checked", !.man = m]
<1>1. r \in ThreadRow /\ r.pc = "checked" /\ r.man = m
  BY DEF Waiting, ThreadRow, ThreadPcs
<1>2. /\ thread' = [thread EXCEPT ![c] = r]
      /\ UNCHANGED <<object, latest, lock, receipt, worker, remembered, verified, leftover, torn, accidents>>
  BY DEF S3Publish, Volume, Memory, History
<1>3. /\ latest' \in [held : SUBSET Profiles, by : Sides]
      /\ lock' \in [Sides -> Workers \cup Threads \cup {NoOne}] /\ lock'["mount"] = lock["mount"]
  BY <1>2 DEF VolumeInv, PreparedTypeOK
<1> HIDE DEF r
<1>4. /\ PreparedTypeOK' /\ RowsAreNamed' /\ NothingIsAhead' /\ TrustIsTorn' /\ MountIsLocked'
      /\ thread'[c] = r /\ \A b \in Threads \ {c} : thread'[b] = thread[b]
  BY <1>1, <1>2, <1>3, GatewayKept
<1>5. GatewayIsLocked'
  BY <1>1, <1>2, <1>4 DEF VolumeInv, GatewayIsLocked
<1> QED BY <1>4, <1>5 DEF VolumeInv

\* The index is read under the gateway's lock, which nobody else has.
LEMMA S3LoadStep ==
    ASSUME VolumeInv, NEW c \in Threads, NEW m \in Profiles, S3Loads(c, m)
    PROVE  VolumeInv'
<1> DEFINE adding == [thread[c] EXCEPT !.pc = "merging", !.base = latest.held]
           removing == [Waiting EXCEPT !.pc = "removing", !.man = m, !.base = latest.held]
<1>1. /\ thread[c] \in ThreadRow
      /\ thread[c].pc # "idle" => thread[c].man \in Profiles
      /\ latest.held \subseteq Profiles
  BY TypeParts DEF VolumeInv, RowsAreNamed, PreparedTypeOK
<1>2. adding \in ThreadRow /\ adding.pc = "merging" /\ adding.base = latest.held /\ adding.man = thread[c].man
  BY <1>1 DEF ThreadRow, ThreadPcs
<1>3. removing \in ThreadRow /\ removing.pc = "removing" /\ removing.base = latest.held /\ removing.man = m
  BY <1>1 DEF Waiting, ThreadRow, ThreadPcs
<1>4. PICK r : /\ (r = adding /\ thread[c].pc = "checked") \/ r = removing
               /\ thread' = [thread EXCEPT ![c] = r]
  <2>1. CASE thread[c].pc = "checked" /\ thread' = [thread EXCEPT ![c].pc = "merging", ![c].base = latest.held]
    <3>1. thread' = [thread EXCEPT ![c] = adding]
      BY <2>1, TypeParts
    <3> QED BY <2>1, <3>1
  <2>2. CASE thread' = [thread EXCEPT ![c] = removing]
    BY <2>2
  <2> QED BY <2>1, <2>2 DEF S3Loads
<1> HIDE DEF adding, removing
<1>5. r \in ThreadRow /\ r.pc \in {"merging", "removing"} /\ r.base = latest.held /\ r.man \in Profiles
  BY <1>1, <1>2, <1>3, <1>4
<1>6. /\ lock["s3"] = NoOne /\ lock' = [lock EXCEPT !["s3"] = c]
      /\ UNCHANGED <<object, latest, receipt, worker, remembered, verified, leftover, torn, accidents>>
  BY DEF S3Loads, Memory, History
<1>7. /\ latest' \in [held : SUBSET Profiles, by : Sides]
      /\ lock' \in [Sides -> Workers \cup Threads \cup {NoOne}] /\ lock'["mount"] = lock["mount"] /\ lock'["s3"] = c
  BY <1>6 DEF VolumeInv, PreparedTypeOK, Sides
<1>8. /\ PreparedTypeOK' /\ RowsAreNamed' /\ NothingIsAhead' /\ TrustIsTorn' /\ MountIsLocked'
      /\ thread'[c] = r /\ \A b \in Threads \ {c} : thread'[b] = thread[b]
  BY <1>4, <1>5, <1>6, <1>7, GatewayKept
<1>9. \A b \in Threads : thread[b].pc \notin {"merging", "removing", "deleting"}
  BY <1>6, PreparedShape DEF VolumeInv, GatewayIsLocked
<1>10. GatewayIsLocked'
  BY <1>5, <1>6, <1>7, <1>8, <1>9 DEF GatewayIsLocked
<1> QED BY <1>8, <1>10 DEF VolumeInv

\* The index that is written is the one that was read, with one entry more, ...
LEMMA S3MergeStep ==
    ASSUME VolumeInv, NEW c \in Threads, S3Merges(c)
    PROVE  /\ VolumeInv' /\ latest'.by = "s3"
           /\ latest.by = "s3" => latest.held \subseteq latest'.held
<1>1. thread[c] \in ThreadRow /\ thread[c].pc = "merging" /\ thread[c].man \in Profiles
  BY TypeParts DEF S3Merges, VolumeInv, RowsAreNamed
<1>2. /\ thread' = [thread EXCEPT ![c] = Waiting] /\ Waiting \in ThreadRow /\ Waiting.pc = "idle"
      /\ latest' = [held |-> thread[c].base \cup {thread[c].man}, by |-> "s3"]
      /\ lock' = [lock EXCEPT !["s3"] = NoOne]
      /\ UNCHANGED <<object, receipt, worker, remembered, verified, leftover, torn, accidents>>
  BY RestingRows DEF S3Merges, Memory, History
<1>3. /\ latest' \in [held : SUBSET Profiles, by : Sides] /\ latest'.by = "s3"
      /\ latest'.held = thread[c].base \cup {thread[c].man}
  BY <1>1, <1>2 DEF Sides, ThreadRow
<1>4. lock' \in [Sides -> Workers \cup Threads \cup {NoOne}] /\ lock'["mount"] = lock["mount"]
  BY <1>2 DEF VolumeInv, PreparedTypeOK, Sides
<1>5. /\ PreparedTypeOK' /\ RowsAreNamed' /\ NothingIsAhead' /\ TrustIsTorn' /\ MountIsLocked'
      /\ thread'[c] = Waiting /\ \A b \in Threads \ {c} : thread'[b] = thread[b]
  BY <1>2, <1>3, <1>4, GatewayKept
<1>6. \A b \in Threads \ {c} : thread[b].pc \notin {"merging", "removing", "deleting"}
  BY <1>1 DEF VolumeInv, GatewayIsLocked
<1>7. GatewayIsLocked'
  BY <1>2, <1>5, <1>6 DEF GatewayIsLocked
<1>8. latest.by = "s3" => latest.held \subseteq latest'.held
  BY <1>1, <1>3 DEF VolumeInv, GatewayIsLocked
<1> QED BY <1>3, <1>5, <1>7, <1>8 DEF VolumeInv

\* ... or one less; what is deleted then is what no other entry needs.
LEMMA S3UnlistStep ==
    ASSUME VolumeInv, NEW c \in Threads, S3Unlists(c)
    PROVE  /\ VolumeInv' /\ latest'.by = "s3"
           /\ latest.by = "s3" => latest.held \ latest'.held \subseteq {thread[c].man}
<1> DEFINE r == [thread[c] EXCEPT !.pc = "deleting", !.doomed = Unreferenced(c)]
<1>1. thread[c] \in ThreadRow /\ thread[c].pc = "removing" /\ thread[c].man \in Profiles
  BY TypeParts DEF S3Unlists, VolumeInv, RowsAreNamed
<1>2. Unreferenced(c) \subseteq Blobs
  BY <1>1, PreparedShape DEF Unreferenced
<1>3. /\ latest' = [held |-> thread[c].base \ {thread[c].man}, by |-> "s3"]
      /\ UNCHANGED <<object, lock, receipt, worker, remembered, verified, leftover, torn, accidents>>
  BY DEF S3Unlists, Memory, History
<1>4. thread' = [thread EXCEPT ![c] = r]
  <2> DEFINE doomed == Unreferenced(c)
  <2>1. thread' = [thread EXCEPT ![c].pc = "deleting", ![c].doomed = doomed]
    BY DEF S3Unlists
  <2> HIDE DEF doomed
  <2>2. thread' = [thread EXCEPT ![c] = [thread[c] EXCEPT !.pc = "deleting", !.doomed = doomed]]
    BY <2>1, TypeParts
  <2> QED BY <2>2 DEF doomed
<1>5. r \in ThreadRow /\ r.pc = "deleting" /\ r.man = thread[c].man /\ r.doomed = Unreferenced(c)
  <2> DEFINE doomed == Unreferenced(c)
  <2>1. doomed \in SUBSET Blobs
    BY <1>2
  <2> HIDE DEF doomed
  <2>2. /\ [thread[c] EXCEPT !.pc = "deleting", !.doomed = doomed] \in ThreadRow
        /\ [thread[c] EXCEPT !.pc = "deleting", !.doomed = doomed].pc = "deleting"
        /\ [thread[c] EXCEPT !.pc = "deleting", !.doomed = doomed].man = thread[c].man
        /\ [thread[c] EXCEPT !.pc = "deleting", !.doomed = doomed].doomed = doomed
    BY <1>1, <2>1 DEF ThreadRow, ThreadPcs
  <2> QED BY <2>2 DEF doomed
<1> HIDE DEF r
<1>6. /\ latest' \in [held : SUBSET Profiles, by : Sides] /\ latest'.by = "s3"
      /\ latest'.held = thread[c].base \ {thread[c].man}
  BY <1>1, <1>3 DEF Sides, ThreadRow
<1>7. lock' \in [Sides -> Workers \cup Threads \cup {NoOne}] /\ lock'["mount"] = lock["mount"]
  BY <1>3 DEF VolumeInv, PreparedTypeOK
<1>8. /\ PreparedTypeOK' /\ RowsAreNamed' /\ NothingIsAhead' /\ TrustIsTorn' /\ MountIsLocked'
      /\ thread'[c] = r /\ \A b \in Threads \ {c} : thread'[b] = thread[b]
  BY <1>1, <1>3, <1>4, <1>5, <1>6, <1>7, GatewayKept
<1>9. /\ lock["s3"] = c /\ \A b \in Threads \ {c} : thread[b].pc \notin {"merging", "removing", "deleting"}
  BY <1>1 DEF VolumeInv, GatewayIsLocked
<1>10. thread'[c].doomed \cap NeededBy(latest'.held) = {}
  BY <1>5, <1>6, <1>8 DEF Unreferenced
<1>11. GatewayIsLocked'
  BY <1>3, <1>5, <1>8, <1>9, <1>10 DEF GatewayIsLocked
<1>12. latest.by = "s3" => latest.held \ latest'.held \subseteq {thread[c].man}
  BY <1>1, <1>6 DEF VolumeInv, GatewayIsLocked
<1> QED BY <1>6, <1>8, <1>11, <1>12 DEF VolumeInv

\* While the index is the one that was written, no deleted blob is needed.
LEMMA S3DeleteStep ==
    ASSUME VolumeInv, NEW c \in Threads, NEW d \in Blobs, S3Deletes(c, d)
    PROVE  /\ VolumeInv'
           /\ d \notin NeededBy(latest.held) \/ latest.by = "mount"
<1> DEFINE r == [thread[c] EXCEPT !.doomed = thread[c].doomed \ {d}]
<1>1. thread[c] \in ThreadRow /\ thread[c].pc = "deleting" /\ thread[c].man \in Profiles /\ d \in thread[c].doomed
  BY TypeParts DEF S3Deletes, VolumeInv, RowsAreNamed
<1>2. thread' = [thread EXCEPT ![c] = r]
  BY TypeParts DEF S3Deletes
<1>3. r \in ThreadRow /\ r.pc = "deleting" /\ r.man \in Profiles /\ r.doomed \subseteq thread[c].doomed
  BY <1>1 DEF ThreadRow
<1> HIDE DEF r
<1>4. /\ object' = [object EXCEPT ![d].bytes = "none"]
      /\ UNCHANGED <<latest, lock, receipt, worker, remembered, verified, leftover, torn, accidents>>
  BY DEF S3Deletes, Removed, Memory, History
<1>5. /\ object' \in [Blobs -> [bytes : {"none", "good", "bad"}, gen : Generations]]
      /\ \A k \in Blobs : /\ object'[k].gen = object[k].gen
                          /\ object'[k].bytes = "bad" => object[k].bytes = "bad"
  BY <1>4, TypeParts
<1>6. /\ thread' \in [Threads -> ThreadRow] /\ thread'[c] = r
      /\ \A b \in Threads \ {c} : thread'[b] = thread[b]
  BY <1>2, <1>3, TypeParts
<1>7. PreparedTypeOK'
  <2>1. PreparedTypeOK
    BY DEF VolumeInv
  <2> QED BY <1>4, <1>5, <1>6, <2>1 DEF PreparedTypeOK, ThreadRow, ThreadPcs
<1>8. RowsAreNamed' /\ MountIsLocked'
  BY <1>3, <1>4, <1>6 DEF VolumeInv, RowsAreNamed, MountIsLocked, At
<1>9. NothingIsAhead' /\ TrustIsTorn'
  BY <1>4, <1>5 DEF VolumeInv, NothingIsAhead, TrustIsTorn, Blob
<1>10. GatewayIsLocked'
  BY <1>1, <1>3, <1>4, <1>6 DEF VolumeInv, GatewayIsLocked
<1>11. d \notin NeededBy(latest.held) \/ latest.by = "mount"
  <2>1. latest.by \in Sides
    BY DEF VolumeInv, PreparedTypeOK
  <2> QED BY <1>1, <2>1 DEF VolumeInv, GatewayIsLocked, Sides
<1> QED BY <1>7, <1>8, <1>9, <1>10, <1>11 DEF VolumeInv

LEMMA S3EndStep == ASSUME VolumeInv, NEW c \in Threads, S3Ends(c) PROVE VolumeInv'
<1> DEFINE next == IF lock["s3"] = c THEN NoOne ELSE lock["s3"]
<1>1. /\ thread' = [thread EXCEPT ![c] = Waiting] /\ Waiting \in ThreadRow /\ Waiting.pc = "idle"
      /\ lock' = [lock EXCEPT !["s3"] = next]
      /\ UNCHANGED <<object, latest, receipt, worker, remembered, verified, leftover, torn, accidents>>
  BY RestingRows DEF S3Ends, Memory, History
<1>2. lock \in [Sides -> Workers \cup Threads \cup {NoOne}] /\ latest \in [held : SUBSET Profiles, by : Sides]
  BY DEF VolumeInv, PreparedTypeOK
<1>3. next \in Workers \cup Threads \cup {NoOne} /\ (next = lock["s3"] \/ lock["s3"] = c)
  BY <1>2 DEF Sides
<1> HIDE DEF next
<1>4. /\ lock' \in [Sides -> Workers \cup Threads \cup {NoOne}]
      /\ lock'["mount"] = lock["mount"]
      /\ lock'["s3"] = lock["s3"] \/ lock["s3"] = c
  BY <1>1, <1>2, <1>3 DEF Sides
<1>5. /\ PreparedTypeOK' /\ RowsAreNamed' /\ NothingIsAhead' /\ TrustIsTorn' /\ MountIsLocked'
      /\ thread'[c] = Waiting /\ \A b \in Threads \ {c} : thread'[b] = thread[b]
  BY <1>1, <1>2, <1>4, GatewayKept
<1>6. GatewayIsLocked'
  BY <1>1, <1>4, <1>5 DEF VolumeInv, GatewayIsLocked
<1> QED BY <1>5, <1>6 DEF VolumeInv

-----------------------------------------------------------------------------
(* Volume: the theorems *)

LEMMA VolumeStarts == PreparedInit => VolumeInv
<1> SUFFICES ASSUME PreparedInit PROVE VolumeInv
  OBVIOUS
<1> USE DEF PreparedInit
<1>1. 0 \in Generations /\ 0 \in 0..MaxAccidents
  BY PreparedShape DEF Generations
<1>2. /\ worker \in [Workers -> WorkerRow] /\ thread \in [Threads -> ThreadRow]
      /\ \A w \in Workers : worker[w].pc = "idle"
      /\ \A c \in Threads : thread[c].pc = "idle"
  BY RestingRows
<1>3. PreparedTypeOK
  BY <1>1, <1>2 DEF PreparedTypeOK, WorkerRow, Pcs, ThreadRow, ThreadPcs, NoReceipt, Sides
<1>4. RowsAreNamed /\ MountIsLocked /\ GatewayIsLocked
  BY <1>2 DEF RowsAreNamed, Named, MountIsLocked, GatewayIsLocked, At
<1>5. NothingIsAhead /\ TrustIsTorn
  BY <1>1 DEF NothingIsAhead, TrustIsTorn, NoReceipt
<1> QED BY <1>3, <1>4, <1>5 DEF VolumeInv

LEMMA VolumeSteps == ASSUME VolumeInv, [PreparedNext]_preparedVars PROVE VolumeInv'
<1>1. ASSUME NEW w \in Workers,
             \/ Remember(w) \/ IssuesReceipt(w) \/ Quarantine(w) \/ Linked(w) \/ Committed(w)
             \/ WorkerLoads(w) \/ WorkerMerges(w) \/ IssuesReceipts(w) \/ BeginJob(w) \/ WorkerCrashes(w)
      PROVE  VolumeInv'
  BY <1>1, RememberStep, IssueStep, QuarantineStep, LinkStep, CommitStep, LoadStep, MergeStep, ReceiptsStep,
     BeginStep, CrashStep
<1>2. ASSUME NEW w \in Workers, NEW d \in Blobs, Populate(w, d) PROVE VolumeInv'
  BY <1>2, PopulateStep
<1>3. ASSUME NEW w \in Workers, NEW d \in Blobs, NEW m \in Profiles, Restore(w, d, m) PROVE VolumeInv'
  BY <1>3, RestoreStep
<1>4. ASSUME NEW w \in Workers, NEW m \in Profiles, Publish(w, m) PROVE VolumeInv'
  BY <1>4, PublishStep
<1>5. ASSUME NEW c \in Threads, S3Merges(c) \/ S3Unlists(c) \/ S3Ends(c) PROVE VolumeInv'
  BY <1>5, S3MergeStep, S3UnlistStep, S3EndStep
<1>6. ASSUME NEW c \in Threads, NEW d \in Blobs, Upload(c, d) \/ S3Deletes(c, d) PROVE VolumeInv'
  BY <1>6, S3UploadStep, S3DeleteStep
<1>7. ASSUME NEW c \in Threads, NEW m \in Profiles, S3Publish(c, m) \/ S3Loads(c, m) PROVE VolumeInv'
  BY <1>7, S3PublishStep, S3LoadStep
<1>8. ASSUME NEW d \in Blobs, Replaced(d) PROVE VolumeInv'
  BY <1>8, ReplaceStep
<1>9. CASE UNCHANGED preparedVars
  BY <1>9 DEF preparedVars, VolumeInv, PreparedTypeOK, RowsAreNamed, NothingIsAhead, TrustIsTorn,
              MountIsLocked, GatewayIsLocked, At, Blob
<1> QED BY <1>1, <1>2, <1>3, <1>4, <1>5, <1>6, <1>7, <1>8, <1>9 DEF PreparedNext

\* Whoever writes the index holds its side's lock, and nobody trusts a blob
\* that was replaced before its generation was looked at.
THEOREM VolumeInvariant == PreparedSpec => []VolumeInv
<1>1. VolumeInv /\ [PreparedNext]_preparedVars => VolumeInv'
  BY VolumeSteps
<1> QED BY <1>1, VolumeStarts, PTL DEF PreparedSpec

\* A trust receipt that still matches the blob at its key is for bytes that
\* were read whole, but for the one gap between the read and the look.
THEOREM ReceiptsAreEarned == PreparedSpec => []TrustedGenerationWasReadWhole
<1>1. VolumeInv => TrustedGenerationWasReadWhole
  BY DEF VolumeInv, TrustIsTorn, TrustedGenerationWasReadWhole
<1> QED BY <1>1, VolumeInvariant, PTL

\* The three steps that write an index.
LEMMA IndexWrites ==
    ASSUME [PreparedNext]_preparedVars
    PROVE  \/ latest' = latest
           \/ \E w \in Workers : WorkerMerges(w)
           \/ \E c \in Threads : S3Merges(c) \/ S3Unlists(c)
<1>1. ASSUME NEW w \in Workers,
             \/ Remember(w) \/ IssuesReceipt(w) \/ Quarantine(w) \/ Linked(w) \/ Committed(w)
             \/ WorkerLoads(w) \/ IssuesReceipts(w) \/ BeginJob(w) \/ WorkerCrashes(w)
      PROVE  latest' = latest
  BY <1>1 DEF Remember, IssuesReceipt, Quarantine, Linked, Committed, WorkerLoads, IssuesReceipts, BeginJob,
              WorkerCrashes, Volume
<1>2. ASSUME NEW w \in Workers, NEW d \in Blobs, Populate(w, d) PROVE latest' = latest
  BY <1>2 DEF Populate, Volume
<1>3. ASSUME NEW w \in Workers, NEW d \in Blobs, NEW m \in Profiles, Restore(w, d, m) PROVE latest' = latest
  BY <1>3 DEF Restore, Volume
<1>4. ASSUME NEW w \in Workers, NEW m \in Profiles, Publish(w, m) PROVE latest' = latest
  BY <1>4 DEF Publish, Volume
<1>5. ASSUME NEW c \in Threads, S3Ends(c) PROVE latest' = latest
  BY <1>5 DEF S3Ends
<1>6. ASSUME NEW c \in Threads, NEW d \in Blobs, Upload(c, d) \/ S3Deletes(c, d) PROVE latest' = latest
  BY <1>6 DEF Upload, S3Deletes
<1>7. ASSUME NEW c \in Threads, NEW m \in Profiles, S3Publish(c, m) \/ S3Loads(c, m) PROVE latest' = latest
  BY <1>7 DEF S3Publish, S3Loads, Volume
<1>8. ASSUME NEW d \in Blobs, Replaced(d) PROVE latest' = latest
  BY <1>8 DEF Replaced
<1>9. CASE UNCHANGED preparedVars
  BY <1>9 DEF preparedVars
<1> QED BY <1>1, <1>2, <1>3, <1>4, <1>5, <1>6, <1>7, <1>8, <1>9 DEF PreparedNext

\* A publication is lost only to the coordinator's removal, to a writer of the
\* other side, or to a worker that could not read the index.
THEOREM NoPublicationIsLost == PreparedSpec => PublicationsKept
<1> DEFINE Kept ==
      \A m \in latest.held \ latest'.held :
          \/ latest.by # latest'.by
          \/ \E c \in Threads : S3Unlists(c) /\ thread[c].man = m
          \/ \E w \in Workers : WorkerMerges(w) /\ worker[w].base = {}
<1>1. ASSUME VolumeInv, [PreparedNext]_preparedVars PROVE Kept
  <2> SUFFICES ASSUME NEW m \in latest.held, m \notin latest'.held, latest.by = latest'.by
               PROVE  \/ \E c \in Threads : S3Unlists(c) /\ thread[c].man = m
                      \/ \E w \in Workers : WorkerMerges(w) /\ worker[w].base = {}
    OBVIOUS
  <2>1. ASSUME NEW w \in Workers, WorkerMerges(w) PROVE worker[w].base = {}
    BY <1>1, <2>1, MergeStep
  <2>2. ASSUME NEW c \in Threads, S3Merges(c) PROVE FALSE
    BY <1>1, <2>2, S3MergeStep
  <2>3. ASSUME NEW c \in Threads, S3Unlists(c) PROVE thread[c].man = m
    BY <1>1, <2>3, S3UnlistStep
  <2>4. \/ \E w \in Workers : WorkerMerges(w)
        \/ \E c \in Threads : S3Merges(c) \/ S3Unlists(c)
    BY <1>1, IndexWrites
  <2> QED BY <2>1, <2>2, <2>3, <2>4
<1>2. VolumeInv /\ [PreparedNext]_preparedVars => [Kept]_preparedVars
  BY <1>1
<1>3. PreparedSpec => [][Kept]_preparedVars
  BY <1>2, VolumeInvariant, PTL DEF PreparedSpec
<1> QED BY <1>3 DEF PublicationsKept

\* The removal of a manifest deletes no blob that the index still needs,
\* unless a worker has written the index since.
THEOREM RemovalSparesWhatIsListed == PreparedSpec => ExpiryKeepsSharedObjects
<1> DEFINE Spared ==
      \A c \in Threads, d \in Blobs : S3Deletes(c, d) => d \notin NeededBy(latest.held) \/ latest.by = "mount"
<1>1. VolumeInv /\ [PreparedNext]_preparedVars => [Spared]_preparedVars
  BY S3DeleteStep
<1>2. PreparedSpec => [][Spared]_preparedVars
  BY <1>1, VolumeInvariant, PTL DEF PreparedSpec
<1> QED BY <1>2 DEF ExpiryKeepsSharedObjects

-----------------------------------------------------------------------------
(* Upload: parts *)

\* Every set of parts is finite, and one that is not empty has a first part.
LEMMA PartSets ==
    ASSUME NEW S \in SUBSET Parts
    PROVE  /\ IsFiniteSet(S) /\ Cardinality(S) \in Nat
           /\ Cardinality(S) = 0 <=> S = {}
           /\ S # {} => \E p \in S : \A q \in S : p <= q
<1>1. IsFiniteSet(Parts)
  BY UploadShape, FS_Interval DEF Parts
<1>2. IsFiniteSet(S)
  BY <1>1, FS_Subset
<1>3. Cardinality(S) \in Nat /\ (Cardinality(S) = 0 <=> S = {})
  BY <1>2, FS_CardinalityType, FS_EmptySet
<1>4. ASSUME S # {} PROVE \E p \in S : \A q \in S : p <= q
  <2>1. S \subseteq Nat
    BY UploadShape DEF Parts
  <2>2. PICK p \in S : \A q \in S : ~(<<q, p>> \in OpToRel(<, Nat))
    BY <1>4, <2>1, NatLessThanWellFounded, WFMin
  <2>3. ASSUME NEW q \in S PROVE p <= q
    <3>1. ~(q < p)
      BY <2>1, <2>2, <2>3 DEF OpToRel
    <3> QED BY <2>1, <3>1
  <2> QED BY <2>3
<1> QED BY <1>2, <1>3, <1>4

\* The part that is submitted next is one that is pending.
LEMMA NextPart == ASSUME NEW S \in SUBSET Parts, S # {} PROVE Min(S) \in S
<1>1. \E p \in S : \A q \in S : p <= q
  BY PartSets
<1> QED BY <1>1 DEF Min

\* A part that was stored makes room for a pending one, unless the upload is
\* being given up.
LEMMA RefillsSome ==
    ASSUME todo \in SUBSET Parts, todo # {}, ~cancel, NEW n \in Nat, n > 0
    PROVE  Refills(n) # {}
<1>1. PICK p \in todo : \A q \in todo : p <= q
  BY PartSets
<1>2. {q \in todo : q < p} = {}
  <2>1. todo \subseteq Int
    BY UploadShape DEF Parts
  <2>2. ASSUME NEW q \in todo PROVE ~(q < p)
    BY <1>1, <2>1
  <2> QED BY <2>2
<1>3. Cardinality({q \in todo : q < p}) = 0
  BY <1>2, FS_EmptySet
<1> QED BY <1>1, <1>3 DEF Refills

-----------------------------------------------------------------------------
(* Upload: the inductive invariant *)

Submitting == main \in {"window", "running"}

\* Where each part is while an upload is under way; one whose thread saw the
\* flag is given up.
Accounted ==
    Submitting =>
        /\ cancel \/ Parts = todo \cup completed \cup InFlight
        /\ \A p \in todo : task[p] = "none" /\ p \notin completed
        /\ \A p \in completed : task[p] = "none"

\* What the caller has, and what a thread reports, is whole at the provider.
ReportedIsWhole ==
    Submitting =>
        /\ \A p \in completed : stored[p] = "whole"
        /\ \A p \in Parts : task[p] = "stored" => stored[p] = "whole"

\* The flag is up only while the error that raised it is still in the window.
FlagHasCause ==
    Submitting =>
        /\ cancel => \E p \in Parts : task[p] = "error"
        /\ (\E p \in Parts : task[p] = "cancelled") => cancel

\* A window that is empty leaves no pending part behind.
WindowMoves == main = "running" /\ todo # {} /\ ~cancel => InFlight # {}

UploadInv ==
    /\ UploadTypeOK
    /\ Accounted /\ ReportedIsWhole /\ FlagHasCause /\ WindowMoves
    /\ main = "completing" => InFlight = {}
    /\ MergesWholeParts /\ OwnErrorPropagates

\* Nothing is under way at the start.
LEMMA UploadStart == UploadInit => UploadInv
<1> SUFFICES ASSUME UploadInit PROVE UploadInv
  OBVIOUS
<1>1. UploadTypeOK
  <2>1. uploads \in 0..MaxUploads
    BY UploadShape DEF UploadInit
  <2>2. stored \in [Parts -> {"none", "short", "whole"}] /\ task \in [Parts -> {"none"}]
    BY DEF UploadInit, NoTasks
  <2>3. task \in [Parts -> {"none", "initial", "refill", "sent"} \cup Done]
    BY <2>2
  <2> QED BY <2>1, <2>2, <2>3 DEF UploadInit, UploadTypeOK
<1>2. main = "idle"
  BY DEF UploadInit
<1> QED BY <1>1, <1>2 DEF UploadInv, Accounted, ReportedIsWhole, FlagHasCause, WindowMoves, Submitting,
                          MergesWholeParts, OwnErrorPropagates

-----------------------------------------------------------------------------
(* Upload: the caller's steps *)

\* A new upload begins with every part either pending or found whole.
LEMMA BeginPreserves == ASSUME UploadInv, BeginUpload PROVE UploadInv'
<1>1. UploadTypeOK'
  <2>1. completed' \in SUBSET Parts /\ todo' \in SUBSET Parts
    BY DEF BeginUpload, Resumable
  <2>2. stored' \in [Parts -> {"none", "short", "whole"}]
    BY DEF BeginUpload, UploadInv, UploadTypeOK
  <2>3. uploads' \in 0..MaxUploads
    BY UploadShape DEF BeginUpload, UploadInv, UploadTypeOK
  <2> QED BY <2>1, <2>2, <2>3 DEF BeginUpload, UploadInv, UploadTypeOK, NoTasks
<1>2. main' = "window" /\ ~cancel' /\ task' = NoTasks /\ todo' = Parts \ completed'
  BY DEF BeginUpload
<1>3. Accounted'
  <2>1. completed' \subseteq Parts
    BY <1>1 DEF UploadTypeOK
  <2> QED BY <1>2, <2>1 DEF Accounted, NoTasks, InFlight
<1>4. ReportedIsWhole'
  <2>1. \A p \in completed' : stored'[p] = "whole"
    BY DEF BeginUpload, Resumable
  <2> QED BY <1>2, <2>1 DEF ReportedIsWhole, NoTasks
<1>5. FlagHasCause'
  BY <1>2 DEF FlagHasCause, NoTasks
<1> QED BY <1>1, <1>2, <1>3, <1>4, <1>5 DEF UploadInv, WindowMoves, MergesWholeParts, OwnErrorPropagates

\* The first window is filled with pending parts, and is not left empty.
LEMMA SubmitPreserves == ASSUME UploadInv, SubmitInitial PROVE UploadInv'
<1> USE DEF UploadInv
<1>1. todo \in SUBSET Parts /\ task \in [Parts -> {"none", "initial", "refill", "sent"} \cup Done]
  BY DEF UploadTypeOK
<1>2. CASE Cardinality(InFlight) < Window /\ todo # {} /\ ~cancel
  <2> DEFINE n == Min(todo)
  <2>1. n \in todo /\ n \in Parts
    BY <1>1, <1>2, NextPart
  <2>2. task' = [task EXCEPT ![n] = "initial"] /\ todo' = todo \ {n} /\ UNCHANGED <<Provider, completed, cancel, uploads, main>>
    BY <1>2 DEF SubmitInitial
  <2>3. main' = "window" /\ Submitting
    BY <2>2 DEF SubmitInitial, Submitting
  <2> HIDE DEF n
  <2>4. UploadTypeOK'
    BY <1>1, <2>1, <2>2 DEF UploadTypeOK, Provider
  <2>5. InFlight' = InFlight \cup {n}
    BY <1>1, <2>1, <2>2 DEF InFlight
  <2>6. Accounted'
    BY <1>1, <2>1, <2>2, <2>3, <2>5 DEF Accounted
  <2>7. ReportedIsWhole'
    BY <1>1, <2>1, <2>2, <2>3 DEF ReportedIsWhole, Provider
  <2>8. FlagHasCause'
    BY <1>1, <1>2, <2>1, <2>2, <2>3 DEF FlagHasCause
  <2> QED BY <2>3, <2>4, <2>6, <2>7, <2>8 DEF WindowMoves, MergesWholeParts, OwnErrorPropagates
<1>3. CASE ~(Cardinality(InFlight) < Window /\ todo # {} /\ ~cancel)
  <2>1. main' = "running" /\ Submitting /\ UNCHANGED <<Provider, completed, cancel, uploads, task, todo>>
    BY <1>3 DEF SubmitInitial, Submitting
  <2>2. WindowMoves'
    <3>1. ASSUME InFlight = {} PROVE Cardinality(InFlight) < Window
      BY <3>1, UploadShape, FS_EmptySet
    <3>2. InFlight' = InFlight
      BY <2>1 DEF InFlight
    <3> QED BY <1>3, <2>1, <3>1, <3>2 DEF WindowMoves
  <2>3. UploadTypeOK'
    BY <2>1 DEF UploadTypeOK, Provider
  <2>4. Accounted' /\ ReportedIsWhole' /\ FlagHasCause'
    BY <2>1 DEF Accounted, ReportedIsWhole, FlagHasCause, Submitting, Provider, InFlight
  <2> QED BY <2>1, <2>2, <2>3, <2>4 DEF MergesWholeParts, OwnErrorPropagates
<1> QED BY <1>2, <1>3

\* What Drain does to the window: the futures of D leave it, refills enter.
DrainStep(D) ==
    LET results == {p \in D : task[p] = "stored"}
        refills == IF Verdict(D) = "running" THEN Refills(Cardinality(results)) ELSE {}
    IN
    /\ main' = Verdict(D)
    /\ completed' = IF Verdict(D) = "running" THEN completed \cup results ELSE completed
    /\ todo' = todo \ refills
    /\ task' = [p \in Parts |-> IF p \in refills THEN "refill" ELSE IF p \in D THEN "none" ELSE task[p]]
    /\ cancel' = (cancel \/ Verdict(D) # "running")
    /\ UNCHANGED <<Provider, uploads>>

\* Taking the futures that are done out of the window loses no part and ends,
\* if at all, with the error of a part.
LEMMA DrainPreserves == ASSUME UploadInv, Drain PROVE UploadInv'
<1> USE DEF UploadInv
<1>1. PICK D \in (SUBSET {p \in Parts : task[p] \in Done}) \ {{}} : DrainStep(D)
  BY DEF Drain, DrainStep
<1> DEFINE results == {p \in D : task[p] = "stored"}
           refills == IF Verdict(D) = "running" THEN Refills(Cardinality(results)) ELSE {}
<1>2. /\ main' = Verdict(D)
      /\ completed' = IF Verdict(D) = "running" THEN completed \cup results ELSE completed
      /\ todo' = todo \ refills
      /\ task' = [p \in Parts |-> IF p \in refills THEN "refill" ELSE IF p \in D THEN "none" ELSE task[p]]
      /\ cancel' = (cancel \/ Verdict(D) # "running")
      /\ UNCHANGED <<Provider, uploads>>
  BY <1>1 DEF DrainStep
<1>3. D \subseteq Parts /\ D # {} /\ D \subseteq InFlight /\ main = "running" /\ Submitting
  <2>1. D # {} /\ \A p \in D : p \in Parts /\ task[p] \in Done
    OBVIOUS
  <2>2. D \subseteq InFlight
    BY <2>1 DEF InFlight, Done
  <2>3. main = "running"
    BY DEF Drain
  <2> QED BY <2>1, <2>2, <2>3 DEF Submitting
<1>4. results \subseteq D /\ refills \subseteq todo
  BY DEF Refills
<1>5. Verdict(D) # "raising cancelled"
  <2> SUFFICES ASSUME InFlight = D, \E p \in D : task[p] = "cancelled", ~(\E p \in D : task[p] = "error")
               PROVE  FALSE
    BY DEF Verdict
  <2>1. cancel
    BY <1>3 DEF FlagHasCause
  <2>2. PICK p \in Parts : task[p] = "error"
    BY <2>1, <1>3 DEF FlagHasCause
  <2>3. p \in InFlight
    BY <2>2 DEF InFlight
  <2> QED BY <2>2, <2>3
<1>6. Verdict(D) \in {"raising error", "running"}
  BY <1>5 DEF Verdict
<1> HIDE DEF results, refills
<1>7. UploadTypeOK'
  <2>1. task' \in [Parts -> {"none", "initial", "refill", "sent"} \cup Done]
    BY <1>2 DEF UploadTypeOK
  <2>2. completed' \subseteq Parts /\ todo' \subseteq Parts /\ cancel' \in BOOLEAN
    BY <1>2, <1>3, <1>4 DEF UploadTypeOK
  <2> QED BY <1>2, <1>6, <2>1, <2>2 DEF UploadTypeOK, Provider
<1>8. CASE Verdict(D) = "raising error"
  BY <1>2, <1>7, <1>8 DEF Accounted, ReportedIsWhole, FlagHasCause, WindowMoves, Submitting,
                          MergesWholeParts, OwnErrorPropagates
<1>9. CASE Verdict(D) = "running"
  <2>1. completed' = completed \cup results /\ main' = "running" /\ cancel' = cancel
    BY <1>2, <1>9 DEF UploadTypeOK
  <2>2. \A p \in D : task[p] # "error"
    BY <1>9 DEF Verdict
  <2>3. \A p \in Parts : task'[p] = IF p \in refills THEN "refill" ELSE IF p \in D THEN "none" ELSE task[p]
    BY <1>2
  <2>4. \A p \in D : p \notin results => task[p] = "cancelled"
    BY <2>2 DEF results, Done
  <2>5. D \cap todo = {}
    BY <1>3 DEF Accounted, InFlight
  <2>6. (\E p \in D : p \notin results) => cancel
    BY <1>3, <2>4 DEF FlagHasCause
  <2>7. \A p \in refills : p \in Parts /\ task[p] = "none" /\ p \notin completed
    BY <1>3, <1>4 DEF Accounted, UploadTypeOK
  <2>8. Accounted'
    <3>1. ASSUME ~cancel, NEW p \in Parts PROVE p \in todo' \cup completed' \cup InFlight'
      <4>1. CASE p \in refills
        BY <2>3, <4>1 DEF InFlight
      <4>2. CASE p \in todo \ refills
        BY <1>2, <4>2
      <4>3. CASE p \in completed \cup results
        BY <2>1, <4>3
      <4>4. CASE p \notin todo \cup completed \cup results
        <5>1. p \in InFlight /\ p \notin refills /\ p \notin D
          BY <1>3, <1>4, <2>6, <3>1, <4>4 DEF Accounted
        <5> QED BY <2>3, <5>1 DEF InFlight
      <4> QED BY <4>1, <4>2, <4>3, <4>4
    <3>2. ~cancel => Parts = todo' \cup completed' \cup InFlight'
      BY <1>7, <3>1 DEF UploadTypeOK, InFlight
    <3>3. \A p \in todo' : task'[p] = "none" /\ p \notin completed'
      BY <1>2, <1>3, <1>4, <2>1, <2>3, <2>5 DEF Accounted, UploadTypeOK
    <3>4. \A p \in completed' : task'[p] = "none"
      BY <1>3, <1>4, <2>1, <2>3, <2>5, <2>7 DEF Accounted, UploadTypeOK
    <3> QED BY <2>1, <3>2, <3>3, <3>4 DEF Accounted
  <2>9. ReportedIsWhole'
    <3>1. \A p \in results : p \in Parts /\ stored[p] = "whole"
      BY <1>3 DEF results, ReportedIsWhole
    <3>2. \A p \in Parts : task'[p] = "stored" => task[p] = "stored"
      BY <2>3
    <3> QED BY <1>2, <1>3, <2>1, <3>1, <3>2 DEF ReportedIsWhole, Provider
  <2>10. FlagHasCause'
    <3>1. ASSUME cancel PROVE \E p \in Parts : task'[p] = "error"
      <4>1. PICK p \in Parts : task[p] = "error"
        BY <1>3, <3>1 DEF FlagHasCause
      <4>2. p \notin D /\ p \notin refills
        BY <2>2, <2>7, <4>1
      <4> QED BY <2>3, <4>1, <4>2
    <3>2. \A p \in Parts : task'[p] = "cancelled" => task[p] = "cancelled"
      BY <2>3
    <3> QED BY <1>3, <2>1, <3>1, <3>2 DEF FlagHasCause
  <2>11. WindowMoves'
    <3> SUFFICES ASSUME todo' # {}, ~cancel PROVE InFlight' # {}
      BY <2>1 DEF WindowMoves
    <3>1. results = D
      BY <1>4, <2>6
    <3>2. Cardinality(results) \in Nat /\ Cardinality(results) > 0
      BY <1>3, <3>1, PartSets
    <3>3. todo \in SUBSET Parts /\ todo # {}
      BY <1>2 DEF UploadTypeOK
    <3>4. refills # {}
      BY <1>9, <3>2, <3>3, RefillsSome DEF refills
    <3> QED BY <2>3, <2>7, <3>4 DEF InFlight
  <2> QED BY <1>7, <2>1, <2>8, <2>9, <2>10, <2>11 DEF MergesWholeParts, OwnErrorPropagates
<1> QED BY <1>6, <1>8, <1>9

\* The merge is asked for when nothing is in flight, and then no part is
\* missing: an upload that was given up still has its error in the window.
LEMMA AllDonePreserves == ASSUME UploadInv, AllDone PROVE UploadInv'
<1> USE DEF UploadInv
<1>1. Submitting /\ main = "running" /\ InFlight = {} /\ main' = "completing"
      /\ UNCHANGED <<Provider, todo, task, completed, cancel, uploads>>
  BY DEF AllDone, Submitting
<1>2. ~cancel
  BY <1>1 DEF FlagHasCause, InFlight
<1>3. todo = {}
  BY <1>1, <1>2 DEF WindowMoves
<1>4. completed = Parts
  BY <1>1, <1>2, <1>3 DEF Accounted
<1>5. \A p \in Parts : stored[p] = "whole"
  BY <1>1, <1>4 DEF ReportedIsWhole
<1>6. UploadTypeOK' /\ ~Submitting' /\ InFlight' = {}
  BY <1>1 DEF UploadTypeOK, Submitting, Provider, InFlight
<1>7. MergesWholeParts'
  BY <1>1, <1>4, <1>5 DEF MergesWholeParts, Provider
<1> QED BY <1>1, <1>6, <1>7 DEF Accounted, ReportedIsWhole, FlagHasCause, WindowMoves, OwnErrorPropagates

\* An upload that has ended leaves nothing that the invariant speaks of.
LEMMA EndPreserves == ASSUME UploadInv, Raise \/ Complete \/ Recover \/ UploaderDies PROVE UploadInv'
<1>1. main' \in {"idle", "polling"}
  BY DEF Raise, Complete, Recover, UploaderDies
<1>2. UploadTypeOK'
  <2>1. CASE Raise
    BY <2>1 DEF Raise, UploadInv, UploadTypeOK, NoTasks, Provider
  <2>2. CASE Complete
    BY <2>2 DEF Complete, UploadInv, UploadTypeOK
  <2>3. CASE Recover
    BY <2>3 DEF Recover, UploadInv, UploadTypeOK, Provider
  <2>4. CASE UploaderDies
    BY <2>4 DEF UploaderDies, UploadInv, UploadTypeOK, NoTasks, Provider
  <2> QED BY <2>1, <2>2, <2>3, <2>4
<1> QED BY <1>1, <1>2 DEF UploadInv, Accounted, ReportedIsWhole, FlagHasCause, WindowMoves, Submitting,
                          MergesWholeParts, OwnErrorPropagates

\* The provider may finish a merge late without the caller.
LEMMA LateMergePreserves == ASSUME UploadInv, LateMerge PROVE UploadInv'
  BY DEF LateMerge, UploadInv, UploadTypeOK, Accounted, ReportedIsWhole, FlagHasCause, WindowMoves, Submitting,
         InFlight, MergesWholeParts, OwnErrorPropagates

-----------------------------------------------------------------------------
(* Upload: the threads' steps *)

ThreadStep(p) == SendPart(p) \/ PartArrives(p) \/ PartStored(p) \/ PartFails(p)

\* A thread moves its own future, raises the flag with its error, and reports a
\* part stored when it is whole.
LEMMA ThreadPreserves == ASSUME UploadInv, NEW p \in Parts, ThreadStep(p) PROVE UploadInv'
<1> USE DEF UploadInv
<1>1. UNCHANGED <<main, todo, completed, uploads, session, merging, whole>>
  BY DEF ThreadStep, SendPart, PartArrives, PartStored, PartFails, Provider
<1>2. /\ task[p] \in {"initial", "refill", "sent"}
      /\ task' \in [Parts -> {"none", "initial", "refill", "sent"} \cup Done]
      /\ task'[p] \in {"sent", "stored", "error", "cancelled"}
      /\ \A q \in Parts \ {p} : task'[q] = task[q]
      /\ task'[p] = "stored" => stored'[p] = "whole"
      /\ task'[p] = "cancelled" => cancel
      /\ cancel' = (cancel \/ task'[p] = "error")
  BY DEF ThreadStep, SendPart, PartArrives, PartStored, PartFails, Becomes, UploadTypeOK, Done
<1>3. /\ stored' \in [Parts -> {"none", "short", "whole"}]
      /\ \A q \in Parts \ {p} : stored'[q] = stored[q]
  BY DEF ThreadStep, SendPart, PartArrives, PartStored, PartFails, UploadTypeOK, Provider
<1>4. UploadTypeOK'
  BY <1>1, <1>2, <1>3 DEF UploadTypeOK
<1>5. InFlight' = InFlight /\ p \in InFlight
  BY <1>2 DEF InFlight
<1>6. Accounted'
  BY <1>1, <1>2, <1>5 DEF Accounted, Submitting, UploadTypeOK
<1>7. ReportedIsWhole'
  <2> SUFFICES ASSUME Submitting PROVE /\ \A q \in completed : stored'[q] = "whole"
                                       /\ \A q \in Parts : task'[q] = "stored" => stored'[q] = "whole"
    BY <1>1 DEF ReportedIsWhole, Submitting
  <2>1. p \notin completed /\ completed \subseteq Parts
    BY <1>2 DEF Accounted, UploadTypeOK
  <2> QED BY <1>2, <1>3, <2>1 DEF ReportedIsWhole
<1>8. FlagHasCause'
  <2> SUFFICES ASSUME Submitting PROVE /\ cancel' => \E q \in Parts : task'[q] = "error"
                                       /\ (\E q \in Parts : task'[q] = "cancelled") => cancel'
    BY <1>1 DEF FlagHasCause, Submitting
  <2>1. ASSUME cancel PROVE \E q \in Parts : task'[q] = "error"
    <3>1. PICK q \in Parts : task[q] = "error"
      BY <2>1 DEF FlagHasCause
    <3>2. q # p
      BY <1>2, <3>1
    <3> QED BY <1>2, <3>1, <3>2
  <2> QED BY <1>2, <2>1 DEF FlagHasCause
<1>9. WindowMoves' /\ main # "completing"
  BY <1>1, <1>2, <1>5 DEF WindowMoves
<1> QED BY <1>1, <1>4, <1>6, <1>7, <1>8, <1>9 DEF MergesWholeParts, OwnErrorPropagates

-----------------------------------------------------------------------------
(* Upload: theorems *)

LEMMA UploadStep == ASSUME UploadInv, [UploadNext]_uploadVars PROVE UploadInv'
<1>1. CASE UploadNext
  <2>1. CASE \E p \in Parts : ThreadStep(p)
    BY <2>1, ThreadPreserves
  <2>2. CASE Raise \/ Complete \/ Recover \/ UploaderDies
    BY <2>2, EndPreserves
  <2> QED BY <1>1, <2>1, <2>2, BeginPreserves, SubmitPreserves, DrainPreserves, AllDonePreserves,
             LateMergePreserves DEF UploadNext, ThreadStep
<1>2. CASE UNCHANGED uploadVars
  BY <1>2 DEF uploadVars, UploadInv, UploadTypeOK, Accounted, ReportedIsWhole, FlagHasCause, WindowMoves,
              Submitting, InFlight, MergesWholeParts, OwnErrorPropagates
<1> QED BY <1>1, <1>2

\* The invariant of _upload_resumable_multipart holds for every number of parts.
THEOREM UploadInvariant == UploadSpec => []UploadInv
<1>1. UploadInit => UploadInv
  BY UploadStart
<1>2. UploadInv /\ [UploadNext]_uploadVars => UploadInv'
  BY UploadStep
<1> QED BY <1>1, <1>2, PTL DEF UploadSpec

\* The provider is asked to merge only all the parts, each stored whole.
THEOREM OnlyWholePartsAreMerged == UploadSpec => []MergesWholeParts
<1>1. UploadInv => MergesWholeParts
  BY DEF UploadInv
<1> QED BY <1>1, UploadInvariant, PTL

\* A failed upload ends with the error of a part.
THEOREM ErrorOfAPartIsRaised == UploadSpec => []OwnErrorPropagates
<1>1. UploadInv => OwnErrorPropagates
  BY DEF UploadInv
<1> QED BY <1>1, UploadInvariant, PTL

=============================================================================
