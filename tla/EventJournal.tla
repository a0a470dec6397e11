---------------------------- MODULE EventJournal ----------------------------
(***************************************************************************)
(* The append-only journal of one job (cloud_offload/queue.py, job_events) *)
(* and what is read from it: the snapshot a client resumes from, the pages *)
(* of events after its cursor, and the billing state shown to the user     *)
(* (job_visibility.py).                                                    *)
(*                                                                         *)
(* Every write of the job's row or of one of its leases appends to the     *)
(* journal in the same transaction, so one action is one transaction.  The *)
(* calls that take several transactions are several actions: set_progress, *)
(* complete_job, the event endpoint, a cancellation, and the snapshot.     *)
(*                                                                         *)
(* A position in the journal stands for the entry's sequence number: the   *)
(* numbers are shared with other jobs, and only their order is used.       *)
(* Progress runs from 0 to Full, which stands for 100 per cent.            *)
(***************************************************************************)
EXTENDS QueueRows, Sequences, FiniteSetsExt

CONSTANTS Full,          \* 100 per cent
          NoLease,
          PageSize,      \* the limit of one page of events
          MaxCalls,      \* bound on progress callbacks
          MaxEvents,     \* bound on events the workers publish
          MaxFaults,  \* bound on worker restarts and coordinator crashes
          MaxSnapshots,  \* bound on snapshots a client loads
          MaxLeases,     \* bound on machines started
          MaxEntries     \* bound on the journal

ASSUME JournalAssumption ==
    /\ Full \in Nat \ {0} /\ PageSize \in Nat \ {0} /\ NoLease \notin Leases
    /\ {MaxCalls, MaxEvents, MaxFaults, MaxSnapshots, MaxLeases, MaxEntries} \subseteq Nat

VARIABLES row, progress,   \* the job's row
          rented,          \* the job's leases
          journal,
          held,            \* the record set_progress has read and will write back
          caching,         \* complete_job is between its two transactions
          cached,          \* the partition cache has the job's result
          cancelling,      \* cancel_job: "no", "asked", "revoked"
          process, number, \* each worker's process and the events it has sent
          wire, admitted,  \* requests sent, and requests past their authorization
          accepted,        \* requests answered with an entry
          client,
          count            \* the bounds used up

jobVars == <<row, progress, held, caching, cached, cancelling>>
workerVars == <<process, number, wire, admitted, accepted>>
journalVars == <<jobVars, workerVars, rented, journal, client, count>>

-----------------------------------------------------------------------------
(* Entries *)

Processes == 0 .. MaxFaults

Producer == [worker : Workers \cup {NoWorker}, process : Processes]

Coordinator == [worker |-> NoWorker, process |-> 0]

\* The requests of the event endpoint; a proxy may deliver one again.
Request == [worker : Workers, process : Processes, number : 1..MaxEvents, value : 0..Full]

\* A producer named by the worker alone.
StableProducerOf(m) == [worker |-> m.worker, process |-> 0]

\* Each process of a worker is a producer of its own: the id ends in a fresh uuid.
ProducerOf(m) == [worker |-> m.worker, process |-> m.process]

Lifecycle == {"job_created", "job_state_seeded", "job_status_changed"}

Types == Lifecycle \cup
    {"job_progress_changed", "worker", "cancellation_requested", "lease_created", "lease_bound",
     "lease_job_claimed", "lease_revoked", "provider_termination_requested",
     "provider_termination_completed", "lease_closed_without_resource"}

Entry == [type : Types, status : JobStatus, progress : 0..Full, lease : Leases \cup {NoLease},
          pod : BOOLEAN, producer : Producer, number : 0..MaxEvents]

Plain(type) == [type |-> type, status |-> "none", progress |-> 0, lease |-> NoLease,
                pod |-> FALSE, producer |-> Coordinator, number |-> 0]

OfJob(type, r, p) == [Plain(type) EXCEPT !.status = r.status, !.progress = p]

\* pod: the entry names the provider's instance.
OfLease(type, l) == [Plain(type) EXCEPT !.lease = l, !.pod = rented[l].bound]

OfWorker(m) == [Plain("worker") EXCEPT !.progress = m.value, !.producer = ProducerOf(m),
                                       !.number = m.number]

\* A write that compares with the record its caller has read.
ChangeSinceRead(r, p) ==
    IF r.status # (IF held.live THEN held.row ELSE row).status
    THEN <<OfJob("job_status_changed", r, p)>> ELSE <<>>

\* The entry a write of the row appends: of the status, else of the progress.
Change(r, p) ==
    IF r.status # row.status THEN <<OfJob("job_status_changed", r, p)>>
    ELSE IF p # progress THEN <<OfJob("job_progress_changed", r, p)>>
    ELSE <<>>

Logs(entries) ==
    /\ count.entries + Len(journal) + Len(entries) <= MaxEntries
    /\ journal' = journal \o entries

Writes(r, p) ==
    /\ row' = r /\ progress' = p
    /\ Logs(Change(r, p))

Positions(s) == {i \in DOMAIN s : s[i].type \in Lifecycle /\ s[i].status # "none"}

\* The status of the latest lifecycle entry.
LatestStatus(s, otherwise) ==
    IF Positions(s) = {} THEN otherwise ELSE s[Max(Positions(s))].status

\* The progress of the latest entry.
LatestProgress(s) == IF s = <<>> THEN 0 ELSE s[Len(s)].progress

HighestProgress(s) == Max({0} \cup {s[i].progress : i \in DOMAIN s})

-----------------------------------------------------------------------------
(* The job's row *)

NotHeld == [row |-> NoJobRow, progress |-> 0, live |-> FALSE]

Unused == [calls |-> 0, events |-> 0, faults |-> 0, snapshots |-> 0, leases |-> 0, entries |-> 0]

\* A job that is created with some of the bounds already used up.
Created(used) ==
    /\ row = CreatedRow /\ progress = 0
    /\ rented = [l \in Leases |-> NoLeaseRow]
    /\ journal = <<OfJob("job_created", CreatedRow, 0)>>
    /\ held = NotHeld /\ caching = FALSE /\ cached = FALSE /\ cancelling = "no"
    /\ process = [w \in Workers |-> 0] /\ number = [w \in Workers |-> 0]
    /\ wire = {} /\ admitted = {} /\ accepted = {}
    /\ client = [at |-> "idle", base |-> "none", cursor |-> 0, top |-> 0, status |-> "none", shown |-> 0]
    /\ count = used

JournalInit == Created(Unused)

\* claim_jobs through an active lease.
ClaimJob(w, l) ==
    /\ row.status = "queued" /\ rented[l].status = "active" /\ MayUse(rented[l], w)
    /\ row' = ClaimedRow(row, w)
    /\ rented' = [rented EXCEPT ![l].worker = w]
    /\ Logs(<<OfJob("job_status_changed", row', progress), OfLease("lease_job_claimed", l)>>)
    /\ UNCHANGED <<progress, held, caching, cached, cancelling, workerVars, client, count>>

\* claim_jobs of a worker that was started by hand and has no lease.
ClaimLocally(w) ==
    /\ row.status = "queued" /\ count.leases = MaxLeases
    /\ \A l \in Leases : rented[l].status = "none"
    /\ Writes(ClaimedRow(row, w), progress)
    /\ UNCHANGED <<held, caching, cached, cancelling, workerVars, rented, client, count>>

\* authorize_worker_job, for the worker the row names.
ServedBy(w) == row.worker = w

MarkRunning(w) ==
    /\ ServedBy(w) /\ row.status = "dispatched"
    /\ Writes(WithStatus(row, "running"), progress)
    /\ UNCHANGED <<held, caching, cached, cancelling, workerVars, rented, client, count>>

Clamped(p) == IF p > Full THEN Full ELSE p

\* set_progress reads the record in one transaction ...
ReadProgress(w, p) ==
    /\ ServedBy(w) /\ count.calls < MaxCalls
    /\ ~held.live /\ row.status \notin Terminal
    /\ held' = [row |-> row, progress |-> Clamped(p), live |-> TRUE]
    /\ count' = [count EXCEPT !.calls = @ + 1]
    /\ UNCHANGED <<row, progress, caching, cached, cancelling, workerVars, rented, journal, client>>

\* ... and update writes the whole of it back in another.
WriteProgress ==
    /\ held.live
    /\ Writes(held.row, held.progress)
    /\ held' = NotHeld
    /\ UNCHANGED <<caching, cached, cancelling, workerVars, rented, client, count>>

Caches(r) == r.status = "completed"

\* complete_job: the row first, unless the job has ended meanwhile ...
Complete(w) ==
    /\ ServedBy(w) /\ ~caching
    /\ Writes(WithStatus(row, "completed"), IF row.status \in Terminal THEN progress ELSE Full)
    /\ caching' = Caches(row')
    /\ UNCHANGED <<held, cached, cancelling, workerVars, rented, client, count>>

\* ... and then the partition cache.
CacheResult ==
    /\ caching
    /\ caching' = FALSE /\ cached' = TRUE
    /\ UNCHANGED <<row, progress, held, cancelling, workerVars, rented, journal, client, count>>

Fail(w) ==
    /\ ServedBy(w) /\ row.status \notin Terminal
    /\ Writes(FailedRow(row), progress)
    /\ UNCHANGED <<held, caching, cached, cancelling, workerVars, rented, client, count>>

\* cancel_job: the request is journaled, the leases are revoked, the job fails.
CancelAsked ==
    /\ cancelling = "no" /\ row.status \notin Terminal
    /\ Logs(<<Plain("cancellation_requested")>>)
    /\ cancelling' = "asked"
    /\ UNCHANGED <<row, progress, held, caching, cached, workerVars, rented, client, count>>

CancelRevokes ==
    /\ cancelling = "asked"
    /\ LET open == {l \in Leases : rented[l].status \in OpenStatus \ Revoked}
       IN IF open = {} THEN cancelling' = "revoked" /\ UNCHANGED <<rented, journal>>
          ELSE \E l \in open : /\ rented' = [rented EXCEPT ![l] = RevokedLease(@)]
                               /\ Logs(<<OfLease("lease_revoked", l)>>)
                               /\ UNCHANGED cancelling
    /\ UNCHANGED <<row, progress, held, caching, cached, workerVars, client, count>>

CancelFails ==
    /\ cancelling = "revoked"
    /\ Writes(WithStatus(row, "failed"), progress)
    /\ cancelling' = "no"
    /\ UNCHANGED <<held, caching, cached, workerVars, rented, client, count>>

-----------------------------------------------------------------------------
(* The job's leases *)

LeaseStep(l, after, type) ==
    /\ rented' = [rented EXCEPT ![l] = after]
    /\ Logs(<<[OfLease(type, l) EXCEPT !.pod = after.bound]>>)
    /\ UNCHANGED <<jobVars, workerVars, client>>

\* The dispatcher starts a machine for the queued job when it has no other.
CreateLease(l) ==
    /\ row.status = "queued" /\ rented[l].status = "none" /\ count.leases < MaxLeases
    /\ count' = [count EXCEPT !.leases = @ + 1]
    /\ \A k \in Leases : rented[k].status \notin OpenStatus
    /\ LeaseStep(l, ProvisionedLease, "lease_created")

BindLease(l) ==
    /\ rented[l].status = "provisioning"
    /\ LeaseStep(l, BoundLease(rented[l]), "lease_bound") /\ UNCHANGED count

Revoke(l) ==
    /\ rented[l].status \in OpenStatus \ Revoked
    /\ LeaseStep(l, RevokedLease(rented[l]), "lease_revoked") /\ UNCHANGED count

Attempt(l) ==
    /\ rented[l].status = "revocation_requested" /\ rented[l].bound
    /\ LeaseStep(l, AttemptedLease(rented[l]), "provider_termination_requested") /\ UNCHANGED count

\* The provider reports the instance absent: after a termination or by itself.
Confirm(l) ==
    /\ rented[l].status \in OpenStatus /\ rented[l].bound
    /\ LeaseStep(l, ConfirmedLease(rented[l]), "provider_termination_completed") /\ UNCHANGED count

CloseUnbound(l) ==
    /\ rented[l].status \in OpenStatus /\ ~rented[l].bound
    /\ LeaseStep(l, UnboundClosedLease(rented[l]), "lease_closed_without_resource") /\ UNCHANGED count

-----------------------------------------------------------------------------
(* The events of a worker *)

\* append_event of the worker's client numbers the events of its process.
Emit(w, p) ==
    /\ ServedBy(w) /\ count.events < MaxEvents
    /\ number' = [number EXCEPT ![w] = @ + 1]
    /\ wire' = wire \cup {[worker |-> w, process |-> process[w], number |-> number'[w], value |-> p]}
    /\ count' = [count EXCEPT !.events = @ + 1]
    /\ UNCHANGED <<jobVars, process, admitted, accepted, rented, journal, client>>

\* A restarted worker keeps its identity; its process and numbers begin again.
RestartWorker(w) ==
    /\ number[w] > 0 /\ count.faults < MaxFaults
    /\ process' = [process EXCEPT ![w] = @ + 1]
    /\ number' = [number EXCEPT ![w] = 0]
    /\ count' = [count EXCEPT !.faults = @ + 1]
    /\ UNCHANGED <<jobVars, wire, admitted, accepted, rented, journal, client>>

\* worker_event authorizes the request; a job that has ended ignores it.  The
\* request stays on the wire and may arrive again.
AdmitEvent(m) ==
    /\ m \in wire \ admitted
    /\ ServedBy(m.worker) /\ row.status \notin Terminal
    /\ admitted' = admitted \cup {m}
    /\ UNCHANGED <<jobVars, process, number, wire, accepted, rented, journal, client, count>>

\* The entry an earlier delivery of the same producer and number has left.
Replayed(m) == {i \in DOMAIN journal : journal[i].producer = ProducerOf(m) /\ journal[i].number = m.number}

\* _append_event_in_transaction: a replay gets its old entry, a number used
\* again for other data is refused.
AppendEvent(m) ==
    /\ m \in admitted
    /\ admitted' = admitted \ {m}
    /\ IF Replayed(m) = {} THEN Logs(<<OfWorker(m)>>) /\ accepted' = accepted \cup {m}
       ELSE /\ UNCHANGED journal
            /\ accepted' = IF \A i \in Replayed(m) : journal[i] = OfWorker(m)
                           THEN accepted \cup {m} ELSE accepted
    /\ UNCHANGED <<jobVars, process, number, wire, rented, client, count>>

\* The coordinator dies and forgets the requests it was serving.
CoordinatorCrash ==
    /\ held.live \/ caching \/ cancelling # "no" \/ admitted # {}
    /\ count.faults < MaxFaults
    /\ held' = NotHeld /\ caching' = FALSE /\ cancelling' = "no" /\ admitted' = {}
    /\ count' = [count EXCEPT !.faults = @ + 1]
    /\ UNCHANGED <<row, progress, cached, process, number, wire, accepted, rented, journal, client>>

-----------------------------------------------------------------------------
(* A client that loads a snapshot and resumes from its cursor *)

ClientOnly == UNCHANGED <<jobVars, workerVars, rented, journal>>

\* event_snapshot reads the row,
SnapshotRow ==
    /\ client.at \in {"idle", "live"} /\ count.snapshots < MaxSnapshots
    /\ client' = [client EXCEPT !.at = "counting", !.base = row.status]
    /\ count' = [count EXCEPT !.snapshots = @ + 1]
    /\ ClientOnly

\* then the cursor and the progress,
SnapshotCursor ==
    /\ client.at = "counting"
    /\ client' = [client EXCEPT !.at = "ranking", !.cursor = Len(journal), !.top = HighestProgress(journal)]
    /\ ClientOnly /\ UNCHANGED count

\* The status of the row read at the beginning.
ShownOfRow(base) == base

\* The status the snapshot shows.
Shown(base) == LatestStatus(journal, base)

\* then the status, each in a query of its own.
SnapshotStatus ==
    /\ client.at = "ranking"
    /\ LET status == Shown(client.base)
       IN client' = [client EXCEPT !.at = "live", !.status = status,
                                   !.shown = IF status = "completed" THEN Full ELSE client.top]
    /\ ClientOnly /\ UNCHANGED count

\* list_events: the next page after the cursor.
Page(after) == SubSeq(journal, after + 1, IF after + PageSize < Len(journal) THEN after + PageSize ELSE Len(journal))

Poll ==
    /\ client.at = "live" /\ client.cursor < Len(journal)
    /\ client' = [client EXCEPT !.status = LatestStatus(Page(client.cursor), @),
                                !.cursor = @ + Len(Page(client.cursor))]
    /\ ClientOnly /\ UNCHANGED count

\* The billing state of the Cloud Jobs view.
Receipts == {"provider_termination_completed"}

Billing ==
    IF \A i \in DOMAIN journal : ~journal[i].pod THEN "not_started"
    ELSE IF \E i \in DOMAIN journal : journal[i].type \in Receipts THEN "stopped"
    ELSE IF LatestStatus(journal, row.status) \in Terminal THEN "termination_unconfirmed"
    ELSE "accruing"

-----------------------------------------------------------------------------

JournalNext ==
    \/ \E w \in Workers, l \in Leases : ClaimJob(w, l)
    \/ \E w \in Workers : ClaimLocally(w) \/ MarkRunning(w) \/ Complete(w) \/ Fail(w) \/ RestartWorker(w)
    \/ \E w \in Workers, p \in 0 .. Full + 1 : ReadProgress(w, p)
    \/ \E w \in Workers, p \in 0 .. Full - 1 : Emit(w, p)
    \/ WriteProgress \/ CacheResult \/ CancelAsked \/ CancelRevokes \/ CancelFails
    \/ \E l \in Leases : \/ CreateLease(l) \/ BindLease(l) \/ Revoke(l) \/ Attempt(l)
                         \/ Confirm(l) \/ CloseUnbound(l)
    \/ \E m \in wire : AdmitEvent(m)
    \/ \E m \in admitted : AppendEvent(m)
    \/ CoordinatorCrash
    \/ SnapshotRow \/ SnapshotCursor \/ SnapshotStatus \/ Poll

JournalSpec == JournalInit /\ [][JournalNext]_journalVars

-----------------------------------------------------------------------------
(* Properties *)

JournalTypeOK ==
    /\ row \in JobRow /\ progress \in 0..Full
    /\ rented \in [Leases -> LeaseRow]
    /\ journal \in Seq(Entry)
    /\ held \in [row : JobRow, progress : 0..Full, live : BOOLEAN]
    /\ caching \in BOOLEAN /\ cached \in BOOLEAN
    /\ cancelling \in {"no", "asked", "revoked"}
    /\ process \in [Workers -> Processes] /\ number \in [Workers -> 0..MaxEvents]
    /\ wire \subseteq Request /\ admitted \subseteq wire /\ accepted \subseteq wire
    /\ client \in [at : {"idle", "counting", "ranking", "live"}, base : JobStatus,
                   cursor : Nat, top : 0..Full, status : JobStatus, shown : 0..Full]
    /\ count \in [calls : 0..MaxCalls, events : 0..MaxEvents,
                  faults : 0..MaxFaults, snapshots : 0..MaxSnapshots,
                  leases : 0..MaxLeases, entries : 0..MaxEntries]

\* Whatever a stale write of the whole row does to the job, the journal's latest
\* lifecycle entry says the status the row has.
JournalFollowsRow == LatestStatus(journal, "none") = row.status

\* A request that was answered has exactly one entry: a second delivery adds
\* none, and a restarted worker's first events are not taken for old ones.
AnsweredOnce ==
    Cardinality({i \in DOMAIN journal : journal[i].type = "worker"}) = Cardinality(accepted)

\* A client that loads a snapshot and reads to the end of the journal knows the
\* job's status, although the snapshot is read in several transactions.
ResumedClientIsCurrent ==
    client.at = "live" /\ client.cursor = Len(journal) => client.status = row.status

\* Snapshots show a progress that never falls, through retries and through
\* progress reports that arrive out of order.
ShownProgressNeverFalls == [][client'.shown >= client.shown]_journalVars

\* The partition cache holds the result of a job that did complete.
CachedWasCompleted == cached => \E i \in Positions(journal) : journal[i].status = "completed"

\* For a job that has been on one machine, billing is shown as stopped exactly
\* when the provider has confirmed that machine's absence.
OneMachineBilling ==
    \A l \in Leases :
        rented[l].bound /\ (\A k \in Leases \ {l} : ~rented[k].bound)
            => (Billing = "stopped" <=> rented[l].status = "closed")

\* Billing is shown as stopped only when none of the job's machines may still
\* run: "`accruing`: a Pod exists and the job is not terminal"
\* (docs/job-visibility.md).
StoppedMeansStopped ==
    Billing = "stopped" => \A l \in Leases : rented[l].bound => rented[l].status = "closed"

=============================================================================
