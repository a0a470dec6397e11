-------------------------- MODULE LeaseControl_proofs --------------------------
(***************************************************************************)
(* Theorems about the control plane, for every number of jobs, leases and  *)
(* workers, every retry limit and any number of crashes.                   *)
(***************************************************************************)
EXTENDS LeaseControl, TLAPS

-----------------------------------------------------------------------------
(* Rows *)

\* A row that may be stored: well typed, and queued only with an attempt left.
SoundRow(row) == row \in JobRow /\ (row.status = "queued" => row.attempts < MaxAttempts)

\* The rows of an empty store and of a new submission are sound.
LEMMA NewRowsSound == SoundRow(NoJobRow) /\ SoundRow(CreatedRow)
  BY AttemptsAssumption DEF SoundRow, JobRow, NoJobRow, CreatedRow, JobStatus

\* update_status keeps a row sound, whatever status but "queued" it asks for.
LEMMA WithStatusSound ==
    ASSUME NEW row, SoundRow(row), NEW s \in JobStatus \ {"queued"}
    PROVE  SoundRow(WithStatus(row, s))
  BY DEF SoundRow, JobRow, WithStatus

\* fail_job queues a row again only with an attempt left.
LEMMA FailedRowSound ==
    ASSUME NEW row, SoundRow(row)
    PROVE  SoundRow(FailedRow(row))
<1>1. CASE row.status \in Terminal
  BY <1>1 DEF SoundRow, FailedRow
<1>2. CASE row.status \notin Terminal /\ row.attempts >= MaxAttempts
  BY <1>2 DEF SoundRow, FailedRow, JobRow, JobStatus
<1>3. CASE row.status \notin Terminal /\ ~(row.attempts >= MaxAttempts)
  <2> DEFINE next == [row EXCEPT !.worker = NoWorker, !.status = "queued"]
  <2>1. FailedRow(row) = next
    BY <1>3 DEF FailedRow
  <2>2. row \in JobRow /\ row.attempts \in Nat /\ MaxAttempts \in Nat
    BY AttemptsAssumption DEF SoundRow, JobRow
  <2>3. next \in JobRow /\ next.attempts = row.attempts
    BY <2>2 DEF JobRow, JobStatus
  <2>4. next.attempts < MaxAttempts
    BY <1>3, <2>2, <2>3
  <2> QED BY <2>1, <2>3, <2>4 DEF SoundRow
<1> QED BY <1>1, <1>2, <1>3

\* claim_jobs spends an attempt that a queued row has left.
LEMMA ClaimedRowSound ==
    ASSUME NEW row, SoundRow(row), row.status = "queued", NEW w \in Workers
    PROVE  SoundRow(ClaimedRow(row, w))
<1>1. /\ row \in JobRow /\ row.attempts \in 0..MaxAttempts /\ row.attempts < MaxAttempts
      /\ MaxAttempts \in Nat
  BY AttemptsAssumption DEF SoundRow, JobRow
<1>2. row.attempts + 1 \in 0..MaxAttempts
  BY <1>1
<1>3. ClaimedRow(row, w) \in JobRow /\ ClaimedRow(row, w).status = "dispatched"
  BY <1>1, <1>2 DEF ClaimedRow, JobRow, JobStatus
<1> QED BY <1>3 DEF SoundRow

\* create_lease starts from a well-typed record.
LEMMA NewLeaseTyped == NoLeaseRow \in LeaseRow /\ ProvisionedLease \in LeaseRow
  BY DEF LeaseRow, LeaseStatus, NoLeaseRow, ProvisionedLease

\* The lease transitions of the store keep a record well typed.
LEMMA LeaseRowTyped ==
    ASSUME NEW row \in LeaseRow
    PROVE  /\ BoundLease(row) \in LeaseRow
           /\ RevokedLease(row) \in LeaseRow
           /\ AttemptedLease(row) \in LeaseRow
           /\ ConfirmedLease(row) \in LeaseRow
           /\ UnboundClosedLease(row) \in LeaseRow
           /\ \A w \in Workers : RenewedLease(row, w) \in LeaseRow
<1>1. BoundLease(row) \in LeaseRow
  BY DEF LeaseRow, LeaseStatus, BoundLease
<1>2. RevokedLease(row) \in LeaseRow
  BY DEF LeaseRow, LeaseStatus, RevokedLease
<1>3. AttemptedLease(row) \in LeaseRow
  BY DEF LeaseRow, LeaseStatus, AttemptedLease
<1>4. ConfirmedLease(row) \in LeaseRow /\ UnboundClosedLease(row) \in LeaseRow
  BY DEF LeaseRow, LeaseStatus, ConfirmedLease, UnboundClosedLease
<1>5. ASSUME NEW w \in Workers PROVE RenewedLease(row, w) \in LeaseRow
  BY DEF LeaseRow, LeaseStatus, RenewedLease
<1> QED BY <1>1, <1>2, <1>3, <1>4, <1>5

-----------------------------------------------------------------------------
(* Types *)

\* Positions of the tick at which a lease is in hand.
Holding == {"list", "inspect", "lost", "bind", "revoke", "readJobs", "fail", "requeue",
            "confirm", "attempt", "terminate", "verify", "closeUnbound", "restamp", "launch"}

\* A dispatcher memory that may be reached, as far as types go.
SoundDisp(d) ==
    /\ d \in DispState
    /\ \A j \in Jobs : SoundRow(d.rows[j])
    /\ d.pc \in Holding => d.lease \in Leases

\* A coordinator request that may be reached, as far as types go.
SoundSrv(s) ==
    /\ s \in SrvState
    /\ SoundRow(s.row)
    /\ s.op = "claimed" => s.w \in Workers

\* The inductive type invariant.  The rows that the launch and set_progress
\* hold in memory must be sound too, because they are written back.
TypeInv ==
    /\ TypeOK
    /\ \A j \in Jobs : SoundRow(jobs[j])
    /\ SoundDisp(disp)
    /\ SoundSrv(srv)

\* The start of a tick, and of each of its loops.
LEMMA StartSound ==
    /\ SoundDisp(AtRest)
    /\ \A phase \in Phase, todo \in SUBSET Leases : SoundDisp(StartPhase(phase, todo))
<1>1. AtRest \in DispState
  BY NewRowsSound, NewLeaseTyped DEF AtRest, DispState, Pc, Phase, Reason, NoRows, SoundRow
<1>2. \A j \in Jobs : SoundRow(AtRest.rows[j])
  BY NewRowsSound DEF AtRest, NoRows
<1>3. AtRest.pc \notin Holding
  BY DEF AtRest, Holding
<1>4. ASSUME NEW phase \in Phase, NEW todo \in SUBSET Leases
      PROVE  SoundDisp(StartPhase(phase, todo))
  <2>1. /\ StartPhase(phase, todo) \in DispState
        /\ StartPhase(phase, todo).rows = AtRest.rows
        /\ StartPhase(phase, todo).pc = "pick"
    BY <1>1 DEF StartPhase, DispState, Pc
  <2> QED BY <2>1, <1>2 DEF SoundDisp, Holding
<1> QED BY <1>1, <1>2, <1>3, <1>4 DEF SoundDisp

\* Going on with the next lease, or with the termination of this one.
LEMMA LoopSound ==
    ASSUME SoundDisp(disp)
    PROVE  /\ SoundDisp(NextLease)
           /\ \A d : SoundDisp(d) /\ d.lease \in Leases => SoundDisp(Terminating(d))
<1>1. /\ NextLease \in DispState /\ NextLease.rows = disp.rows /\ NextLease.pc = "pick"
  BY NewLeaseTyped DEF SoundDisp, NextLease, DispState, Pc, Reason
<1>2. SoundDisp(NextLease)
  BY <1>1 DEF SoundDisp, Holding
<1>3. ASSUME NEW d, SoundDisp(d), d.lease \in Leases
      PROVE  SoundDisp(Terminating(d))
  <2>1. /\ [d EXCEPT !.pc = "attempt"] \in DispState
        /\ [d EXCEPT !.pc = "attempt"].rows = d.rows
        /\ [d EXCEPT !.pc = "attempt"].lease = d.lease
    BY <1>3 DEF SoundDisp, DispState, Pc
  <2>2. SoundDisp([d EXCEPT !.pc = "attempt"])
    BY <1>3, <2>1 DEF SoundDisp
  <2> QED BY <1>2, <2>2 DEF Terminating
<1> QED BY <1>2, <1>3

\* Moving to another position with the same lease in hand.
LEMMA MoveSound ==
    ASSUME NEW d, SoundDisp(d), d.lease \in Leases, NEW pc \in Pc
    PROVE  SoundDisp([d EXCEPT !.pc = pc])
<1>1. /\ [d EXCEPT !.pc = pc] \in DispState
      /\ [d EXCEPT !.pc = pc].rows = d.rows
      /\ [d EXCEPT !.pc = pc].lease = d.lease
  BY DEF SoundDisp, DispState
<1> QED BY <1>1 DEF SoundDisp

\* What reconciliation decides after it has asked the provider.
LEMMA VerdictSound ==
    ASSUME SoundDisp(disp), disp.lease \in Leases, NEW row \in LeaseRow
    PROVE  /\ \A seen : SoundDisp(Judged(row, seen))
           /\ SoundDisp(Lost(row))
<1>1. ASSUME NEW reason \in Reason
      PROVE  LET d == [disp EXCEPT !.snap = row, !.reason = reason]
             IN  SoundDisp(d) /\ d.lease \in Leases
  <2> DEFINE d == [disp EXCEPT !.snap = row, !.reason = reason]
  <2>1. d \in DispState /\ d.rows = disp.rows /\ d.lease = disp.lease
    BY DEF SoundDisp, DispState
  <2> QED BY <2>1 DEF SoundDisp
<1>2. ASSUME NEW seen PROVE SoundDisp(Judged(row, seen))
  <2> DEFINE d == [disp EXCEPT !.snap = row, !.reason = CloseReason(row, seen)]
  <2>1. CloseReason(row, seen) \in Reason
    BY DEF CloseReason, Reason
  <2>2. SoundDisp(d) /\ d.lease \in Leases
    BY <1>1, <2>1
  <2>3. "revoke" \in Pc
    BY DEF Pc
  <2>4. SoundDisp(NextLease) /\ SoundDisp(Terminating(d)) /\ SoundDisp([d EXCEPT !.pc = "revoke"])
    BY <2>2, <2>3, LoopSound, MoveSound
  <2>5. Judged(row, seen) \in {NextLease, Terminating(d), [d EXCEPT !.pc = "revoke"]}
    BY DEF Judged
  <2> QED BY <2>4, <2>5
<1>3. SoundDisp(Lost(row))
  <2> DEFINE pc == IF row.status = "active" /\ ~row.asked THEN "readJobs" ELSE "confirm"
             d == [disp EXCEPT !.snap = row, !.reason = "lost"]
  <2>1. pc \in Pc /\ "lost" \in Reason
    BY DEF Pc, Reason
  <2>2. SoundDisp(d) /\ d.lease \in Leases
    BY <1>1, <2>1
  <2>3. Lost(row) = [d EXCEPT !.pc = pc]
    BY DEF Lost, SoundDisp, DispState
  <2>4. SoundDisp([d EXCEPT !.pc = pc])
    <3> HIDE DEF d, pc
    <3> QED BY <2>1, <2>2, MoveSound
  <2> QED BY <2>3, <2>4
<1> QED BY <1>2, <1>3

\* The loops over the jobs of a lease.
LEMMA AfterJobsSound ==
    ASSUME SoundDisp(disp), disp.lease \in Leases, NEW todo \in SUBSET Jobs
    PROVE  SoundDisp(AfterJobs([disp EXCEPT !.jobs = todo]))
<1> DEFINE d == [disp EXCEPT !.jobs = todo]
           pc == IF d.reason = "lost" THEN "requeue" ELSE "fail"
<1>1. d \in DispState /\ d.rows = disp.rows /\ d.lease = disp.lease
  BY DEF SoundDisp, DispState
<1>2. SoundDisp(d) /\ d.lease \in Leases
  BY <1>1 DEF SoundDisp
<1>3. pc \in Pc /\ "confirm" \in Pc
  BY DEF Pc
<1>4. /\ SoundDisp([d EXCEPT !.pc = pc]) /\ SoundDisp([d EXCEPT !.pc = "confirm"])
      /\ SoundDisp(Terminating(d))
  BY <1>2, <1>3, MoveSound, LoopSound
<1>5. AfterJobs(d) \in {[d EXCEPT !.pc = pc], [d EXCEPT !.pc = "confirm"], Terminating(d)}
  BY DEF AfterJobs
<1> QED BY <1>4, <1>5

\* A dispatcher step keeps the type invariant when it leaves sound memory and
\* writes no row, one lease row or one job row.
LEMMA DispatcherFrame ==
    ASSUME TypeInv, SoundDisp(disp'), mine' \in SUBSET Leases, inst' \in [Leases -> InstState],
           OthersUnchanged,
           \/ StoreUnchanged
           \/ \E l \in Leases, row \in LeaseRow : PutLease(l, row)
           \/ \E j \in Jobs : \E row : SoundRow(row) /\ PutJob(j, row)
    PROVE  TypeInv'
<1>1. /\ jobs \in [Jobs -> JobRow] /\ \A j \in Jobs : SoundRow(jobs[j])
      /\ leases \in [Leases -> LeaseRow] /\ attached \in [Leases -> SUBSET Jobs]
  BY DEF TypeInv, TypeOK
<1>2. /\ jobs' \in [Jobs -> JobRow] /\ \A j \in Jobs : SoundRow(jobs'[j])
      /\ leases' \in [Leases -> LeaseRow] /\ attached' \in [Leases -> SUBSET Jobs]
  <2>1. CASE StoreUnchanged
    BY <1>1, <2>1 DEF StoreUnchanged
  <2>2. CASE \E l \in Leases, row \in LeaseRow : PutLease(l, row)
    BY <1>1, <2>2 DEF PutLease
  <2>3. CASE \E j \in Jobs : \E row : SoundRow(row) /\ PutJob(j, row)
    BY <1>1, <2>3 DEF PutJob, SoundRow
  <2> QED BY <2>1, <2>2, <2>3
<1>3. disp' \in DispState
  BY DEF SoundDisp
<1> QED BY <1>2, <1>3 DEF TypeInv, TypeOK, OthersUnchanged

\* The positions at which reconciliation works on a lease.
LEMMA ReconcileTyped ==
    ASSUME TypeInv,
           \/ TickStart \/ ReconcileNext \/ ReconcileInspect \/ InspectFails \/ ListInstances
           \/ Bind \/ CloseUnbound \/ Revoke \/ ReadJobs \/ RequeueJob \/ FailJob
    PROVE  TypeInv'
<1>0. /\ jobs \in [Jobs -> JobRow] /\ leases \in [Leases -> LeaseRow] /\ mine \in SUBSET Leases
      /\ inst \in [Leases -> InstState] /\ SoundDisp(disp) /\ disp \in DispState
      /\ \A j \in Jobs : SoundRow(jobs[j])
  BY DEF TypeInv, TypeOK
<1>1. CASE TickStart
  <2>1. SoundDisp(disp')
    BY <1>1, StartSound DEF TickStart, OpenLeases, Phase
  <2> QED BY <1>0, <1>1, <2>1, DispatcherFrame DEF TickStart
<1>2. CASE ReconcileNext
  <2>1. SoundDisp(disp')
    <3>1. PICK l \in disp.todo :
             disp' = [disp EXCEPT !.lease = l, !.todo = @ \ {l}, !.snap = leases[l],
                                  !.pc = IF leases[l].bound THEN "inspect" ELSE "list"]
      BY <1>2 DEF ReconcileNext
    <3>2. l \in Leases /\ leases[l] \in LeaseRow
      BY <1>0 DEF DispState
    <3>3. disp' \in DispState /\ disp'.lease \in Leases /\ disp'.rows = disp.rows
      BY <1>0, <3>1, <3>2 DEF DispState, Pc
    <3> QED BY <1>0, <3>3 DEF SoundDisp
  <2> QED BY <1>0, <1>2, <2>1, DispatcherFrame DEF ReconcileNext
<1>3. CASE ReconcileInspect
  <2>1. disp.lease \in Leases /\ disp.snap \in LeaseRow
    BY <1>0, <1>3 DEF ReconcileInspect, At, SoundDisp, Holding, DispState
  <2>2. SoundDisp(disp') /\ mine' \in SUBSET Leases
    BY <1>0, <1>3, <2>1, VerdictSound DEF ReconcileInspect
  <2> QED BY <1>0, <1>3, <2>2, DispatcherFrame DEF ReconcileInspect
<1>4. CASE InspectFails
  <2>1. SoundDisp(disp')
    BY <1>0, <1>4, LoopSound DEF InspectFails
  <2> QED BY <1>0, <1>4, <2>1, DispatcherFrame DEF InspectFails
<1>5. CASE ListInstances
  <2> DEFINE pc == IF Listed(disp.lease) THEN "bind" ELSE "closeUnbound"
  <2>1. disp.lease \in Leases /\ pc \in Pc /\ disp' = [disp EXCEPT !.pc = pc]
    BY <1>0, <1>5 DEF ListInstances, Goto, At, SoundDisp, Holding, Pc
  <2>2. SoundDisp(disp')
    <3> HIDE DEF pc
    <3> QED BY <1>0, <2>1, MoveSound
  <2> QED BY <1>0, <1>5, <2>2, DispatcherFrame DEF ListInstances
<1>6. CASE Bind
  <2> DEFINE row == BoundLease(leases[disp.lease])
  <2>1. disp.lease \in Leases /\ row \in LeaseRow
    BY <1>0, <1>6, LeaseRowTyped DEF Bind, At, SoundDisp, Holding
  <2>2. PutLease(disp.lease, row) /\ mine' = mine \cup {disp.lease} /\ inst' = inst
    BY <1>6 DEF Bind
  <2>3. disp' = StartPhase("update", mine') \/ disp' = Judged(row, "live")
    BY <1>6 DEF Bind, EndLaunch
  <2>4. mine' \in SUBSET Leases /\ "update" \in Phase
    BY <1>0, <2>1, <2>2 DEF Phase
  <2>5. SoundDisp(disp')
    BY <1>0, <2>1, <2>3, <2>4, StartSound, VerdictSound
  <2>6. OthersUnchanged
    BY <1>6 DEF Bind
  <2> QED BY <1>0, <2>1, <2>2, <2>4, <2>5, <2>6, DispatcherFrame
<1>7. CASE CloseUnbound
  <2> DEFINE row == UnboundClosedLease(leases[disp.lease])
  <2>1. disp.lease \in Leases /\ row \in LeaseRow
    BY <1>0, <1>7, LeaseRowTyped DEF CloseUnbound, At, SoundDisp, Holding
  <2>2. PutLease(disp.lease, row) /\ inst' = inst /\ mine' = mine /\ OthersUnchanged
    BY <1>7 DEF CloseUnbound
  <2>3. CASE disp' = NextLease \/ disp' = EndLaunch(mine)
    <3>1. SoundDisp(disp')
      BY <1>0, <2>3, LoopSound, StartSound DEF EndLaunch, Phase
    <3> QED BY <1>0, <2>1, <2>2, <3>1, DispatcherFrame
  <2>4. CASE disp' = [disp EXCEPT !.pc = "lease", !.cached = FALSE, !.lease = NoLease,
                        !.jobs = {j \in Jobs : disp.rows[j].status = "queued"}]
    <3>1. disp' \in DispState /\ disp'.rows = disp.rows /\ disp'.pc = "lease"
      BY <1>0, <2>4 DEF DispState, Pc
    <3>2. SoundDisp(disp')
      BY <1>0, <3>1 DEF SoundDisp, Holding
    <3> QED BY <1>0, <2>1, <2>2, <3>2, DispatcherFrame
  <2> QED BY <1>7, <2>3, <2>4 DEF CloseUnbound
<1>8. CASE Revoke
  <2> DEFINE row == RevokedLease(leases[disp.lease])
             d == [disp EXCEPT !.snap = row]
  <2>1. disp.lease \in Leases /\ row \in LeaseRow
    BY <1>0, <1>8, LeaseRowTyped DEF Revoke, At, SoundDisp, Holding
  <2>2. PutLease(disp.lease, row) /\ inst' = inst /\ mine' = mine /\ OthersUnchanged
    BY <1>8 DEF Revoke
  <2>3. d \in DispState /\ d.rows = disp.rows /\ d.lease = disp.lease
    BY <1>0, <2>1 DEF DispState
  <2>4. SoundDisp(d) /\ d.lease \in Leases /\ "readJobs" \in Pc
    BY <1>0, <2>1, <2>3 DEF SoundDisp, Pc
  <2>5. disp' = [d EXCEPT !.pc = "readJobs"] \/ disp' = Terminating(d)
    BY <1>8 DEF Revoke
  <2>6. SoundDisp(disp')
    <3> HIDE DEF d
    <3> QED BY <1>0, <2>4, <2>5, MoveSound, LoopSound
  <2> QED BY <1>0, <2>1, <2>2, <2>6, DispatcherFrame
<1>9. CASE ReadJobs
  <2> DEFINE todo == {j \in attached[disp.lease] : jobs[j].status \notin Terminal}
  <2>1. disp.lease \in Leases
    BY <1>0, <1>9 DEF ReadJobs, At, SoundDisp, Holding
  <2>2. todo \in SUBSET Jobs
    BY <2>1 DEF TypeInv, TypeOK
  <2>3. disp' = AfterJobs([disp EXCEPT !.jobs = todo])
    BY <1>9 DEF ReadJobs
  <2>4. SoundDisp(disp')
    <3> HIDE DEF todo
    <3> QED BY <1>0, <2>1, <2>2, <2>3, AfterJobsSound
  <2> QED BY <1>0, <1>9, <2>4, DispatcherFrame DEF ReadJobs
<1>10. CASE RequeueJob \/ FailJob
  <2>1. disp.lease \in Leases
    BY <1>0, <1>10 DEF RequeueJob, FailJob, At, SoundDisp, Holding
  <2>2. PICK j \in disp.jobs :
           /\ PutJob(j, FailedRow(jobs[j])) \/ PutJob(j, WithStatus(jobs[j], "failed"))
           /\ disp' = AfterJobs([disp EXCEPT !.jobs = @ \ {j}])
    BY <1>10 DEF RequeueJob, FailJob
  <2>3. j \in Jobs /\ disp.jobs \ {j} \in SUBSET Jobs
    BY <1>0 DEF DispState
  <2>4. SoundRow(FailedRow(jobs[j])) /\ SoundRow(WithStatus(jobs[j], "failed"))
    BY <1>0, <2>3, FailedRowSound, WithStatusSound DEF JobStatus
  <2>5. SoundDisp(disp')
    BY <1>0, <2>1, <2>2, <2>3, AfterJobsSound
  <2>6. inst' = inst /\ mine' = mine /\ OthersUnchanged
    BY <1>10 DEF RequeueJob, FailJob
  <2> QED BY <1>0, <2>2, <2>3, <2>4, <2>5, <2>6, DispatcherFrame
<1> QED BY <1>1, <1>2, <1>3, <1>4, <1>5, <1>6, <1>7, <1>8, <1>9, <1>10

\* The termination of a lease.
LEMMA TerminateTyped ==
    ASSUME TypeInv,
           \/ Attempt \/ TerminateWorks \/ TerminateIneffective \/ Verify \/ VerifyFails \/ Confirm
    PROVE  TypeInv'
<1>0. /\ leases \in [Leases -> LeaseRow] /\ mine \in SUBSET Leases
      /\ inst \in [Leases -> InstState] /\ SoundDisp(disp) /\ disp \in DispState
  BY DEF TypeInv, TypeOK
<1>1. disp.lease \in Leases
  BY <1>0 DEF Attempt, TerminateWorks, TerminateIneffective, Verify, VerifyFails, Confirm, At,
       SoundDisp, Holding
<1>2. SoundDisp(Goto("terminate")) /\ SoundDisp(Goto("verify")) /\ SoundDisp(Goto("confirm"))
  <2>1. {"terminate", "verify", "confirm"} \subseteq Pc
    BY DEF Pc
  <2> QED BY <1>0, <1>1, <2>1, MoveSound DEF Goto
<1>3. SoundDisp(NextLease)
  BY <1>0, LoopSound
<1>4. leases[disp.lease] \in LeaseRow
  BY <1>0, <1>1
<1>5. CASE Attempt
  BY <1>0, <1>1, <1>2, <1>4, <1>5, LeaseRowTyped, DispatcherFrame DEF Attempt
<1>6. CASE TerminateWorks
  <2>1. inst' \in [Leases -> InstState] /\ SoundDisp(disp')
    BY <1>0, <1>2, <1>6 DEF TerminateWorks, InstState
  <2>2. wk' \in [Workers -> WorkerState]
    BY <1>6 DEF TerminateWorks, OffOn, Off, WorkerState, TypeInv, TypeOK
  <2> QED BY <1>6, <2>1, <2>2 DEF TerminateWorks, StoreUnchanged, TypeInv, TypeOK, SoundDisp
<1>7. CASE TerminateIneffective
  BY <1>0, <1>2, <1>7, DispatcherFrame DEF TerminateIneffective
<1>8. CASE Verify
  BY <1>0, <1>2, <1>3, <1>8, DispatcherFrame DEF Verify
<1>9. CASE VerifyFails
  BY <1>0, <1>3, <1>9, DispatcherFrame DEF VerifyFails
<1>10. CASE Confirm
  BY <1>0, <1>1, <1>3, <1>4, <1>10, LeaseRowTyped, DispatcherFrame DEF Confirm
<1> QED BY <1>5, <1>6, <1>7, <1>8, <1>9, <1>10

\* The decision to rent a machine, and the launch.
LEMMA LaunchTyped ==
    ASSUME TypeInv,
           \/ ReconcileDone \/ Decide \/ NoLaunch \/ RefuseJob \/ StampJob \/ CreateLease
           \/ LaunchSucceeds \/ LaunchFails \/ LaunchUncertain
    PROVE  TypeInv'
<1>0. /\ jobs \in [Jobs -> JobRow] /\ leases \in [Leases -> LeaseRow] /\ mine \in SUBSET Leases
      /\ inst \in [Leases -> InstState] /\ SoundDisp(disp) /\ disp \in DispState
      /\ \A j \in Jobs : SoundRow(jobs[j])
      /\ attached \in [Leases -> SUBSET Jobs]
  BY DEF TypeInv, TypeOK
<1>1. SoundDisp(EndLaunch(mine))
  BY <1>0, StartSound DEF EndLaunch, Phase
<1>2. CASE ReconcileDone
  <2>1. disp' \in DispState /\ disp'.rows = disp.rows /\ disp'.pc = "decide"
    BY <1>0, <1>2 DEF ReconcileDone, DispState, Pc, Phase
  <2>2. SoundDisp(disp')
    BY <1>0, <2>1 DEF SoundDisp, Holding
  <2> QED BY <1>0, <1>2, <2>2, DispatcherFrame DEF ReconcileDone
<1>3. CASE Decide
  <2>1. PICK group \in (SUBSET Queued) \ {{}} :
          LET d == [disp EXCEPT !.rows = [j \in Jobs |-> IF j \in group THEN jobs[j] ELSE NoJobRow]]
          IN  \/ disp' = [d EXCEPT !.pc = "stamp", !.cached = TRUE, !.jobs = group]
              \/ \E considered \in BOOLEAN : disp' = [d EXCEPT !.pc = "lease", !.cached = considered]
              \/ disp' = [d EXCEPT !.pc = "refuse", !.jobs = group]
    BY <1>3 DEF Decide
  <2> DEFINE rows == [j \in Jobs |-> IF j \in group THEN jobs[j] ELSE NoJobRow]
  <2>2. group \in SUBSET Jobs
    BY DEF Queued
  <2>3. rows \in [Jobs -> JobRow] /\ \A j \in Jobs : SoundRow(rows[j])
    BY <1>0, NewRowsSound DEF SoundRow
  <2>4. disp' \in DispState /\ disp'.rows = rows /\ disp'.pc \in {"stamp", "lease", "refuse"}
    <3> HIDE DEF rows
    <3> QED BY <1>0, <2>1, <2>2, <2>3, ZenonT(60) DEF DispState, Pc, rows
  <2>5. SoundDisp(disp')
    BY <2>3, <2>4 DEF SoundDisp, Holding
  <2> QED BY <1>0, <1>3, <2>5, DispatcherFrame DEF Decide
<1>4. CASE NoLaunch
  BY <1>0, <1>1, <1>4, DispatcherFrame DEF NoLaunch
<1>5. CASE RefuseJob
  <2>1. PICK j \in disp.jobs :
          /\ PutJob(j, WithStatus(jobs[j], "failed"))
          /\ disp' = IF disp.jobs = {j} THEN EndLaunch(mine) ELSE [disp EXCEPT !.jobs = @ \ {j}]
    BY <1>5 DEF RefuseJob
  <2>2. j \in Jobs /\ SoundRow(WithStatus(jobs[j], "failed"))
    BY <1>0, WithStatusSound DEF DispState, JobStatus
  <2>3. /\ [disp EXCEPT !.jobs = @ \ {j}] \in DispState
        /\ [disp EXCEPT !.jobs = @ \ {j}].rows = disp.rows
        /\ [disp EXCEPT !.jobs = @ \ {j}].pc = "refuse"
    BY <1>0, <1>5 DEF RefuseJob, At, DispState
  <2>4. SoundDisp(disp')
    BY <1>0, <1>1, <2>1, <2>3 DEF SoundDisp, Holding
  <2>5. inst' = inst /\ mine' = mine /\ OthersUnchanged
    BY <1>5 DEF RefuseJob
  <2> QED BY <1>0, <2>1, <2>2, <2>4, <2>5, DispatcherFrame
<1>6. CASE StampJob
  <2>1. PICK j \in disp.jobs :
          /\ PutJob(j, disp.rows[j])
          /\ disp' = [disp EXCEPT !.jobs = @ \ {j},
               !.pc = IF disp.jobs # {j} THEN @ ELSE IF @ = "stamp" THEN "lease" ELSE "launch"]
    BY <1>6 DEF StampJob
  <2>2. disp.pc \in {"stamp", "restamp"}
    BY <1>6 DEF StampJob
  <2>3. j \in Jobs /\ SoundRow(disp.rows[j])
    BY <1>0 DEF DispState, SoundDisp
  <2>4. /\ disp' \in DispState /\ disp'.rows = disp.rows /\ disp'.lease = disp.lease
        /\ disp'.pc \in {"stamp", "lease"} \/ disp.pc = "restamp"
    BY <1>0, <2>1, <2>2 DEF DispState, Pc
  <2>5. SoundDisp(disp')
    BY <1>0, <2>4 DEF SoundDisp, Holding
  <2>6. inst' = inst /\ mine' = mine /\ OthersUnchanged
    BY <1>6 DEF StampJob
  <2> QED BY <1>0, <2>1, <2>3, <2>5, <2>6, DispatcherFrame
<1>7. CASE CreateLease
  <2>1. PICK l \in Leases :
          /\ leases' = [leases EXCEPT ![l] = ProvisionedLease]
          /\ attached' = [attached EXCEPT ![l] = {j \in Jobs : disp.rows[j].status = "queued"}]
          /\ disp' = [disp EXCEPT !.lease = l, !.pc = IF disp.jobs = {} THEN "launch" ELSE "restamp"]
    BY <1>7 DEF CreateLease
  <2>2. leases' \in [Leases -> LeaseRow] /\ attached' \in [Leases -> SUBSET Jobs]
    BY <1>0, <2>1, NewLeaseTyped
  <2>3. disp' \in DispState /\ disp'.lease \in Leases /\ disp'.rows = disp.rows
    BY <1>0, <2>1 DEF DispState, Pc
  <2>4. SoundDisp(disp')
    BY <1>0, <2>3 DEF SoundDisp
  <2> QED BY <1>7, <2>2, <2>4 DEF CreateLease, TypeInv, TypeOK, OthersUnchanged, SoundDisp
<1>8. CASE LaunchSucceeds \/ LaunchFails
  <2>1. disp.lease \in Leases
    BY <1>0, <1>8 DEF LaunchSucceeds, LaunchFails, At, SoundDisp, Holding
  <2>2. "bind" \in Pc /\ "list" \in Pc
    BY DEF Pc
  <2>3. SoundDisp(disp')
    BY <1>0, <1>8, <2>1, <2>2, MoveSound DEF LaunchSucceeds, LaunchFails, Goto
  <2>4. inst' \in [Leases -> InstState]
    BY <1>0, <1>8, <2>1 DEF LaunchSucceeds, LaunchFails, InstState
  <2>5. mine' = mine /\ StoreUnchanged /\ OthersUnchanged
    BY <1>8 DEF LaunchSucceeds, LaunchFails
  <2> QED BY <1>0, <2>3, <2>4, <2>5, DispatcherFrame
<1>9. CASE LaunchUncertain
  BY <1>0, <1>1, <1>9, DispatcherFrame DEF LaunchUncertain
<1> QED BY <1>2, <1>3, <1>4, <1>5, <1>6, <1>7, <1>8, <1>9

\* The three loops over the known instances, and a crash.
LEMMA LoopsTyped ==
    ASSUME TypeInv,
           \/ PhaseDone \/ UpdateNext \/ UpdateFails \/ ReadLost \/ Spare
           \/ GiveUpUnregistered \/ GiveUpIdle \/ DispatcherCrash
    PROVE  TypeInv'
<1>0. /\ leases \in [Leases -> LeaseRow] /\ mine \in SUBSET Leases
      /\ inst \in [Leases -> InstState] /\ SoundDisp(disp) /\ disp \in DispState
  BY DEF TypeInv, TypeOK
<1>1. CASE PhaseDone
  <2>1. SoundDisp(disp')
    BY <1>0, <1>1, StartSound DEF PhaseDone, Phase
  <2> QED BY <1>0, <1>1, <2>1, DispatcherFrame DEF PhaseDone
<1>2. ASSUME NEW l \in disp.todo, NEW pc \in Pc, NEW reason \in Reason
      PROVE  SoundDisp([disp EXCEPT !.todo = @ \ {l}, !.lease = l, !.pc = pc, !.reason = reason])
  <2> DEFINE d == [disp EXCEPT !.todo = @ \ {l}, !.lease = l, !.pc = pc, !.reason = reason]
  <2>1. d \in DispState /\ d.rows = disp.rows /\ d.lease \in Leases
    BY <1>0 DEF DispState
  <2> QED BY <1>0, <2>1 DEF SoundDisp
<1>3. ASSUME NEW l \in disp.todo, disp.pc = "pick"
      PROVE  SoundDisp([disp EXCEPT !.todo = @ \ {l}])
  <2> DEFINE d == [disp EXCEPT !.todo = @ \ {l}]
  <2>1. d \in DispState /\ d.rows = disp.rows /\ d.pc = "pick"
    BY <1>0, <1>3 DEF DispState
  <2> QED BY <1>0, <2>1 DEF SoundDisp, Holding
<1>4. {"lost", "revoke"} \subseteq Pc /\ {"none", "stopped", "unregistered", "idle"} \subseteq Reason
  BY DEF Pc, Reason
<1>5. CASE UpdateNext
  <2>1. PICK l \in disp.todo :
          LET d == [disp EXCEPT !.todo = @ \ {l}, !.lease = l]
          IN  disp' = CASE inst[l] = "gone" -> [d EXCEPT !.pc = "lost"]
                        [] inst[l] = "stopped" -> [d EXCEPT !.pc = "revoke", !.reason = "stopped"]
                        [] OTHER -> [disp EXCEPT !.todo = @ \ {l}]
    BY <1>5 DEF UpdateNext
  <2>2. disp' \in {[disp EXCEPT !.todo = @ \ {l}, !.lease = l, !.pc = "lost", !.reason = disp.reason],
                   [disp EXCEPT !.todo = @ \ {l}, !.lease = l, !.pc = "revoke", !.reason = "stopped"],
                   [disp EXCEPT !.todo = @ \ {l}]}
    BY <1>0, <2>1 DEF DispState
  <2>3. disp.pc = "pick" /\ disp.reason \in Reason
    BY <1>0, <1>5 DEF UpdateNext, At, DispState
  <2>4. SoundDisp([disp EXCEPT !.todo = @ \ {l}, !.lease = l, !.pc = "lost", !.reason = disp.reason])
    BY <1>2, <1>4, <2>3, Zenon
  <2>5. SoundDisp([disp EXCEPT !.todo = @ \ {l}, !.lease = l, !.pc = "revoke", !.reason = "stopped"])
    BY <1>2, <1>4, Zenon
  <2>6. SoundDisp(disp')
    BY <1>3, <2>2, <2>3, <2>4, <2>5, Zenon
  <2> QED BY <1>0, <1>5, <2>6, DispatcherFrame DEF UpdateNext
<1>6. CASE UpdateFails
  BY <1>0, <1>6, StartSound, DispatcherFrame DEF UpdateFails
<1>7. CASE ReadLost
  <2>1. disp.lease \in Leases
    BY <1>0, <1>7 DEF ReadLost, At, SoundDisp, Holding
  <2>2. SoundDisp(disp')
    BY <1>0, <1>7, <2>1, VerdictSound DEF ReadLost
  <2> QED BY <1>0, <1>7, <2>2, DispatcherFrame DEF ReadLost
<1>8. CASE Spare
  <2>1. SoundDisp(disp')
    BY <1>3, <1>8 DEF Spare, At
  <2> QED BY <1>0, <1>8, <2>1, DispatcherFrame DEF Spare
<1>9. CASE GiveUpUnregistered
  <2>1. PICK l \in disp.todo : disp' = [disp EXCEPT !.todo = @ \ {l}, !.lease = l, !.pc = "revoke",
                                                  !.reason = "unregistered"]
    BY <1>9 DEF GiveUpUnregistered
  <2>2. SoundDisp(disp')
    BY <1>2, <1>4, <2>1, Zenon
  <2> QED BY <1>0, <1>9, <2>2, DispatcherFrame DEF GiveUpUnregistered
<1>10. CASE GiveUpIdle
  <2>1. PICK l \in disp.todo : disp' = [disp EXCEPT !.todo = @ \ {l}, !.lease = l, !.pc = "revoke",
                                                  !.reason = "idle"]
    BY <1>10 DEF GiveUpIdle
  <2>2. SoundDisp(disp')
    BY <1>2, <1>4, <2>1, Zenon
  <2> QED BY <1>0, <1>10, <2>2, DispatcherFrame DEF GiveUpIdle
<1>11. CASE DispatcherCrash
  <2>1. crashes' \in 0..MaxCrashes
    BY <1>11, BoundsAssumption DEF DispatcherCrash, TypeInv, TypeOK
  <2> QED BY <1>11, <2>1, StartSound
          DEF DispatcherCrash, StoreUnchanged, TypeInv, TypeOK, SoundDisp
<1> QED BY <1>1, <1>5, <1>6, <1>7, <1>8, <1>9, <1>10, <1>11

\* A lease renewal by a worker keeps the table well typed.
LEMMA RenewalTyped ==
    ASSUME leases \in [Leases -> LeaseRow], NEW l, NEW w \in Workers
    PROVE  [leases EXCEPT ![l] = RenewedLease(@, w)] \in [Leases -> LeaseRow]
  BY LeaseRowTyped

\* The coordinator's transactions.
LEMMA CoordinatorTyped ==
    ASSUME TypeInv, CoordinatorStep
    PROVE  TypeInv'
<1>0. /\ jobs \in [Jobs -> JobRow] /\ leases \in [Leases -> LeaseRow]
      /\ attached \in [Leases -> SUBSET Jobs] /\ heard \in BOOLEAN
      /\ wk \in [Workers -> WorkerState] /\ srv \in SrvState /\ SoundSrv(srv)
      /\ \A j \in Jobs : SoundRow(jobs[j])
  BY DEF TypeInv, TypeOK
<1>1. NoRequest \in SrvState /\ SoundSrv(NoRequest)
  BY NewRowsSound DEF NoRequest, SrvState, SrvOp, SoundSrv, SoundRow
\* What remains to show of a step: the five things it may write.
<1>2. ASSUME ProviderAndDispatcherUnchanged,
             jobs' \in [Jobs -> JobRow], \A j \in Jobs : SoundRow(jobs'[j]),
             leases' \in [Leases -> LeaseRow], attached' \in [Leases -> SUBSET Jobs],
             heard' \in BOOLEAN, wk' \in [Workers -> WorkerState], SoundSrv(srv')
      PROVE  TypeInv'
  BY <1>2 DEF TypeInv, TypeOK, ProviderAndDispatcherUnchanged, SoundDisp, SoundSrv
<1>3. ASSUME NEW j, NEW row, j \in Jobs => SoundRow(row), jobs' = [jobs EXCEPT ![j] = row]
      PROVE  jobs' \in [Jobs -> JobRow] /\ \A k \in Jobs : SoundRow(jobs'[k])
  BY <1>0, <1>3 DEF SoundRow
<1>4. ASSUME NEW j \in Jobs, Submit(j) PROVE TypeInv'
  <2>1. jobs' \in [Jobs -> JobRow] /\ \A k \in Jobs : SoundRow(jobs'[k])
    BY <1>3, <1>4, NewRowsSound DEF Submit
  <2> QED BY <1>0, <1>2, <1>4, <2>1 DEF Submit
<1>5. ASSUME NEW j \in Jobs, CancelRead(j) PROVE TypeInv'
  <2>1. srv' = [NoRequest EXCEPT !.op = "cancel", !.job = j, !.todo = LeasesOf(j) \cap OpenLeases]
    BY <1>5 DEF CancelRead
  <2>2. srv' \in SrvState /\ srv'.row = NoRequest.row /\ srv'.op = "cancel"
    BY <1>1, <2>1 DEF SrvState, SrvOp, LeasesOf
  <2>3. SoundSrv(srv')
    BY <1>1, <2>2 DEF SoundSrv
  <2> QED BY <1>0, <1>2, <1>5, <2>3 DEF CancelRead
<1>6. CASE CancelRevoke
  <2>1. PICK l \in srv.todo : /\ leases' = [leases EXCEPT ![l] = RevokedLease(@)]
                              /\ srv' = [srv EXCEPT !.todo = @ \ {l}]
    BY <1>6 DEF CancelRevoke
  <2>2. leases' \in [Leases -> LeaseRow]
    BY <1>0, <2>1, LeaseRowTyped DEF SrvState
  <2>3. srv' \in SrvState /\ srv'.row = srv.row /\ srv'.op = srv.op /\ srv'.w = srv.w
    BY <1>0, <2>1 DEF SrvState
  <2>4. SoundSrv(srv')
    BY <1>0, <2>3 DEF SoundSrv
  <2> QED BY <1>0, <1>2, <1>6, <2>2, <2>4 DEF CancelRevoke
<1>7. CASE CancelFinish
  <2>1. jobs' = [jobs EXCEPT ![srv.job] = WithStatus(jobs[srv.job], "failed")]
    BY <1>7 DEF CancelFinish
  <2>2. srv.job \in Jobs => SoundRow(WithStatus(jobs[srv.job], "failed"))
    BY <1>0, WithStatusSound DEF JobStatus
  <2>3. jobs' \in [Jobs -> JobRow] /\ \A k \in Jobs : SoundRow(jobs'[k])
    BY <1>3, <2>1, <2>2
  <2> QED BY <1>0, <1>1, <1>2, <1>7, <2>3 DEF CancelFinish, RequestDone
<1>8. ASSUME NEW j \in Jobs, CliCancel(j) PROVE TypeInv'
  <2>1. jobs' = [jobs EXCEPT ![j] = WithStatus(jobs[j], "failed")]
    BY <1>8 DEF CliCancel
  <2>2. SoundRow(WithStatus(jobs[j], "failed"))
    BY <1>0, WithStatusSound DEF JobStatus
  <2>3. jobs' \in [Jobs -> JobRow] /\ \A k \in Jobs : SoundRow(jobs'[k])
    BY <1>3, <2>1, <2>2
  <2> QED BY <1>0, <1>2, <1>8, <2>3 DEF CliCancel
<1>9. ASSUME NEW w \in Workers, Claim(w) PROVE TypeInv'
  <2>1. PICK claimed \in (SUBSET Queued) \ {{}} :
         /\ jobs' = [j \in Jobs |-> IF j \in claimed THEN ClaimedRow(jobs[j], w) ELSE jobs[j]]
         /\ attached' = [attached EXCEPT ![wk[w].lease] = @ \cup claimed]
         /\ srv' = [NoRequest EXCEPT !.op = "claimed", !.w = w, !.jobs = claimed]
    BY <1>9 DEF Claim
  <2>2. claimed \subseteq Jobs /\ \A j \in claimed : jobs[j].status = "queued"
    BY DEF Queued
  <2>3. ASSUME NEW j \in Jobs PROVE SoundRow(jobs'[j])
    <3>1. CASE j \in claimed
      <4>1. SoundRow(ClaimedRow(jobs[j], w))
        BY <1>0, <2>2, <3>1, ClaimedRowSound
      <4> QED BY <2>1, <3>1, <4>1
    <3>2. CASE j \notin claimed
      BY <1>0, <2>1, <3>2
    <3> QED BY <3>1, <3>2
  <2>4. jobs' \in [Jobs -> JobRow]
    <3>1. jobs' = [j \in Jobs |-> jobs'[j]]
      BY <2>1
    <3> QED BY <2>3, <3>1 DEF SoundRow
  <2>5. attached' \in [Leases -> SUBSET Jobs]
    BY <1>0, <2>1, <2>2
  <2>6. srv' \in SrvState /\ srv'.row = NoRequest.row /\ srv'.w = w
    BY <1>1, <2>1, <2>2 DEF SrvState, SrvOp
  <2>7. SoundSrv(srv')
    BY <1>1, <2>6 DEF SoundSrv
  <2>8. leases' \in [Leases -> LeaseRow]
    BY <1>0, <1>9, RenewalTyped DEF Claim
  <2> QED BY <1>0, <1>2, <1>9, <2>3, <2>4, <2>5, <2>7, <2>8 DEF Claim
<1>10. CASE ClaimAnswered
  <2>1. srv.w \in Workers /\ srv.jobs \in SUBSET Jobs
    BY <1>0, <1>10 DEF ClaimAnswered, SoundSrv, SrvState
  <2>2. leases' \in [Leases -> LeaseRow]
    BY <1>0, <1>10, <2>1, RenewalTyped DEF ClaimAnswered
  <2>3. wk' \in [Workers -> WorkerState]
    BY <1>0, <1>10, <2>1 DEF ClaimAnswered, WorkerState
  <2> QED BY <1>0, <1>1, <1>2, <1>10, <2>2, <2>3 DEF ClaimAnswered, RequestDone
<1>11. CASE ClaimUnanswered
  BY <1>0, <1>1, <1>2, <1>11 DEF ClaimUnanswered, RequestDone
<1>12. ASSUME NEW w \in Workers, Heartbeat(w) PROVE TypeInv'
  <2>1. leases' \in [Leases -> LeaseRow]
    BY <1>0, <1>12, RenewalTyped DEF Heartbeat
  <2> QED BY <1>0, <1>2, <1>12, <2>1 DEF Heartbeat
<1>13. ASSUME NEW w \in Workers, CallbackAuthorized(w) PROVE TypeInv'
  <2>1. wk[w].cur \in Jobs
    BY <1>0, <1>13 DEF CallbackAuthorized, WorkerState
  <2>2. PICK op \in {"running", "progress", "complete", "fail"} :
          srv' = [NoRequest EXCEPT !.op = op, !.w = w, !.job = wk[w].cur,
                    !.row = IF op = "progress" THEN jobs[wk[w].cur] ELSE NoJobRow]
    BY <1>13 DEF CallbackAuthorized
  <2>3. SoundRow(jobs[wk[w].cur]) /\ SoundRow(NoJobRow)
    BY <1>0, <2>1, NewRowsSound
  <2>4. srv' \in SrvState /\ srv'.w = w /\ srv'.row \in {jobs[wk[w].cur], NoJobRow}
    BY <1>1, <2>1, <2>2, <2>3 DEF SrvState, SrvOp, SoundRow
  <2>5. SoundSrv(srv')
    BY <2>3, <2>4 DEF SoundSrv
  <2>6. leases' \in [Leases -> LeaseRow]
    BY <1>0, <1>13, RenewalTyped DEF CallbackAuthorized
  <2> QED BY <1>0, <1>2, <1>13, <2>5, <2>6 DEF CallbackAuthorized
<1>14. ASSUME NEW w \in Workers, CallbackRefused(w) PROVE TypeInv'
  <2>1. wk' \in [Workers -> WorkerState]
    BY <1>0, <1>14 DEF CallbackRefused, WorkerState
  <2> QED BY <1>0, <1>2, <1>14, <2>1 DEF CallbackRefused
<1>15. CASE CallbackApplied \/ CallbackUnanswered
  <2>1. Callback /\ jobs' = [jobs EXCEPT ![srv.job] = CallbackRow]
    BY <1>15 DEF CallbackApplied, CallbackUnanswered
  <2>2. ASSUME srv.job \in Jobs PROVE SoundRow(CallbackRow)
    <3>1. SoundRow(jobs[srv.job]) /\ SoundRow(srv.row)
      BY <1>0, <2>2 DEF SoundSrv
    <3>2. /\ SoundRow(WithStatus(jobs[srv.job], "running"))
          /\ SoundRow(WithStatus(jobs[srv.job], "completed"))
          /\ SoundRow(FailedRow(jobs[srv.job]))
      BY <3>1, WithStatusSound, FailedRowSound DEF JobStatus
    <3> QED BY <2>1, <3>1, <3>2 DEF CallbackRow, Callback
  <2>3. jobs' \in [Jobs -> JobRow] /\ \A k \in Jobs : SoundRow(jobs'[k])
    BY <1>3, <2>1, <2>2
  <2>4. wk' \in [Workers -> WorkerState]
    BY <1>0, <1>15 DEF CallbackApplied, CallbackUnanswered, WorkerState
  <2>5. /\ leases' = leases /\ attached' = attached /\ heard' = heard /\ srv' = NoRequest
        /\ ProviderAndDispatcherUnchanged
    BY <1>15 DEF CallbackApplied, CallbackUnanswered, RequestDone
  <2> QED BY <1>0, <1>1, <1>2, <2>3, <2>4, <2>5
<1> QED BY <1>4, <1>5, <1>6, <1>7, <1>8, <1>9, <1>10, <1>11, <1>12, <1>13, <1>14, <1>15
        DEF CoordinatorStep

\* The machines, the workers and the clock.
LEMMA MachineTyped ==
    ASSUME TypeInv, MachineStep
    PROVE  TypeInv'
<1>0. /\ leases \in [Leases -> LeaseRow] /\ inst \in [Leases -> InstState]
      /\ wk \in [Workers -> WorkerState] /\ heard \in BOOLEAN
  BY DEF TypeInv, TypeOK
<1>1. Off \in WorkerState
  BY DEF Off, WorkerState
<1>2. ASSUME OnlyMachinesChange, inst' \in [Leases -> InstState], wk' \in [Workers -> WorkerState]
      PROVE  TypeInv'
  BY <1>2 DEF TypeInv, TypeOK, OnlyMachinesChange, SoundDisp, SoundSrv
<1>3. ASSUME ClockTick, leases' \in [Leases -> LeaseRow], heard' \in BOOLEAN
      PROVE  TypeInv'
  BY <1>3 DEF TypeInv, TypeOK, ClockTick, SoundDisp, SoundSrv
<1>4. ASSUME OnlyWorkersChange, wk' \in [Workers -> WorkerState]
      PROVE  TypeInv'
  BY <1>0, <1>2, <1>4 DEF OnlyWorkersChange, OnlyMachinesChange
<1>5. ASSUME NEW l \in Leases, ResourceAppears(l) \/ ResourceStops(l) \/ ResourceLost(l)
      PROVE  TypeInv'
  <2>1. inst' \in [Leases -> InstState]
    BY <1>0, <1>5 DEF ResourceAppears, ResourceStops, ResourceLost, InstState
  <2>2. wk' \in [Workers -> WorkerState]
    BY <1>0, <1>1, <1>5 DEF ResourceAppears, ResourceStops, ResourceLost, OffOn
  <2> QED BY <1>2, <1>5, <2>1, <2>2 DEF ResourceAppears, ResourceStops, ResourceLost
<1>6. ASSUME NEW l \in Leases, LeaseExpires(l) \/ DeadlinePasses(l)
      PROVE  TypeInv'
  <2>1. /\ [leases[l] EXCEPT !.fresh = FALSE] \in LeaseRow
        /\ [leases[l] EXCEPT !.over = TRUE] \in LeaseRow
    BY <1>0 DEF LeaseRow
  <2>2. leases' \in [Leases -> LeaseRow]
    BY <1>0, <1>6, <2>1 DEF LeaseExpires, DeadlinePasses
  <2> QED BY <1>0, <1>3, <1>6, <2>2 DEF LeaseExpires, DeadlinePasses
<1>7. ASSUME NEW w \in Workers, NextJob(w)
      PROVE  TypeInv'
  <2>1. PICK j \in wk[w].batch, cur \in Jobs \cup {NoJob} :
           wk' = [wk EXCEPT ![w].batch = @ \ {j}, ![w].cur = cur]
    BY <1>0, <1>7 DEF NextJob, WorkerState
  <2>2. wk' \in [Workers -> WorkerState]
    BY <1>0, <2>1 DEF WorkerState
  <2> QED BY <1>4, <1>7, <2>2 DEF NextJob
<1>8. ASSUME NEW w \in Workers, StopCancelled(w) \/ WorkerExits(w)
      PROVE  TypeInv'
  <2>1. wk' \in [Workers -> WorkerState]
    BY <1>0, <1>1, <1>8 DEF StopCancelled, WorkerExits
  <2> QED BY <1>4, <1>8, <2>1 DEF StopCancelled, WorkerExits
<1>9. ASSUME NEW w \in Workers, NEW l \in Leases, Boot(w, l)
      PROVE  TypeInv'
  <2>1. wk' \in [Workers -> WorkerState]
    BY <1>0, <1>9 DEF Boot, WorkerState
  <2> QED BY <1>4, <1>9, <2>1 DEF Boot
<1>10. CASE HeartbeatAges
  BY <1>0, <1>3, <1>10 DEF HeartbeatAges
<1> QED BY <1>5, <1>6, <1>7, <1>8, <1>9, <1>10 DEF MachineStep

\* The empty deployment satisfies the type invariant.
LEMMA InitTyped == Init => TypeInv
<1> SUFFICES ASSUME Init PROVE TypeInv
  OBVIOUS
<1>1. SoundRow(NoJobRow) /\ NoJobRow \in JobRow /\ NoLeaseRow \in LeaseRow
  BY NewRowsSound, NewLeaseTyped DEF SoundRow
<1>2. SoundDisp(AtRest) /\ AtRest \in DispState
  BY StartSound DEF SoundDisp
<1>3. NoRequest \in SrvState /\ SoundSrv(NoRequest)
  BY <1>1 DEF NoRequest, SrvState, SrvOp, SoundSrv
<1>4. crashes \in 0..MaxCrashes
  BY BoundsAssumption DEF Init
<1>5. wk \in [Workers -> WorkerState] /\ inst \in [Leases -> InstState]
  BY DEF Init, Off, WorkerState, InstState
<1> QED BY <1>1, <1>2, <1>3, <1>4, <1>5 DEF Init, TypeInv, TypeOK

\* A step that changes nothing keeps the type invariant.
LEMMA StutterTyped ==
    ASSUME TypeInv, UNCHANGED vars
    PROVE  TypeInv'
  BY DEF TypeInv, TypeOK, vars, SoundDisp, SoundSrv

\* Every step keeps the type invariant.
LEMMA TypePreserved ==
    ASSUME TypeInv, [Next]_vars
    PROVE  TypeInv'
<1>1. CASE DispatcherStep \/ DispatcherCrash
  BY <1>1, ReconcileTyped, TerminateTyped, LaunchTyped, LoopsTyped DEF DispatcherStep
<1>2. CASE CoordinatorStep
  BY <1>2, CoordinatorTyped
<1>3. CASE MachineStep
  BY <1>3, MachineTyped
<1>4. CASE UNCHANGED vars
  BY <1>4, StutterTyped
<1> QED BY <1>1, <1>2, <1>3, <1>4 DEF Next

\* The type invariant holds in every reachable state of every deployment.
THEOREM TypeInvariant == Spec => []TypeInv
<1>1. Init => TypeInv
  BY InitTyped
<1>2. TypeInv /\ [Next]_vars => TypeInv'
  BY TypePreserved
<1> QED BY <1>1, <1>2, PTL DEF Spec

\* Every table row and every local variable of the processes keeps its shape,
\* however the dispatcher, the coordinator and the machines interleave.
THEOREM TypeCorrect == Spec => []TypeOK
<1>1. TypeInv => TypeOK
  BY DEF TypeInv
<1> QED BY <1>1, TypeInvariant, PTL

\* However late a stale row is written back, and whoever queues a job again
\* (fail_job after a worker's report or after a lost machine), a job waits in
\* the queue only with an attempt left: retries stop.
THEOREM RetriesAreBounded == Spec => []QueuedHasAttempt
<1>1. TypeInv => QueuedHasAttempt
  BY DEF TypeInv, SoundRow, QueuedHasAttempt
<1> QED BY <1>1, TypeInvariant, PTL
=============================================================================
