--------------------------- MODULE Rental_proofs ---------------------------
(***************************************************************************)
(* Theorems about the dispatcher and the workers on top of the types.      *)
(*                                                                         *)
(* Money: a bound lease is closed only when its resource is gone, no two   *)
(* leases are open at once, no live resource is left without an open lease,*)
(* and the control plane implements the promise of BillingClaim.           *)
(*                                                                         *)
(* Work: a job is never in the hands of two machines, the worker that holds*)
(* a job is traceable through the leases the job is attached to, and a lease*)
(* never gets authority back.                                              *)
(***************************************************************************)
EXTENDS LeaseControl_proofs

-----------------------------------------------------------------------------
(* Money: the inductive invariant *)

\* What the store and the provider together satisfy.
StoreInv ==
    /\ BoundClosedMeansGone
    /\ OneRental
    /\ LateCreation \/ (LiveMeansOpen /\ \A l \in Leases : inst[l] # "requested")
    /\ \A l \in Leases : /\ leases[l].status = "none" => inst[l] = "absent" /\ ~leases[l].bound
                         /\ leases[l].bound => inst[l] # "absent"

\* A resource that the dispatcher found gone, and whose lease it is about to
\* close, is still gone.
LossIsKnown(d) ==
    /\ d.pc \in {"lost", "confirm"} \/ d.reason = "lost" => inst[d.lease] = "gone"
    /\ d.reason = "lost" => d.pc \in {"readJobs", "requeue", "confirm"}

\* A launch acts for an open lease that has no resource yet.
LaunchIsFresh(d) ==
    /\ d.pc \in {"restamp", "launch"} =>
         /\ inst[d.lease] = "absent"
         /\ leases[d.lease].status \in OpenStatus
         /\ ~leases[d.lease].bound
    /\ d.pc = "bind" => inst[d.lease] # "absent"

\* From the launch decision to the end of the launch no other lease is open.
LaunchIsAlone(d) ==
    /\ d.pc \in {"stamp", "refuse", "lease"} => OpenLeases = {}
    /\ d.pc \in {"restamp", "launch"} => OpenLeases \subseteq {d.lease}
    /\ d.pc \in {"list", "bind", "closeUnbound"} /\ d.phase = "launch"
         => OpenLeases \subseteq {d.lease}

\* An unbound lease is closed only when its resource is not running.
UnlistedIsNotLive(d) == LateCreation \/ (d.pc = "closeUnbound" => inst[d.lease] # "live")

\* Positions at which the record held in memory may say that the lease is bound.
Judging == {"inspect", "revoke", "readJobs", "fail", "requeue", "confirm", "attempt",
            "terminate", "verify"}

\* The lease in hand has a record, and a resource is terminated for a lease
\* that has one.
HandIsReal(d) ==
    /\ \A l \in d.todo : leases[l].status # "none"
    /\ d.pc \in Holding => leases[d.lease].status # "none"
    /\ d.snap.bound => d.pc \in Judging /\ inst[d.lease] # "absent"
    /\ d.pc \in {"attempt", "terminate", "verify"} => inst[d.lease] # "absent"

HandInv(d) ==
    LossIsKnown(d) /\ LaunchIsFresh(d) /\ LaunchIsAlone(d) /\ UnlistedIsNotLive(d) /\ HandIsReal(d)

RentalInv ==
    /\ TypeInv
    /\ StoreInv
    /\ HandInv(disp)
    /\ \A l \in mine : leases[l].status # "none"

-----------------------------------------------------------------------------
(* Money: the other processes *)

\* Two records of a lease that are both not yet created, both open or both closed,
\* and both bound or both unbound.
SameStanding(r, s) ==
    /\ r.bound = s.bound
    /\ r.status = "none" <=> s.status = "none"
    /\ r.status \in OpenStatus <=> s.status \in OpenStatus
    /\ r.status = "closed" <=> s.status = "closed"

\* Revocation, a termination attempt and a renewal keep the standing of a lease.
LEMMA StandingKept ==
    ASSUME NEW row \in LeaseRow
    PROVE  /\ SameStanding(row, row)
           /\ SameStanding(row, RevokedLease(row))
           /\ SameStanding(row, AttemptedLease(row))
           /\ \A w \in Workers : SameStanding(row, RenewedLease(row, w))
<1>1. SameStanding(row, row)
  BY DEF SameStanding
<1>2. SameStanding(row, RevokedLease(row))
  BY DEF SameStanding, RevokedLease, OpenStatus, Revoked, LeaseRow
<1>3. SameStanding(row, AttemptedLease(row))
  BY DEF SameStanding, AttemptedLease, OpenStatus, LeaseRow
<1>4. ASSUME NEW w \in Workers PROVE SameStanding(row, RenewedLease(row, w))
  BY DEF SameStanding, RenewedLease, LeaseRow
<1> QED BY <1>1, <1>2, <1>3, <1>4

\* A resource that goes its own way: it appears after a request that was given
\* up, stops, or is lost.
OwnWay(old, new) ==
    \/ new = old
    \/ old = "requested" /\ new = "live"
    \/ old = "live" /\ new = "stopped"
    \/ old \in {"live", "stopped"} /\ new = "gone"

\* Neither the coordinator nor the machines nor the clock touch the dispatcher,
\* open or close a lease, bind it, or create a resource of their own accord.
LEMMA Environment ==
    ASSUME TypeInv, CoordinatorStep \/ MachineStep
    PROVE  /\ disp' = disp /\ mine' = mine
           /\ \A l \in Leases : SameStanding(leases[l], leases'[l])
           /\ \A l \in Leases : OwnWay(inst[l], inst'[l])
<1>0. /\ leases \in [Leases -> LeaseRow] /\ inst \in [Leases -> InstState]
      /\ srv.op = "claimed" => srv.w \in Workers
  BY DEF TypeInv, TypeOK, SoundSrv
<1>1. ASSUME leases' = leases
      PROVE  \A l \in Leases : SameStanding(leases[l], leases'[l])
  BY <1>0, <1>1, StandingKept
<1>2. ASSUME NEW k, NEW row, leases' = [leases EXCEPT ![k] = row],
             k \in Leases => SameStanding(leases[k], row)
      PROVE  \A l \in Leases : SameStanding(leases[l], leases'[l])
  BY <1>0, <1>2, StandingKept
<1>3. ASSUME NEW k, NEW w \in Workers, leases' = [leases EXCEPT ![k] = RenewedLease(@, w)]
      PROVE  \A l \in Leases : SameStanding(leases[l], leases'[l])
  BY <1>0, <1>2, <1>3, StandingKept
<1>4. CASE CoordinatorStep
  <2>1. UNCHANGED <<inst, disp, mine>>
    BY <1>4 DEF CoordinatorStep, Submit, CancelRead, CancelRevoke, CancelFinish, CliCancel, Claim,
         ClaimAnswered, ClaimUnanswered, Heartbeat, CallbackAuthorized, CallbackRefused,
         CallbackApplied, CallbackUnanswered, ProviderAndDispatcherUnchanged
  <2>2. \/ leases' = leases
        \/ \E l \in Leases : leases' = [leases EXCEPT ![l] = RevokedLease(@)]
        \/ \E w \in Workers : \E l : leases' = [leases EXCEPT ![l] = RenewedLease(@, w)]
    <3>1. CASE CancelRevoke
      <4>1. srv.todo \subseteq Leases
        BY DEF TypeInv, TypeOK, SrvState
      <4> QED BY <3>1, <4>1 DEF CancelRevoke
    <3>2. CASE ClaimAnswered
      BY <1>0, <3>2 DEF ClaimAnswered
    <3>3. ASSUME NEW w \in Workers, Claim(w) \/ Heartbeat(w) \/ CallbackAuthorized(w)
          PROVE  \E l : leases' = [leases EXCEPT ![l] = RenewedLease(@, w)]
      BY <3>3 DEF Claim, Heartbeat, CallbackAuthorized
    <3>4. CASE leases' = leases
      BY <3>4
    <3> QED BY <1>4, <3>1, <3>2, <3>3, <3>4
            DEF CoordinatorStep, Submit, CancelRead, CancelFinish, CliCancel, ClaimUnanswered,
                CallbackRefused, CallbackApplied, CallbackUnanswered
  <2>3. \A l \in Leases : SameStanding(leases[l], leases'[l])
    <3>1. CASE \E l \in Leases : leases' = [leases EXCEPT ![l] = RevokedLease(@)]
      BY <1>0, <1>2, <3>1, StandingKept
    <3> QED BY <1>1, <1>3, <2>2, <3>1
  <2> QED BY <2>1, <2>3 DEF OwnWay
<1>5. CASE MachineStep
  <2>1. disp' = disp /\ mine' = mine
    BY <1>5 DEF MachineStep, ResourceAppears, ResourceStops, ResourceLost, Boot, NextJob,
         StopCancelled, WorkerExits, LeaseExpires, DeadlinePasses, HeartbeatAges,
         OnlyMachinesChange, OnlyWorkersChange, ClockTick
  <2>2. ASSUME NEW l \in Leases, ResourceAppears(l) \/ ResourceStops(l) \/ ResourceLost(l)
        PROVE  leases' = leases /\ \A k \in Leases : OwnWay(inst[k], inst'[k])
    BY <1>0, <2>2 DEF ResourceAppears, ResourceStops, ResourceLost, OnlyMachinesChange, OwnWay
  <2>3. ASSUME NEW l \in Leases, LeaseExpires(l) \/ DeadlinePasses(l)
        PROVE  inst' = inst /\ \A k \in Leases : SameStanding(leases[k], leases'[k])
    BY <1>0, <2>3 DEF LeaseExpires, DeadlinePasses, ClockTick, SameStanding, LeaseRow
  <2>4. CASE inst' = inst /\ leases' = leases
    BY <1>1, <2>1, <2>4 DEF OwnWay
  <2>5. \/ inst' = inst /\ leases' = leases
        \/ \E l \in Leases : ResourceAppears(l) \/ ResourceStops(l) \/ ResourceLost(l)
        \/ \E l \in Leases : LeaseExpires(l) \/ DeadlinePasses(l)
    BY <1>5 DEF MachineStep, NextJob, StopCancelled, WorkerExits, Boot, HeartbeatAges,
         OnlyWorkersChange, ClockTick
  <2> QED BY <1>1, <2>1, <2>2, <2>3, <2>4, <2>5 DEF OwnWay
<1> QED BY <1>4, <1>5

\* The rental invariant survives whatever the other processes do.
LEMMA EnvironmentRental ==
    ASSUME RentalInv, CoordinatorStep \/ MachineStep
    PROVE  RentalInv'
<1>1. TypeInv'
  BY CoordinatorTyped, MachineTyped DEF RentalInv
<1>2. /\ disp' = disp /\ mine' = mine
      /\ \A l \in Leases : SameStanding(leases[l], leases'[l])
      /\ \A l \in Leases : OwnWay(inst[l], inst'[l])
  BY Environment DEF RentalInv
<1>3. OpenLeases' = OpenLeases
  BY <1>2 DEF OpenLeases, SameStanding
<1>4. StoreInv'
  <2>1. BoundClosedMeansGone' /\ OneRental'
    BY <1>2, <1>3 DEF RentalInv, StoreInv, BoundClosedMeansGone, OneRental, SameStanding, OwnWay
  <2>2. (LateCreation \/ (LiveMeansOpen /\ \A l \in Leases : inst[l] # "requested"))'
    BY <1>2 DEF RentalInv, StoreInv, LiveMeansOpen, SameStanding, OwnWay
  <2>3. \A l \in Leases : /\ leases'[l].status = "none" => inst'[l] = "absent" /\ ~leases'[l].bound
                          /\ leases'[l].bound => inst'[l] # "absent"
    BY <1>2 DEF RentalInv, StoreInv, SameStanding, OwnWay
  <2> QED BY <2>1, <2>2, <2>3 DEF StoreInv
<1>5. (\A l \in mine : leases[l].status # "none")'
  BY <1>2 DEF RentalInv, TypeInv, TypeOK, SameStanding
<1>6. disp.todo \subseteq Leases /\ (disp.pc \in Holding => disp.lease \in Leases)
  BY DEF RentalInv, TypeInv, TypeOK, DispState, SoundDisp
<1>7. LossIsKnown(disp)' /\ LaunchIsFresh(disp)' /\ UnlistedIsNotLive(disp)'
  BY <1>2, <1>6 DEF RentalInv, StoreInv, HandInv, LossIsKnown, LaunchIsFresh, UnlistedIsNotLive,
       Holding, SameStanding, OwnWay
<1>8. LaunchIsAlone(disp)'
  BY <1>2, <1>3 DEF RentalInv, HandInv, LaunchIsAlone
<1>9. HandIsReal(disp)'
  BY <1>2, <1>6 DEF RentalInv, HandInv, HandIsReal, Holding, Judging, SameStanding, OwnWay
<1> QED BY <1>1, <1>4, <1>5, <1>7, <1>8, <1>9 DEF RentalInv, HandInv

-----------------------------------------------------------------------------
(* Money: the dispatcher *)

\* A dispatcher step that leaves the provider alone, opens and closes nothing,
\* and ends in a memory that fits the state it was taken in.
LEMMA QuietStep ==
    ASSUME RentalInv, TypeInv', inst' = inst,
           \A l \in Leases : SameStanding(leases[l], leases'[l]),
           HandInv(disp'), \A l \in mine' : leases[l].status # "none"
    PROVE  RentalInv'
<1>1. OpenLeases' = OpenLeases
  BY DEF OpenLeases, SameStanding
<1>2. StoreInv'
  <2>1. BoundClosedMeansGone' /\ OneRental'
    BY <1>1 DEF RentalInv, StoreInv, BoundClosedMeansGone, OneRental, SameStanding
  <2>2. (LateCreation \/ (LiveMeansOpen /\ \A l \in Leases : inst[l] # "requested"))'
    BY DEF RentalInv, StoreInv, LiveMeansOpen, SameStanding
  <2>3. \A l \in Leases : /\ leases'[l].status = "none" => inst'[l] = "absent" /\ ~leases'[l].bound
                          /\ leases'[l].bound => inst'[l] # "absent"
    BY DEF RentalInv, StoreInv, SameStanding
  <2> QED BY <2>1, <2>2, <2>3 DEF StoreInv
<1>3. /\ mine' \subseteq Leases /\ disp'.todo \subseteq Leases
      /\ disp'.pc \in Holding => disp'.lease \in Leases
  BY DEF TypeInv, TypeOK, DispState, SoundDisp
<1>4. LossIsKnown(disp)' /\ LaunchIsFresh(disp)' /\ UnlistedIsNotLive(disp)'
  BY <1>3 DEF HandInv, LossIsKnown, LaunchIsFresh, UnlistedIsNotLive, Holding, SameStanding
<1>5. LaunchIsAlone(disp)'
  BY <1>1 DEF HandInv, LaunchIsAlone
<1>6. HandIsReal(disp)'
  BY <1>3 DEF HandInv, HandIsReal, SameStanding
<1>7. (\A l \in mine : leases[l].status # "none")'
  BY <1>3 DEF SameStanding
<1> QED BY <1>2, <1>4, <1>5, <1>6, <1>7 DEF RentalInv, HandInv

\* A memory between two leases.
LEMMA BetweenLeases ==
    ASSUME NEW d, d.pc \in {"tick", "pick", "decide"}, d.reason # "lost", ~d.snap.bound,
           \A l \in d.todo : leases[l].status # "none"
    PROVE  HandInv(d)
  BY DEF HandInv, LossIsKnown, LaunchIsFresh, LaunchIsAlone, UnlistedIsNotLive, HandIsReal, Holding, Judging

\* A memory with a lease in hand, at a position about which nothing else is said.
LEMMA LeaseInHand ==
    ASSUME NEW d, d.pc \in {"inspect", "revoke", "readJobs", "fail", "requeue"},
           d.reason = "lost" => inst[d.lease] = "gone" /\ d.pc \in {"readJobs", "requeue"},
           d.snap.bound => inst[d.lease] # "absent",
           leases[d.lease].status # "none",
           \A l \in d.todo : leases[l].status # "none"
    PROVE  HandInv(d)
  BY DEF HandInv, LossIsKnown, LaunchIsFresh, LaunchIsAlone, UnlistedIsNotLive, HandIsReal, Holding, Judging

\* A memory with a resource to terminate, or found gone.
LEMMA ResourceInHand ==
    ASSUME NEW d, d.pc \in {"attempt", "terminate", "verify", "confirm", "lost"},
           d.pc \in {"confirm", "lost"} => inst[d.lease] = "gone",
           d.reason = "lost" => d.pc = "confirm",
           d.pc = "lost" => ~d.snap.bound,
           inst[d.lease] # "absent",
           leases[d.lease].status # "none",
           \A l \in d.todo : leases[l].status # "none"
    PROVE  HandInv(d)
  BY DEF HandInv, LossIsKnown, LaunchIsFresh, LaunchIsAlone, UnlistedIsNotLive, HandIsReal, Holding, Judging

\* The start of a loop, and the next turn of one.
LEMMA LoopHand ==
    ASSUME RentalInv
    PROVE  /\ HandInv(AtRest)
           /\ HandInv(NextLease)
           /\ \A phase, todo : (\A l \in todo : leases[l].status # "none")
                                 => HandInv(StartPhase(phase, todo))
<1>1. HandInv(AtRest)
  BY BetweenLeases DEF AtRest, NoLeaseRow
<1>2. HandInv(NextLease)
  <2>1. /\ NextLease.pc = "pick" /\ NextLease.reason = "none" /\ NextLease.snap = NoLeaseRow
        /\ NextLease.todo = disp.todo
    BY DEF NextLease, RentalInv, TypeInv, TypeOK, DispState
  <2>2. \A l \in disp.todo : leases[l].status # "none"
    BY DEF RentalInv, HandInv, HandIsReal
  <2> QED BY <2>1, <2>2, BetweenLeases DEF NoLeaseRow
<1>3. ASSUME NEW phase, NEW todo, \A l \in todo : leases[l].status # "none"
      PROVE  HandInv(StartPhase(phase, todo))
  <2>1. /\ StartPhase(phase, todo).pc = "pick" /\ StartPhase(phase, todo).reason = "none"
        /\ StartPhase(phase, todo).snap = NoLeaseRow /\ StartPhase(phase, todo).todo = todo
    BY DEF StartPhase, AtRest
  <2> QED BY <1>3, <2>1, BetweenLeases DEF NoLeaseRow
<1> QED BY <1>1, <1>2, <1>3

\* The termination of a lease that is not lost.
LEMMA TerminatingHand ==
    ASSUME RentalInv, NEW d \in DispState, d.todo = disp.todo, d.reason # "lost",
           leases[d.lease].status # "none", d.snap.bound => inst[d.lease] # "absent"
    PROVE  HandInv(Terminating(d))
<1>1. CASE ~d.snap.bound
  BY <1>1, LoopHand DEF Terminating
<1>2. CASE d.snap.bound
  <2> DEFINE e == [d EXCEPT !.pc = "attempt"]
  <2>1. /\ e.pc = "attempt" /\ e.lease = d.lease /\ e.reason = d.reason /\ e.todo = disp.todo
    BY DEF DispState
  <2>2. \A l \in disp.todo : leases[l].status # "none"
    BY DEF RentalInv, HandInv, HandIsReal
  <2>3. HandInv(e)
    <3> HIDE DEF e
    <3> QED BY <1>2, <2>1, <2>2, ResourceInHand
  <2> QED BY <1>2, <2>3 DEF Terminating
<1> QED BY <1>1, <1>2

\* What reconciliation decides after it has asked the provider.
LEMMA VerdictHand ==
    ASSUME RentalInv, NEW row \in LeaseRow, leases[disp.lease].status # "none",
           row.bound => inst[disp.lease] # "absent"
    PROVE  /\ \A seen : HandInv(Judged(row, seen))
           /\ inst[disp.lease] = "gone" => HandInv(Lost(row))
<1>0. disp \in DispState /\ \A l \in disp.todo : leases[l].status # "none"
  BY DEF RentalInv, TypeInv, TypeOK, HandInv, HandIsReal
<1>1. ASSUME NEW seen PROVE HandInv(Judged(row, seen))
  <2> DEFINE reason == CloseReason(row, seen)
             d == [disp EXCEPT !.snap = row, !.reason = reason]
             e == [d EXCEPT !.pc = "revoke"]
  <2>1. reason \in Reason /\ reason # "lost"
    BY DEF CloseReason, Reason
  <2>2. /\ d \in DispState /\ d.todo = disp.todo /\ d.reason = reason /\ d.lease = disp.lease
        /\ d.snap = row
    BY <1>0, <2>1 DEF DispState
  <2>3. /\ e.pc = "revoke" /\ e.todo = disp.todo /\ e.reason = reason /\ e.lease = disp.lease
        /\ e.snap = row
    BY <1>0, <2>2 DEF DispState
  <2>4. Judged(row, seen) \in {NextLease, Terminating(d), e}
    BY DEF Judged
  <2>5. HandInv(e)
    <3> HIDE DEF e, d, reason
    <3> QED BY <1>0, <2>1, <2>3, LeaseInHand
  <2>6. HandInv(Terminating(d)) /\ HandInv(NextLease)
    <3> HIDE DEF d, reason
    <3> QED BY <2>1, <2>2, TerminatingHand, LoopHand
  <2> QED BY <2>4, <2>5, <2>6
<1>2. ASSUME inst[disp.lease] = "gone" PROVE HandInv(Lost(row))
  <2>1. /\ Lost(row).pc \in {"readJobs", "confirm"} /\ Lost(row).lease = disp.lease
        /\ Lost(row).todo = disp.todo
    BY <1>0 DEF Lost, DispState
  <2>2. CASE Lost(row).pc = "readJobs"
    BY <1>0, <1>2, <2>1, <2>2, LeaseInHand
  <2>3. CASE Lost(row).pc = "confirm"
    BY <1>0, <1>2, <2>1, <2>3, ResourceInHand
  <2> QED BY <2>1, <2>2, <2>3
<1> QED BY <1>1, <1>2

\* The loops over the jobs of a lease.
LEMMA AfterJobsHand ==
    ASSUME RentalInv, disp.pc \in {"readJobs", "requeue", "fail"}, NEW todo \in SUBSET Jobs
    PROVE  HandInv(AfterJobs([disp EXCEPT !.jobs = todo]))
<1> DEFINE d == [disp EXCEPT !.jobs = todo]
           pc == IF d.reason = "lost" THEN "requeue" ELSE "fail"
           loop == [d EXCEPT !.pc = pc]
           done == [d EXCEPT !.pc = "confirm"]
<1>1. /\ disp \in DispState /\ leases[disp.lease].status # "none"
      /\ \A l \in disp.todo : leases[l].status # "none"
      /\ disp.snap.bound => inst[disp.lease] # "absent"
      /\ disp.reason = "lost" => inst[disp.lease] = "gone"
  BY DEF RentalInv, TypeInv, TypeOK, HandInv, HandIsReal, LossIsKnown, Holding
<1>2. /\ d \in DispState /\ d.lease = disp.lease /\ d.snap = disp.snap /\ d.todo = disp.todo
      /\ d.reason = disp.reason
  BY <1>1 DEF DispState
<1>3. /\ loop.pc = pc /\ loop.lease = disp.lease /\ loop.snap = disp.snap /\ loop.todo = disp.todo
      /\ loop.reason = disp.reason
      /\ done.pc = "confirm" /\ done.lease = disp.lease /\ done.todo = disp.todo
      /\ done.reason = disp.reason
  BY <1>2 DEF DispState
<1>4. HandInv(loop)
  <2>1. pc \in {"requeue", "fail"} /\ (disp.reason = "lost" => pc = "requeue")
    BY <1>2
  <2> HIDE DEF loop, pc
  <2> QED BY <1>1, <1>3, <2>1, LeaseInHand
<1>5. ASSUME disp.reason = "lost" PROVE HandInv(done)
  <2> HIDE DEF done
  <2> QED BY <1>1, <1>3, <1>5, ResourceInHand
<1>6. ASSUME disp.reason # "lost" PROVE HandInv(Terminating(d))
  <2> HIDE DEF d
  <2> QED BY <1>1, <1>2, <1>6, TerminatingHand
<1>7. \/ AfterJobs(d) = loop
      \/ disp.reason = "lost" /\ AfterJobs(d) = done
      \/ disp.reason # "lost" /\ AfterJobs(d) = Terminating(d)
  BY <1>2 DEF AfterJobs
<1> QED BY <1>4, <1>5, <1>6, <1>7

\* Facts about the lease in hand that every step uses.
LEMMA InHand ==
    ASSUME RentalInv
    PROVE  /\ disp \in DispState /\ leases \in [Leases -> LeaseRow]
           /\ inst \in [Leases -> InstState] /\ mine \subseteq Leases
           /\ \A l \in Leases : SameStanding(leases[l], leases[l])
           /\ \A l \in disp.todo : leases[l].status # "none"
           /\ \A l \in mine : leases[l].status # "none"
           /\ disp.pc \in Holding => /\ disp.lease \in Leases
                                     /\ leases[disp.lease] \in LeaseRow
                                     /\ leases[disp.lease].status # "none"
                                     /\ leases[disp.lease].bound => inst[disp.lease] # "absent"
           /\ disp.snap.bound => inst[disp.lease] # "absent"
<1>1. /\ disp \in DispState /\ leases \in [Leases -> LeaseRow]
      /\ inst \in [Leases -> InstState] /\ mine \subseteq Leases
      /\ disp.pc \in Holding => disp.lease \in Leases
  BY DEF RentalInv, TypeInv, TypeOK, SoundDisp
<1>2. \A l \in Leases : SameStanding(leases[l], leases[l])
  BY <1>1, StandingKept
<1>3. /\ \A l \in disp.todo : leases[l].status # "none"
      /\ \A l \in mine : leases[l].status # "none"
      /\ disp.pc \in Holding => leases[disp.lease].status # "none"
      /\ disp.snap.bound => inst[disp.lease] # "absent"
  BY DEF RentalInv, HandInv, HandIsReal
<1>4. disp.pc \in Holding => /\ leases[disp.lease] \in LeaseRow
                             /\ leases[disp.lease].bound => inst[disp.lease] # "absent"
  BY <1>1 DEF RentalInv, StoreInv
<1> QED BY <1>1, <1>2, <1>3, <1>4

\* A step that only moves the dispatcher, or writes jobs.
LEMMA MoveStep ==
    ASSUME RentalInv, TypeInv', inst' = inst, leases' = leases, HandInv(disp'),
           \A l \in mine' : leases[l].status # "none"
    PROVE  RentalInv'
  BY InHand, QuietStep

\* Reconciliation, without the two steps that bind a lease or close an intent.
LEMMA ReconcileRental ==
    ASSUME RentalInv, TypeInv',
           \/ TickStart \/ ReconcileNext \/ ReconcileInspect \/ InspectFails \/ ListInstances
           \/ Revoke \/ ReadJobs \/ RequeueJob \/ FailJob
    PROVE  RentalInv'
<1>1. CASE TickStart
  <2>1. \A l \in OpenLeases : leases[l].status # "none"
    BY DEF OpenLeases, OpenStatus
  <2>2. HandInv(disp')
    BY <1>1, <2>1, LoopHand DEF TickStart
  <2> QED BY <1>1, <2>2, InHand, MoveStep DEF TickStart, StoreUnchanged
<1>2. CASE ReconcileNext
  <2>1. PICK l \in disp.todo :
           disp' = [disp EXCEPT !.lease = l, !.todo = @ \ {l}, !.snap = leases[l],
                                !.pc = IF leases[l].bound THEN "inspect" ELSE "list"]
    BY <1>2 DEF ReconcileNext
  <2>2. disp.pc = "pick" /\ disp.phase = "reconcile" /\ disp.reason # "lost"
    BY <1>2 DEF ReconcileNext, At, In, RentalInv, HandInv, LossIsKnown
  <2>3. /\ disp'.pc \in {"inspect", "list"} /\ disp'.lease = l /\ disp'.snap = leases[l]
        /\ disp'.reason # "lost" /\ disp'.todo \subseteq disp.todo /\ disp'.phase = "reconcile"
        /\ disp'.pc = "list" => ~leases[l].bound
    BY <2>1, <2>2, InHand DEF DispState
  <2>4. l \in Leases /\ leases[l].status # "none" /\ (leases[l].bound => inst[l] # "absent")
    BY InHand DEF DispState, RentalInv, StoreInv
  <2>5. ASSUME disp'.pc = "inspect" PROVE HandInv(disp')
    BY <2>3, <2>4, <2>5, InHand, LeaseInHand
  <2>6. ASSUME disp'.pc = "list" PROVE HandInv(disp')
    BY <2>3, <2>4, <2>6, InHand
       DEF HandInv, LossIsKnown, LaunchIsFresh, LaunchIsAlone, UnlistedIsNotLive, HandIsReal, Holding, Judging
  <2>7. HandInv(disp')
    BY <2>3, <2>5, <2>6
  <2> QED BY <1>2, <2>7, InHand, MoveStep DEF ReconcileNext, StoreUnchanged
<1>3. CASE ReconcileInspect
  <2>1. disp.pc \in Holding /\ disp.snap \in LeaseRow
    BY <1>3, InHand DEF ReconcileInspect, At, Holding, DispState
  <2>2. HandInv(disp')
    BY <1>3, <2>1, InHand, VerdictHand DEF ReconcileInspect
  <2>3. mine' \subseteq mine \cup {disp.lease} /\ leases' = leases /\ inst' = inst
    BY <1>3 DEF ReconcileInspect, StoreUnchanged
  <2> QED BY <2>1, <2>2, <2>3, InHand, MoveStep
<1>4. CASE InspectFails
  BY <1>4, InHand, LoopHand, MoveStep DEF InspectFails, StoreUnchanged
<1>5. CASE ListInstances
  <2>1. disp.pc = "list" /\ disp.reason # "lost"
    BY <1>5 DEF ListInstances, At, RentalInv, HandInv, LossIsKnown
  <2>2. /\ disp'.pc = IF inst[disp.lease] = "live" THEN "bind" ELSE "closeUnbound"
        /\ disp'.lease = disp.lease /\ disp'.snap = disp.snap /\ disp'.reason = disp.reason
        /\ disp'.todo = disp.todo /\ disp'.phase = disp.phase
    BY <1>5, InHand DEF ListInstances, Goto, Listed, DispState
  <2>3. HandInv(disp')
    BY <2>1, <2>2
       DEF RentalInv, HandInv, LossIsKnown, LaunchIsFresh, LaunchIsAlone, UnlistedIsNotLive,
           HandIsReal, Holding, Judging
  <2> QED BY <1>5, <2>3, InHand, MoveStep DEF ListInstances, StoreUnchanged
<1>6. CASE Revoke
  <2> DEFINE row == RevokedLease(leases[disp.lease])
             d == [disp EXCEPT !.snap = row]
  <2>1. disp.pc = "revoke" /\ disp.pc \in Holding /\ disp.reason # "lost"
    BY <1>6 DEF Revoke, At, Holding, RentalInv, HandInv, LossIsKnown
  <2>2. leases' = [leases EXCEPT ![disp.lease] = row] /\ inst' = inst /\ mine' = mine
    BY <1>6 DEF Revoke, PutLease
  <2>3. SameStanding(leases[disp.lease], row)
    BY <2>1, InHand, StandingKept
  <2>4. \A l \in Leases : SameStanding(leases[l], leases'[l])
    BY <2>2, <2>3, InHand
  <2>5. row.bound => inst[disp.lease] # "absent"
    BY <2>1, <2>3, InHand DEF SameStanding
  <2>6. row \in LeaseRow
    BY <2>1, InHand, LeaseRowTyped
  <2>7. /\ d \in DispState /\ d.todo = disp.todo /\ d.lease = disp.lease /\ d.snap = row
        /\ d.reason = disp.reason
    BY <2>6, InHand DEF DispState
  <2>8. disp' = [d EXCEPT !.pc = "readJobs"] \/ disp' = Terminating(d)
    BY <1>6 DEF Revoke
  <2>9. HandInv([d EXCEPT !.pc = "readJobs"])
    <3> DEFINE e == [d EXCEPT !.pc = "readJobs"]
    <3>1. /\ e.pc = "readJobs" /\ e.todo = disp.todo /\ e.lease = disp.lease /\ e.snap = row
          /\ e.reason = disp.reason
      BY <2>7 DEF DispState
    <3>2. HandInv(e)
      <4> HIDE DEF e, d, row
      <4> QED BY <2>1, <2>5, <3>1, InHand, LeaseInHand
    <3> QED BY <3>2
  <2>10. HandInv(Terminating(d))
    <3> HIDE DEF d, row
    <3> QED BY <2>1, <2>5, <2>7, InHand, TerminatingHand
  <2>11. HandInv(disp')
    BY <2>8, <2>9, <2>10
  <2> QED BY <2>2, <2>4, <2>11, InHand, QuietStep
<1>7. CASE ReadJobs
  <2> DEFINE todo == {j \in attached[disp.lease] : jobs[j].status \notin Terminal}
  <2>1. disp.pc = "readJobs" /\ disp.pc \in Holding
    BY <1>7 DEF ReadJobs, At, Holding
  <2>2. todo \in SUBSET Jobs
    BY <2>1, InHand DEF RentalInv, TypeInv, TypeOK
  <2>3. disp' = AfterJobs([disp EXCEPT !.jobs = todo])
    BY <1>7 DEF ReadJobs
  <2>4. HandInv(disp')
    <3> HIDE DEF todo
    <3> QED BY <2>1, <2>2, <2>3, AfterJobsHand
  <2> QED BY <1>7, <2>4, InHand, MoveStep DEF ReadJobs, StoreUnchanged
<1>8. CASE RequeueJob \/ FailJob
  <2>1. PICK j \in disp.jobs : disp' = AfterJobs([disp EXCEPT !.jobs = @ \ {j}])
    BY <1>8 DEF RequeueJob, FailJob
  <2>2. disp.jobs \ {j} \in SUBSET Jobs /\ disp.pc \in {"readJobs", "requeue", "fail"}
    BY <1>8, InHand DEF DispState, RequeueJob, FailJob, At
  <2>3. HandInv(disp')
    BY <2>1, <2>2, AfterJobsHand
  <2>4. leases' = leases /\ inst' = inst /\ mine' = mine
    BY <1>8 DEF RequeueJob, FailJob, PutJob
  <2> QED BY <2>3, <2>4, InHand, MoveStep
<1> QED BY <1>1, <1>2, <1>3, <1>4, <1>5, <1>6, <1>7, <1>8

\* The three loops over the known instances, and a crash.
LEMMA LoopsRental ==
    ASSUME RentalInv, TypeInv',
           \/ PhaseDone \/ UpdateNext \/ UpdateFails \/ ReadLost \/ Spare
           \/ GiveUpUnregistered \/ GiveUpIdle \/ DispatcherCrash
    PROVE  RentalInv'
<1>0. leases' = leases /\ inst' = inst /\ mine' \subseteq mine
  BY DEF PhaseDone, UpdateNext, UpdateFails, ReadLost, Spare, GiveUpUnregistered, GiveUpIdle,
         DispatcherCrash, StoreUnchanged
<1>1. \A l \in mine' : leases[l].status # "none"
  BY <1>0, InHand
<1>2. ASSUME HandInv(disp') PROVE RentalInv'
  BY <1>0, <1>1, <1>2, MoveStep
<1>3. ASSUME At("pick") PROVE ~disp.snap.bound /\ disp.reason # "lost"
  BY <1>3 DEF At, RentalInv, HandInv, HandIsReal, LossIsKnown, Judging
\* Giving up an instance that is in the provider's listing, or stopped.
<1>4. ASSUME At("pick"), NEW l \in disp.todo, NEW reason \in Reason \ {"lost"},
             disp' = [disp EXCEPT !.todo = @ \ {l}, !.lease = l, !.pc = "revoke", !.reason = reason]
      PROVE  HandInv(disp')
  <2>1. /\ disp'.pc = "revoke" /\ disp'.lease = l /\ disp'.snap = disp.snap
        /\ disp'.reason = reason /\ disp'.todo \subseteq disp.todo
    BY <1>4, InHand DEF DispState
  <2>2. /\ leases[l].status # "none" /\ \A k \in disp'.todo : leases[k].status # "none"
        /\ ~disp.snap.bound /\ reason # "lost"
    BY <1>3, <1>4, <2>1, InHand
  <2> QED BY <2>1, <2>2, LeaseInHand
<1>5. ASSUME At("pick"), NEW l \in disp.todo, disp' = [disp EXCEPT !.todo = @ \ {l}]
      PROVE  HandInv(disp')
  <2>1. /\ disp'.pc = "pick" /\ disp'.snap = disp.snap /\ disp'.reason = disp.reason
        /\ disp'.todo \subseteq disp.todo
    BY <1>5, InHand DEF DispState, At
  <2>2. ~disp'.snap.bound /\ disp'.reason # "lost"
    BY <1>3, <1>5, <2>1
  <2>3. \A k \in disp'.todo : leases[k].status # "none"
    BY <2>1, InHand
  <2>4. disp'.pc \in {"tick", "pick", "decide"}
    BY <2>1
  <2> QED BY <2>2, <2>3, <2>4, BetweenLeases
<1>6. CASE PhaseDone
  BY <1>2, <1>6, InHand, LoopHand DEF PhaseDone
<1>7. CASE UpdateNext
  <2>1. PICK l \in disp.todo :
          LET d == [disp EXCEPT !.todo = @ \ {l}, !.lease = l]
          IN  disp' = CASE inst[l] = "gone" -> [d EXCEPT !.pc = "lost"]
                        [] inst[l] = "stopped" -> [d EXCEPT !.pc = "revoke", !.reason = "stopped"]
                        [] OTHER -> [disp EXCEPT !.todo = @ \ {l}]
    BY <1>7 DEF UpdateNext
  <2>2. At("pick") /\ disp \in DispState
    BY <1>7, InHand DEF UpdateNext
  <2>3. CASE inst[l] = "gone"
    <3>1. /\ disp'.pc = "lost" /\ disp'.lease = l /\ disp'.todo \subseteq disp.todo
          /\ disp'.reason = disp.reason /\ disp'.snap = disp.snap
      BY <2>1, <2>2, <2>3 DEF DispState
    <3>2. HandInv(disp')
      BY <1>3, <2>2, <2>3, <3>1, InHand, ResourceInHand
    <3> QED BY <1>2, <3>2
  <2>4. CASE inst[l] = "stopped"
    <3>1. disp' = [disp EXCEPT !.todo = @ \ {l}, !.lease = l, !.pc = "revoke", !.reason = "stopped"]
      BY <2>1, <2>2, <2>4 DEF DispState
    <3>2. "stopped" \in Reason \ {"lost"}
      BY DEF Reason
    <3> QED BY <1>2, <1>4, <2>2, <3>1, <3>2, Zenon
  <2>5. CASE inst[l] \notin {"gone", "stopped"}
    BY <1>2, <1>5, <2>1, <2>2, <2>5
  <2> QED BY <2>3, <2>4, <2>5
<1>8. CASE UpdateFails
  BY <1>2, <1>8, LoopHand DEF UpdateFails
<1>9. CASE ReadLost
  <2>1. disp.pc \in Holding /\ inst[disp.lease] = "gone"
    BY <1>9 DEF ReadLost, At, Holding, RentalInv, HandInv, LossIsKnown
  <2>2. HandInv(disp')
    BY <1>9, <2>1, InHand, VerdictHand DEF ReadLost
  <2> QED BY <1>2, <2>2
<1>10. CASE Spare
  BY <1>2, <1>5, <1>10 DEF Spare
<1>11. CASE GiveUpUnregistered \/ GiveUpIdle
  <2>1. PICK l \in disp.todo, reason \in {"unregistered", "idle"} :
           disp' = [disp EXCEPT !.todo = @ \ {l}, !.lease = l, !.pc = "revoke", !.reason = reason]
    BY <1>11 DEF GiveUpUnregistered, GiveUpIdle
  <2>2. reason \in Reason \ {"lost"} /\ At("pick")
    BY <1>11 DEF Reason, GiveUpUnregistered, GiveUpIdle
  <2> QED BY <1>2, <1>4, <2>1, <2>2, Zenon
<1>12. CASE DispatcherCrash
  BY <1>2, <1>12, LoopHand DEF DispatcherCrash
<1> QED BY <1>6, <1>7, <1>8, <1>9, <1>10, <1>11, <1>12

\* Binding a lease to the resource that was launched or found for it.
LEMMA BindRental ==
    ASSUME RentalInv, TypeInv', Bind
    PROVE  RentalInv'
<1> DEFINE row == BoundLease(leases[disp.lease])
<1>1. /\ disp.pc = "bind" /\ disp.pc \in Holding
      /\ leases' = [leases EXCEPT ![disp.lease] = row] /\ inst' = inst
      /\ mine' = mine \cup {disp.lease}
      /\ disp' = StartPhase("update", mine') \/ disp' = Judged(row, "live")
  BY DEF Bind, At, PutLease, EndLaunch, Holding
<1>2. inst[disp.lease] # "absent"
  BY <1>1 DEF RentalInv, HandInv, LaunchIsFresh
<1>3. /\ row \in LeaseRow
      /\ row.status = "none" <=> leases[disp.lease].status = "none"
      /\ row.status \in OpenStatus <=> leases[disp.lease].status \in OpenStatus
      /\ row.status = "closed" <=> leases[disp.lease].status = "closed"
      /\ row.status = "closed" => row.bound = leases[disp.lease].bound
  BY <1>1, InHand, LeaseRowTyped DEF BoundLease, OpenStatus, LeaseRow
<1>4. /\ \A l \in Leases \ {disp.lease} : leases'[l] = leases[l]
      /\ leases'[disp.lease] = row
  BY <1>1, InHand
<1>5. OpenLeases' = OpenLeases
  BY <1>3, <1>4 DEF OpenLeases
<1>6. StoreInv'
  <2>1. BoundClosedMeansGone' /\ OneRental'
    BY <1>1, <1>3, <1>4, <1>5, InHand DEF RentalInv, StoreInv, BoundClosedMeansGone, OneRental
  <2>2. (LateCreation \/ (LiveMeansOpen /\ \A l \in Leases : inst[l] # "requested"))'
    BY <1>1, <1>3, <1>4 DEF RentalInv, StoreInv, LiveMeansOpen
  <2>3. \A l \in Leases : /\ leases'[l].status = "none" => inst'[l] = "absent" /\ ~leases'[l].bound
                          /\ leases'[l].bound => inst'[l] # "absent"
    BY <1>1, <1>2, <1>3, <1>4, InHand DEF RentalInv, StoreInv
  <2> QED BY <2>1, <2>2, <2>3 DEF StoreInv
<1>7. \A l \in mine' : leases[l].status # "none"
  BY <1>1, InHand
<1>8. HandInv(disp')
  <2> HIDE DEF row
  <2> QED BY <1>1, <1>2, <1>3, <1>7, InHand, LoopHand, VerdictHand
<1>9. \A l \in Leases : leases'[l].status = "none" <=> leases[l].status = "none"
  BY <1>3, <1>4
<1>10. /\ mine' \subseteq Leases /\ disp'.todo \subseteq Leases
       /\ disp'.pc \in Holding => disp'.lease \in Leases
  BY DEF TypeInv, TypeOK, DispState, SoundDisp
\* No position that speaks of the binding is reached.
<1>11. disp'.pc \in {"pick", "attempt", "revoke"}
  <2>1. StartPhase("update", mine').pc = "pick" /\ NextLease.pc = "pick"
    BY InHand DEF StartPhase, AtRest, NextLease, DispState
  <2> DEFINE d == [disp EXCEPT !.snap = row, !.reason = CloseReason(row, "live")]
  <2>2. "pc" \in DOMAIN d
    BY InHand DEF DispState
  <2>3. [d EXCEPT !.pc = "attempt"].pc = "attempt" /\ [d EXCEPT !.pc = "revoke"].pc = "revoke"
    BY <2>2
  <2>4. Terminating(d).pc \in {"pick", "attempt"}
    BY <2>1, <2>3 DEF Terminating
  <2>5. Judged(row, "live") \in {NextLease, Terminating(d), [d EXCEPT !.pc = "revoke"]}
    BY DEF Judged
  <2>6. Judged(row, "live").pc \in {"pick", "attempt", "revoke"}
    <3> HIDE DEF d, row
    <3>1. CASE Judged(row, "live") = NextLease
      BY <2>1, <3>1
    <3>2. CASE Judged(row, "live") = Terminating(d)
      BY <2>4, <3>2
    <3>3. CASE Judged(row, "live") = [d EXCEPT !.pc = "revoke"]
      BY <2>3, <3>3
    <3> QED BY <2>5, <3>1, <3>2, <3>3
  <2> HIDE DEF d, row
  <2> QED BY <1>1, <2>1, <2>6
<1>12. HandInv(disp)'
  <2>1. LossIsKnown(disp)' /\ LaunchIsFresh(disp)' /\ UnlistedIsNotLive(disp)'
    BY <1>1, <1>8, <1>11 DEF HandInv, LossIsKnown, LaunchIsFresh, UnlistedIsNotLive
  <2>2. LaunchIsAlone(disp)' /\ HandIsReal(disp)'
    BY <1>1, <1>8, <1>9, <1>10, <1>11 DEF HandInv, LaunchIsAlone, HandIsReal
  <2> QED BY <2>1, <2>2 DEF HandInv
<1> QED BY <1>6, <1>7, <1>9, <1>10, <1>12 DEF RentalInv

\* A step that writes one lease row as closed, and forgets the lease in hand.
LEMMA ClosingStep ==
    ASSUME RentalInv, TypeInv', inst' = inst, mine' \subseteq mine,
           NEW l \in Leases, NEW row \in LeaseRow,
           leases' = [leases EXCEPT ![l] = row],
           row.status = "closed", row.bound = leases[l].bound,
           row.bound => inst[l] = "gone",
           LateCreation \/ inst[l] # "live",
           LossIsKnown(disp'), LaunchIsFresh(disp'), UnlistedIsNotLive(disp'), HandIsReal(disp'),
           disp'.pc \in {"pick", "lease"},
           disp'.pc = "lease" => OpenLeases \subseteq {l}
    PROVE  RentalInv'
<1>1. /\ \A k \in Leases \ {l} : leases'[k] = leases[k]
      /\ leases'[l] = row
  BY InHand
<1>2. OpenLeases' = OpenLeases \ {l}
  BY <1>1 DEF OpenLeases, OpenStatus
<1>3. StoreInv'
  <2>1. BoundClosedMeansGone' /\ OneRental'
    BY <1>1, <1>2 DEF RentalInv, StoreInv, BoundClosedMeansGone, OneRental
  <2>2. (LateCreation \/ (LiveMeansOpen /\ \A k \in Leases : inst[k] # "requested"))'
    BY <1>1 DEF RentalInv, StoreInv, LiveMeansOpen
  <2>3. \A k \in Leases : /\ leases'[k].status = "none" => inst'[k] = "absent" /\ ~leases'[k].bound
                          /\ leases'[k].bound => inst'[k] # "absent"
    BY <1>1 DEF RentalInv, StoreInv
  <2> QED BY <2>1, <2>2, <2>3 DEF StoreInv
<1>4. \A k \in Leases : leases'[k].status = "none" => leases[k].status = "none"
  BY <1>1
<1>5. /\ mine' \subseteq Leases /\ disp'.todo \subseteq Leases
  BY DEF TypeInv, TypeOK, DispState
<1>6. LossIsKnown(disp)' /\ LaunchIsFresh(disp)' /\ UnlistedIsNotLive(disp)'
  BY DEF LossIsKnown, LaunchIsFresh, UnlistedIsNotLive
<1>7. LaunchIsAlone(disp)'
  BY <1>2 DEF LaunchIsAlone
<1>8. HandIsReal(disp)'
  BY <1>4, <1>5 DEF HandIsReal, Holding, Judging
<1>9. (\A k \in mine : leases[k].status # "none")'
  BY <1>4, <1>5, InHand
<1> QED BY <1>3, <1>6, <1>7, <1>8, <1>9 DEF RentalInv, HandInv

\* Closing an intent, or confirming a termination.
LEMMA CloseRental ==
    ASSUME RentalInv, TypeInv', CloseUnbound \/ Confirm
    PROVE  RentalInv'
<1>1. CASE Confirm
  <2> DEFINE row == ConfirmedLease(leases[disp.lease])
  <2>1. disp.pc = "confirm" /\ disp.pc \in Holding
    BY <1>1 DEF Confirm, At, Holding
  <2>2. inst[disp.lease] = "gone"
    BY <2>1 DEF RentalInv, HandInv, LossIsKnown
  <2>3. row \in LeaseRow /\ row.status = "closed" /\ row.bound = leases[disp.lease].bound
    BY <2>1, InHand, LeaseRowTyped DEF ConfirmedLease, LeaseRow
  <2>4. /\ leases' = [leases EXCEPT ![disp.lease] = row] /\ inst' = inst /\ mine' \subseteq mine
        /\ disp' = NextLease
    BY <1>1 DEF Confirm, PutLease
  <2>5. HandInv(disp') /\ disp'.pc = "pick"
    BY <2>4, InHand, LoopHand DEF NextLease, DispState
  <2>6. disp.lease \in Leases
    BY <2>1, InHand
  <2> HIDE DEF row
  <2> QED BY <2>2, <2>3, <2>4, <2>5, <2>6, ClosingStep DEF HandInv
<1>2. CASE CloseUnbound
  <2> DEFINE row == UnboundClosedLease(leases[disp.lease])
             cold == [disp EXCEPT !.pc = "lease", !.cached = FALSE, !.lease = NoLease,
                        !.jobs = {j \in Jobs : disp.rows[j].status = "queued"}]
  <2>1. disp.pc = "closeUnbound" /\ disp.pc \in Holding /\ ~leases[disp.lease].bound
    BY <1>2 DEF CloseUnbound, At, Holding
  <2>2. LateCreation \/ inst[disp.lease] # "live"
    BY <2>1 DEF RentalInv, HandInv, UnlistedIsNotLive
  <2>3. /\ row \in LeaseRow /\ row.status = "closed" /\ row.bound = leases[disp.lease].bound
        /\ ~row.bound
    BY <2>1, InHand, LeaseRowTyped DEF UnboundClosedLease, LeaseRow
  <2>4. /\ leases' = [leases EXCEPT ![disp.lease] = row] /\ inst' = inst /\ mine' = mine
        /\ \/ disp' \in {NextLease, EndLaunch(mine)}
           \/ disp.phase = "launch" /\ disp' = cold
    BY <1>2 DEF CloseUnbound, PutLease, In
  <2>5. disp.lease \in Leases
    BY <2>1, InHand
  <2>6. CASE disp' \in {NextLease, EndLaunch(mine)}
    <3>1. NextLease.pc = "pick" /\ EndLaunch(mine).pc = "pick"
      BY InHand DEF NextLease, EndLaunch, StartPhase, AtRest, DispState
    <3>2. HandInv(NextLease) /\ HandInv(EndLaunch(mine))
      BY InHand, LoopHand DEF EndLaunch
    <3>3. HandInv(disp') /\ disp'.pc = "pick"
      BY <2>6, <3>1, <3>2
    <3> HIDE DEF row
    <3> QED BY <2>2, <2>3, <2>4, <2>5, <3>3, ClosingStep DEF HandInv
  \* The cold fallback: the lease just closed was the only open one.
  <2>7. CASE disp.phase = "launch" /\ disp' = cold
    <3>1. /\ OpenLeases \subseteq {disp.lease} /\ disp.reason # "lost"
          /\ \A l \in disp.todo : leases[l].status # "none"
      BY <2>1, <2>7 DEF RentalInv, HandInv, LaunchIsAlone, LossIsKnown, HandIsReal
    <3>2. /\ disp'.pc = "lease" /\ disp'.reason = disp.reason /\ disp'.todo = disp.todo
          /\ disp'.snap = disp.snap
      BY <2>7, InHand DEF DispState
    <3>3. ~disp.snap.bound
      BY <2>1 DEF RentalInv, HandInv, HandIsReal, Judging
    <3>4. LossIsKnown(disp') /\ LaunchIsFresh(disp') /\ UnlistedIsNotLive(disp') /\ HandIsReal(disp')
      BY <3>1, <3>2, <3>3
         DEF LossIsKnown, LaunchIsFresh, UnlistedIsNotLive, HandIsReal, Holding, Judging
    <3> HIDE DEF row
    <3> QED BY <2>2, <2>3, <2>4, <2>5, <3>1, <3>2, <3>4, ClosingStep
  <2> QED BY <2>4, <2>6, <2>7
<1> QED BY <1>1, <1>2

\* The termination of a lease, up to the confirmation.
LEMMA TerminateRental ==
    ASSUME RentalInv, TypeInv',
           Attempt \/ TerminateWorks \/ TerminateIneffective \/ Verify \/ VerifyFails
    PROVE  RentalInv'
<1>1. CASE VerifyFails
  BY <1>1, InHand, LoopHand, MoveStep DEF VerifyFails, StoreUnchanged
<1>2. ASSUME disp.pc \in {"attempt", "terminate", "verify"}
      PROVE  /\ disp.lease \in Leases /\ inst[disp.lease] # "absent"
             /\ leases[disp.lease] \in LeaseRow /\ leases[disp.lease].status # "none"
             /\ disp.reason # "lost"
             /\ \A l \in disp.todo : leases[l].status # "none"
  BY <1>2, InHand DEF RentalInv, HandInv, HandIsReal, LossIsKnown, Holding
<1>3. ASSUME NEW pc
      PROVE  LET d == Goto(pc)
             IN  d.pc = pc /\ d.lease = disp.lease /\ d.reason = disp.reason /\ d.todo = disp.todo
  BY InHand DEF Goto, DispState
<1>4. ASSUME disp.pc \in {"attempt", "terminate", "verify"},
             NEW pc \in {"terminate", "verify", "confirm"},
             pc = "confirm" => inst[disp.lease] = "gone"
      PROVE  HandInv(Goto(pc))
  <2> DEFINE d == Goto(pc)
  <2>1. d.pc = pc /\ d.lease = disp.lease /\ d.reason = disp.reason /\ d.todo = disp.todo
    BY <1>3
  <2>2. HandInv(d)
    <3> HIDE DEF d
    <3> QED BY <1>2, <1>4, <2>1, ResourceInHand
  <2> QED BY <2>2
<1>5. CASE Attempt
  <2> DEFINE row == AttemptedLease(leases[disp.lease])
  <2>1. /\ disp.pc = "attempt" /\ leases' = [leases EXCEPT ![disp.lease] = row]
        /\ inst' = inst /\ mine' = mine /\ disp' = Goto("terminate")
    BY <1>5 DEF Attempt, At, PutLease
  <2>2. SameStanding(leases[disp.lease], row)
    BY <1>2, <2>1, StandingKept
  <2>3. \A l \in Leases : SameStanding(leases[l], leases'[l])
    BY <2>1, <2>2, InHand
  <2>4. HandInv(disp')
    BY <1>4, <2>1
  <2> QED BY <2>1, <2>3, <2>4, InHand, QuietStep
<1>6. CASE TerminateIneffective
  <2>1. HandInv(disp')
    BY <1>4, <1>6 DEF TerminateIneffective, At
  <2> QED BY <1>6, <2>1, InHand, MoveStep DEF TerminateIneffective, StoreUnchanged
<1>7. CASE Verify
  <2>1. disp.pc = "verify"
    BY <1>7 DEF Verify, At
  <2>2. HandInv(NextLease) /\ (inst[disp.lease] = "gone" => HandInv(Goto("confirm")))
    BY <1>4, <2>1, LoopHand
  <2>3. HandInv(disp')
    BY <1>7, <2>2 DEF Verify
  <2> QED BY <1>7, <2>3, InHand, MoveStep DEF Verify, StoreUnchanged
\* The resource of the lease in hand is released: nothing else changes.
<1>8. CASE TerminateWorks
  <2>1. /\ disp.pc = "terminate" /\ inst' = [inst EXCEPT ![disp.lease] = "gone"]
        /\ leases' = leases /\ mine' = mine /\ disp' = Goto("verify")
    BY <1>8 DEF TerminateWorks, At, StoreUnchanged
  <2>2. disp'.pc = "verify" /\ disp'.lease = disp.lease /\ disp'.reason = disp.reason
        /\ disp'.todo = disp.todo /\ disp'.snap = disp.snap
    BY <2>1, InHand DEF Goto, DispState
  <2>3. /\ \A l \in Leases : inst'[l] = inst[l] \/ (l = disp.lease /\ inst'[l] = "gone")
        /\ inst'[disp.lease] = "gone"
    <3>1. disp.lease \in Leases
      BY <1>2, <2>1
    <3>2. inst \in [Leases -> InstState]
      BY InHand
    <3> QED BY <2>1, <3>1, <3>2
  <2>4. StoreInv'
    <3>1. BoundClosedMeansGone' /\ OneRental'
      BY <2>1, <2>3 DEF RentalInv, StoreInv, BoundClosedMeansGone, OneRental, OpenLeases
    <3>2. (LateCreation \/ (LiveMeansOpen /\ \A l \in Leases : inst[l] # "requested"))'
      BY <2>1, <2>3 DEF RentalInv, StoreInv, LiveMeansOpen, OpenStatus
    <3>3. \A l \in Leases : /\ leases'[l].status = "none" => inst'[l] = "absent" /\ ~leases'[l].bound
                            /\ leases'[l].bound => inst'[l] # "absent"
      BY <1>2, <2>1, <2>3 DEF RentalInv, StoreInv
    <3> QED BY <3>1, <3>2, <3>3 DEF StoreInv
  <2>5. HandInv(disp)'
    BY <1>2, <2>1, <2>2, <2>3
       DEF HandInv, LossIsKnown, LaunchIsFresh, LaunchIsAlone, UnlistedIsNotLive, HandIsReal,
           Holding, Judging
  <2> QED BY <2>1, <2>4, <2>5 DEF RentalInv
<1> QED BY <1>1, <1>5, <1>6, <1>7, <1>8

\* The decision to rent, up to the launch call and after it.
LEMMA DecisionRental ==
    ASSUME RentalInv, TypeInv',
           ReconcileDone \/ Decide \/ NoLaunch \/ RefuseJob \/ StampJob \/ LaunchUncertain
    PROVE  RentalInv'
<1>0. leases' = leases /\ inst' = inst /\ mine' = mine
  BY DEF ReconcileDone, Decide, NoLaunch, RefuseJob, StampJob, LaunchUncertain, PutJob,
         StoreUnchanged
<1>1. ASSUME HandInv(disp') PROVE RentalInv'
  BY <1>0, <1>1, InHand, MoveStep
<1>2. HandInv(EndLaunch(mine))
  BY InHand, LoopHand DEF EndLaunch
<1>3. ASSUME disp.pc \in {"pick", "decide"} PROVE ~disp.snap.bound /\ disp.reason # "lost"
  BY <1>3 DEF RentalInv, HandInv, HandIsReal, LossIsKnown, Judging
<1>4. CASE ReconcileDone
  <2>1. /\ disp'.pc = "decide" /\ disp'.snap = disp.snap /\ disp'.reason = disp.reason
        /\ disp'.todo = disp.todo /\ disp.pc = "pick"
    BY <1>4, InHand DEF ReconcileDone, At, DispState
  <2>2. HandInv(disp')
    BY <1>3, <2>1, InHand, BetweenLeases
  <2> QED BY <1>1, <2>2
<1>5. CASE Decide
  <2>1. /\ disp'.pc \in {"stamp", "lease", "refuse"} /\ disp'.snap = disp.snap
        /\ disp'.reason = disp.reason /\ disp'.todo = disp.todo
        /\ disp.pc = "decide" /\ OpenLeases = {}
    BY <1>5, InHand DEF Decide, At, MayLaunch, DispState
  <2>2. HandInv(disp')
    BY <1>3, <2>1, InHand
       DEF HandInv, LossIsKnown, LaunchIsFresh, LaunchIsAlone, UnlistedIsNotLive, HandIsReal,
           Holding, Judging
  <2> QED BY <1>1, <2>2
<1>6. CASE NoLaunch \/ LaunchUncertain
  BY <1>1, <1>2, <1>6 DEF NoLaunch, LaunchUncertain
<1>7. CASE RefuseJob
  <2>1. PICK j \in disp.jobs :
          disp' = IF disp.jobs = {j} THEN EndLaunch(mine) ELSE [disp EXCEPT !.jobs = @ \ {j}]
    BY <1>7 DEF RefuseJob
  <2>2. HandInv([disp EXCEPT !.jobs = @ \ {j}])
    <3> DEFINE d == [disp EXCEPT !.jobs = @ \ {j}]
    <3>1. /\ d.pc = disp.pc /\ d.lease = disp.lease /\ d.snap = disp.snap /\ d.phase = disp.phase
          /\ d.reason = disp.reason /\ d.todo = disp.todo
      BY InHand DEF DispState
    <3> HIDE DEF d
    <3>2. HandInv(d)
      BY <3>1 DEF RentalInv, HandInv, LossIsKnown, LaunchIsFresh, LaunchIsAlone,
         UnlistedIsNotLive, HandIsReal
    <3> USE DEF d
    <3> QED BY <3>2
  <2> QED BY <1>1, <1>2, <2>1, <2>2
<1>8. CASE StampJob
  <2>1. PICK j \in disp.jobs :
          disp' = [disp EXCEPT !.jobs = @ \ {j},
               !.pc = IF disp.jobs # {j} THEN @ ELSE IF @ = "stamp" THEN "lease" ELSE "launch"]
    BY <1>8 DEF StampJob
  <2>2. /\ disp'.lease = disp.lease /\ disp'.snap = disp.snap
        /\ disp'.reason = disp.reason /\ disp'.todo = disp.todo
        /\ disp'.pc = disp.pc \/ disp'.pc = (IF disp.pc = "stamp" THEN "lease" ELSE "launch")
    BY <2>1, InHand DEF DispState
  <2>3. disp.pc \in {"stamp", "restamp"}
    BY <1>8 DEF StampJob
  <2>4. HandInv(disp')
    BY <2>2, <2>3
       DEF RentalInv, HandInv, LossIsKnown, LaunchIsFresh, LaunchIsAlone, UnlistedIsNotLive,
           HandIsReal, Holding, Judging
  <2> QED BY <1>1, <2>4
<1> QED BY <1>4, <1>5, <1>6, <1>7, <1>8

\* create_lease, when no lease is open.
LEMMA CreateRental ==
    ASSUME RentalInv, TypeInv', CreateLease
    PROVE  RentalInv'
<1>1. PICK l \in Leases :
         /\ leases[l].status = "none"
         /\ leases' = [leases EXCEPT ![l] = ProvisionedLease]
         /\ disp' = [disp EXCEPT !.lease = l, !.pc = IF disp.jobs = {} THEN "launch" ELSE "restamp"]
  BY DEF CreateLease
<1>2. inst' = inst /\ mine' = mine /\ disp.pc = "lease"
  BY DEF CreateLease, At
<1>3. /\ OpenLeases = {} /\ disp.reason # "lost" /\ ~disp.snap.bound
      /\ inst[l] = "absent"
  BY <1>1, <1>2 DEF RentalInv, HandInv, LaunchIsAlone, LossIsKnown, HandIsReal, Judging, StoreInv
<1>4. /\ \A k \in Leases \ {l} : leases'[k] = leases[k]
      /\ leases'[l].status = "provisioning" /\ ~leases'[l].bound
  BY <1>1, InHand DEF ProvisionedLease, NoLeaseRow
<1>5. OpenLeases' = {l}
  BY <1>3, <1>4 DEF OpenLeases, OpenStatus
<1>6. /\ disp'.pc \in {"launch", "restamp"} /\ disp'.lease = l /\ disp'.snap = disp.snap
      /\ disp'.reason = disp.reason /\ disp'.todo = disp.todo
  BY <1>1, InHand DEF DispState
<1>7. StoreInv'
  <2>1. BoundClosedMeansGone' /\ OneRental'
    BY <1>2, <1>4, <1>5 DEF RentalInv, StoreInv, BoundClosedMeansGone, OneRental
  <2>2. (LateCreation \/ (LiveMeansOpen /\ \A k \in Leases : inst[k] # "requested"))'
    BY <1>2, <1>3, <1>4 DEF RentalInv, StoreInv, LiveMeansOpen
  <2>3. \A k \in Leases : /\ leases'[k].status = "none" => inst'[k] = "absent" /\ ~leases'[k].bound
                          /\ leases'[k].bound => inst'[k] # "absent"
    BY <1>2, <1>4 DEF RentalInv, StoreInv
  <2> QED BY <2>1, <2>2, <2>3 DEF StoreInv
<1>8. \A k \in Leases : leases'[k].status = "none" => leases[k].status = "none"
  BY <1>1, <1>4
<1>9. HandInv(disp)'
  <2>1. disp.todo \subseteq Leases /\ mine \subseteq Leases
    BY InHand DEF DispState
  <2>2. LossIsKnown(disp)' /\ LaunchIsFresh(disp)' /\ UnlistedIsNotLive(disp)'
    BY <1>2, <1>3, <1>4, <1>6 DEF LossIsKnown, LaunchIsFresh, UnlistedIsNotLive, OpenStatus
  <2>3. LaunchIsAlone(disp)'
    BY <1>5, <1>6 DEF LaunchIsAlone
  <2>4. HandIsReal(disp)'
    BY <1>3, <1>4, <1>6, <1>8, <2>1, InHand DEF HandIsReal
  <2> QED BY <2>2, <2>3, <2>4 DEF HandInv
<1>10. (\A k \in mine : leases[k].status # "none")'
  BY <1>2, <1>8, InHand
<1> QED BY <1>7, <1>9, <1>10 DEF RentalInv

\* The launch call, whatever it leaves behind.
LEMMA LaunchRental ==
    ASSUME RentalInv, TypeInv', LaunchSucceeds \/ LaunchFails
    PROVE  RentalInv'
<1>1. PICK outcome \in {"absent", "live", "requested"} :
         /\ inst' = [inst EXCEPT ![disp.lease] = outcome]
         /\ outcome = "requested" => LateCreation
         /\ (disp' = Goto("bind") /\ outcome = "live") \/ disp' = Goto("list")
  BY DEF LaunchSucceeds, LaunchFails
<1>2. leases' = leases /\ mine' = mine /\ disp.pc = "launch"
  BY DEF LaunchSucceeds, LaunchFails, At, StoreUnchanged
<1>3. /\ disp.lease \in Leases /\ inst[disp.lease] = "absent"
      /\ leases[disp.lease].status \in OpenStatus /\ ~leases[disp.lease].bound
      /\ OpenLeases \subseteq {disp.lease} /\ disp.reason # "lost" /\ ~disp.snap.bound
  <2>1. disp.lease \in Leases
    BY <1>2, InHand DEF Holding
  <2>2. /\ inst[disp.lease] = "absent"
        /\ leases[disp.lease].status \in OpenStatus /\ ~leases[disp.lease].bound
    BY <1>2 DEF RentalInv, HandInv, LaunchIsFresh
  <2>3. OpenLeases \subseteq {disp.lease}
    BY <1>2 DEF RentalInv, HandInv, LaunchIsAlone
  <2>4. disp.reason # "lost" /\ ~disp.snap.bound
    BY <1>2 DEF RentalInv, HandInv, LossIsKnown, HandIsReal, Judging
  <2> QED BY <2>1, <2>2, <2>3, <2>4
<1>4. /\ \A l \in Leases \ {disp.lease} : inst'[l] = inst[l]
      /\ inst'[disp.lease] = outcome
  BY <1>1, <1>3, InHand
<1>5. StoreInv'
  <2>1. BoundClosedMeansGone' /\ OneRental'
    BY <1>2, <1>3, <1>4 DEF RentalInv, StoreInv, BoundClosedMeansGone, OneRental, OpenLeases
  <2>2. (LateCreation \/ (LiveMeansOpen /\ \A l \in Leases : inst[l] # "requested"))'
    <3>1. CASE LateCreation
      BY <3>1
    <3>2. CASE ~LateCreation
      <4>1. LiveMeansOpen /\ \A l \in Leases : inst[l] # "requested"
        BY <3>2 DEF RentalInv, StoreInv
      <4>2. \A l \in Leases : inst'[l] # "requested"
        BY <1>1, <1>4, <3>2, <4>1
      <4>3. LiveMeansOpen'
        BY <1>2, <1>3, <1>4, <4>1 DEF LiveMeansOpen
      <4> QED BY <4>2, <4>3
    <3> QED BY <3>1, <3>2
  <2>3. \A l \in Leases : /\ leases'[l].status = "none" => inst'[l] = "absent" /\ ~leases'[l].bound
                          /\ leases'[l].bound => inst'[l] # "absent"
    BY <1>2, <1>3, <1>4 DEF RentalInv, StoreInv, OpenStatus
  <2> QED BY <2>1, <2>2, <2>3 DEF StoreInv
<1>6. /\ (disp'.pc = "bind" /\ outcome = "live") \/ disp'.pc = "list"
      /\ disp'.lease = disp.lease /\ disp'.snap = disp.snap /\ disp'.reason = disp.reason
      /\ disp'.todo = disp.todo
  BY <1>1, InHand DEF Goto, DispState
<1>7. HandInv(disp)'
  <2>1. LossIsKnown(disp)' /\ LaunchIsFresh(disp)' /\ UnlistedIsNotLive(disp)'
    BY <1>3, <1>4, <1>6 DEF LossIsKnown, LaunchIsFresh, UnlistedIsNotLive
  <2>2. LaunchIsAlone(disp)'
    BY <1>2, <1>3, <1>6 DEF LaunchIsAlone, OpenLeases
  <2>3. HandIsReal(disp)'
    BY <1>2, <1>3, <1>6, InHand DEF HandIsReal, OpenStatus
  <2> QED BY <2>1, <2>2, <2>3 DEF HandInv
<1> QED BY <1>2, <1>5, <1>7, InHand DEF RentalInv

-----------------------------------------------------------------------------
(* Money: theorems *)

LEMMA InitRental == Init => RentalInv
<1> SUFFICES ASSUME Init PROVE RentalInv
  OBVIOUS
<1>1. \A l \in Leases : leases[l] = NoLeaseRow /\ inst[l] = "absent"
  BY DEF Init
<1>2. OpenLeases = {}
  BY <1>1 DEF OpenLeases, OpenStatus, NoLeaseRow
<1>3. StoreInv
  BY <1>1, <1>2 DEF StoreInv, BoundClosedMeansGone, OneRental, LiveMeansOpen, NoLeaseRow
<1>4. HandInv(disp) /\ mine = {}
  BY BetweenLeases DEF Init, AtRest, NoLeaseRow
<1> QED BY <1>3, <1>4, InitTyped DEF RentalInv

LEMMA RentalKept == RentalInv /\ [Next]_vars => RentalInv'
<1> SUFFICES ASSUME RentalInv, [Next]_vars PROVE RentalInv'
  OBVIOUS
<1>1. TypeInv'
  BY TypePreserved DEF RentalInv
<1>2. CASE DispatcherStep \/ DispatcherCrash
  BY <1>1, <1>2, ReconcileRental, LoopsRental, BindRental, CloseRental, TerminateRental,
     DecisionRental, CreateRental, LaunchRental DEF DispatcherStep
<1>3. CASE CoordinatorStep \/ MachineStep
  BY <1>3, EnvironmentRental
<1>4. CASE UNCHANGED vars
  BY <1>1, <1>4, InHand, MoveStep DEF vars, RentalInv
<1> QED BY <1>2, <1>3, <1>4 DEF Next

\* The rental invariant holds in every reachable state of every deployment.
THEOREM RentalInvariant == Spec => []RentalInv
  BY InitRental, RentalKept, PTL DEF Spec

\* No bound lease is ever closed while its resource may still be billed.
THEOREM BoundLeasesCloseLast == Spec => []BoundClosedMeansGone
<1>1. RentalInv => BoundClosedMeansGone
  BY DEF RentalInv, StoreInv
<1> QED BY <1>1, RentalInvariant, PTL

\* The control plane never holds two open leases.
THEOREM RentalsAreExclusive == Spec => []OneRental
<1>1. RentalInv => OneRental
  BY DEF RentalInv, StoreInv
<1> QED BY <1>1, RentalInvariant, PTL

\* If a creation is visible once the launch call has ended, no machine runs
\* outside an open lease.
THEOREM NoOrphanedMachine == ~LateCreation => (Spec => []LiveMeansOpen)
<1> SUFFICES ASSUME ~LateCreation PROVE Spec => []LiveMeansOpen
  OBVIOUS
<1>1. RentalInv => LiveMeansOpen
  BY DEF RentalInv, StoreInv
<1> QED BY <1>1, RentalInvariant, PTL

-----------------------------------------------------------------------------
(* Money: the refinement of the promise *)

\* Records of the same standing make the same claim.
LEMMA ClaimKept ==
    ASSUME NEW r \in LeaseRow, NEW s \in LeaseRow, SameStanding(r, s)
    PROVE  ClaimOf(r) = ClaimOf(s)
  BY DEF ClaimOf, SameStanding, LeaseRow, LeaseStatus, OpenStatus

\* A step under which no claim and no resource moves is a stutter of the promise.
LEMMA NothingMoves ==
    ASSUME \A l \in Leases : ClaimOf(leases'[l]) = ClaimOf(leases[l]),
           \A l \in Leases : ResourceOf(inst'[l]) = ResourceOf(inst[l])
    PROVE  UNCHANGED Billing!bill
  BY DEF Billing!bill

\* One claim moves, along a transition of the promise.
LEMMA ClaimMoves ==
    ASSUME NEW l \in Leases, NEW row,
           leases \in [Leases -> LeaseRow], leases' = [leases EXCEPT ![l] = row],
           inst' = inst,
           \/ ClaimOf(row) = ClaimOf(leases[l])
           \/ ClaimOf(leases[l]) = "none" /\ ClaimOf(row) = "intent"
           \/ /\ ClaimOf(leases[l]) = "intent" /\ ClaimOf(row) = "bound"
              /\ ResourceOf(inst[l]) # "absent"
           \/ ClaimOf(leases[l]) = "intent" /\ ClaimOf(row) = "dropped"
           \/ /\ ClaimOf(leases[l]) = "bound" /\ ClaimOf(row) = "closed"
              /\ ResourceOf(inst[l]) = "released"
    PROVE  [Billing!ClaimNext]_(Billing!bill)
<1> DEFINE old == [k \in Leases |-> ClaimOf(leases[k])]
           new == [k \in Leases |-> ClaimOf(leases'[k])]
           held == [k \in Leases |-> ResourceOf(inst[k])]
<1>1. new = [old EXCEPT ![l] = ClaimOf(row)]
  BY DEF old, new
<1>2. [k \in Leases |-> ResourceOf(inst'[k])] = held
  OBVIOUS
<1>3. old[l] = ClaimOf(leases[l]) /\ held[l] = ResourceOf(inst[l])
  OBVIOUS
<1>4. CASE ClaimOf(row) = ClaimOf(leases[l])
  <2>1. new = old
    BY <1>1, <1>3, <1>4
  <2> QED BY <1>2, <2>1 DEF Billing!bill
<1>5. CASE ClaimOf(leases[l]) = "none" /\ ClaimOf(row) = "intent"
  <2>1. Billing!Declare(l)
    BY <1>1, <1>2, <1>3, <1>5 DEF Billing!Declare
  <2> QED BY <2>1 DEF Billing!ClaimNext
<1>6. CASE /\ ClaimOf(leases[l]) = "intent" /\ ClaimOf(row) = "bound"
           /\ ResourceOf(inst[l]) # "absent"
  <2>1. Billing!BindClaim(l)
    BY <1>1, <1>2, <1>3, <1>6 DEF Billing!BindClaim
  <2> QED BY <2>1 DEF Billing!ClaimNext
<1>7. CASE ClaimOf(leases[l]) = "intent" /\ ClaimOf(row) = "dropped"
  <2>1. Billing!Drop(l)
    BY <1>1, <1>2, <1>3, <1>7 DEF Billing!Drop
  <2> QED BY <2>1 DEF Billing!ClaimNext
<1>8. CASE /\ ClaimOf(leases[l]) = "bound" /\ ClaimOf(row) = "closed"
           /\ ResourceOf(inst[l]) = "released"
  <2>1. Billing!Close(l)
    BY <1>1, <1>2, <1>3, <1>8 DEF Billing!Close
  <2> QED BY <2>1 DEF Billing!ClaimNext
<1> QED BY <1>4, <1>5, <1>6, <1>7, <1>8

\* One resource moves, along a transition of the promise.
LEMMA ResourceMoves ==
    ASSUME NEW l \in Leases, NEW state,
           inst \in [Leases -> InstState], inst' = [inst EXCEPT ![l] = state],
           leases' = leases,
           \/ ResourceOf(state) = ResourceOf(inst[l])
           \/ /\ ResourceOf(inst[l]) = "absent" /\ ResourceOf(state) = "held"
              /\ ClaimOf(leases[l]) = "intent"
           \/ ResourceOf(inst[l]) = "held" /\ ResourceOf(state) = "released"
    PROVE  [Billing!ClaimNext]_(Billing!bill)
<1> DEFINE old == [k \in Leases |-> ResourceOf(inst[k])]
           new == [k \in Leases |-> ResourceOf(inst'[k])]
           claims == [k \in Leases |-> ClaimOf(leases[k])]
<1>1. new = [old EXCEPT ![l] = ResourceOf(state)]
  BY DEF old, new
<1>2. [k \in Leases |-> ClaimOf(leases'[k])] = claims
  OBVIOUS
<1>3. old[l] = ResourceOf(inst[l]) /\ claims[l] = ClaimOf(leases[l])
  OBVIOUS
<1>4. CASE ResourceOf(state) = ResourceOf(inst[l])
  <2>1. new = old
    BY <1>1, <1>3, <1>4
  <2> QED BY <1>2, <2>1 DEF Billing!bill
<1>5. CASE /\ ResourceOf(inst[l]) = "absent" /\ ResourceOf(state) = "held"
           /\ ClaimOf(leases[l]) = "intent"
  <2>1. Billing!Acquire(l)
    BY <1>1, <1>2, <1>3, <1>5 DEF Billing!Acquire
  <2> QED BY <2>1 DEF Billing!ClaimNext
<1>6. CASE ResourceOf(inst[l]) = "held" /\ ResourceOf(state) = "released"
  <2>1. Billing!Release(l)
    BY <1>1, <1>2, <1>3, <1>6 DEF Billing!Release
  <2> QED BY <2>1 DEF Billing!ClaimNext
<1> QED BY <1>4, <1>5, <1>6

\* What the coordinator and the machines do to money: a resource may be lost.
LEMMA EnvironmentBills ==
    ASSUME RentalInv, TypeInv', CoordinatorStep \/ MachineStep
    PROVE  [Billing!ClaimNext]_(Billing!bill)
<1>1. /\ leases \in [Leases -> LeaseRow] /\ leases' \in [Leases -> LeaseRow]
      /\ inst \in [Leases -> InstState]
  BY DEF RentalInv, TypeInv, TypeOK
<1>2. \A l \in Leases : ClaimOf(leases'[l]) = ClaimOf(leases[l])
  BY <1>1, Environment, ClaimKept DEF RentalInv
<1>3. CASE \E l \in Leases : ResourceLost(l)
  <2>1. PICK l \in Leases : ResourceLost(l)
    BY <1>3
  <2>2. /\ inst' = [inst EXCEPT ![l] = "gone"] /\ inst[l] \in {"live", "stopped"}
        /\ leases' = leases
    BY <2>1 DEF ResourceLost, OnlyMachinesChange
  <2>3. ResourceOf(inst[l]) = "held" /\ ResourceOf("gone") = "released"
    BY <2>2 DEF ResourceOf
  <2> QED BY <1>1, <2>2, <2>3, ResourceMoves
<1>4. CASE ~ \E l \in Leases : ResourceLost(l)
  <2>1. \/ inst' = inst
        \/ \E l \in Leases : ResourceAppears(l) \/ ResourceStops(l)
    BY <1>4 DEF CoordinatorStep, Submit, CancelRead, CancelRevoke, CancelFinish, CliCancel, Claim,
         ClaimAnswered, ClaimUnanswered, Heartbeat, CallbackAuthorized, CallbackRefused,
         CallbackApplied, CallbackUnanswered, ProviderAndDispatcherUnchanged, MachineStep,
         NextJob, StopCancelled, WorkerExits, Boot, HeartbeatAges, OnlyWorkersChange, ClockTick,
         LeaseExpires, DeadlinePasses
  <2>2. \A l \in Leases : ResourceOf(inst'[l]) = ResourceOf(inst[l])
    BY <1>1, <2>1 DEF ResourceAppears, ResourceStops, ResourceOf
  <2> QED BY <1>2, <2>2, NothingMoves
<1> QED BY <1>3, <1>4

\* The dispatcher: the steps that move money are steps of the promise.
LEMMA DispatcherBills ==
    ASSUME RentalInv, TypeInv', DispatcherStep \/ DispatcherCrash
    PROVE  [Billing!ClaimNext]_(Billing!bill)
<1> DEFINE lease == disp.lease
           row == leases[disp.lease]
<1>1. /\ leases \in [Leases -> LeaseRow] /\ inst \in [Leases -> InstState]
      /\ disp.pc \in Holding => lease \in Leases /\ row \in LeaseRow /\ row.status # "none"
  BY InHand
<1>2. CASE leases' = leases /\ inst' = inst
  BY <1>2, NothingMoves
<1>3. CASE Bind
  <2>1. /\ disp.pc \in Holding /\ inst[lease] # "absent" /\ inst' = inst
        /\ leases' = [leases EXCEPT ![lease] = BoundLease(row)]
    BY <1>3 DEF Bind, At, Holding, PutLease, RentalInv, HandInv, LaunchIsFresh
  <2>2. ResourceOf(inst[lease]) # "absent"
    BY <1>1, <2>1 DEF ResourceOf, InstState
  <2>3. \/ ClaimOf(BoundLease(row)) = ClaimOf(row)
        \/ ClaimOf(row) = "intent" /\ ClaimOf(BoundLease(row)) = "bound"
    BY <1>1, <2>1 DEF ClaimOf, BoundLease, OpenStatus, LeaseRow, LeaseStatus
  <2> QED BY <1>1, <2>1, <2>2, <2>3, ClaimMoves
<1>4. CASE CloseUnbound
  <2>1. /\ disp.pc \in Holding /\ ~row.bound /\ inst' = inst
        /\ leases' = [leases EXCEPT ![lease] = UnboundClosedLease(row)]
    BY <1>4 DEF CloseUnbound, At, Holding, PutLease
  <2>2. /\ ClaimOf(row) \in {"intent", "dropped"}
        /\ ClaimOf(UnboundClosedLease(row)) = "dropped"
    BY <1>1, <2>1 DEF ClaimOf, UnboundClosedLease, OpenStatus, LeaseRow, LeaseStatus
  <2> QED BY <1>1, <2>1, <2>2, ClaimMoves
<1>5. CASE Confirm
  <2>1. /\ disp.pc \in Holding /\ inst[lease] = "gone" /\ inst' = inst
        /\ leases' = [leases EXCEPT ![lease] = ConfirmedLease(row)]
    BY <1>5 DEF Confirm, At, Holding, PutLease, RentalInv, HandInv, LossIsKnown
  <2>2. ResourceOf(inst[lease]) = "released"
    BY <2>1 DEF ResourceOf
  <2>3. \/ ClaimOf(ConfirmedLease(row)) = ClaimOf(row)
        \/ ClaimOf(row) = "intent" /\ ClaimOf(ConfirmedLease(row)) = "dropped"
        \/ ClaimOf(row) = "bound" /\ ClaimOf(ConfirmedLease(row)) = "closed"
    BY <1>1, <2>1 DEF ClaimOf, ConfirmedLease, OpenStatus, LeaseRow, LeaseStatus
  <2> QED BY <1>1, <2>1, <2>2, <2>3, ClaimMoves
<1>6. CASE Revoke
  <2>1. /\ disp.pc \in Holding /\ inst' = inst
        /\ leases' = [leases EXCEPT ![lease] = RevokedLease(row)]
    BY <1>6 DEF Revoke, At, Holding, PutLease
  <2>2. ClaimOf(RevokedLease(row)) = ClaimOf(row)
    BY <1>1, <2>1, StandingKept, LeaseRowTyped, ClaimKept
  <2> QED BY <1>1, <2>1, <2>2, ClaimMoves
<1>7. CASE Attempt
  <2>1. /\ disp.pc \in Holding /\ inst' = inst
        /\ leases' = [leases EXCEPT ![lease] = AttemptedLease(row)]
    BY <1>7 DEF Attempt, At, Holding, PutLease
  <2>2. ClaimOf(AttemptedLease(row)) = ClaimOf(row)
    BY <1>1, <2>1, StandingKept, LeaseRowTyped, ClaimKept
  <2> QED BY <1>1, <2>1, <2>2, ClaimMoves
<1>8. CASE TerminateWorks
  <2>1. /\ disp.pc \in Holding /\ inst[lease] # "absent" /\ leases' = leases
        /\ inst' = [inst EXCEPT ![lease] = "gone"]
    BY <1>8 DEF TerminateWorks, At, Holding, StoreUnchanged, RentalInv, HandInv, HandIsReal
  <2>2. ResourceOf(inst[lease]) \in {"held", "released"} /\ ResourceOf("gone") = "released"
    BY <1>1, <2>1 DEF ResourceOf, InstState
  <2> QED BY <1>1, <2>1, <2>2, ResourceMoves
<1>9. CASE CreateLease
  <2>1. PICK l \in Leases : leases[l].status = "none"
                            /\ leases' = [leases EXCEPT ![l] = ProvisionedLease]
    BY <1>9 DEF CreateLease
  <2>2. ClaimOf(leases[l]) = "none" /\ ClaimOf(ProvisionedLease) = "intent" /\ inst' = inst
    BY <1>9, <2>1 DEF ClaimOf, CreateLease, ProvisionedLease, NoLeaseRow, OpenStatus
  <2> QED BY <1>1, <2>1, <2>2, ClaimMoves
<1>10. CASE LaunchSucceeds \/ LaunchFails
  <2>1. PICK outcome \in {"absent", "live", "requested"} :
           inst' = [inst EXCEPT ![lease] = outcome]
    BY <1>10 DEF LaunchSucceeds, LaunchFails
  <2>2. disp.pc = "launch" /\ disp.pc \in Holding /\ leases' = leases
    BY <1>10 DEF LaunchSucceeds, LaunchFails, At, Holding, StoreUnchanged
  <2>3. inst[lease] = "absent" /\ row.status \in OpenStatus /\ ~row.bound
    BY <2>2 DEF RentalInv, HandInv, LaunchIsFresh
  <2>4. ClaimOf(row) = "intent" /\ ResourceOf(inst[lease]) = "absent"
    BY <2>3 DEF ClaimOf, ResourceOf, OpenStatus
  <2>5. ResourceOf(outcome) \in {"absent", "held"}
    BY DEF ResourceOf
  <2> QED BY <1>1, <2>1, <2>2, <2>4, <2>5, ResourceMoves
<1>11. CASE \/ TickStart \/ ReconcileNext \/ ReconcileInspect \/ InspectFails \/ ListInstances
            \/ ReadJobs \/ RequeueJob \/ FailJob \/ TerminateIneffective \/ Verify \/ VerifyFails
            \/ ReconcileDone \/ Decide \/ NoLaunch \/ RefuseJob \/ StampJob \/ LaunchUncertain
            \/ PhaseDone \/ UpdateNext \/ UpdateFails \/ ReadLost \/ Spare
            \/ GiveUpUnregistered \/ GiveUpIdle \/ DispatcherCrash
  <2>1. leases' = leases /\ inst' = inst
    BY <1>11 DEF TickStart, ReconcileNext, ReconcileInspect, InspectFails, ListInstances,
       ReadJobs, RequeueJob, FailJob, TerminateIneffective, Verify, VerifyFails,
       ReconcileDone, Decide, NoLaunch, RefuseJob, StampJob, LaunchUncertain, PhaseDone,
       UpdateNext, UpdateFails, ReadLost, Spare, GiveUpUnregistered, GiveUpIdle,
       DispatcherCrash, StoreUnchanged, PutJob
  <2> QED BY <1>2, <2>1
<1> QED BY <1>3, <1>4, <1>5, <1>6, <1>7, <1>8, <1>9, <1>10, <1>11 DEF DispatcherStep

\* A resource is acquired only under a declared intent, a bound claim is closed
\* only after its resource is released, and nothing released comes back,
\* whatever crashes, is lost or comes late.
THEOREM Refinement == Spec => ImplementsBilling
<1>1. Init => Billing!ClaimInit
  <2> SUFFICES ASSUME Init PROVE Billing!ClaimInit
    OBVIOUS
  <2>1. \A l \in Leases : leases[l] = NoLeaseRow /\ inst[l] = "absent"
    BY DEF Init
  <2>2. ClaimOf(NoLeaseRow) = "none" /\ ResourceOf("absent") = "absent"
    BY DEF ClaimOf, ResourceOf, NoLeaseRow, OpenStatus
  <2>3. /\ [l \in Leases |-> ClaimOf(leases[l])] = [l \in Leases |-> "none"]
        /\ [l \in Leases |-> ResourceOf(inst[l])] = [l \in Leases |-> "absent"]
    <3>1. \A l \in Leases : ClaimOf(leases[l]) = "none" /\ ResourceOf(inst[l]) = "absent"
      BY <2>1, <2>2
    <3> QED BY <3>1, Zenon
  <2> QED BY <2>3 DEF Billing!ClaimInit
<1>2. RentalInv /\ [Next]_vars => [Billing!ClaimNext]_(Billing!bill)
  <2> SUFFICES ASSUME RentalInv, [Next]_vars PROVE [Billing!ClaimNext]_(Billing!bill)
    OBVIOUS
  <2>1. TypeInv'
    BY TypePreserved DEF RentalInv
  <2>2. CASE UNCHANGED vars
    BY <2>2, NothingMoves DEF vars
  <2> QED BY <2>1, <2>2, DispatcherBills, EnvironmentBills DEF Next
<1> QED BY <1>1, <1>2, RentalInvariant, PTL DEF Spec, ImplementsBilling, Billing!ClaimSpec

-----------------------------------------------------------------------------
(* Work: lease rows *)

\* Only a bound lease is active, and only a lease that exists has a worker.
GoodRow(r) ==
    /\ r.status = "active" => r.bound
    /\ r.worker # NoWorker => r.status # "none"

\* A lease keeps its instance, its worker and the rank it has reached.
Moves(r, s) ==
    /\ r.bound => s.bound
    /\ r.worker # NoWorker => s.worker = r.worker
    /\ Rank[r.status] <= Rank[s.status]

\* What the transactions of queue.py, and time, make of a lease row.
NextRows(r) ==
    {r, BoundLease(r), UnboundClosedLease(r), RevokedLease(r), AttemptedLease(r), ConfirmedLease(r),
     [r EXCEPT !.fresh = FALSE], [r EXCEPT !.over = TRUE]}
      \cup {RenewedLease(r, w) : w \in Workers}
      \cup {ProvisionedLease : x \in {y \in {r} : y.status = "none"}}

LEMMA RanksOrdered ==
    /\ Rank["none"] = 0 /\ Rank["provisioning"] = 1 /\ Rank["active"] = 2
    /\ Rank["revocation_requested"] = 3 /\ Rank["terminating"] = 4 /\ Rank["closed"] = 5
  BY DEF Rank

\* A changed row keeps what it must, whichever transaction changed it.
LEMMA RowMoves ==
    ASSUME NEW r \in LeaseRow, GoodRow(r), r.status = "none" => ~r.bound, NEW s \in NextRows(r)
    PROVE  GoodRow(s) /\ Moves(r, s)
<1>1. CASE s = r
  BY <1>1, RanksOrdered DEF GoodRow, Moves, LeaseRow, LeaseStatus
<1>2. CASE s = BoundLease(r)
  BY <1>2, RanksOrdered DEF GoodRow, Moves, LeaseRow, LeaseStatus, BoundLease
<1>8. CASE s = RevokedLease(r)
  BY <1>8, RanksOrdered DEF GoodRow, Moves, LeaseRow, LeaseStatus, OpenStatus, Revoked, RevokedLease
<1>3. CASE s = ConfirmedLease(r)
  BY <1>3, RanksOrdered DEF GoodRow, Moves, LeaseRow, LeaseStatus, ConfirmedLease
<1>9. CASE s = UnboundClosedLease(r)
  BY <1>9, RanksOrdered DEF GoodRow, Moves, LeaseRow, LeaseStatus, UnboundClosedLease
<1>4. CASE s = AttemptedLease(r)
  BY <1>4, RanksOrdered DEF GoodRow, Moves, LeaseRow, LeaseStatus, OpenStatus, AttemptedLease
<1>5. CASE s \in {[r EXCEPT !.fresh = FALSE], [r EXCEPT !.over = TRUE]}
  BY <1>5, RanksOrdered DEF GoodRow, Moves, LeaseRow, LeaseStatus
<1>6. ASSUME NEW w \in Workers, s = RenewedLease(r, w) PROVE GoodRow(s) /\ Moves(r, s)
  BY <1>6, RanksOrdered DEF GoodRow, Moves, LeaseRow, LeaseStatus, RenewedLease
<1>7. CASE r.status = "none" /\ s = ProvisionedLease
  BY <1>7, RanksOrdered DEF GoodRow, Moves, LeaseRow, LeaseStatus, ProvisionedLease, NoLeaseRow
<1>. QED BY <1>1, <1>2, <1>3, <1>4, <1>5, <1>6, <1>7, <1>8, <1>9 DEF NextRows

-----------------------------------------------------------------------------
(* Work: the inductive invariant *)

Holds(w) == wk[w].batch # {} \/ wk[w].cur # NoJob

\* A worker runs on a machine that runs, alone, and holds jobs only under a
\* lease that is bound to it.
WorkersInv ==
    /\ \A w \in Workers : wk[w].lease # NoLease => inst[wk[w].lease] = "live"
    /\ \A v, w \in Workers : wk[v].lease # NoLease /\ wk[v].lease = wk[w].lease => v = w
    /\ \A w \in Workers : Holds(w) => wk[w].lease # NoLease /\ leases[wk[w].lease].bound

\* The worker x of job j is the worker of a lease j is attached to.
Traced(j, x) == x # NoWorker => \E l \in Leases : j \in attached[l] /\ leases[l].worker = x

\* Every row that is stored, or that a launch or set_progress may write back.
TraceInv ==
    /\ \A j \in Jobs : Traced(j, jobs[j].worker) /\ Traced(j, disp.rows[j].worker)
    /\ srv.op = "progress" => Traced(srv.job, srv.row.worker)

ClaimInv ==
    /\ RentalInv
    /\ \A l \in Leases : GoodRow(leases[l])
    /\ WorkersInv
    /\ TraceInv

LEMMA Typed ==
    ASSUME RentalInv
    PROVE  /\ leases \in [Leases -> LeaseRow] /\ jobs \in [Jobs -> JobRow] /\ wk \in [Workers -> WorkerState]
           /\ attached \in [Leases -> SUBSET Jobs] /\ disp \in DispState /\ srv \in SrvState
           /\ inst \in [Leases -> InstState]
           /\ srv.op = "claimed" => srv.w \in Workers
           /\ \A l \in Leases : leases[l].status = "none" => ~leases[l].bound
  BY DEF RentalInv, TypeInv, TypeOK, SoundSrv, StoreInv

\* Every step changes every lease row by one of the transactions.
LEMMA LeasesMove ==
    ASSUME RentalInv, [Next]_vars
    PROVE  \A l \in Leases : leases'[l] \in NextRows(leases[l])
<1>0. leases \in [Leases -> LeaseRow]
  BY Typed
<1>1. ASSUME NEW l, NEW row, \A k \in Leases : k = l => row \in NextRows(leases[k]),
             leases' = [leases EXCEPT ![l] = row]
      PROVE  \A k \in Leases : leases'[k] \in NextRows(leases[k])
  BY <1>0, <1>1 DEF NextRows
<1>2. CASE UNCHANGED leases
  BY <1>2 DEF NextRows
<1>3. CASE DispatcherStep \/ DispatcherCrash
  <2>1. CASE Bind
    BY <1>1, <2>1 DEF Bind, PutLease, NextRows
  <2>2. CASE CloseUnbound
    BY <1>1, <2>2 DEF CloseUnbound, PutLease, NextRows
  <2>3. CASE Revoke
    BY <1>1, <2>3 DEF Revoke, PutLease, NextRows
  <2>4. CASE Attempt
    BY <1>1, <2>4 DEF Attempt, PutLease, NextRows
  <2>5. CASE Confirm
    BY <1>1, <2>5 DEF Confirm, PutLease, NextRows
  <2>6. CASE CreateLease
    BY <1>1, <2>6 DEF CreateLease, NextRows
  <2>7. CASE RequeueJob \/ FailJob \/ RefuseJob \/ StampJob
    BY <1>2, <2>7 DEF RequeueJob, FailJob, RefuseJob, StampJob, PutJob
  <2>8. CASE \/ TickStart \/ ReconcileNext \/ ReconcileInspect \/ InspectFails \/ ListInstances \/ ReadJobs
             \/ TerminateWorks \/ TerminateIneffective \/ Verify \/ VerifyFails \/ ReconcileDone \/ Decide
             \/ NoLaunch \/ LaunchSucceeds \/ LaunchFails \/ LaunchUncertain
             \/ PhaseDone \/ UpdateNext \/ UpdateFails \/ ReadLost \/ Spare
             \/ GiveUpUnregistered \/ GiveUpIdle \/ DispatcherCrash
    BY <1>2, <2>8 DEF TickStart, ReconcileNext, ReconcileInspect, InspectFails, ListInstances, ReadJobs,
       TerminateWorks, TerminateIneffective, Verify, VerifyFails, ReconcileDone, Decide, NoLaunch,
       LaunchSucceeds, LaunchFails, LaunchUncertain, PhaseDone, UpdateNext, UpdateFails, ReadLost, Spare,
       GiveUpUnregistered, GiveUpIdle, DispatcherCrash, StoreUnchanged
  <2>. QED BY <1>3, <2>1, <2>2, <2>3, <2>4, <2>5, <2>6, <2>7, <2>8 DEF DispatcherStep
<1>4. CASE CoordinatorStep
  <2>1. ASSUME NEW w \in Workers, leases' = [leases EXCEPT ![wk[w].lease] = RenewedLease(@, w)]
        PROVE  \A k \in Leases : leases'[k] \in NextRows(leases[k])
    BY <1>1, <2>1 DEF NextRows
  <2>2. CASE CancelRevoke
    <3>1. PICK l \in srv.todo : leases' = [leases EXCEPT ![l] = RevokedLease(@)]
      BY <2>2 DEF CancelRevoke
    <3>. QED BY <1>1, <3>1 DEF NextRows
  <2>3. CASE ClaimAnswered
    BY <2>1, <2>3, Typed DEF ClaimAnswered
  <2>4. CASE \E w \in Workers : Claim(w) \/ Heartbeat(w) \/ CallbackAuthorized(w)
    BY <2>1, <2>4 DEF Claim, Heartbeat, CallbackAuthorized
  <2>5. CASE \/ \E j \in Jobs : Submit(j) \/ CancelRead(j) \/ CliCancel(j)
             \/ CancelFinish \/ ClaimUnanswered \/ (\E w \in Workers : CallbackRefused(w))
             \/ CallbackApplied \/ CallbackUnanswered
    BY <1>2, <2>5 DEF Submit, CancelRead, CliCancel, CancelFinish, ClaimUnanswered, CallbackRefused,
       CallbackApplied, CallbackUnanswered
  <2>. QED BY <1>4, <2>2, <2>3, <2>4, <2>5 DEF CoordinatorStep
<1>5. CASE MachineStep
  <2>1. CASE \E l \in Leases : LeaseExpires(l) \/ DeadlinePasses(l)
    <3>1. PICK l \in Leases : LeaseExpires(l) \/ DeadlinePasses(l)
      BY <2>1
    <3>2. \/ leases' = [leases EXCEPT ![l] = [leases[l] EXCEPT !.fresh = FALSE]]
          \/ leases' = [leases EXCEPT ![l] = [leases[l] EXCEPT !.over = TRUE]]
      BY <1>0, <3>1 DEF LeaseExpires, DeadlinePasses
    <3>. QED BY <1>1, <3>2 DEF NextRows
  <2>2. CASE \/ \E l \in Leases : ResourceAppears(l) \/ ResourceStops(l) \/ ResourceLost(l)
             \/ \E w \in Workers : NextJob(w) \/ StopCancelled(w) \/ WorkerExits(w)
             \/ \E w \in Workers, l \in Leases : Boot(w, l)
             \/ HeartbeatAges
    BY <1>2, <2>2 DEF ResourceAppears, ResourceStops, ResourceLost, OnlyMachinesChange, NextJob,
       StopCancelled, WorkerExits, Boot, OnlyWorkersChange, HeartbeatAges
  <2>. QED BY <1>5, <2>1, <2>2 DEF MachineStep
<1>. QED BY <1>2, <1>3, <1>4, <1>5 DEF Next, vars

\* So every row stays good and keeps its instance, its worker and its rank.
LEMMA LeasesKeep ==
    ASSUME ClaimInv, [Next]_vars
    PROVE  \A l \in Leases : GoodRow(leases'[l]) /\ Moves(leases[l], leases'[l])
<1>1. \A l \in Leases : /\ leases[l] \in LeaseRow /\ GoodRow(leases[l]) /\ leases'[l] \in NextRows(leases[l])
                        /\ leases[l].status = "none" => ~leases[l].bound
  BY Typed, LeasesMove DEF ClaimInv
<1>. QED BY <1>1, RowMoves

-----------------------------------------------------------------------------
(* Work: the workers *)

\* Workers that end, or hold nothing new, on machines that go on running.
LEMMA HoldNoMore ==
    ASSUME ClaimInv, [Next]_vars,
           \A w \in Workers : \/ wk'[w] = Off
                              \/ /\ wk'[w].lease = wk[w].lease
                                 /\ wk'[w].batch # {} \/ wk'[w].cur # NoJob => Holds(w),
           \A w \in Workers : wk'[w].lease # NoLease /\ inst[wk'[w].lease] = "live"
                                => inst'[wk'[w].lease] = "live"
    PROVE  WorkersInv'
<1>1. \A w \in Workers : wk[w].lease \in Leases \cup {NoLease}
  BY Typed DEF ClaimInv, WorkerState
<1>2. Off.lease = NoLease /\ Off.batch = {} /\ Off.cur = NoJob
  BY DEF Off
<1>3. \A w \in Workers : wk'[w].lease # NoLease => wk'[w].lease = wk[w].lease /\ wk[w].lease \in Leases
  BY <1>1, <1>2
<1>4. \A w \in Workers : wk'[w].lease # NoLease => inst'[wk'[w].lease] = "live"
  BY <1>3 DEF ClaimInv, WorkersInv
<1>5. \A v, w \in Workers : wk'[v].lease # NoLease /\ wk'[v].lease = wk'[w].lease => v = w
  BY <1>3 DEF ClaimInv, WorkersInv
<1>6. ASSUME NEW w \in Workers, wk'[w].batch # {} \/ wk'[w].cur # NoJob
      PROVE  wk'[w].lease # NoLease /\ leases'[wk'[w].lease].bound
  <2>1. wk'[w].lease = wk[w].lease /\ Holds(w)
    BY <1>2, <1>6
  <2>2. wk[w].lease # NoLease /\ leases[wk[w].lease].bound
    BY <2>1 DEF ClaimInv, WorkersInv
  <2>. QED BY <1>1, <2>1, <2>2, LeasesKeep DEF Moves
<1>. QED BY <1>4, <1>5, <1>6 DEF WorkersInv, Holds

LEMMA MachinesKeep ==
    ASSUME ClaimInv, [Next]_vars, UNCHANGED wk,
           \A l \in Leases : inst[l] = "live" => inst'[l] = "live"
    PROVE  WorkersInv'
<1>1. \A w \in Workers : wk'[w].lease = wk[w].lease /\ (wk'[w].batch # {} \/ wk'[w].cur # NoJob => Holds(w))
  BY DEF Holds
<1>2. \A w \in Workers : wk'[w].lease # NoLease => wk'[w].lease \in Leases
  BY Typed DEF ClaimInv, WorkerState
<1>. QED BY <1>1, <1>2, HoldNoMore

\* A machine that stops takes its workers with it.
LEMMA MachineStops ==
    ASSUME ClaimInv, [Next]_vars, NEW l \in Leases, NEW state, inst' = [inst EXCEPT ![l] = state],
           wk' = OffOn(l)
    PROVE  WorkersInv'
<1>1. inst \in [Leases -> InstState] /\ \A w \in Workers : wk[w].lease \in Leases \cup {NoLease}
  BY Typed DEF ClaimInv, WorkerState
<1>2. \A w \in Workers : \/ wk'[w] = Off
                         \/ wk'[w] = wk[w] /\ wk[w].lease # l
  BY DEF OffOn
<1>3. \A w \in Workers : wk'[w].lease # NoLease => wk'[w].lease # l
  BY <1>2 DEF Off
<1>4. \A w \in Workers : \/ wk'[w] = Off
                         \/ /\ wk'[w].lease = wk[w].lease
                            /\ wk'[w].batch # {} \/ wk'[w].cur # NoJob => Holds(w)
  BY <1>2 DEF Holds
<1>5. \A w \in Workers : wk'[w].lease # NoLease /\ inst[wk'[w].lease] = "live" => inst'[wk'[w].lease] = "live"
  BY <1>1, <1>3
<1>. QED BY <1>4, <1>5, HoldNoMore

\* One worker moves, and holds nothing new.
LEMMA WorkerMoves ==
    ASSUME ClaimInv, [Next]_vars, UNCHANGED inst, NEW x \in Workers, NEW row,
           wk' = [wk EXCEPT ![x] = row],
           \/ row = Off
           \/ row.lease = wk[x].lease /\ (row.batch # {} \/ row.cur # NoJob => Holds(x))
    PROVE  WorkersInv'
<1>1. wk \in [Workers -> WorkerState]
  BY Typed DEF ClaimInv
<1>2. \A w \in Workers : \/ wk'[w] = Off
                         \/ /\ wk'[w].lease = wk[w].lease
                            /\ wk'[w].batch # {} \/ wk'[w].cur # NoJob => Holds(w)
  BY <1>1 DEF Holds
<1>. QED BY <1>2, HoldNoMore

LEMMA DispatcherWorkers ==
    ASSUME ClaimInv, [Next]_vars, DispatcherStep \/ DispatcherCrash
    PROVE  WorkersInv'
<1>0. inst \in [Leases -> InstState]
  BY Typed DEF ClaimInv
<1>1. CASE TerminateWorks
  <2>1. disp.lease \in Leases
    BY <1>1, InHand DEF TerminateWorks, At, Holding, ClaimInv
  <2>. QED BY <1>1, <2>1, MachineStops DEF TerminateWorks
<1>2. CASE LaunchSucceeds \/ LaunchFails
  <2>1. inst[disp.lease] = "absent"
    BY <1>2 DEF LaunchSucceeds, LaunchFails, At, ClaimInv, RentalInv, HandInv, LaunchIsFresh
  <2>2. \A l \in Leases : inst[l] = "live" => inst'[l] = "live"
    BY <1>0, <1>2, <2>1 DEF LaunchSucceeds, LaunchFails
  <2>. QED BY <1>2, <2>2, MachinesKeep DEF LaunchSucceeds, LaunchFails, OthersUnchanged
<1>3. CASE \/ TickStart \/ ReconcileNext \/ ReconcileInspect \/ InspectFails \/ ListInstances
           \/ Bind \/ CloseUnbound \/ Revoke \/ ReadJobs \/ RequeueJob \/ FailJob
           \/ Attempt \/ TerminateIneffective \/ Verify \/ VerifyFails \/ Confirm
           \/ ReconcileDone \/ Decide \/ NoLaunch \/ RefuseJob \/ StampJob \/ CreateLease
           \/ LaunchUncertain \/ PhaseDone \/ UpdateNext \/ UpdateFails \/ ReadLost \/ Spare
           \/ GiveUpUnregistered \/ GiveUpIdle \/ DispatcherCrash
  <2>1. UNCHANGED <<inst, wk>>
    BY <1>3 DEF TickStart, ReconcileNext, ReconcileInspect, InspectFails, ListInstances, Bind, CloseUnbound,
       Revoke, ReadJobs, RequeueJob, FailJob, Attempt, TerminateIneffective, Verify, VerifyFails, Confirm,
       ReconcileDone, Decide, NoLaunch, RefuseJob, StampJob, CreateLease, LaunchUncertain, PhaseDone,
       UpdateNext, UpdateFails, ReadLost, Spare, GiveUpUnregistered, GiveUpIdle, DispatcherCrash, OthersUnchanged
  <2>. QED BY <2>1, MachinesKeep
<1>. QED BY <1>1, <1>2, <1>3 DEF DispatcherStep

LEMMA CoordinatorWorkers ==
    ASSUME ClaimInv, [Next]_vars, CoordinatorStep
    PROVE  WorkersInv'
<1>0. wk \in [Workers -> WorkerState]
  BY Typed DEF ClaimInv
<1>1. CASE ClaimAnswered
  <2> DEFINE x == srv.w
  <2>1. x \in Workers /\ wk[x].lease \in Leases /\ leases[wk[x].lease].status = "active" /\ UNCHANGED inst
    BY <1>0, <1>1, Typed DEF ClaimAnswered, MayReport, WorkerState, ClaimInv, ProviderAndDispatcherUnchanged
  <2>2. leases[wk[x].lease].bound
    BY <2>1 DEF ClaimInv, GoodRow
  <2>3. leases'[wk[x].lease].bound
    BY <2>1, <2>2, LeasesKeep DEF Moves
  <2>4. /\ wk'[x].lease = wk[x].lease
        /\ \A w \in Workers : w # x => wk'[w] = wk[w]
    BY <1>0, <1>1, <2>1 DEF ClaimAnswered, WorkerState
  <2>5. \A w \in Workers : wk'[w].lease = wk[w].lease
    BY <2>4
  <2>6. \A w \in Workers : wk'[w].lease # NoLease => inst'[wk'[w].lease] = "live"
    BY <2>1, <2>5 DEF ClaimInv, WorkersInv
  <2>7. \A v, w \in Workers : wk'[v].lease # NoLease /\ wk'[v].lease = wk'[w].lease => v = w
    BY <2>5 DEF ClaimInv, WorkersInv
  <2>8. ASSUME NEW w \in Workers, wk'[w].batch # {} \/ wk'[w].cur # NoJob
        PROVE  wk'[w].lease # NoLease /\ leases'[wk'[w].lease].bound
    <3>1. CASE w = x
      BY <2>1, <2>3, <2>4, <3>1, NoLeaseAssumption
    <3>2. CASE w # x
      <4>1. wk'[w] = wk[w] /\ Holds(w)
        BY <2>4, <2>8, <3>2 DEF Holds
      <4>2. wk[w].lease \in Leases /\ leases[wk[w].lease].bound
        BY <1>0, <4>1 DEF ClaimInv, WorkersInv, WorkerState
      <4>. QED BY <4>1, <4>2, LeasesKeep, NoLeaseAssumption DEF Moves
    <3>. QED BY <3>1, <3>2
  <2>. QED BY <2>6, <2>7, <2>8 DEF WorkersInv, Holds
<1>2. ASSUME NEW x, UNCHANGED inst, wk' = [wk EXCEPT ![x].cur = NoJob]
      PROVE  WorkersInv'
  <2>1. CASE x \in Workers
    <3>1. wk' = [wk EXCEPT ![x] = [wk[x] EXCEPT !.cur = NoJob]]
      BY <1>2
    <3>2. /\ [wk[x] EXCEPT !.cur = NoJob].lease = wk[x].lease
          /\ [wk[x] EXCEPT !.cur = NoJob].batch = wk[x].batch
          /\ [wk[x] EXCEPT !.cur = NoJob].cur = NoJob
      BY <1>0, <2>1 DEF WorkerState
    <3>. QED BY <1>2, <2>1, <3>1, <3>2, WorkerMoves DEF Holds
  <2>2. CASE x \notin Workers
    <3>1. UNCHANGED wk
      BY <1>0, <1>2, <2>2
    <3>. QED BY <1>2, <3>1, MachinesKeep
  <2>. QED BY <2>1, <2>2
<1>3. ASSUME NEW x, UNCHANGED inst, wk' = [wk EXCEPT ![x].cur = NoJob, ![x].batch = {}]
      PROVE  WorkersInv'
  <2>1. CASE x \in Workers
    <3>1. wk' = [wk EXCEPT ![x] = [wk[x] EXCEPT !.cur = NoJob, !.batch = {}]]
      BY <1>0, <1>3, <2>1
    <3>2. /\ [wk[x] EXCEPT !.cur = NoJob, !.batch = {}].lease = wk[x].lease
          /\ [wk[x] EXCEPT !.cur = NoJob, !.batch = {}].batch = {}
          /\ [wk[x] EXCEPT !.cur = NoJob, !.batch = {}].cur = NoJob
      BY <1>0, <2>1 DEF WorkerState
    <3>. QED BY <1>3, <2>1, <3>1, <3>2, WorkerMoves
  <2>2. CASE x \notin Workers
    <3>1. UNCHANGED wk
      BY <1>0, <1>3, <2>2
    <3>. QED BY <1>3, <3>1, MachinesKeep
  <2>. QED BY <2>1, <2>2
<1>4. CASE \E w \in Workers : CallbackRefused(w)
  BY <1>3, <1>4 DEF CallbackRefused, ProviderAndDispatcherUnchanged
<1>5. CASE CallbackApplied
  <2>1. UNCHANGED inst /\ (UNCHANGED wk \/ wk' = [wk EXCEPT ![srv.w].cur = NoJob])
    BY <1>5 DEF CallbackApplied, ProviderAndDispatcherUnchanged
  <2>. QED BY <1>2, <2>1, MachinesKeep
<1>6. CASE CallbackUnanswered
  <2>1. UNCHANGED inst /\ (UNCHANGED wk \/ wk' = [wk EXCEPT ![srv.w].cur = NoJob, ![srv.w].batch = {}])
    BY <1>6 DEF CallbackUnanswered, ProviderAndDispatcherUnchanged
  <2>. QED BY <1>3, <2>1, MachinesKeep
<1>7. CASE \/ \E j \in Jobs : Submit(j) \/ CancelRead(j) \/ CliCancel(j)
           \/ CancelRevoke \/ CancelFinish \/ ClaimUnanswered
           \/ \E w \in Workers : Claim(w) \/ Heartbeat(w) \/ CallbackAuthorized(w)
  <2>1. UNCHANGED <<inst, wk>>
    BY <1>7 DEF Submit, CancelRead, CliCancel, CancelRevoke, CancelFinish, ClaimUnanswered, Claim, Heartbeat,
       CallbackAuthorized, ProviderAndDispatcherUnchanged
  <2>. QED BY <2>1, MachinesKeep
<1>. QED BY <1>1, <1>4, <1>5, <1>6, <1>7 DEF CoordinatorStep

LEMMA MachineWorkers ==
    ASSUME ClaimInv, [Next]_vars, MachineStep
    PROVE  WorkersInv'
<1>0. wk \in [Workers -> WorkerState] /\ inst \in [Leases -> InstState]
  BY Typed DEF ClaimInv
<1>1. ASSUME NEW l \in Leases, ResourceAppears(l) PROVE WorkersInv'
  <2>1. UNCHANGED wk /\ \A k \in Leases : inst[k] = "live" => inst'[k] = "live"
    BY <1>0, <1>1 DEF ResourceAppears
  <2>. QED BY <2>1, MachinesKeep
<1>2. ASSUME NEW l \in Leases, ResourceStops(l) \/ ResourceLost(l) PROVE WorkersInv'
  BY <1>2, MachineStops DEF ResourceStops, ResourceLost
<1>3. ASSUME NEW w \in Workers, StopCancelled(w) \/ WorkerExits(w) PROVE WorkersInv'
  BY <1>3, WorkerMoves DEF StopCancelled, WorkerExits, OnlyWorkersChange
<1>4. ASSUME NEW w \in Workers, NextJob(w) PROVE WorkersInv'
  <2>1. PICK j \in wk[w].batch :
          wk' = [wk EXCEPT ![w].batch = @ \ {j},
                           ![w].cur = IF jobs[j].status \in {"failed", "dead_letter"} THEN NoJob ELSE j]
    BY <1>4 DEF NextJob
  <2>2. wk'[w].lease = wk[w].lease /\ Holds(w) /\ \A v \in Workers : v # w => wk'[v] = wk[v]
    BY <1>0, <2>1 DEF Holds, WorkerState
  <2>3. \A v \in Workers : wk'[v].lease = wk[v].lease /\ (wk'[v].batch # {} \/ wk'[v].cur # NoJob => Holds(v))
    BY <2>2 DEF Holds
  <2>4. UNCHANGED inst
    BY <1>4 DEF NextJob, OnlyWorkersChange
  <2>. QED BY <2>3, <2>4, HoldNoMore
<1>5. ASSUME NEW w \in Workers, NEW l \in Leases, Boot(w, l) PROVE WorkersInv'
  <2>1. /\ inst[l] = "live" /\ wk[w] = Off /\ \A v \in Workers : wk[v].lease # l
        /\ UNCHANGED <<inst, leases>> /\ wk' = [wk EXCEPT ![w].lease = l]
    BY <1>5 DEF Boot, OnlyWorkersChange
  <2>2. Off.lease = NoLease /\ Off.batch = {} /\ Off.cur = NoJob
    BY DEF Off
  <2>3. /\ wk'[w].lease = l /\ wk'[w].batch = {} /\ wk'[w].cur = NoJob
        /\ \A v \in Workers : v # w => wk'[v] = wk[v]
    BY <1>0, <2>1, <2>2 DEF WorkerState
  <2>. QED BY <2>1, <2>3 DEF ClaimInv, WorkersInv, Holds
<1>6. CASE (\E l \in Leases : LeaseExpires(l) \/ DeadlinePasses(l)) \/ HeartbeatAges
  <2>1. UNCHANGED <<inst, wk>>
    BY <1>6 DEF LeaseExpires, DeadlinePasses, HeartbeatAges, ClockTick
  <2>. QED BY <2>1, MachinesKeep
<1>. QED BY <1>1, <1>2, <1>3, <1>4, <1>5, <1>6 DEF MachineStep

-----------------------------------------------------------------------------
(* Work: the traces of the claims *)

\* A lease that has a worker loses none of its jobs.
LEMMA AttachedGrow ==
    ASSUME ClaimInv, [Next]_vars
    PROVE  \A l \in Leases : leases[l].worker # NoWorker => attached[l] \subseteq attached'[l]
<1>0. attached \in [Leases -> SUBSET Jobs]
  BY Typed DEF ClaimInv
<1>1. CASE CreateLease
  BY <1>0, <1>1 DEF CreateLease, ClaimInv, GoodRow
<1>2. ASSUME NEW w \in Workers, Claim(w)
      PROVE  \A l \in Leases : attached[l] \subseteq attached'[l]
  BY <1>0, <1>2 DEF Claim
<1>3. CASE UNCHANGED attached
  BY <1>3
<1>4. ASSUME DispatcherStep \/ DispatcherCrash, ~CreateLease PROVE UNCHANGED attached
  BY <1>4 DEF DispatcherStep, TickStart, ReconcileNext, ReconcileInspect, InspectFails, ListInstances, Bind, CloseUnbound,
       Revoke, ReadJobs, RequeueJob, FailJob, Attempt, TerminateWorks, TerminateIneffective, Verify, VerifyFails,
       Confirm, ReconcileDone, Decide, NoLaunch, RefuseJob, StampJob, LaunchSucceeds, LaunchFails,
       LaunchUncertain, PhaseDone, UpdateNext, UpdateFails, ReadLost, Spare, GiveUpUnregistered, GiveUpIdle,
       DispatcherCrash, StoreUnchanged, PutLease, PutJob
<1>5. ASSUME CoordinatorStep, \A w \in Workers : ~Claim(w) PROVE UNCHANGED attached
  BY <1>5 DEF CoordinatorStep, Submit, CancelRead, CliCancel, CancelRevoke, CancelFinish, ClaimAnswered,
       ClaimUnanswered, Heartbeat, CallbackAuthorized, CallbackRefused, CallbackApplied, CallbackUnanswered
<1>6. ASSUME MachineStep PROVE UNCHANGED attached
  BY <1>6 DEF MachineStep, ResourceAppears, ResourceStops, ResourceLost, OnlyMachinesChange, LeaseExpires,
       DeadlinePasses, HeartbeatAges, ClockTick, NextJob, StopCancelled, WorkerExits, Boot, OnlyWorkersChange
<1>. QED BY <1>1, <1>2, <1>3, <1>4, <1>5, <1>6 DEF Next, vars

\* Traced, in the next state.
TracedNext(j, x) == x # NoWorker => \E l \in Leases : j \in attached'[l] /\ leases'[l].worker = x

LEMMA TraceKept ==
    ASSUME ClaimInv, [Next]_vars
    PROVE  \A j \in Jobs \cup {NoJob}, x \in Workers \cup {NoWorker} : Traced(j, x) => TracedNext(j, x)
<1> SUFFICES ASSUME NEW j \in Jobs \cup {NoJob}, NEW x \in Workers, x # NoWorker, Traced(j, x)
             PROVE  \E l \in Leases : j \in attached'[l] /\ leases'[l].worker = x
  BY DEF TracedNext
<1>1. PICK l \in Leases : j \in attached[l] /\ leases[l].worker = x
  BY DEF Traced
<1>. QED BY <1>1, AttachedGrow, LeasesKeep DEF Moves

\* A step that writes only rows that were traced.
LEMMA TraceStep ==
    ASSUME ClaimInv, [Next]_vars,
           \A j \in Jobs : \/ jobs'[j].worker \in {NoWorker, jobs[j].worker, disp.rows[j].worker}
                           \/ srv.op = "progress" /\ j = srv.job /\ jobs'[j].worker = srv.row.worker
                           \/ TracedNext(j, jobs'[j].worker),
           \A j \in Jobs : disp'.rows[j].worker \in {NoWorker, jobs[j].worker, disp.rows[j].worker},
           srv'.op = "progress" =>
             \/ srv'.op = srv.op /\ srv'.job = srv.job /\ srv'.row = srv.row
             \/ srv'.job \in Jobs /\ srv'.row = jobs[srv'.job]
    PROVE  TraceInv'
<1>1. /\ \A j \in Jobs : /\ jobs[j].worker \in Workers \cup {NoWorker}
                         /\ disp.rows[j].worker \in Workers \cup {NoWorker}
      /\ srv.job \in Jobs \cup {NoJob} /\ srv.row.worker \in Workers \cup {NoWorker}
  BY Typed DEF ClaimInv, DispState, SrvState, JobRow
<1>2. \A j \in Jobs : /\ TracedNext(j, jobs[j].worker)
                      /\ TracedNext(j, disp.rows[j].worker)
                      /\ TracedNext(j, NoWorker)
  BY <1>1, TraceKept DEF ClaimInv, TraceInv, TracedNext
<1>3. srv.op = "progress" => TracedNext(srv.job, srv.row.worker)
  BY <1>1, TraceKept DEF ClaimInv, TraceInv
<1>4. \A j \in Jobs : TracedNext(j, jobs'[j].worker) /\ TracedNext(j, disp'.rows[j].worker)
  BY <1>2, <1>3
<1>5. srv'.op = "progress" => TracedNext(srv'.job, srv'.row.worker)
  BY <1>2, <1>3
<1>. QED BY <1>4, <1>5 DEF TraceInv, Traced, TracedNext

\* Only the launch decision reads rows.
LEMMA DispatcherRows ==
    ASSUME ClaimInv, DispatcherStep \/ DispatcherCrash
    PROVE  \/ disp'.rows = disp.rows
           \/ disp'.rows = NoRows
           \/ \A j \in Jobs : disp'.rows[j] \in {jobs[j], NoJobRow}
<1>0. disp \in DispState
  BY Typed DEF ClaimInv
<1>1. /\ AtRest.rows = NoRows
      /\ \A phase, todo : StartPhase(phase, todo).rows = NoRows
      /\ \A known : EndLaunch(known).rows = NoRows
  BY DEF AtRest, StartPhase, EndLaunch
<1>2. NextLease.rows = disp.rows /\ \A pc : Goto(pc).rows = disp.rows
  BY <1>0 DEF NextLease, Goto, DispState
<1>3. \A d \in DispState : d.rows = disp.rows => Terminating(d).rows = disp.rows /\ AfterJobs(d).rows = disp.rows
  BY <1>2 DEF Terminating, AfterJobs, DispState
<1>4. \A row \in LeaseRow, seen \in InstState : Judged(row, seen).rows = disp.rows
  <2> SUFFICES ASSUME NEW row \in LeaseRow, NEW seen \in InstState PROVE Judged(row, seen).rows = disp.rows
    OBVIOUS
  <2> DEFINE d == [disp EXCEPT !.snap = row, !.reason = CloseReason(row, seen)]
  <2>1. CloseReason(row, seen) \in Reason
    BY DEF CloseReason, Reason
  <2>2. d \in DispState /\ d.rows = disp.rows
    BY <1>0, <2>1 DEF DispState
  <2>3. Terminating(d).rows = disp.rows
    BY <1>3, <2>2
  <2>4. [d EXCEPT !.pc = "revoke"].rows = disp.rows
    BY <2>2 DEF DispState
  <2>. QED BY <1>2, <2>3, <2>4 DEF Judged
<1>5. \A row : Lost(row).rows = disp.rows
  BY <1>0 DEF Lost, DispState
<1>6. leases \in [Leases -> LeaseRow] /\ inst \in [Leases -> InstState]
  BY Typed DEF ClaimInv
<1>7. CASE TickStart \/ UpdateFails \/ DispatcherCrash \/ NoLaunch \/ LaunchUncertain
  BY <1>1, <1>7 DEF TickStart, UpdateFails, DispatcherCrash, NoLaunch, LaunchUncertain
<1>8. CASE ReconcileNext \/ ReconcileDone \/ UpdateNext \/ Spare \/ GiveUpUnregistered \/ GiveUpIdle
  BY <1>0, <1>8 DEF ReconcileNext, ReconcileDone, UpdateNext, Spare, GiveUpUnregistered, GiveUpIdle, DispState
<1>9. CASE ReconcileInspect
  <2>1. disp.lease \in Leases /\ disp.snap \in LeaseRow
    BY <1>0, <1>9, InHand DEF ReconcileInspect, At, Holding, ClaimInv, DispState
  <2>. QED BY <1>4, <1>5, <1>6, <1>9, <2>1 DEF ReconcileInspect
<1>10. CASE InspectFails \/ ListInstances \/ TerminateIneffective \/ TerminateWorks \/ Verify \/ VerifyFails
            \/ Attempt \/ Confirm \/ LaunchSucceeds \/ LaunchFails
  BY <1>2, <1>10 DEF InspectFails, ListInstances, TerminateIneffective, TerminateWorks, Verify, VerifyFails,
     Attempt, Confirm, LaunchSucceeds, LaunchFails
<1>11. CASE Bind
  <2>1. disp.lease \in Leases
    BY <1>11, InHand DEF Bind, At, Holding, ClaimInv
  <2>2. BoundLease(leases[disp.lease]) \in LeaseRow
    BY <1>6, <2>1, LeaseRowTyped
  <2>3. "live" \in InstState
    BY DEF InstState
  <2>. QED BY <1>1, <1>4, <1>11, <2>2, <2>3 DEF Bind
<1>12. CASE CloseUnbound
  BY <1>0, <1>1, <1>2, <1>12 DEF CloseUnbound, DispState
<1>13. CASE Revoke
  <2>1. disp.lease \in Leases
    BY <1>13, InHand DEF Revoke, At, Holding, ClaimInv
  <2>2. RevokedLease(leases[disp.lease]) \in LeaseRow
    BY <1>6, <2>1, LeaseRowTyped
  <2> DEFINE d == [disp EXCEPT !.snap = RevokedLease(leases[disp.lease])]
  <2>3. d \in DispState /\ d.rows = disp.rows /\ [d EXCEPT !.pc = "readJobs"].rows = disp.rows
    BY <1>0, <2>2 DEF DispState
  <2>. QED BY <1>3, <1>13, <2>3 DEF Revoke
<1>14. CASE ReadJobs \/ RequeueJob \/ FailJob
  <2>1. ASSUME NEW S \in SUBSET Jobs PROVE AfterJobs([disp EXCEPT !.jobs = S]).rows = disp.rows
    <3>1. [disp EXCEPT !.jobs = S] \in DispState /\ [disp EXCEPT !.jobs = S].rows = disp.rows
      BY <1>0 DEF DispState
    <3>. QED BY <1>3, <3>1
  <2>2. CASE ReadJobs
    <3>1. attached[disp.lease] \in SUBSET Jobs
      BY <2>2, Typed, InHand DEF ReadJobs, At, Holding, ClaimInv
    <3>. QED BY <2>1, <2>2, <3>1 DEF ReadJobs
  <2>3. CASE RequeueJob \/ FailJob
    <3>1. disp.jobs \in SUBSET Jobs
      BY <1>0 DEF DispState
    <3>. QED BY <2>1, <2>3, <3>1 DEF RequeueJob, FailJob
  <2>. QED BY <1>14, <2>2, <2>3
<1>15. CASE Decide
  <2>1. PICK group \in SUBSET Queued :
           LET d == [disp EXCEPT !.rows = [j \in Jobs |-> IF j \in group THEN jobs[j] ELSE NoJobRow]]
           IN  \/ disp' = [d EXCEPT !.pc = "stamp", !.cached = TRUE, !.jobs = group]
               \/ \E considered \in BOOLEAN : disp' = [d EXCEPT !.pc = "lease", !.cached = considered]
               \/ disp' = [d EXCEPT !.pc = "refuse", !.jobs = group]
    BY <1>15, Zenon DEF Decide
  <2> DEFINE R == [j \in Jobs |-> IF j \in group THEN jobs[j] ELSE NoJobRow]
             d == [disp EXCEPT !.rows = R]
  <2>2. d.rows = R /\ "rows" \in DOMAIN d
    BY <1>0 DEF DispState
  <2>3. \/ disp' = [d EXCEPT !.pc = "stamp", !.cached = TRUE, !.jobs = group]
        \/ \E considered \in BOOLEAN : disp' = [d EXCEPT !.pc = "lease", !.cached = considered]
        \/ disp' = [d EXCEPT !.pc = "refuse", !.jobs = group]
    BY <2>1
  <2> HIDE DEF d, R
  <2>4. disp'.rows = R
    BY <2>2, <2>3
  <2>5. \A j \in Jobs : R[j] \in {jobs[j], NoJobRow}
    BY DEF R
  <2>. QED BY <2>4, <2>5
<1>16. CASE RefuseJob \/ StampJob \/ CreateLease
  BY <1>0, <1>1, <1>16 DEF RefuseJob, StampJob, CreateLease, DispState
<1>17. CASE PhaseDone \/ ReadLost
  BY <1>1, <1>5, <1>17 DEF PhaseDone, ReadLost
<1>. QED BY <1>7, <1>8, <1>9, <1>10, <1>11, <1>12, <1>13, <1>14, <1>15, <1>16, <1>17 DEF DispatcherStep

LEMMA DispatcherTraces ==
    ASSUME ClaimInv, [Next]_vars, DispatcherStep \/ DispatcherCrash
    PROVE  TraceInv'
<1>0. jobs \in [Jobs -> JobRow]
  BY Typed DEF ClaimInv
<1>1. UNCHANGED srv
  BY DEF DispatcherStep, TickStart, ReconcileNext, ReconcileInspect, InspectFails, ListInstances, Bind, CloseUnbound,
       Revoke, ReadJobs, RequeueJob, FailJob, Attempt, TerminateWorks, TerminateIneffective, Verify, VerifyFails,
       Confirm, ReconcileDone, Decide, NoLaunch, RefuseJob, StampJob, CreateLease, LaunchSucceeds, LaunchFails,
       LaunchUncertain, PhaseDone, UpdateNext, UpdateFails, ReadLost, Spare, GiveUpUnregistered, GiveUpIdle,
       DispatcherCrash, OthersUnchanged
<1>2. \A j \in Jobs : disp'.rows[j].worker \in {NoWorker, jobs[j].worker, disp.rows[j].worker}
  <2>1. \A j \in Jobs : NoRows[j] = NoJobRow /\ NoJobRow.worker = NoWorker
    BY DEF NoRows, NoJobRow
  <2>. QED BY <2>1, DispatcherRows
<1>3. \A j \in Jobs : jobs'[j].worker \in {NoWorker, jobs[j].worker, disp.rows[j].worker}
  <2>1. ASSUME NEW k, NEW row, jobs' = [jobs EXCEPT ![k] = row],
               k \in Jobs => row.worker \in {NoWorker, jobs[k].worker, disp.rows[k].worker}
        PROVE  \A j \in Jobs : jobs'[j].worker \in {NoWorker, jobs[j].worker, disp.rows[j].worker}
    BY <1>0, <2>1
  <2>2. \A k \in Jobs : /\ FailedRow(jobs[k]).worker \in {NoWorker, jobs[k].worker}
                        /\ WithStatus(jobs[k], "failed").worker = jobs[k].worker
    BY <1>0 DEF FailedRow, WithStatus, JobRow
  <2>3. CASE RequeueJob
    BY <2>1, <2>2, <2>3 DEF RequeueJob, PutJob
  <2>4. CASE FailJob
    BY <2>1, <2>2, <2>4 DEF FailJob, PutJob
  <2>5. CASE RefuseJob
    BY <2>1, <2>2, <2>5 DEF RefuseJob, PutJob
  <2>6. CASE StampJob
    BY <2>1, <2>6 DEF StampJob, PutJob
  <2>7. CASE UNCHANGED jobs
    BY <2>7
  <2>8. ASSUME ~(RequeueJob \/ FailJob \/ RefuseJob \/ StampJob) PROVE UNCHANGED jobs
    BY <2>8 DEF DispatcherStep, TickStart, ReconcileNext, ReconcileInspect, InspectFails, ListInstances, Bind, CloseUnbound,
       Revoke, ReadJobs, Attempt, TerminateWorks, TerminateIneffective, Verify, VerifyFails,
       Confirm, ReconcileDone, Decide, NoLaunch, CreateLease, LaunchSucceeds, LaunchFails,
       LaunchUncertain, PhaseDone, UpdateNext, UpdateFails, ReadLost, Spare, GiveUpUnregistered, GiveUpIdle,
       DispatcherCrash, StoreUnchanged, PutLease
  <2>. QED BY <2>3, <2>4, <2>5, <2>6, <2>7, <2>8
<1>. QED BY <1>1, <1>2, <1>3, TraceStep

LEMMA CoordinatorTraces ==
    ASSUME ClaimInv, [Next]_vars, CoordinatorStep
    PROVE  TraceInv'
<1>0. jobs \in [Jobs -> JobRow] /\ srv \in SrvState
  BY Typed DEF ClaimInv
<1>1. UNCHANGED disp
  BY DEF CoordinatorStep, Submit, CancelRead, CliCancel, CancelRevoke, CancelFinish, Claim, ClaimAnswered,
         ClaimUnanswered, Heartbeat, CallbackAuthorized, CallbackRefused, CallbackApplied, CallbackUnanswered,
         ProviderAndDispatcherUnchanged
<1>2. NoRequest.op = "none"
  BY DEF NoRequest
<1>3. \A k \in Jobs : /\ FailedRow(jobs[k]).worker \in {NoWorker, jobs[k].worker}
                      /\ \A st \in JobStatus : WithStatus(jobs[k], st).worker = jobs[k].worker
                      /\ CreatedRow.worker = NoWorker
  BY <1>0 DEF FailedRow, WithStatus, JobRow, CreatedRow, NoJobRow
<1>4. {"running", "completed", "failed"} \subseteq JobStatus
  BY DEF JobStatus
<1>5. CASE \/ \E j \in Jobs : Submit(j) \/ CliCancel(j)
           \/ CancelFinish
  <2>1. srv' = srv \/ srv'.op = "none"
    BY <1>2, <1>5 DEF Submit, CliCancel, CancelFinish, RequestDone
  <2>2. \A j \in Jobs : jobs'[j].worker \in {NoWorker, jobs[j].worker}
    BY <1>0, <1>3, <1>4, <1>5 DEF Submit, CliCancel, CancelFinish
  <2>. QED BY <1>1, <2>1, <2>2, TraceStep
<1>6. CASE \/ \E j \in Jobs : CancelRead(j)
           \/ CancelRevoke \/ ClaimAnswered \/ ClaimUnanswered
           \/ \E w \in Workers : Heartbeat(w) \/ CallbackRefused(w)
  <2>1. UNCHANGED jobs /\ (srv'.op # "progress" \/ srv' = srv)
    BY <1>0, <1>2, <1>6 DEF CancelRead, CancelRevoke, ClaimAnswered, ClaimUnanswered, Heartbeat, CallbackRefused,
       RequestDone, NoRequest, SrvState
  <2>. QED BY <1>1, <2>1, TraceStep
<1>7. ASSUME NEW w \in Workers, CallbackAuthorized(w) PROVE TraceInv'
  <2>1. wk[w].cur \in Jobs
    BY <1>7, Typed DEF CallbackAuthorized, ClaimInv, WorkerState
  <2>2. UNCHANGED jobs /\ (srv'.op = "progress" => srv'.job \in Jobs /\ srv'.row = jobs[srv'.job])
    BY <1>7, <2>1 DEF CallbackAuthorized, NoRequest
  <2>. QED BY <1>1, <2>2, TraceStep
<1>8. CASE CallbackApplied \/ CallbackUnanswered
  <2>1. srv'.op = "none" /\ jobs' = [jobs EXCEPT ![srv.job] = CallbackRow] /\ Callback
    BY <1>2, <1>8 DEF CallbackApplied, CallbackUnanswered, RequestDone
  <2>2. srv.job \in Jobs => \/ CallbackRow.worker \in {NoWorker, jobs[srv.job].worker}
                            \/ srv.op = "progress" /\ CallbackRow.worker = srv.row.worker
    BY <1>3, <1>4, <2>1 DEF CallbackRow, Callback
  <2>3. \A j \in Jobs : \/ jobs'[j].worker \in {NoWorker, jobs[j].worker}
                        \/ srv.op = "progress" /\ j = srv.job /\ jobs'[j].worker = srv.row.worker
    BY <1>0, <2>1, <2>2
  <2>. QED BY <1>1, <2>1, <2>3, TraceStep
<1>9. ASSUME NEW w \in Workers, Claim(w) PROVE TraceInv'
  <2> DEFINE l == wk[w].lease
  <2>1. PICK claimed \in SUBSET Queued :
          /\ jobs' = [j \in Jobs |-> IF j \in claimed THEN ClaimedRow(jobs[j], w) ELSE jobs[j]]
          /\ attached' = [attached EXCEPT ![l] = @ \cup claimed]
          /\ srv' = [NoRequest EXCEPT !.op = "claimed", !.w = w, !.jobs = claimed]
    BY <1>9 DEF Claim
  <2>2. /\ l \in Leases /\ leases[l].status = "active" /\ leases[l].worker \in {NoWorker, w}
        /\ leases \in [Leases -> LeaseRow] /\ attached \in [Leases -> SUBSET Jobs]
        /\ leases' = [leases EXCEPT ![l] = RenewedLease(leases[l], w)]
    BY <1>9, Typed DEF Claim, Polling, MayClaim, MayUse, ClaimInv, WorkerState
  <2>3. leases'[l].worker = w
    BY <2>2 DEF RenewedLease, LeaseRow
  <2>4. \A j \in claimed : j \in attached'[l]
    BY <2>1, <2>2
  <2>5. ASSUME NEW j \in Jobs PROVE jobs'[j].worker = jobs[j].worker \/ TracedNext(j, jobs'[j].worker)
    <3>1. CASE j \in claimed
      <4>1. jobs'[j].worker = w
        BY <1>0, <2>1, <3>1 DEF ClaimedRow, JobRow
      <4>. QED BY <2>2, <2>3, <2>4, <3>1, <4>1 DEF TracedNext
    <3>2. CASE j \notin claimed
      BY <2>1, <3>2
    <3>. QED BY <3>1, <3>2
  <2>6. srv'.op = "claimed"
    BY <2>1 DEF NoRequest
  <2>. QED BY <1>1, <2>5, <2>6, TraceStep
<1>. QED BY <1>5, <1>6, <1>7, <1>8, <1>9 DEF CoordinatorStep

LEMMA MachineTraces ==
    ASSUME ClaimInv, [Next]_vars, MachineStep
    PROVE  TraceInv'
<1>1. UNCHANGED <<jobs, disp, srv>>
  BY DEF MachineStep, ResourceAppears, ResourceStops, ResourceLost, OnlyMachinesChange, LeaseExpires,
       DeadlinePasses, HeartbeatAges, ClockTick, NextJob, StopCancelled, WorkerExits, Boot, OnlyWorkersChange
<1>. QED BY <1>1, TraceStep

-----------------------------------------------------------------------------
(* Work: theorems *)

LEMMA InitClaims == Init => ClaimInv
<1> SUFFICES ASSUME Init PROVE ClaimInv
  OBVIOUS
<1>1. RentalInv
  BY InitRental
<1>2. WorkersInv /\ \A l \in Leases : GoodRow(leases[l])
  BY DEF Init, WorkersInv, Holds, Off, GoodRow, NoLeaseRow
<1>3. TraceInv
  BY DEF Init, TraceInv, Traced, AtRest, NoRows, NoJobRow, NoRequest
<1>. QED BY <1>1, <1>2, <1>3 DEF ClaimInv

LEMMA ClaimsKept == ClaimInv /\ [Next]_vars => ClaimInv'
<1> SUFFICES ASSUME ClaimInv, [Next]_vars PROVE ClaimInv'
  OBVIOUS
<1>1. RentalInv' /\ \A l \in Leases : GoodRow(leases'[l])
  BY RentalKept, LeasesKeep DEF ClaimInv
<1>2. WorkersInv'
  <2>1. CASE UNCHANGED vars
    BY <2>1, MachinesKeep DEF vars
  <2>. QED BY <2>1, DispatcherWorkers, CoordinatorWorkers, MachineWorkers DEF Next
<1>3. TraceInv'
  <2>1. CASE UNCHANGED vars
    BY <2>1, TraceStep DEF vars
  <2>. QED BY <2>1, DispatcherTraces, CoordinatorTraces, MachineTraces DEF Next
<1>. QED BY <1>1, <1>2, <1>3 DEF ClaimInv

\* Workers, leases and claims agree in every reachable state: the inductive
\* invariant behind the theorems on work.
THEOREM ClaimInvariant == Spec => []ClaimInv
  BY InitClaims, ClaimsKept, PTL DEF Spec

\* A job is never on two machines at once, in any deployment and however often
\* the dispatcher crashes.
THEOREM OneMachinePerJob == Spec => []JobOnOneMachine
<1>1. ASSUME ClaimInv PROVE JobOnOneMachine
  <2>1. ASSUME NEW v \in Workers, NEW w \in Workers, Holds(v), Holds(w) PROVE v = w
    <3>1. \A x \in {v, w} : /\ wk[x].lease \in Leases /\ leases[wk[x].lease].bound
                            /\ inst[wk[x].lease] = "live" /\ wk[x].lease # NoLease
      BY <1>1, <2>1, Typed DEF ClaimInv, WorkersInv, WorkerState
    <3>2. \A x \in {v, w} : leases[wk[x].lease].status \in OpenStatus
      BY <1>1, <3>1, Typed DEF ClaimInv, RentalInv, StoreInv, BoundClosedMeansGone, LeaseRow, LeaseStatus, OpenStatus
    <3>3. wk[v].lease = wk[w].lease
      BY <1>1, <3>1, <3>2 DEF ClaimInv, RentalInv, StoreInv, OneRental, OpenLeases
    <3>. QED BY <1>1, <3>1, <3>3 DEF ClaimInv, WorkersInv
  <2>. QED BY <2>1 DEF JobOnOneMachine, Holds
<1>. QED BY <1>1, ClaimInvariant, PTL

\* The worker that holds a claim is always the worker of a lease the job is
\* attached to, through the rows that are written back late as well.
THEOREM ClaimsAreTraceable == Spec => []ClaimIsTraceable
<1>1. ClaimInv => ClaimIsTraceable
  BY DEF ClaimInv, TraceInv, Traced, ClaimIsTraceable, LeasesOf
<1>. QED BY <1>1, ClaimInvariant, PTL

\* A lease only moves forward through its states, whoever writes it and however
\* late: authority that is lost never returns.
THEOREM AuthorityIsLostForGood == Spec => AuthorityNeverReturns
<1>1. ClaimInv /\ [Next]_vars =>
        [\A l \in Leases : Rank[leases[l].status] <= Rank[leases'[l].status]]_vars
  BY LeasesKeep DEF Moves
<1>. QED BY <1>1, ClaimInvariant, PTL DEF Spec, AuthorityNeverReturns

\* Every other writer reads the row in the transaction that writes it, and
\* leaves a terminal row alone.
LEMMA TerminalStays ==
    ASSUME ClaimInv, Next, NEW k \in Jobs, jobs[k].status \in Terminal, jobs'[k] # jobs[k]
    PROVE  \/ disp.pc \in {"stamp", "restamp"} /\ k \in disp.jobs
           \/ srv.op = "progress" /\ srv.job = k
<1>0. jobs \in [Jobs -> JobRow] /\ disp.jobs \subseteq Jobs
  BY Typed DEF ClaimInv, DispState
<1>1. /\ \A status : WithStatus(jobs[k], status) = jobs[k]
      /\ FailedRow(jobs[k]) = jobs[k]
      /\ jobs[k].status \notin {"none", "queued"}
  BY DEF WithStatus, FailedRow, Terminal
<1>2. ~(UNCHANGED jobs)
  OBVIOUS
<1>3. ASSUME NEW j \in Jobs, NEW row, PutJob(j, row), j = k => row = jobs[k] PROVE FALSE
  BY <1>0, <1>3 DEF PutJob
<1>4. CASE DispatcherStep \/ DispatcherCrash
  <2>1. CASE RequeueJob \/ FailJob \/ RefuseJob
    BY <1>0, <1>1, <1>3, <2>1 DEF RequeueJob, FailJob, RefuseJob
  <2>2. CASE StampJob
    <3>1. PICK j \in disp.jobs : PutJob(j, disp.rows[j])
      BY <2>2 DEF StampJob
    <3>2. j = k
      BY <1>0, <3>1 DEF PutJob
    <3>3. disp.pc \in {"stamp", "restamp"}
      BY <2>2, Zenon DEF StampJob
    <3>. QED BY <3>2, <3>3
  <2>3. CASE TickStart \/ ReconcileNext \/ ReconcileInspect \/ InspectFails \/ ListInstances
             \/ Bind \/ CloseUnbound \/ Revoke \/ ReadJobs \/ Attempt \/ TerminateWorks \/ TerminateIneffective
    BY <1>2, <2>3 DEF TickStart, ReconcileNext, ReconcileInspect, InspectFails, ListInstances, Bind, CloseUnbound,
       Revoke, ReadJobs, Attempt, TerminateWorks, TerminateIneffective, StoreUnchanged, PutLease
  <2>4. CASE Verify \/ VerifyFails \/ Confirm \/ ReconcileDone \/ Decide \/ NoLaunch \/ CreateLease
             \/ LaunchSucceeds \/ LaunchFails \/ LaunchUncertain \/ PhaseDone \/ UpdateNext \/ UpdateFails
    BY <1>2, <2>4 DEF Verify, VerifyFails, Confirm, ReconcileDone, Decide, NoLaunch, CreateLease, LaunchSucceeds,
       LaunchFails, LaunchUncertain, PhaseDone, UpdateNext, UpdateFails, StoreUnchanged, PutLease
  <2>5. CASE ReadLost \/ Spare \/ GiveUpUnregistered \/ GiveUpIdle \/ DispatcherCrash
    BY <1>2, <2>5 DEF ReadLost, Spare, GiveUpUnregistered, GiveUpIdle, DispatcherCrash, StoreUnchanged
  <2>. QED BY <1>4, <2>1, <2>2, <2>3, <2>4, <2>5 DEF DispatcherStep
<1>5. CASE CoordinatorStep
  <2>1. CASE \E j \in Jobs : Submit(j) \/ CancelRead(j) \/ CliCancel(j)
    BY <1>0, <1>1, <1>2, <2>1 DEF Submit, CancelRead, CliCancel
  <2>2. CASE CancelFinish
    BY <1>0, <1>1, <2>2 DEF CancelFinish
  <2>3. CASE \E w \in Workers : Claim(w)
    BY <1>0, <1>1, <2>3 DEF Claim, Queued
  <2>4. CASE CallbackApplied \/ CallbackUnanswered
    <3>1. jobs' = [jobs EXCEPT ![srv.job] = CallbackRow]
      BY <2>4 DEF CallbackApplied, CallbackUnanswered
    <3>2. srv.job = k /\ CallbackRow # jobs[k]
      BY <1>0, <3>1
    <3>3. srv.op \in {"running", "progress", "complete", "fail"}
      BY <2>4 DEF CallbackApplied, CallbackUnanswered, Callback
    <3>4. /\ srv.op = "running" => CallbackRow = WithStatus(jobs[k], "running")
          /\ srv.op = "complete" => CallbackRow = WithStatus(jobs[k], "completed")
          /\ srv.op = "fail" => CallbackRow = FailedRow(jobs[k])
      BY <3>2 DEF CallbackRow
    <3>. QED BY <1>1, <3>2, <3>3, <3>4
  <2>5. CASE \/ CancelRevoke \/ ClaimAnswered \/ ClaimUnanswered
             \/ \E w \in Workers : Heartbeat(w) \/ CallbackAuthorized(w) \/ CallbackRefused(w)
    BY <1>2, <2>5 DEF CancelRevoke, ClaimAnswered, ClaimUnanswered, Heartbeat, CallbackAuthorized, CallbackRefused
  <2>. QED BY <1>5, <2>1, <2>2, <2>3, <2>4, <2>5 DEF CoordinatorStep
<1>6. CASE MachineStep
  BY <1>2, <1>6 DEF MachineStep, ResourceAppears, ResourceStops, ResourceLost, LeaseExpires, DeadlinePasses, NextJob,
     StopCancelled, WorkerExits, Boot, HeartbeatAges, OnlyWorkersChange, OnlyMachinesChange, ClockTick
<1>. QED BY <1>4, <1>5, <1>6 DEF Next

\* A terminal job stays as it is, whatever the processes do, except under the
\* launch that stamps its placement on rows read earlier and under set_progress.
THEOREM TerminalJobsStay == Spec => TerminalLostOnlyToStaleRow
<1>1. ClaimInv /\ [Next]_vars =>
        [\A j \in Jobs :
           jobs[j].status \in Terminal /\ jobs'[j] # jobs[j] =>
             \/ disp.pc \in {"stamp", "restamp"} /\ j \in disp.jobs
             \/ srv.op = "progress" /\ srv.job = j]_vars
  BY TerminalStays
<1>. QED BY <1>1, ClaimInvariant, PTL DEF Spec, TerminalLostOnlyToStaleRow

=============================================================================
