------------------------- MODULE PlanAuthority_proofs -------------------------
(***************************************************************************)
(* What is proved about plans: a plan has one job, an idempotency key one  *)
(* answer, a closed plan agrees with its job, and the authority rows       *)
(* implement the contract.                                                 *)
(***************************************************************************)
EXTENDS PlanAuthority, TLAPS

-----------------------------------------------------------------------------
(* The inductive invariant *)

\* A queued row has an attempt left; also the row set_progress holds.
SoundRow(row) == row.status = "queued" => row.attempts < MaxAttempts

\* A plan is unused exactly as long as it names no job; a job row and the
\* authority of its plan name each other.
Linked ==
    /\ \A p \in Plans :
         /\ auth[p].state \in {"none", "preflighted"} <=> auth[p].job = NoJob
         /\ auth[p].job = NoJob => auth[p].key = NoKey
         /\ auth[p].job # NoJob => planOf[auth[p].job] = p
    /\ \A j \in Jobs : jobs[j].status # "none" <=> planOf[j] # NoPlan
    /\ OneJobPerPlan
    /\ \A w \in Workers : \A j \in attached[w] : jobs[j].status # "none"

\* A key is stored with one plan, and only its job was ever given out for it.
KeysLinked ==
    /\ \A p, q \in Plans : auth[p].key = auth[q].key /\ auth[p].key \in Keys => p = q
    /\ \A k \in Keys : \A j \in accepted[k] : planOf[j] \in Plans /\ auth[planOf[j]].key = k

StoreInv ==
    /\ TypeOK
    /\ \A j \in Jobs : SoundRow(jobs[j])
    /\ Linked
    /\ KeysLinked
    /\ ClosureAgreesWithJob

JobOp == {"running", "sync", "progress", "complete", "probe", "fail", "cancel", "settle"}

\* What a request relies on when it comes back to the store: nobody has used
\* the row it will quote, or closed the plan whose progress it will store.
RequestInv ==
    /\ srv.op \in {"quote", "submit"} => srv.plan \in Plans /\ srv.terms \in Terms
    /\ srv.op = "submit" => srv.key \in Keys
    /\ srv.op = "quote" => /\ auth[srv.plan].state \in {"none", "preflighted"}
                           /\ auth[srv.plan].quote < MaxQuotes
    /\ srv.op \in JobOp => /\ srv.job \in Jobs /\ srv.plan = planOf[srv.job]
                           /\ jobs[srv.job].status # "none"
    /\ srv.op = "progress" => /\ srv.row.status # "none"
                              /\ auth[srv.plan].state \notin Closed
    /\ SoundRow(srv.row)

PlanInv == StoreInv /\ RequestInv

-----------------------------------------------------------------------------
(* Lemmas about rows *)

\* The row transitions of the queue keep the type, and leave terminal rows alone.
LEMMA RowsKept ==
    ASSUME NEW row \in JobRow, SoundRow(row), row.status # "none"
    PROVE  /\ \A s \in {"running", "completed", "failed"} :
                /\ WithStatus(row, s) \in JobRow /\ SoundRow(WithStatus(row, s))
                /\ WithStatus(row, s).status # "none"
                /\ row.status \notin Terminal => WithStatus(row, s).status = s
           /\ FailedRow(row) \in JobRow /\ SoundRow(FailedRow(row))
           /\ FailedRow(row).status # "none"
           /\ row.status \notin Terminal /\ row.attempts >= MaxAttempts
                => FailedRow(row).status = "dead_letter"
           /\ row.status \in Terminal =>
                FailedRow(row) = row /\ \A s : WithStatus(row, s) = row
<1> USE AttemptsAssumption, NoWorkerAssumption
<1>1. row \in [status : JobStatus, worker : Workers \cup {NoWorker}, attempts : 0..MaxAttempts]
  BY DEF JobRow
<1>2. \A s \in {"running", "completed", "failed"} : WithStatus(row, s) \in JobRow
  BY <1>1 DEF WithStatus, JobRow, JobStatus
<1>3. FailedRow(row) \in JobRow
  BY <1>1 DEF FailedRow, JobRow, JobStatus
<1>4. \A s \in {"running", "completed", "failed"} :
        /\ SoundRow(WithStatus(row, s))
        /\ WithStatus(row, s).status # "none"
        /\ row.status \notin Terminal => WithStatus(row, s).status = s
  BY <1>1 DEF WithStatus, SoundRow, Terminal
<1>5. /\ SoundRow(FailedRow(row)) /\ FailedRow(row).status # "none"
      /\ row.status \notin Terminal /\ row.attempts >= MaxAttempts
           => FailedRow(row).status = "dead_letter"
  BY <1>1 DEF FailedRow, SoundRow, Terminal
<1>6. row.status \in Terminal => FailedRow(row) = row /\ \A s : WithStatus(row, s) = row
  BY DEF FailedRow, WithStatus
<1> QED BY <1>2, <1>3, <1>4, <1>5, <1>6

\* A closure keeps the type and the links of an authority row; a row that was
\* open is closed with the outcome and the receipt.
LEMMA ClosingKept ==
    ASSUME NEW a \in Authority, NEW outcome \in Closed
    PROVE  /\ ClosedAs(a, outcome) \in Authority
           /\ ClosedAs(a, outcome).state \in Closed
           /\ ClosedAs(a, outcome).job = a.job /\ ClosedAs(a, outcome).key = a.key
           /\ a.state \in Closed => ClosedAs(a, outcome) = a
           /\ a.state \notin Closed => /\ ClosedAs(a, outcome).state = outcome
                                       /\ ClosedAs(a, outcome).receipt
<1>1. ClosedAs(a, outcome) \in Authority
  BY DEF ClosedAs, Authority, PlanState, Closed
<1> QED BY <1>1 DEF ClosedAs, Authority

\* An authority row and the row of its job move together: the shape of every
\* step that is not about quotes or a submission.  A closed authority row
\* stays as it is.
PairMoved(j, r, a) ==
    /\ jobs[j].status # "none"
    /\ r \in JobRow /\ SoundRow(r) /\ r.status # "none"
    /\ a \in Authority /\ a.state \notin {"none", "preflighted"}
    /\ a.job = j /\ a.key = auth[planOf[j]].key
    /\ auth[planOf[j]].state \in Closed => a = auth[planOf[j]]
    /\ a.state \in Closed =>
          /\ a.receipt
          /\ a.state = "completed" <=> r.status = "completed"
          /\ a.state # "completed" => r.status \in {"failed", "dead_letter"}
    /\ jobs' = [jobs EXCEPT ![j] = r]
    /\ auth' = [auth EXCEPT ![planOf[j]] = a]
    /\ UNCHANGED <<planOf, accepted>>
    /\ \A w \in Workers : attached'[w] \subseteq attached[w] \cup {j}

\* Leases are attached and closed, and a request goes on, within the types.
Typed == attached' \in [Workers -> SUBSET Jobs] /\ open' \in SUBSET Workers /\ srv' \in Request

\* A job and its plan that move together keep the invariant of the store.
LEMMA PairMoves ==
    ASSUME PlanInv, Typed, NEW j \in Jobs, NEW r, NEW a, PairMoved(j, r, a)
    PROVE  StoreInv'
<1> DEFINE p == planOf[j]
<1>0. /\ jobs \in [Jobs -> JobRow] /\ auth \in [Plans -> Authority]
      /\ planOf \in [Jobs -> Plans \cup {NoPlan}]
      /\ accepted \in [Keys -> SUBSET Jobs]
      /\ Linked /\ KeysLinked /\ ClosureAgreesWithJob
  BY DEF PlanInv, StoreInv, TypeOK
<1> USE DEF PairMoved, Typed
<1>1. p \in Plans /\ auth[p].job = j
  BY <1>0, PlanSentinels DEF Linked, OneJobPerPlan
<1>2. /\ auth'[p] = a /\ \A q \in Plans \ {p} : auth'[q] = auth[q]
      /\ jobs'[j] = r /\ \A i \in Jobs \ {j} : jobs'[i] = jobs[i]
  BY <1>0, <1>1
<1>3. TypeOK'
  BY <1>0, <1>1 DEF TypeOK
<1>4. (\A i \in Jobs : SoundRow(jobs[i]))'
  BY <1>2 DEF PlanInv, StoreInv
<1>5. Linked'
  <2>1. (\A q \in Plans :
           /\ auth[q].state \in {"none", "preflighted"} <=> auth[q].job = NoJob
           /\ auth[q].job = NoJob => auth[q].key = NoKey
           /\ auth[q].job # NoJob => planOf[auth[q].job] = q)'
    BY <1>0, <1>1, <1>2, PlanSentinels DEF Linked
  <2>2. (\A i \in Jobs : jobs[i].status # "none" <=> planOf[i] # NoPlan)'
    BY <1>0, <1>2 DEF Linked
  <2>3. OneJobPerPlan'
    BY <1>0, <1>1, <1>2 DEF Linked, OneJobPerPlan
  <2>4. (\A w \in Workers : \A i \in attached[w] : jobs[i].status # "none")'
    BY <1>0, <1>2 DEF Linked
  <2> QED BY <2>1, <2>2, <2>3, <2>4 DEF Linked
<1>6. KeysLinked'
  <2>1. \A q \in Plans : auth'[q].key = auth[q].key
    BY <1>1, <1>2
  <2>2. (\A q1, q2 \in Plans : auth[q1].key = auth[q2].key /\ auth[q1].key \in Keys => q1 = q2)'
    BY <1>0, <2>1 DEF KeysLinked
  <2>3. (\A k \in Keys : \A i \in accepted[k] : planOf[i] \in Plans /\ auth[planOf[i]].key = k)'
    <3> SUFFICES ASSUME NEW k \in Keys, NEW i \in accepted[k]
                 PROVE  planOf[i] \in Plans /\ auth'[planOf[i]].key = k
      OBVIOUS
    <3> QED BY <1>0, <2>1 DEF KeysLinked
  <2> QED BY <2>2, <2>3 DEF KeysLinked
<1>7. ClosureAgreesWithJob'
  <2> SUFFICES ASSUME NEW q \in Plans, auth'[q].state \in Closed
               PROVE  LET status == jobs'[auth'[q].job].status
                      IN  /\ auth'[q].receipt
                          /\ auth'[q].state = "completed" <=> status = "completed"
                          /\ auth'[q].state \in {"cancelled", "failed"}
                               => status \in {"failed", "dead_letter"}
    BY DEF ClosureAgreesWithJob
  <2>1. CASE q = p
    BY <1>2, <2>1
  <2>2. CASE q # p
    <3>1. auth'[q] = auth[q]
      BY <1>2, <2>2
    <3>2. auth[q].job # j
      BY <1>0, <1>1, <2>2, PlanSentinels DEF Linked
    <3>3. auth[q].job \in Jobs
      BY <1>0, <3>1 DEF Linked, Closed, Authority
    <3> QED BY <1>0, <1>2, <3>1, <3>2, <3>3 DEF ClosureAgreesWithJob
  <2> QED BY <2>1, <2>2
<1> QED BY <1>3, <1>4, <1>5, <1>6, <1>7 DEF StoreInv

-----------------------------------------------------------------------------
(* Every action preserves the invariant *)

\* Steps that leave the queue, the authority and the answers alone.
LEMMA NothingStored ==
    ASSUME PlanInv, UNCHANGED <<jobs, planOf, auth, attached, accepted>>,
           open' \in SUBSET Workers, srv' \in Request
    PROVE  StoreInv'
BY DEF PlanInv, StoreInv, TypeOK, Linked, KeysLinked, OneJobPerPlan, ClosureAgreesWithJob

\* What a request for a job may rely on, unfolded.
LEMMA JobRequest ==
    ASSUME PlanInv, NEW j \in Jobs, jobs[j].status # "none"
    PROVE  /\ planOf[j] \in Plans
           /\ auth[planOf[j]] \in Authority
           /\ auth[planOf[j]].job = j
           /\ auth[planOf[j]].state \notin {"none", "preflighted"}
           /\ jobs[j] \in JobRow /\ SoundRow(jobs[j])
           /\ auth[planOf[j]].state \in Closed =>
                /\ jobs[j].status \in Terminal
                /\ auth[planOf[j]].receipt
                /\ auth[planOf[j]].state = "completed" <=> jobs[j].status = "completed"
                /\ auth[planOf[j]].state # "completed" => jobs[j].status \in {"failed", "dead_letter"}
<1>1. planOf[j] \in Plans /\ auth[planOf[j]].job = j
  BY DEF PlanInv, StoreInv, TypeOK, Linked, OneJobPerPlan
<1>2. auth[planOf[j]] \in Authority /\ jobs[j] \in JobRow /\ SoundRow(jobs[j])
  BY <1>1 DEF PlanInv, StoreInv, TypeOK
<1>3. auth[planOf[j]].state \notin {"none", "preflighted"}
  BY <1>1, PlanSentinels DEF PlanInv, StoreInv, Linked
<1>4. auth[planOf[j]].state \in Closed =>
        /\ auth[planOf[j]].receipt
        /\ auth[planOf[j]].state = "completed" <=> jobs[j].status = "completed"
        /\ auth[planOf[j]].state # "completed" => jobs[j].status \in {"failed", "dead_letter"}
  BY <1>1 DEF PlanInv, StoreInv, ClosureAgreesWithJob, Closed
<1> QED BY <1>1, <1>2, <1>3, <1>4 DEF Terminal, Closed

\* A row that moves alone while its authority row stays: the row of a closed
\* plan stays too.
LEMMA RowMovesAlone ==
    ASSUME PlanInv, NEW j \in Jobs, jobs[j].status # "none",
           NEW r \in JobRow, SoundRow(r), r.status # "none",
           auth[planOf[j]].state \in Closed => r = jobs[j],
           PutRow(j, r), UNCHANGED <<auth, accepted, attached>>
    PROVE  PairMoved(j, r, auth[planOf[j]])
<1>1. planOf[j] \in Plans /\ auth \in [Plans -> Authority]
  BY JobRequest DEF PlanInv, StoreInv, TypeOK
<1>2. auth' = [auth EXCEPT ![planOf[j]] = auth[planOf[j]]]
  BY <1>1
<1> DEFINE a == auth[planOf[j]]
<1>3. /\ a \in Authority /\ a.state \notin {"none", "preflighted"} /\ a.job = j
      /\ a.state \in Closed =>
             /\ a.receipt
             /\ a.state = "completed" <=> r.status = "completed"
             /\ a.state # "completed" => r.status \in {"failed", "dead_letter"}
  BY JobRequest
<1> HIDE DEF a
<1>4. a = auth[planOf[j]] /\ auth' = [auth EXCEPT ![planOf[j]] = a]
  BY <1>2 DEF a
<1>5. PairMoved(j, r, a)
  BY <1>3, <1>4 DEF PairMoved, PutRow
<1> QED BY <1>4, <1>5

\* The coordinator is at rest after a request, and relies on nothing.
LEMMA AtRest == NoRequest \in Request /\ (srv' = NoRequest => RequestInv')
<1>1. NoJobRow \in JobRow
  BY AttemptsAssumption, NoWorkerAssumption DEF NoJobRow, JobRow, JobStatus
<1>2. NoRequest \in Request
  BY <1>1, QuotesAssumption DEF NoRequest, Request, SrvOp
<1>3. srv' = NoRequest => RequestInv'
  BY DEF RequestInv, NoRequest, NoJobRow, SoundRow, JobOp
<1> QED BY <1>2, <1>3

\* Quotes touch unused authority rows only.
LEMMA QuoteSteps ==
    ASSUME PlanInv, \/ \E p \in Plans : QuoteExpires(p) \/ \E t \in Terms : PreflightLookup(p, t)
                    \/ PreflightStore
    PROVE  PlanInv'
<1>0. /\ jobs \in [Jobs -> JobRow] /\ auth \in [Plans -> Authority] /\ srv \in Request
      /\ open \in SUBSET Workers
      /\ Linked /\ KeysLinked /\ ClosureAgreesWithJob /\ RequestInv
  BY DEF PlanInv, StoreInv, TypeOK
<1>1. ASSUME NEW p \in Plans, QuoteExpires(p) PROVE PlanInv'
  <2> DEFINE a == [auth[p] EXCEPT !.fresh = FALSE]
  <2>1. /\ a \in Authority /\ a.state = auth[p].state /\ a.job = auth[p].job /\ a.key = auth[p].key
        /\ a.receipt = auth[p].receipt /\ a.quote = auth[p].quote
    BY <1>0 DEF Authority
  <2>2. auth' = [auth EXCEPT ![p] = a] /\ UNCHANGED <<jobs, planOf, attached, open, srv, accepted>>
    BY <1>1 DEF QuoteExpires, OnlyAuthority, QueueUnchanged
  <2>3. /\ auth' \in [Plans -> Authority]
        /\ \A q \in Plans : /\ auth'[q].state = auth[q].state /\ auth'[q].job = auth[q].job
                            /\ auth'[q].key = auth[q].key /\ auth'[q].receipt = auth[q].receipt
                            /\ auth'[q].quote = auth[q].quote
    BY <1>0, <2>1, <2>2
  <2>4. TypeOK' /\ (\A j \in Jobs : SoundRow(jobs[j]))'
    BY <2>2, <2>3 DEF TypeOK, PlanInv, StoreInv
  <2>5. Linked' /\ KeysLinked' /\ ClosureAgreesWithJob'
    <3>1. Linked'
      BY <1>0, <2>2, <2>3, PlanSentinels DEF Linked, OneJobPerPlan, PlanInv, StoreInv, TypeOK
    <3>2. KeysLinked'
      BY <1>0, <2>2, <2>3 DEF KeysLinked, PlanInv, StoreInv, TypeOK
    <3>3. ClosureAgreesWithJob'
      BY <1>0, <2>2, <2>3 DEF ClosureAgreesWithJob
    <3> QED BY <3>1, <3>2, <3>3
  <2>6. RequestInv'
    <3>1. srv.op \in {"quote", "progress"} => srv.plan \in Plans
      BY <1>0, JobRequest DEF RequestInv, JobOp
    <3> QED BY <1>0, <2>2, <2>3, <3>1 DEF RequestInv
  <2> QED BY <2>4, <2>5, <2>6 DEF PlanInv, StoreInv
<1>2. ASSUME NEW p \in Plans, NEW t \in Terms, PreflightLookup(p, t) PROVE PlanInv'
  <2>1. /\ srv' = [NoRequest EXCEPT !.op = "quote", !.plan = p, !.terms = t]
        /\ UNCHANGED <<jobs, planOf, attached, open, auth, accepted>>
        /\ auth[p].state \in {"none", "preflighted"} /\ auth[p].quote < MaxQuotes
    BY <1>2 DEF PreflightLookup, QueueUnchanged
  <2>2. srv' \in Request
    BY <2>1, AtRest DEF Request, SrvOp
  <2>3. StoreInv'
    BY <1>0, <2>1, <2>2, NothingStored
  <2>4. RequestInv'
    BY <2>1 DEF RequestInv, NoRequest, JobOp, SoundRow, NoJobRow
  <2> QED BY <2>3, <2>4 DEF PlanInv
<1>3. CASE PreflightStore
  <2> DEFINE p == srv.plan
             a == [NoAuthority EXCEPT !.state = "preflighted", !.quote = auth[p].quote + 1,
                                      !.fresh = TRUE, !.terms = srv.terms]
  <2>1. /\ p \in Plans /\ srv.terms \in Terms /\ auth[p].quote < MaxQuotes
        /\ auth[p].state \in {"none", "preflighted"}
        /\ auth' = [auth EXCEPT ![p] = a] /\ srv' = NoRequest
        /\ UNCHANGED <<jobs, planOf, attached, open, accepted>>
    BY <1>0, <1>3 DEF PreflightStore, OnlyAuthority, QueueUnchanged, RequestInv
  <2>2. auth[p].quote + 1 \in 0..MaxQuotes
    <3>1. auth[p].quote \in 0..MaxQuotes
      BY <1>0, <2>1 DEF Authority
    <3> QED BY <2>1, <3>1, QuotesAssumption
  <2>3. a \in Authority
    BY <2>1, <2>2, QuotesAssumption DEF Authority, NoAuthority, PlanState
  <2>4. a.state = "preflighted" /\ a.job = NoJob /\ a.key = NoKey
    BY DEF NoAuthority
  <2>5. auth[p].job = NoJob /\ auth[p].key = NoKey
    BY <1>0, <2>1 DEF Linked
  <2> HIDE DEF a
  <2>6. /\ auth' \in [Plans -> Authority]
        /\ \A q \in Plans : /\ auth'[q].job = auth[q].job /\ auth'[q].key = auth[q].key
                            /\ q # p => auth'[q] = auth[q]
        /\ auth'[p] = a
    BY <1>0, <2>1, <2>3, <2>4, <2>5
  <2>7. TypeOK' /\ (\A j \in Jobs : SoundRow(jobs[j]))'
    BY <2>1, <2>6, AtRest DEF TypeOK, PlanInv, StoreInv
  <2>8. Linked'
    BY <1>0, <2>1, <2>4, <2>5, <2>6, PlanSentinels
    DEF Linked, OneJobPerPlan, PlanInv, StoreInv, TypeOK
  <2>9. KeysLinked'
    BY <1>0, <2>1, <2>6 DEF KeysLinked, PlanInv, StoreInv, TypeOK
  <2>10. ClosureAgreesWithJob'
    BY <1>0, <2>1, <2>4, <2>6 DEF ClosureAgreesWithJob, Closed
  <2> QED BY <2>1, <2>7, <2>8, <2>9, <2>10, AtRest DEF PlanInv, StoreInv
<1> QED BY <1>1, <1>2, <1>3

\* A submission puts one fresh job under an unused authority row.
LEMMA SubmitSteps ==
    ASSUME PlanInv,
           \/ \E p \in Plans, k \in Keys, t \in Terms, q \in 1..MaxQuotes : SubmitRead(p, k, t, q)
           \/ SubmitReplayed \/ SubmitAccepted \/ SubmitRefused
    PROVE  PlanInv'
<1>0. /\ jobs \in [Jobs -> JobRow] /\ auth \in [Plans -> Authority] /\ srv \in Request
      /\ open \in SUBSET Workers /\ accepted \in [Keys -> SUBSET Jobs]
      /\ planOf \in [Jobs -> Plans \cup {NoPlan}] /\ attached \in [Workers -> SUBSET Jobs]
      /\ Linked /\ KeysLinked /\ ClosureAgreesWithJob /\ RequestInv
      /\ \A j \in Jobs : SoundRow(jobs[j])
  BY DEF PlanInv, StoreInv, TypeOK
<1>1. ASSUME NEW p \in Plans, NEW k \in Keys, NEW t \in Terms, NEW q \in 1..MaxQuotes,
             SubmitRead(p, k, t, q)
      PROVE  PlanInv'
  <2>1. /\ srv' = [NoRequest EXCEPT !.op = "submit", !.plan = p, !.key = k, !.terms = t, !.quote = q]
        /\ UNCHANGED <<jobs, planOf, attached, open, auth, accepted>>
    BY <1>1 DEF SubmitRead, QueueUnchanged
  <2>2. srv' \in Request
    <3>1. q \in 0..MaxQuotes
      BY QuotesAssumption
    <3> QED BY <2>1, <3>1, AtRest DEF Request, SrvOp
  <2>3. StoreInv'
    BY <1>0, <2>1, <2>2, NothingStored
  <2>4. RequestInv'
    BY <2>1 DEF RequestInv, NoRequest, JobOp, SoundRow, NoJobRow
  <2> QED BY <2>3, <2>4 DEF PlanInv
<1>2. CASE SubmitReplayed
  <2> DEFINE p == srv.plan
             j == auth[p].job
  <2>1. /\ p \in Plans /\ srv.key \in Keys /\ j # NoJob /\ auth[p].key = srv.key
        /\ accepted' = [accepted EXCEPT ![srv.key] = @ \cup {j}] /\ srv' = NoRequest
        /\ UNCHANGED <<jobs, planOf, attached, open, auth>>
    BY <1>0, <1>2 DEF SubmitReplayed, SameRequest, QueueUnchanged, RequestInv
  <2>2. j \in Jobs /\ planOf[j] = p
    BY <1>0, <2>1 DEF Linked, Authority
  <2>3. accepted' \in [Keys -> SUBSET Jobs]
    BY <1>0, <2>1, <2>2
  <2>4. TypeOK'
    BY <2>1, <2>3, AtRest DEF TypeOK, PlanInv, StoreInv
  <2>5. Linked' /\ ClosureAgreesWithJob' /\ (\A i \in Jobs : SoundRow(jobs[i]))'
    BY <1>0, <2>1 DEF Linked, OneJobPerPlan, ClosureAgreesWithJob
  <2>6. KeysLinked'
    <3>1. (\A k \in Keys : \A i \in accepted[k] : planOf[i] \in Plans /\ auth[planOf[i]].key = k)'
      BY <1>0, <2>1, <2>2 DEF KeysLinked
    <3>2. (\A q1, q2 \in Plans : auth[q1].key = auth[q2].key /\ auth[q1].key \in Keys => q1 = q2)'
      BY <1>0, <2>1 DEF KeysLinked
    <3> QED BY <3>1, <3>2 DEF KeysLinked
  <2> QED BY <2>1, <2>4, <2>5, <2>6, AtRest DEF PlanInv, StoreInv
<1>3. CASE SubmitAccepted
  <2> DEFINE p == srv.plan
  <2>1. PICK j \in Jobs :
          /\ jobs[j].status = "none"
          /\ jobs' = [jobs EXCEPT ![j] = CreatedRow]
          /\ planOf' = [planOf EXCEPT ![j] = srv.plan]
          /\ OnlyAuthority(srv.plan, [auth[srv.plan] EXCEPT !.state = "submitting", !.key = srv.key,
                                                            !.job = j])
          /\ accepted' = [accepted EXCEPT ![srv.key] = @ \cup {j}]
    BY <1>3 DEF SubmitAccepted
  <2> DEFINE a == [auth[p] EXCEPT !.state = "submitting", !.key = srv.key, !.job = j]
  <2>2. /\ p \in Plans /\ srv.key \in Keys /\ auth[p].job = NoJob /\ KeyIsFree
        /\ srv' = NoRequest /\ auth' = [auth EXCEPT ![p] = a]
        /\ UNCHANGED <<attached, open>>
    BY <1>0, <1>3, <2>1 DEF SubmitAccepted, MaySubmit, OnlyAuthority, RequestInv
  <2>3. /\ a \in Authority /\ a.state = "submitting" /\ a.job = j /\ a.key = srv.key
    <3>1. auth[p] \in Authority /\ j \in Jobs /\ srv.key \in Keys
      BY <1>0, <2>1, <2>2
    <3>2. "submitting" \in PlanState
      BY DEF PlanState
    <3> HIDE DEF p
    <3> QED BY <3>1, <3>2 DEF Authority
  <2>4. CreatedRow \in JobRow /\ CreatedRow.status = "queued" /\ SoundRow(CreatedRow)
    BY AttemptsAssumption, NoWorkerAssumption DEF CreatedRow, NoJobRow, JobRow, JobStatus, SoundRow
  <2>5. planOf[j] = NoPlan
    BY <1>0, <2>1 DEF Linked
  <2> HIDE DEF a
  <2>6. /\ auth'[p] = a /\ \A q \in Plans \ {p} : auth'[q] = auth[q]
        /\ jobs'[j] = CreatedRow /\ \A i \in Jobs \ {j} : jobs'[i] = jobs[i]
        /\ planOf'[j] = p /\ \A i \in Jobs \ {j} : planOf'[i] = planOf[i]
        /\ accepted'[srv.key] = accepted[srv.key] \cup {j}
        /\ \A k \in Keys \ {srv.key} : accepted'[k] = accepted[k]
    BY <1>0, <2>1, <2>2
  <2>7. TypeOK'
    <3>1. /\ auth' \in [Plans -> Authority] /\ jobs' \in [Jobs -> JobRow]
          /\ planOf' \in [Jobs -> Plans \cup {NoPlan}] /\ accepted' \in [Keys -> SUBSET Jobs]
      BY <1>0, <2>1, <2>2, <2>3, <2>4
    <3> QED BY <1>0, <2>2, <3>1, AtRest DEF TypeOK
  <2>8. (\A i \in Jobs : SoundRow(jobs[i]))'
    BY <1>0, <2>4, <2>6
  <2>9. \A q \in Plans : auth[q].job # j
    BY <1>0, <2>2, <2>5, PlanSentinels DEF Linked
  <2>10. Linked'
    <3>1. (\A q \in Plans :
             /\ auth[q].state \in {"none", "preflighted"} <=> auth[q].job = NoJob
             /\ auth[q].job = NoJob => auth[q].key = NoKey
             /\ auth[q].job # NoJob => planOf[auth[q].job] = q)'
      <4> SUFFICES ASSUME NEW q \in Plans
                   PROVE  /\ auth'[q].state \in {"none", "preflighted"} <=> auth'[q].job = NoJob
                          /\ auth'[q].job = NoJob => auth'[q].key = NoKey
                          /\ auth'[q].job # NoJob => planOf'[auth'[q].job] = q
        OBVIOUS
      <4>1. CASE q = p
        BY <2>3, <2>6, <4>1, PlanSentinels
      <4>2. CASE q # p
        <5>1. auth'[q] = auth[q] /\ auth[q].job \in Jobs \cup {NoJob}
          BY <1>0, <2>6, <4>2 DEF Authority
        <5> QED BY <1>0, <2>6, <2>9, <5>1 DEF Linked
      <4> QED BY <4>1, <4>2
    <3>2. (\A i \in Jobs : jobs[i].status # "none" <=> planOf[i] # NoPlan)'
      BY <1>0, <2>2, <2>4, <2>6, PlanSentinels DEF Linked
    <3>3. OneJobPerPlan'
      BY <1>0, <2>2, <2>3, <2>6, PlanSentinels DEF Linked, OneJobPerPlan
    <3>4. (\A w \in Workers : \A i \in attached[w] : jobs[i].status # "none")'
      BY <1>0, <2>2, <2>4, <2>6 DEF Linked
    <3> QED BY <3>1, <3>2, <3>3, <3>4 DEF Linked
  <2>11. KeysLinked'
    <3>1. \A q \in Plans : auth[q].key # srv.key
      <4> SUFFICES ASSUME NEW q \in Plans, auth[q].key = srv.key PROVE FALSE
        OBVIOUS
      <4>1. q = p
        BY <2>2 DEF KeyIsFree
      <4> QED BY <1>0, <2>2, <4>1, PlanSentinels DEF Linked
    <3>2. (\A q1, q2 \in Plans : auth[q1].key = auth[q2].key /\ auth[q1].key \in Keys => q1 = q2)'
      BY <1>0, <2>2, <2>3, <2>6, <3>1 DEF KeysLinked
    <3>3. ASSUME NEW k \in Keys, NEW i \in accepted'[k]
          PROVE  planOf'[i] \in Plans /\ auth'[planOf'[i]].key = k
      <4>1. CASE i = j /\ k = srv.key
        BY <2>2, <2>3, <2>6, <4>1
      <4>2. CASE i \in accepted[k]
        <5>1. planOf[i] \in Plans /\ auth[planOf[i]].key = k /\ i \in Jobs
          BY <1>0, <4>2 DEF KeysLinked
        <5>2. i # j
          BY <2>5, <5>1, PlanSentinels
        <5>3. planOf[i] # p
          BY <1>0, <2>2, <5>1, PlanSentinels DEF Linked, OneJobPerPlan
        <5> QED BY <2>6, <5>1, <5>2, <5>3
      <4> QED BY <2>6, <3>3, <4>1, <4>2
    <3> QED BY <3>2, <3>3 DEF KeysLinked
  <2>12. ClosureAgreesWithJob'
    <3> SUFFICES ASSUME NEW q \in Plans, auth'[q].state \in Closed
                 PROVE  q # p /\ auth'[q] = auth[q] /\ jobs'[auth[q].job] = jobs[auth[q].job]
      BY <1>0 DEF ClosureAgreesWithJob
    <3>1. q # p
      BY <2>3, <2>6 DEF Closed
    <3>2. auth[q].job \in Jobs \cup {NoJob} /\ auth[q].state \in Closed
      BY <1>0, <2>6, <3>1 DEF Authority
    <3>3. auth[q].job \in Jobs
      BY <1>0, <3>2 DEF Linked, Closed
    <3> QED BY <2>6, <2>9, <3>1, <3>3
  <2> QED BY <2>2, <2>7, <2>8, <2>10, <2>11, <2>12, AtRest DEF PlanInv, StoreInv
<1>4. CASE SubmitRefused
  <2>1. srv' = NoRequest /\ UNCHANGED <<jobs, planOf, attached, open, auth, accepted>>
    BY <1>4 DEF SubmitRefused, QueueUnchanged
  <2> QED BY <1>0, <2>1, NothingStored, AtRest DEF PlanInv
<1> QED BY <1>1, <1>2, <1>3, <1>4

\* Steps of a worker, a cancellation, the dispatcher and the command line.
JobStep ==
    \/ Running \/ SyncRunning \/ Progress \/ Complete \/ Probe \/ Fail \/ Cancel \/ SettleFailed
    \/ \E j \in Jobs : CancelRead(j) \/ CliCancel(j)
    \/ \E w \in Workers, j \in Jobs :
         \/ Claim(w, j) \/ CallbackAuthorized(w, j)
         \/ DispatcherFails(w, j) \/ DispatcherRequeues(w, j)
    \/ \E w \in Workers : LeaseCloses(w)

\* The effect of a job step on the store.
JobEffect ==
    \/ UNCHANGED <<jobs, planOf, auth, attached, accepted>>
    \/ \E j \in Jobs, r \in JobRow, a \in Authority : PairMoved(j, r, a)

\* A terminal transaction, or a failure with attempts left, moves the pair.
LEMMA FailedMoves ==
    ASSUME PlanInv, NEW j \in Jobs, jobs[j].status # "none", NEW receipt \in BOOLEAN,
           Failed(j, receipt), UNCHANGED <<attached, accepted>>
    PROVE  JobEffect
<1> DEFINE p == planOf[j]
<1>0. /\ p \in Plans /\ auth[p] \in Authority /\ auth[p].job = j
      /\ auth[p].state \notin {"none", "preflighted"}
      /\ jobs[j] \in JobRow /\ SoundRow(jobs[j])
      /\ jobs \in [Jobs -> JobRow] /\ auth \in [Plans -> Authority]
  BY JobRequest DEF PlanInv, StoreInv, TypeOK
<1>1. CASE jobs[j].status \in Terminal
  <2>1. CASE jobs[j].status # "completed" /\ receipt
    <3> DEFINE a == ClosedAs(auth[p], "failed")
    <3>1. /\ a \in Authority /\ a.state \in Closed /\ a.job = j /\ a.key = auth[p].key
          /\ auth[p].state \in Closed => a = auth[p]
          /\ auth[p].state \notin Closed => a.state = "failed" /\ a.receipt
      BY <1>0, ClosingKept DEF Closed
    <3>2. auth' = [auth EXCEPT ![p] = a] /\ planOf' = planOf /\ jobs' = jobs
      BY <1>1, <2>1 DEF Failed
    <3>3. jobs' = [jobs EXCEPT ![j] = jobs[j]]
      BY <1>0, <3>2
    <3>4. a.state \in Closed =>
            /\ a.receipt
            /\ a.state = "completed" <=> jobs[j].status = "completed"
            /\ a.state # "completed" => jobs[j].status \in {"failed", "dead_letter"}
      BY <1>1, <2>1, <3>1, JobRequest DEF Terminal
    <3> HIDE DEF a
    <3>5. PairMoved(j, jobs[j], a)
      BY <1>0, <3>1, <3>2, <3>3, <3>4 DEF PairMoved, Closed
    <3> QED BY <1>0, <3>1, <3>5 DEF JobEffect
  <2>2. CASE ~(jobs[j].status # "completed" /\ receipt)
    BY <1>1, <2>2 DEF Failed, JobEffect
  <2> QED BY <2>1, <2>2
<1>2. CASE /\ jobs[j].status \notin Terminal
           /\ auth[p].state \in Closed \/ (jobs[j].attempts >= MaxAttempts /\ ~receipt)
  BY <1>2 DEF Failed, JobEffect
<1>3. CASE /\ jobs[j].status \notin Terminal
           /\ ~(auth[p].state \in Closed \/ (jobs[j].attempts >= MaxAttempts /\ ~receipt))
  <2> DEFINE a == IF jobs[j].attempts >= MaxAttempts THEN ClosedAs(auth[p], "failed")
                  ELSE [auth[p] EXCEPT !.state = "submitted"]
  <2>1. /\ jobs' = [jobs EXCEPT ![j] = FailedRow(jobs[j])] /\ planOf' = planOf
        /\ auth' = [auth EXCEPT ![p] = a]
    BY <1>3 DEF Failed, PutRow, OnlyAuthority
  <2>2. /\ a \in Authority /\ a.job = j /\ a.key = auth[p].key
        /\ a.state \in {"failed", "submitted"}
        /\ a.state = "failed" => a.receipt /\ jobs[j].attempts >= MaxAttempts
    <3>1. CASE jobs[j].attempts >= MaxAttempts
      BY <1>0, <1>3, <3>1, ClosingKept DEF Closed
    <3>2. CASE ~(jobs[j].attempts >= MaxAttempts)
      BY <1>0, <3>2 DEF Authority, PlanState
    <3> QED BY <3>1, <3>2
  <2>3. /\ FailedRow(jobs[j]) \in JobRow /\ SoundRow(FailedRow(jobs[j]))
        /\ FailedRow(jobs[j]).status # "none"
        /\ a.state = "failed" => FailedRow(jobs[j]).status = "dead_letter"
    BY <1>0, <1>3, <2>2, RowsKept
  <2> HIDE DEF a
  <2>4. PairMoved(j, FailedRow(jobs[j]), a)
    BY <1>0, <1>3, <2>1, <2>2, <2>3 DEF PairMoved, Closed
  <2> QED BY <2>2, <2>3, <2>4 DEF JobEffect
<1> QED BY <1>1, <1>2, <1>3

\* The same for a completion and a cancellation, which look at both rows.
LEMMA ClosureMoves ==
    ASSUME PlanInv, NEW j \in Jobs, jobs[j].status # "none",
           Applies(jobs[j], auth[planOf[j]]),
           NEW status \in {"completed", "failed"}, NEW outcome \in {"completed", "cancelled"},
           outcome = "completed" <=> status = "completed",
           PutRow(j, WithStatus(jobs[j], status)),
           OnlyAuthority(planOf[j], ClosedAs(auth[planOf[j]], outcome)),
           UNCHANGED <<attached, accepted>>
    PROVE  JobEffect
<1> DEFINE p == planOf[j]
           a == ClosedAs(auth[p], outcome)
           r == WithStatus(jobs[j], status)
<1>0. /\ p \in Plans /\ auth[p] \in Authority /\ auth[p].job = j
      /\ jobs[j] \in JobRow /\ SoundRow(jobs[j])
      /\ jobs[j].status \notin Terminal /\ auth[p].state \notin Closed
  BY JobRequest DEF Applies
<1>1. /\ a \in Authority /\ a.state = outcome /\ a.receipt /\ a.job = j /\ a.key = auth[p].key
  BY <1>0, ClosingKept DEF Closed
<1>2. r \in JobRow /\ SoundRow(r) /\ r.status = status
  BY <1>0, RowsKept
<1>3. jobs' = [jobs EXCEPT ![j] = r] /\ planOf' = planOf /\ auth' = [auth EXCEPT ![p] = a]
  BY DEF PutRow, OnlyAuthority
<1> HIDE DEF a, r
<1>4. PairMoved(j, r, a)
  BY <1>0, <1>1, <1>2, <1>3 DEF PairMoved
<1> QED BY <1>1, <1>2, <1>4 DEF JobEffect

\* Every job step has such an effect.
LEMMA JobSteps ==
    ASSUME PlanInv, JobStep
    PROVE  JobEffect /\ Typed /\ RequestInv'
<1>0. /\ jobs \in [Jobs -> JobRow] /\ auth \in [Plans -> Authority] /\ srv \in Request
      /\ open \in SUBSET Workers /\ attached \in [Workers -> SUBSET Jobs] /\ RequestInv
  BY DEF PlanInv, StoreInv, TypeOK
<1>1. ASSUME srv.op \in JobOp
      PROVE  /\ srv.job \in Jobs /\ jobs[srv.job].status # "none" /\ srv.plan = planOf[srv.job]
             /\ srv.plan \in Plans
             /\ jobs[srv.job] \in JobRow /\ SoundRow(jobs[srv.job])
             /\ auth[srv.plan] \in Authority /\ auth[srv.plan].job = srv.job
             /\ auth[srv.plan].state \notin {"none", "preflighted"}
             /\ auth[srv.plan].state \in Closed => jobs[srv.job].status \in Terminal
  BY <1>0, <1>1, JobRequest DEF RequestInv
<1>2. ASSUME srv' = NoRequest, UNCHANGED <<attached, open>> PROVE Typed /\ RequestInv'
  BY <1>0, <1>2, AtRest DEF Typed
<1>3. CASE Running
  <2> DEFINE r == WithStatus(jobs[srv.job], "running")
  <2>1. /\ srv.op \in JobOp /\ PutRow(srv.job, r) /\ srv' = [srv EXCEPT !.op = "sync"]
        /\ UNCHANGED <<auth, attached, open, accepted>>
    BY <1>3 DEF Running, JobOp
  <2>2. /\ r \in JobRow /\ SoundRow(r) /\ r.status # "none"
        /\ auth[srv.plan].state \in Closed => r = jobs[srv.job]
    BY <1>1, <2>1, RowsKept, ZenonT(60)
  <2>3. PairMoved(srv.job, r, auth[srv.plan])
    BY <1>1, <2>1, <2>2, RowMovesAlone
  <2>4. Typed
    BY <1>0, <2>1 DEF Typed, Request, SrvOp
  <2>5. RequestInv'
    <3>1. jobs'[srv.job].status # "none"
      BY <1>0, <1>1, <2>1, <2>2 DEF PutRow
    <3>2. /\ srv'.op = "sync" /\ srv'.job = srv.job /\ srv'.plan = srv.plan /\ srv'.row = srv.row
          /\ planOf' = planOf
      BY <1>0, <2>1 DEF Request, PutRow
    <3> QED BY <1>0, <1>1, <2>1, <3>1, <3>2 DEF RequestInv, JobOp
  <2> QED BY <1>1, <2>1, <2>2, <2>3, <2>4, <2>5 DEF JobEffect
<1>4. CASE SyncRunning
  <2>1. /\ srv.op \in JobOp /\ auth' = [auth EXCEPT ![srv.plan] = Synced(auth[srv.plan])]
        /\ srv' = NoRequest /\ UNCHANGED <<jobs, planOf, attached, open, accepted>>
    BY <1>4 DEF SyncRunning, OnlyAuthority, QueueUnchanged, JobOp
  <2> DEFINE a == Synced(auth[srv.plan])
  <2>2. /\ a \in Authority /\ a.job = srv.job /\ a.key = auth[srv.plan].key
        /\ a.state \notin {"none", "preflighted"}
        /\ a.state \in Closed \/ auth[srv.plan].state \in Closed => a = auth[srv.plan]
    BY <1>1, <2>1 DEF Synced, Authority, PlanState, Closed
  <2>3. jobs' = [jobs EXCEPT ![srv.job] = jobs[srv.job]]
    BY <1>0, <1>1, <2>1
  <2>4. a.state \in Closed =>
          /\ a.receipt
          /\ a.state = "completed" <=> jobs[srv.job].status = "completed"
          /\ a.state # "completed" => jobs[srv.job].status \in {"failed", "dead_letter"}
    BY <1>1, <2>1, <2>2, JobRequest
  <2> HIDE DEF a
  <2>5. PairMoved(srv.job, jobs[srv.job], a)
    <3>1. auth' = [auth EXCEPT ![srv.plan] = a]
      BY <2>1 DEF a
    <3> QED BY <1>1, <2>1, <2>2, <2>3, <2>4, <3>1 DEF PairMoved
  <2> QED BY <1>1, <1>2, <2>1, <2>2, <2>5 DEF JobEffect
<1>5. CASE Progress
  <2>1. /\ srv.op = "progress" /\ srv.op \in JobOp /\ PutRow(srv.job, srv.row) /\ srv' = NoRequest
        /\ UNCHANGED <<auth, attached, open, accepted>>
    BY <1>5 DEF Progress, JobOp
  <2>2. /\ srv.row \in JobRow /\ SoundRow(srv.row) /\ srv.row.status # "none"
        /\ auth[srv.plan].state \notin Closed
    BY <1>0, <2>1 DEF RequestInv, Request
  <2>3. PairMoved(srv.job, srv.row, auth[srv.plan])
    BY <1>1, <2>1, <2>2, RowMovesAlone
  <2> QED BY <1>1, <1>2, <2>1, <2>2, <2>3 DEF JobEffect
<1>6. CASE Complete
  <2>1. srv.op \in JobOp /\ srv' = NoRequest /\ UNCHANGED <<attached, open, accepted>>
    BY <1>6 DEF Complete, JobOp
  <2>2. CASE Applies(jobs[srv.job], auth[srv.plan])
    BY <1>1, <1>2, <1>6, <2>1, <2>2, ClosureMoves DEF Complete
  <2>3. CASE ~Applies(jobs[srv.job], auth[srv.plan]) /\ jobs[srv.job].status # "completed"
    BY <1>2, <1>6, <2>1, <2>3 DEF Complete, JobEffect
  <2>4. CASE ~Applies(jobs[srv.job], auth[srv.plan]) /\ jobs[srv.job].status = "completed"
    <3> DEFINE a == ClosedAs(auth[srv.plan], "completed")
    <3>1. /\ a \in Authority /\ a.job = srv.job /\ a.key = auth[srv.plan].key
          /\ a.state \in Closed
          /\ auth[srv.plan].state \in Closed => a = auth[srv.plan]
          /\ auth[srv.plan].state \notin Closed => a.state = "completed" /\ a.receipt
      BY <1>1, <2>1, ClosingKept DEF Closed
    <3>2. auth' = [auth EXCEPT ![srv.plan] = a] /\ planOf' = planOf
          /\ jobs' = [jobs EXCEPT ![srv.job] = jobs[srv.job]]
      BY <1>0, <1>1, <1>6, <2>1, <2>4 DEF Complete
    <3>3. /\ a.receipt
          /\ a.state = "completed" <=> jobs[srv.job].status = "completed"
          /\ a.state # "completed" => jobs[srv.job].status \in {"failed", "dead_letter"}
      BY <1>1, <2>1, <2>4, <3>1, JobRequest
    <3> HIDE DEF a
    <3>4. PairMoved(srv.job, jobs[srv.job], a)
      BY <1>1, <2>1, <2>4, <3>1, <3>2, <3>3 DEF PairMoved, Closed
    <3> QED BY <1>1, <1>2, <2>1, <3>1, <3>4 DEF JobEffect
  <2> QED BY <2>2, <2>3, <2>4
<1>7. CASE Cancel
  <2>1. srv.op \in JobOp /\ srv' = NoRequest /\ UNCHANGED <<attached, open, accepted>>
    BY <1>7 DEF Cancel, JobOp
  <2>2. CASE Applies(jobs[srv.job], auth[srv.plan])
    <3>1. PutRow(srv.job, WithStatus(jobs[srv.job], "failed"))
      BY <1>7, <2>2 DEF Cancel, Applies, WithStatus
    <3> QED BY <1>1, <1>2, <1>7, <2>1, <2>2, <3>1, ClosureMoves DEF Cancel
  <2>3. CASE ~Applies(jobs[srv.job], auth[srv.plan])
    BY <1>2, <1>7, <2>1, <2>3 DEF Cancel, JobEffect
  <2> QED BY <2>2, <2>3
<1>8. CASE Probe
  <2>1. /\ srv.op \in JobOp /\ srv' = [srv EXCEPT !.op = "fail", !.spent = (jobs[srv.job].attempts >= MaxAttempts)]
        /\ UNCHANGED <<jobs, planOf, attached, open, auth, accepted>>
    BY <1>8 DEF Probe, QueueUnchanged, JobOp
  <2>2. srv' \in Request
    <3>1. (jobs[srv.job].attempts >= MaxAttempts) \in BOOLEAN
      OBVIOUS
    <3> HIDE DEF JobRow
    <3> QED BY <1>0, <2>1, <3>1 DEF Request, SrvOp
  <2>3. /\ srv'.op = "fail" /\ srv'.job = srv.job /\ srv'.plan = srv.plan /\ srv'.row = srv.row
    BY <1>0, <2>1 DEF Request
  <2>4. RequestInv'
    BY <1>0, <1>1, <2>1, <2>3 DEF RequestInv, JobOp
  <2> QED BY <1>0, <2>1, <2>2, <2>4 DEF Typed, JobEffect
<1>9. CASE Fail \/ SettleFailed
  <2>1. /\ srv.op \in JobOp /\ srv' = NoRequest /\ UNCHANGED <<attached, open, accepted>>
        /\ \E receipt \in BOOLEAN : Failed(srv.job, receipt)
    BY <1>0, <1>9 DEF Fail, SettleFailed, JobOp, Request
  <2> QED BY <1>1, <1>2, <2>1, FailedMoves
<1>10. ASSUME NEW j \in Jobs, CancelRead(j) PROVE JobEffect /\ Typed /\ RequestInv'
  <2>1. /\ srv' = [NoRequest EXCEPT !.job = j, !.plan = planOf[j],
                     !.op = IF jobs[j].status \in Terminal THEN "settle" ELSE "cancel"]
        /\ UNCHANGED <<jobs, planOf, attached, open, auth, accepted>> /\ jobs[j].status # "none"
    BY <1>10 DEF CancelRead, QueueUnchanged
  <2>2. planOf[j] \in Plans
    BY <2>1, JobRequest
  <2>3. srv' \in Request
    BY <2>1, <2>2, AtRest DEF Request, SrvOp
  <2>4. RequestInv'
    BY <2>1 DEF RequestInv, NoRequest, JobOp, SoundRow, NoJobRow
  <2> QED BY <1>0, <2>1, <2>3, <2>4 DEF Typed, JobEffect
<1>11. ASSUME NEW w \in Workers, NEW j \in Jobs, CallbackAuthorized(w, j)
       PROVE  JobEffect /\ Typed /\ RequestInv'
  <2>1. PICK op \in {"running", "progress", "complete", "probe"} :
          /\ op = "progress" => jobs[j].status \notin Terminal
          /\ srv' = [NoRequest EXCEPT !.op = op, !.job = j, !.plan = planOf[j],
                       !.row = IF op = "progress" THEN jobs[j] ELSE NoJobRow]
    BY <1>11 DEF CallbackAuthorized
  <2>2. UNCHANGED <<jobs, planOf, attached, open, auth, accepted>> /\ j \in attached[w]
    BY <1>11 DEF CallbackAuthorized, QueueUnchanged, Authorized
  <2>3. jobs[j].status # "none"
    BY <2>2 DEF PlanInv, StoreInv, Linked
  <2>4. /\ planOf[j] \in Plans /\ jobs[j] \in JobRow /\ SoundRow(jobs[j])
        /\ auth[planOf[j]].state \in Closed => jobs[j].status \in Terminal
    BY <2>3, JobRequest
  <2>5. NoJobRow \in JobRow
    BY AttemptsAssumption, NoWorkerAssumption DEF NoJobRow, JobRow, JobStatus
  <2>6. srv' \in Request
    BY <2>1, <2>4, <2>5, AtRest DEF Request, SrvOp
  <2>7. RequestInv'
    BY <2>1, <2>2, <2>3, <2>4 DEF RequestInv, NoRequest, JobOp, SoundRow, NoJobRow
  <2> QED BY <1>0, <2>2, <2>6, <2>7 DEF Typed, JobEffect
<1>12. ASSUME NEW w \in Workers, NEW j \in Jobs, Claim(w, j)
       PROVE  JobEffect /\ Typed /\ RequestInv'
  <2> DEFINE r == ClaimedRow(jobs[j], w)
             a == [auth[planOf[j]] EXCEPT !.state = IF @ = "submitting" THEN "submitted" ELSE @]
  <2>1. /\ jobs[j].status = "queued" /\ PutRow(j, r) /\ srv.op = "none"
        /\ attached' = [attached EXCEPT ![w] = @ \cup {j}]
        /\ UNCHANGED <<open, srv, accepted>>
    BY <1>12 DEF Claim, Idle
  <2>2. /\ planOf[j] \in Plans /\ jobs[j] \in JobRow /\ SoundRow(jobs[j])
        /\ auth[planOf[j]] \in Authority /\ auth[planOf[j]].job = j
        /\ auth[planOf[j]].state \notin {"none", "preflighted"} \cup Closed
    BY <2>1, JobRequest DEF Terminal
  <2>3. auth' = [auth EXCEPT ![planOf[j]] = a]
    BY <1>0, <1>12, <2>2 DEF Claim, Authority
  <2>4. r \in JobRow /\ r.status = "dispatched"
    <3>1. /\ jobs[j].attempts \in 0..MaxAttempts /\ jobs[j].attempts < MaxAttempts
          /\ jobs[j] \in [status : JobStatus, worker : Workers \cup {NoWorker},
                          attempts : 0..MaxAttempts]
      BY <2>1, <2>2 DEF JobRow, SoundRow
    <3>2. jobs[j].attempts + 1 \in 0..MaxAttempts
      BY <3>1, AttemptsAssumption
    <3> QED BY <3>1, <3>2 DEF ClaimedRow, JobRow, JobStatus
  <2>5. /\ a \in Authority /\ a.job = j /\ a.key = auth[planOf[j]].key
        /\ a.state \notin {"none", "preflighted"} \cup Closed
    BY <2>2 DEF Authority, PlanState, Closed
  <2> HIDE DEF a, r
  <2>6. PairMoved(j, r, a)
    BY <1>0, <2>1, <2>2, <2>3, <2>4, <2>5 DEF PairMoved, PutRow, SoundRow
  <2>7. Typed
    BY <1>0, <2>1 DEF Typed
  <2>8. RequestInv'
    BY <1>0, <2>1 DEF RequestInv, JobOp
  <2> QED BY <2>4, <2>5, <2>6, <2>7, <2>8 DEF JobEffect
<1>13. ASSUME NEW j \in Jobs, NEW r \in JobRow, SoundRow(r), r.status # "none", jobs[j].status # "none",
              jobs[j].status \in Terminal => r = jobs[j], QueueRowMoved(j, r)
       PROVE  JobEffect /\ Typed /\ RequestInv'
  <2>1. PutRow(j, r) /\ UNCHANGED <<auth, attached, open, srv, accepted>>
    BY <1>13 DEF QueueRowMoved
  <2>2. /\ auth[planOf[j]].state \in Closed => r = jobs[j]
        /\ auth[planOf[j]] \in Authority
    BY <1>13, JobRequest
  <2>3. PairMoved(j, r, auth[planOf[j]])
    BY <1>13, <2>1, <2>2, RowMovesAlone
  <2>4. \A i \in Jobs : jobs[i].status # "none" => jobs'[i].status # "none"
    BY <1>0, <1>13, <2>1 DEF PutRow
  <2>5. RequestInv'
    BY <1>0, <2>1, <2>4 DEF RequestInv, PutRow
  <2> QED BY <1>0, <1>13, <2>1, <2>2, <2>3, <2>5 DEF JobEffect, Typed
<1>14. ASSUME NEW j \in Jobs, jobs[j].status # "none",
              \/ QueueRowMoved(j, WithStatus(jobs[j], "failed"))
              \/ QueueRowMoved(j, FailedRow(jobs[j]))
       PROVE  JobEffect /\ Typed /\ RequestInv'
  <2>1. jobs[j] \in JobRow /\ SoundRow(jobs[j])
    BY <1>14, JobRequest
  <2>2. CASE QueueRowMoved(j, WithStatus(jobs[j], "failed"))
    <3> DEFINE r == WithStatus(jobs[j], "failed")
    <3>1. /\ r \in JobRow /\ SoundRow(r) /\ r.status # "none"
          /\ jobs[j].status \in Terminal => r = jobs[j]
      BY <1>14, <2>1, RowsKept
    <3> QED BY <1>13, <1>14, <2>2, <3>1
  <2>3. CASE QueueRowMoved(j, FailedRow(jobs[j]))
    <3> DEFINE r == FailedRow(jobs[j])
    <3>1. /\ r \in JobRow /\ SoundRow(r) /\ r.status # "none"
          /\ jobs[j].status \in Terminal => r = jobs[j]
      BY <1>14, <2>1, RowsKept
    <3> QED BY <1>13, <1>14, <2>3, <3>1
  <2> QED BY <1>14, <2>2, <2>3
<1>15. ASSUME NEW j \in Jobs, CliCancel(j) PROVE JobEffect /\ Typed /\ RequestInv'
  BY <1>14, <1>15 DEF CliCancel
<1>16. ASSUME NEW w \in Workers, NEW j \in Jobs, DispatcherFails(w, j) \/ DispatcherRequeues(w, j)
       PROVE  JobEffect /\ Typed /\ RequestInv'
  <2>1. j \in attached[w]
    BY <1>16 DEF DispatcherFails, DispatcherRequeues
  <2>2. jobs[j].status # "none"
    BY <2>1 DEF PlanInv, StoreInv, Linked
  <2> QED BY <1>14, <1>16, <2>2 DEF DispatcherFails, DispatcherRequeues
<1>17. ASSUME NEW w \in Workers, LeaseCloses(w) PROVE JobEffect /\ Typed /\ RequestInv'
  BY <1>0, <1>17 DEF LeaseCloses, JobEffect, Typed, RequestInv
<1> QED BY <1>3, <1>4, <1>5, <1>6, <1>7, <1>8, <1>9, <1>10, <1>11, <1>12, <1>15, <1>16, <1>17 DEF JobStep

-----------------------------------------------------------------------------
(* The invariant, and what follows *)

\* The invariant is inductive.
LEMMA PlanStep == ASSUME PlanInv, [Next]_vars PROVE PlanInv'
<1>1. ASSUME JobStep PROVE PlanInv'
  <2>1. JobEffect /\ Typed /\ RequestInv'
    BY <1>1, JobSteps
  <2>2. CASE UNCHANGED <<jobs, planOf, auth, attached, accepted>>
    BY <2>1, <2>2, NothingStored DEF Typed, PlanInv
  <2>3. ASSUME NEW j \in Jobs, NEW r \in JobRow, NEW a \in Authority, PairMoved(j, r, a)
        PROVE  StoreInv'
    BY <2>1, <2>3, PairMoves
  <2> QED BY <2>1, <2>2, <2>3 DEF JobEffect, PlanInv
<1>2. ASSUME UNCHANGED vars PROVE PlanInv'
  BY <1>2 DEF vars, PlanInv, StoreInv, TypeOK, Linked, KeysLinked, OneJobPerPlan,
              ClosureAgreesWithJob, RequestInv
<1> QED BY <1>1, <1>2, QuoteSteps, SubmitSteps DEF Next, RequestStep, JobStep

\* The store starts empty.
LEMMA PlanStart == Init => PlanInv
<1> SUFFICES ASSUME Init PROVE PlanInv
  OBVIOUS
<1>1. NoJobRow \in JobRow /\ NoAuthority \in Authority
  BY AttemptsAssumption, NoWorkerAssumption, QuotesAssumption
  DEF NoJobRow, JobRow, JobStatus, NoAuthority, Authority, PlanState
<1>2. TypeOK
  BY <1>1, AtRest DEF Init, TypeOK
<1>3. (\A j \in Jobs : SoundRow(jobs[j])) /\ Linked /\ KeysLinked /\ ClosureAgreesWithJob
  BY PlanSentinels DEF Init, SoundRow, NoJobRow, NoAuthority, Linked, KeysLinked, OneJobPerPlan,
                       ClosureAgreesWithJob, Closed
<1>4. RequestInv
  BY DEF Init, RequestInv, NoRequest, NoJobRow, SoundRow, JobOp
<1> QED BY <1>2, <1>3, <1>4 DEF PlanInv, StoreInv

\* The rows of the queue, of the authority and of the request in progress
\* stand by each other at every moment.
THEOREM PlanInvariant == Spec => []PlanInv
BY PlanStart, PlanStep, PTL DEF Spec

\* Every row and the request in progress keep their shape.
THEOREM PlanTypes == Spec => []TypeOK
<1>1. PlanInv => TypeOK
  BY DEF PlanInv, StoreInv
<1> QED BY <1>1, PlanInvariant, PTL

\* One job per plan, whatever is quoted, submitted, refused and repeated.
THEOREM PlanHasOneJob == Spec => []OneJobPerPlan
<1>1. PlanInv => OneJobPerPlan
  BY DEF PlanInv, StoreInv, Linked
<1> QED BY <1>1, PlanInvariant, PTL

\* A repeated submission is answered with the same job.
THEOREM RepeatedSubmission == Spec => []SameKeySameJob
<1>1. PlanInv => SameKeySameJob
  <2> SUFFICES ASSUME PlanInv, NEW k \in Keys, NEW i \in accepted[k], NEW j \in accepted[k]
               PROVE  i = j
    BY DEF SameKeySameJob
  <2>1. /\ i \in Jobs /\ j \in Jobs /\ planOf[i] \in Plans /\ planOf[j] \in Plans
        /\ auth[planOf[i]].key = k /\ auth[planOf[j]].key = k
    BY DEF PlanInv, StoreInv, KeysLinked, TypeOK
  <2>2. planOf[i] = planOf[j]
    BY <2>1 DEF PlanInv, StoreInv, KeysLinked
  <2> QED BY <2>1, <2>2, PlanSentinels DEF PlanInv, StoreInv, Linked, OneJobPerPlan
<1> QED BY <1>1, PlanInvariant, PTL

\* A closed plan shows the outcome its job row shows.
THEOREM ClosureAgrees == Spec => []ClosureAgreesWithJob
<1>1. PlanInv => ClosureAgreesWithJob
  BY DEF PlanInv, StoreInv
<1> QED BY <1>1, PlanInvariant, PTL

-----------------------------------------------------------------------------
(* The contract *)

\* The phase of a plan as the contract sees it.
PhaseOf(row) == IF row.state = "preflighted" THEN "quoted"
                ELSE IF row.state \in {"submitting", "submitted", "running"}
                THEN "accepted" ELSE row.state

\* A step that moves the row of one plan is a step of the contract for that
\* plan, if the phase and the job move as the contract says.
LEMMA OneRowMoves ==
    ASSUME PlanInv, NEW p \in Plans, NEW a \in Authority, auth' = [auth EXCEPT ![p] = a],
           \/ PhaseOf(a) = PhaseOf(auth[p]) /\ a.job = auth[p].job
           \/ /\ PhaseOf(auth[p]) = "none" /\ PhaseOf(a) = "quoted" /\ a.job = auth[p].job
           \/ /\ PhaseOf(auth[p]) = "quoted" /\ PhaseOf(a) = "accepted"
              /\ a.job \in Jobs /\ \A q \in Plans : auth[q].job # a.job
           \/ /\ PhaseOf(auth[p]) = "accepted" /\ a.state \in Closed /\ a.job = auth[p].job
    PROVE  [Contract!ContractNext]_(Contract!contract)
<1> DEFINE phase == [q \in Plans |-> PhaseOf(auth[q])]
           work == [q \in Plans |-> auth[q].job]
<1>0. auth \in [Plans -> Authority]
  BY DEF PlanInv, StoreInv, TypeOK
<1>1. /\ phase' = [phase EXCEPT ![p] = PhaseOf(a)]
      /\ work' = [work EXCEPT ![p] = a.job]
  BY <1>0 DEF PhaseOf
<1>2. CASE PhaseOf(a) = PhaseOf(auth[p]) /\ a.job = auth[p].job
  <2>1. phase' = phase /\ work' = work
    BY <1>0, <1>2 DEF PhaseOf
  <2> QED BY <2>1 DEF Contract!contract, PhaseOf
<1>3. CASE PhaseOf(auth[p]) = "none" /\ PhaseOf(a) = "quoted" /\ a.job = auth[p].job
  <2>1. phase[p] = "none" /\ phase' = [phase EXCEPT ![p] = "quoted"] /\ work' = work
    BY <1>0, <1>1, <1>3
  <2>2. Contract!Quote(p)
    BY <2>1 DEF Contract!Quote, PhaseOf
  <2> QED BY <2>2 DEF Contract!ContractNext
<1>4. CASE /\ PhaseOf(auth[p]) = "quoted" /\ PhaseOf(a) = "accepted"
           /\ a.job \in Jobs /\ \A q \in Plans : auth[q].job # a.job
  <2>1. /\ phase[p] = "quoted" /\ phase' = [phase EXCEPT ![p] = "accepted"]
        /\ work' = [work EXCEPT ![p] = a.job]
        /\ a.job \in Jobs \ {work[q] : q \in Plans}
    BY <1>0, <1>1, <1>4
  <2>2. Contract!Accept(p)
    BY <2>1 DEF Contract!Accept, PhaseOf
  <2> QED BY <2>2 DEF Contract!ContractNext
<1>5. CASE PhaseOf(auth[p]) = "accepted" /\ a.state \in Closed /\ a.job = auth[p].job
  <2>1. /\ phase[p] = "accepted" /\ phase' = [phase EXCEPT ![p] = a.state] /\ work' = work
        /\ a.state \in Contract!Outcome
    BY <1>0, <1>1, <1>5 DEF PhaseOf, Closed, Contract!Outcome
  <2>2. Contract!Settle(p)
    BY <2>1 DEF Contract!Settle, PhaseOf
  <2> QED BY <2>2 DEF Contract!ContractNext
<1> QED BY <1>2, <1>3, <1>4, <1>5

\* Nothing happens to the contract while the authority rows stay.
LEMMA NoRowMoves == auth' = auth => [Contract!ContractNext]_(Contract!contract)
BY DEF Contract!contract

\* The authority rows implement the contract: each plan is accepted once, with
\* a job of its own, and closed once.
THEOREM PlanRefinement == Spec => ImplementsContract
<1>1. Init => Contract!ContractInit
  BY DEF Init, NoAuthority, Contract!ContractInit
<1>2. ASSUME PlanInv, [Next]_vars PROVE [Contract!ContractNext]_(Contract!contract)
  <2>0. auth \in [Plans -> Authority] /\ Linked /\ RequestInv
    BY <1>2 DEF PlanInv, StoreInv, TypeOK
  <2>1. CASE auth' = auth
    BY <2>1, NoRowMoves
  <2>2. ASSUME JobEffect, auth' # auth PROVE [Contract!ContractNext]_(Contract!contract)
    <3>1. PICK j \in Jobs, r \in JobRow, a \in Authority : PairMoved(j, r, a)
      BY <2>2 DEF JobEffect
    <3>2. /\ planOf[j] \in Plans /\ auth[planOf[j]] \in Authority /\ auth[planOf[j]].job = j
          /\ auth[planOf[j]].state \notin {"none", "preflighted"}
      BY <1>2, <3>1, JobRequest DEF PairMoved
    <3>3. /\ a.state \notin {"none", "preflighted"} /\ a.job = j
          /\ auth' = [auth EXCEPT ![planOf[j]] = a]
          /\ auth[planOf[j]].state \in Closed => a = auth[planOf[j]]
      BY <3>1 DEF PairMoved
    <3>4. \/ PhaseOf(a) = PhaseOf(auth[planOf[j]])
          \/ PhaseOf(auth[planOf[j]]) = "accepted" /\ a.state \in Closed
      BY <3>2, <3>3 DEF PhaseOf, Authority, PlanState, Closed
    <3> QED BY <1>2, <3>2, <3>3, <3>4, OneRowMoves
  <2>3. ASSUME NEW p \in Plans, QuoteExpires(p) PROVE [Contract!ContractNext]_(Contract!contract)
    <3> DEFINE a == [auth[p] EXCEPT !.fresh = FALSE]
    <3>1. auth' = [auth EXCEPT ![p] = a] /\ a \in Authority /\ a.state = auth[p].state
          /\ a.job = auth[p].job
      BY <2>0, <2>3 DEF QuoteExpires, OnlyAuthority, Authority
    <3>2. PhaseOf(a) = PhaseOf(auth[p])
      BY <3>1 DEF PhaseOf
    <3> HIDE DEF a
    <3> QED BY <1>2, <3>1, <3>2, OneRowMoves
  <2>4. CASE PreflightStore
    <3> DEFINE p == srv.plan
               a == [NoAuthority EXCEPT !.state = "preflighted", !.quote = auth[p].quote + 1,
                                        !.fresh = TRUE, !.terms = srv.terms]
    <3>1. /\ p \in Plans /\ srv.terms \in Terms /\ auth[p].quote < MaxQuotes
          /\ auth[p].state \in {"none", "preflighted"} /\ auth' = [auth EXCEPT ![p] = a]
      BY <2>0, <2>4 DEF PreflightStore, OnlyAuthority, RequestInv
    <3>2. auth[p].quote + 1 \in 0..MaxQuotes
      <4>1. auth[p].quote \in 0..MaxQuotes
        BY <2>0, <3>1 DEF Authority
      <4> QED BY <3>1, <4>1, QuotesAssumption
    <3>3. a \in Authority /\ PhaseOf(a) = "quoted" /\ a.job = NoJob
      BY <3>1, <3>2 DEF Authority, NoAuthority, PlanState, PhaseOf
    <3>4. auth[p].job = NoJob /\ PhaseOf(auth[p]) \in {"none", "quoted"}
      BY <2>0, <3>1 DEF Linked, PhaseOf
    <3> HIDE DEF a
    <3> QED BY <1>2, <3>1, <3>3, <3>4, OneRowMoves
  <2>5. CASE SubmitAccepted
    <3> DEFINE p == srv.plan
    <3>1. PICK j \in Jobs :
            /\ jobs[j].status = "none"
            /\ OnlyAuthority(p, [auth[p] EXCEPT !.state = "submitting", !.key = srv.key, !.job = j])
      BY <2>5 DEF SubmitAccepted
    <3> DEFINE a == [auth[p] EXCEPT !.state = "submitting", !.key = srv.key, !.job = j]
    <3>2. /\ p \in Plans /\ srv.key \in Keys /\ auth[p].state = "preflighted"
          /\ auth' = [auth EXCEPT ![p] = a]
      BY <2>0, <2>5, <3>1 DEF SubmitAccepted, MaySubmit, OnlyAuthority, RequestInv
    <3>3. a \in Authority /\ a.state = "submitting" /\ a.job = j
      <4>1. auth[p] \in Authority
        BY <2>0, <3>2
      <4> QED BY <3>2, <4>1 DEF Authority, PlanState
    <3>4. PhaseOf(auth[p]) = "quoted" /\ PhaseOf(a) = "accepted"
      BY <3>2, <3>3 DEF PhaseOf
    <3>5. \A q \in Plans : auth[q].job # j
      BY <2>0, <3>1, PlanSentinels DEF Linked
    <3> HIDE DEF a
    <3> QED BY <1>2, <3>2, <3>3, <3>4, <3>5, OneRowMoves
  <2>6. JobStep => JobEffect
    BY <1>2, JobSteps
  <2>7. auth' = auth \/ JobStep \/ (\E p \in Plans : QuoteExpires(p)) \/ PreflightStore \/ SubmitAccepted
    BY <1>2 DEF Next, RequestStep, JobStep, vars, PreflightLookup, SubmitRead, SubmitReplayed,
                SubmitRefused
  <2> QED BY <2>1, <2>2, <2>3, <2>4, <2>5, <2>6, <2>7
<1> QED BY <1>1, <1>2, PlanInvariant, PTL DEF Spec, ImplementsContract, Contract!ContractSpec

=============================================================================
