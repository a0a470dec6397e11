----------------------------- MODULE PlanContract -----------------------------
(***************************************************************************)
(* What the plan protocol promises to a client.  A plan is quoted, any     *)
(* number of times; one quote is accepted at most once, and puts one fresh *)
(* job to work; the accepted plan is closed at most once, with an outcome  *)
(* that is never revised.  The job never changes.                          *)
(***************************************************************************)
CONSTANTS Plans, Jobs, NoJob

VARIABLES phase,   \* of each plan: none, quoted, accepted, or how it was closed
          work     \* the job of each accepted plan

contract == <<phase, work>>

Outcome == {"completed", "cancelled", "failed"}

ContractInit ==
    /\ phase = [p \in Plans |-> "none"]
    /\ work = [p \in Plans |-> NoJob]

Quote(p) ==
    /\ phase[p] = "none"
    /\ phase' = [phase EXCEPT ![p] = "quoted"]
    /\ UNCHANGED work

Accept(p) ==
    /\ phase[p] = "quoted"
    /\ \E j \in Jobs \ {work[q] : q \in Plans} : work' = [work EXCEPT ![p] = j]
    /\ phase' = [phase EXCEPT ![p] = "accepted"]

Settle(p) ==
    /\ phase[p] = "accepted"
    /\ \E outcome \in Outcome : phase' = [phase EXCEPT ![p] = outcome]
    /\ UNCHANGED work

ContractNext == \E p \in Plans : Quote(p) \/ Accept(p) \/ Settle(p)

ContractSpec == ContractInit /\ [][ContractNext]_contract

=============================================================================
