----------------------------- MODULE BillingClaim -----------------------------
(***************************************************************************)
(* What a lease promises about money.  A paid resource is acquired only    *)
(* under a declared intent; once the intent is bound to its resource, the  *)
(* claim is closed only after the resource has been released, and a        *)
(* released resource never comes back.  An intent that was never bound may *)
(* be dropped.                                                             *)
(***************************************************************************)
CONSTANT Leases

VARIABLES claim,     \* of each lease: none, intent, bound, closed, dropped
          resource   \* of each lease: absent, held, released

bill == <<claim, resource>>

ClaimInit ==
    /\ claim = [l \in Leases |-> "none"]
    /\ resource = [l \in Leases |-> "absent"]

Declare(l) ==
    /\ claim[l] = "none"
    /\ claim' = [claim EXCEPT ![l] = "intent"]
    /\ UNCHANGED resource

Acquire(l) ==
    /\ claim[l] = "intent" /\ resource[l] = "absent"
    /\ resource' = [resource EXCEPT ![l] = "held"]
    /\ UNCHANGED claim

BindClaim(l) ==
    /\ claim[l] = "intent" /\ resource[l] # "absent"
    /\ claim' = [claim EXCEPT ![l] = "bound"]
    /\ UNCHANGED resource

Release(l) ==
    /\ resource[l] = "held"
    /\ resource' = [resource EXCEPT ![l] = "released"]
    /\ UNCHANGED claim

Drop(l) ==
    /\ claim[l] = "intent"
    /\ claim' = [claim EXCEPT ![l] = "dropped"]
    /\ UNCHANGED resource

Close(l) ==
    /\ claim[l] = "bound" /\ resource[l] = "released"
    /\ claim' = [claim EXCEPT ![l] = "closed"]
    /\ UNCHANGED resource

ClaimNext == \E l \in Leases : \/ Declare(l) \/ Acquire(l) \/ BindClaim(l)
                               \/ Release(l) \/ Drop(l) \/ Close(l)

ClaimSpec == ClaimInit /\ [][ClaimNext]_bill

=============================================================================
