---------------------------- MODULE MCLeaseControl ----------------------------
EXTENDS LeaseControl, TLC

Symmetry == Permutations(Jobs) \cup Permutations(Leases) \cup Permutations(Workers)

\* One job over several leases and workers, or several jobs over one machine.
OneJob == \E j \in Jobs : \A k \in Jobs \ {j} : jobs[k].status = "none"

OneMachine ==
    /\ \E l \in Leases : \A k \in Leases \ {l} : leases[k].status = "none"
    /\ \E w \in Workers : \A v \in Workers \ {w} :
         wk[v] = Off /\ \A l \in Leases : leases[l].worker # v

OneJobOrMachine == OneJob \/ OneMachine

=============================================================================
