-------------------------- MODULE MCRegionalReplicas --------------------------
EXTENDS RegionalReplicas, TLC

Symmetry == Permutations(Requests) \cup Permutations(Regions)

=============================================================================
