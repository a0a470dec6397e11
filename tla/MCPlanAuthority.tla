---------------------------- MODULE MCPlanAuthority ----------------------------
EXTENDS PlanAuthority, TLC

Symmetry == Permutations(Jobs) \cup Permutations(Plans) \cup Permutations(Terms)
            \cup Permutations(Keys) \cup Permutations(Workers)

=============================================================================
