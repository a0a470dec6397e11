---------------------------- MODULE MCBenchmark ----------------------------
(* One campaign of each kind of fault, and the base scenario one needs;     *)
(* the one with the provider's fault has two machines.                     *)
EXTENDS Benchmark

\* The first event has the rate of the offer, a later one the lease.
MCMentions == {[leased |-> FALSE, rated |-> TRUE], [leased |-> TRUE, rated |-> FALSE]}

Kind(cache, policy, fault, expects) ==
    [cache |-> cache, policy |-> policy, fault |-> fault, expects |-> expects]

Cold == Kind("cold", TRUE, "none", "completed")

Campaign(scenarios, machines, entries, calls, setting, edits) ==
    [scenarios |-> scenarios, machines |-> machines, entries |-> entries, calls |-> calls,
     setting |-> setting, edits |-> edits]

MCCampaigns ==
    {Campaign(<<Cold>>, 1, 1, 0, "first", TRUE),
     Campaign(<<Cold, Kind("failure", FALSE, "corruption", "completed")>>, 2, 1, 0, "bench", FALSE),
     Campaign(<<Kind("failure", TRUE, "storage", "completed")>>, 1, 1, 0, "first", TRUE),
     Campaign(<<Kind("failure", FALSE, "provider", "completed")>>, 2, 2, 0, "first", FALSE),
     Campaign(<<Kind("failure", FALSE, "cancellation", "failed")>>, 1, 2, 1, "first", FALSE),
     Campaign(<<Kind("failure", FALSE, "restart", "failed")>>, 1, 1, 0, "first", FALSE)}

=============================================================================
