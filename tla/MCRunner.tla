------------------------------ MODULE MCRunner ------------------------------
(* A runner's staging and its loop, and the journal of one job, one of the *)
(* two at a time; of the journal's bounds, each part spends some.          *)
EXTENDS WorkerRun, EventJournal, TLC

CONSTANTS j1, j2, p1, p2, d1, d2, s1, s2

VARIABLE part

MCDeclares == j1 :> d1 @@ j2 :> d2

MCPlaced == [Nothing EXCEPT !.packs[p1] = "whole", !.models = {d1}]

MCForeign == [packs |-> [p \in Packs |-> "whole"], env |-> Packs, weights |-> {s1, s2, d1}, models |-> {}]

\* What each part has already used up.
Spent ==
    "runner" :> [calls |-> MaxCalls, events |-> MaxEvents, faults |-> MaxFaults,
                 snapshots |-> MaxSnapshots, leases |-> MaxLeases, entries |-> 0] @@
    "events" :> [Unused EXCEPT !.calls = MaxCalls, !.snapshots = MaxSnapshots, !.leases = MaxLeases] @@
    "progress" :> [Unused EXCEPT !.events = MaxEvents, !.faults = MaxFaults, !.leases = MaxLeases, !.entries = 2] @@
    "leases" :> [Unused EXCEPT !.calls = MaxCalls, !.events = MaxEvents, !.snapshots = MaxSnapshots]

MCInit ==
    /\ part \in DOMAIN Spent
    /\ RunnerInit /\ Created(Spent[part])
    /\ part # "runner" => ~setup.cache

MCNext ==
    \/ part = "runner" /\ RunnerNext /\ UNCHANGED <<journalVars, part>>
    \/ part # "runner" /\ JournalNext /\ UNCHANGED <<runnerVars, part>>

MCSpec == MCInit /\ [][MCNext]_<<runnerVars, journalVars, part>>

=============================================================================
