------------------------------ MODULE ReplicaRows ------------------------------
(***************************************************************************)
(* Regional replication: the tables regional_replica_targets and           *)
(* regional_replica_actions of cloud_offload/cache_registry.py, the rules  *)
(* of regional_replication.py, and the routes of server.py that create     *)
(* target volumes, copy manifests to them, expire the copies and delete    *)
(* the empty volumes.                                                      *)
(*                                                                         *)
(* The routes are coroutines of one event loop: a handler runs alone until *)
(* it awaits a call to the provider, and any other request may run until   *)
(* the reply arrives.  `loop` is the handler that runs.  A call is carried *)
(* out or not, and its reply arrives or is an error, independently.        *)
(*                                                                         *)
(* A target row creates one provider volume at most, so the row's number   *)
(* names the volume and its cache_volumes row too; rows are numbered in    *)
(* the order of created_at.  Volume 0 is the source all profiles are       *)
(* prepared on.  Costs are counted in target volumes.                      *)
(***************************************************************************)
EXTENDS Integers, FiniteSets

CONSTANTS Regions,       \* replication.approved_regions
          Profiles,      \* profile fingerprints, one source manifest each
          Requests,      \* requests the coordinator may serve at a time
          Free,          \* no handler runs
          Automatic,     \* replication.mode is "automatic", not "shadow"
          TargetBudget,  \* replication.monthly_budget_usd
          TotalBudget,   \* prepared_storage.max_monthly_storage_cost
          MaxInflight,   \* replication.max_inflight
          MaxTargets,    \* bound on the target rows
          MaxCopies,     \* bound on the action rows
          MaxCrashes,    \* bound on the coordinator's restarts
          MaxLosses      \* bound on volumes lost or forgotten by others

ASSUME ReplicaNumbers ==
    /\ {TargetBudget, TotalBudget, MaxInflight, MaxTargets, MaxCopies, MaxCrashes, MaxLosses}
         \subseteq Nat
    /\ MaxInflight >= 1 /\ Free \notin Requests /\ Automatic \in BOOLEAN

Target == 1..MaxTargets
Copy   == 1..MaxCopies

VARIABLES targets,   \* regional_replica_targets
          vols,      \* cache_volumes.status of each target's volume
          listed,    \* cache_manifests of each volume, by profile
          actions,   \* regional_replica_actions
          storage,   \* external: the provider's volumes
          stored,    \* external: the manifests in each volume's index
          req, loop, \* the requests in progress, and the one that runs
          crashes, losses

rows == <<targets, vols, listed, actions>>
vars == <<targets, vols, listed, actions, storage, stored, req, loop, crashes, losses>>

-----------------------------------------------------------------------------
(* Rows *)

Open == {"creating", "ready", "deleting"}

TargetRow == [status     : {"none", "failed", "deleted", "lost"} \cup Open,
              region     : Regions \cup {Free},
              bound      : BOOLEAN,       \* provider_volume_id is stored
              registered : BOOLEAN]       \* cache_volume_id is stored

NoTarget == [status |-> "none", region |-> Free, bound |-> FALSE, registered |-> FALSE]

Active == {"copying", "completed"}

ActionRow == [status  : {"none", "failed", "expired", "lost"} \cup Active,
              profile : Profiles \cup {Free},
              source  : 0..MaxTargets,
              target  : 0..MaxTargets,
              due     : BOOLEAN]          \* expires_at has passed

NoAction == [status |-> "none", profile |-> Free, source |-> 0, target |-> 0, due |-> FALSE]

Request == [kind  : {"none", "tick", "expire", "execute"},
            pc    : {"idle", "clean", "get", "delete", "check", "inspect", "due", "unpublish",
                     "empty", "remove", "execute", "create", "undo", "copy", "index"},
            todo  : SUBSET (Target \cup Copy),  \* rows of the list the loop goes through
            seen  : SUBSET Target,              \* active_actions of the deletion of empty targets
            cur   : 0..(MaxTargets + MaxCopies),\* row of the call in progress
            profile : Profiles \cup {Free},     \* of the recommendation
            source  : 0..MaxTargets,            \* of the recommendation
            call  : {"none", "sent", "done"},
            found : SUBSET Profiles,            \* what a read of the index returned
            there : BOOLEAN]                    \* what get_storage returned

NoRequest == [kind |-> "none", pc |-> "idle", todo |-> {}, seen |-> {}, cur |-> 0,
              profile |-> Free, source |-> 0, call |-> "none", found |-> {}, there |-> FALSE]

TypeOK ==
    /\ targets \in [Target -> TargetRow]
    /\ vols \in [Target -> {"none", "ready", "degraded", "deleting", "failed"}]
    /\ listed \in [Target -> SUBSET Profiles]
    /\ actions \in [Copy -> ActionRow]
    /\ storage \in [Target -> {"none", "present", "gone"}]
    /\ stored \in [Target -> SUBSET Profiles]
    /\ req \in [Requests -> Request]
    /\ loop \in Requests \cup {Free}
    /\ crashes \in 0..MaxCrashes
    /\ losses \in 0..MaxLosses

Init ==
    /\ targets = [t \in Target |-> NoTarget]
    /\ vols = [t \in Target |-> "none"]
    /\ listed = [t \in Target |-> {}]
    /\ actions = [a \in Copy |-> NoAction]
    /\ storage = [t \in Target |-> "none"]
    /\ stored = [t \in Target |-> {}]
    /\ req = [q \in Requests |-> NoRequest]
    /\ loop = Free
    /\ crashes = 0
    /\ losses = 0

InStatus(S) == {t \in Target : targets[t].status \in S}

\* idx_regional_replica_target_active: one open row for each region.
IndexAllows(t, status) ==
    status \in Open => \A u \in InStatus(Open) \ {t} : targets[u].region # targets[t].region

\* update_replica_target has no guard on the status it replaces.
SetTarget(t, status) == targets' = [targets EXCEPT ![t].status = status]

\* lose_replica_actions_for_target
LoseActions(t) ==
    actions' = [a \in Copy |-> IF actions[a].target = t /\ actions[a].status \in Active
                               THEN [actions[a] EXCEPT !.status = "lost"] ELSE actions[a]]

-----------------------------------------------------------------------------
(* The event loop and the calls to the provider *)

ProviderUnchanged == UNCHANGED <<storage, stored, crashes, losses>>

Runs(q, pc) == loop = q /\ req[q].pc = pc

\* The handler of q goes on at pc with the rows of S still to do.
Goes(q, pc, S) ==
    /\ req' = [req EXCEPT ![q].pc = pc, ![q].todo = S, ![q].cur = 0, ![q].call = "none",
                          ![q].found = {}, ![q].there = FALSE]
    /\ loop' = q

\* The handler of q awaits the call pc about row c.
Awaits(q, pc, c) ==
    /\ req' = [req EXCEPT ![q].pc = pc, ![q].todo = @ \ {c}, ![q].cur = c, ![q].call = "sent",
                          ![q].found = {}, ![q].there = FALSE]
    /\ loop' = Free

Ends(q) == req' = [req EXCEPT ![q] = NoRequest] /\ loop' = Free

\* The reply of the call pc arrives: an answer, if the call was carried out,
\* or an error in any case.
Answered(q, pc) == loop = Free /\ req[q].pc = pc /\ req[q].call = "done"
Errs(q, pc)     == loop = Free /\ req[q].pc = pc /\ req[q].call # "none"

\* The provider carries a call out.  A deletion of what is gone is an error.
Called(q, S) == req[q].pc \in S /\ req[q].call = "sent"

Carried(q) == req' = [req EXCEPT ![q].call = "done"]

ProviderReads(q) ==
    /\ Called(q, {"get", "inspect"})
    /\ req' = [req EXCEPT ![q].call = "done", ![q].there = storage[req[q].cur] = "present"]
    /\ UNCHANGED <<rows, storage, stored, loop, crashes, losses>>

ProviderCreates(q) ==
    /\ Called(q, {"create"})
    /\ storage' = [storage EXCEPT ![req[q].cur] = "present"]
    /\ Carried(q)
    /\ UNCHANGED <<rows, stored, loop, crashes, losses>>

ProviderDeletes(q) ==
    /\ Called(q, {"delete", "remove", "undo"})
    /\ storage[req[q].cur] = "present"
    /\ storage' = [storage EXCEPT ![req[q].cur] = "gone"]
    /\ stored' = [stored EXCEPT ![req[q].cur] = {}]
    /\ Carried(q)
    /\ UNCHANGED <<rows, loop, crashes, losses>>

\* PreparedStore.remove_manifest and the load_index after it
StoreUnpublishes(q) ==
    LET a == actions[req[q].cur] IN
    /\ Called(q, {"unpublish"})
    /\ storage[a.target] = "present"
    /\ stored' = [stored EXCEPT ![a.target] = @ \ {a.profile}]
    /\ Carried(q)
    /\ UNCHANGED <<rows, storage, loop, crashes, losses>>

\* PreparedStore.publish_manifest, the last of the copy's uploads
StorePublishes(q) ==
    LET a == actions[req[q].cur] IN
    /\ Called(q, {"copy"})
    /\ storage[a.target] = "present"
    /\ stored' = [stored EXCEPT ![a.target] = @ \cup {a.profile}]
    /\ Carried(q)
    /\ UNCHANGED <<rows, storage, loop, crashes, losses>>

StoreReads(q) ==
    /\ Called(q, {"index"})
    /\ storage[actions[req[q].cur].target] = "present"
    /\ req' = [req EXCEPT ![q].call = "done", ![q].found = stored[actions[req[q].cur].target]]
    /\ UNCHANGED <<rows, storage, stored, loop, crashes, losses>>

=============================================================================
