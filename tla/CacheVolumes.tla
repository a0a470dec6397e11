----------------------------- MODULE CacheVolumes -----------------------------
(***************************************************************************)
(* The life of a cache volume: its row in cache_volumes, the provider's    *)
(* volume behind it, and prepared_storage.existing_volume_id in the        *)
(* configuration, which names the one volume jobs are bound to.            *)
(*                                                                         *)
(* Two processes write them.  The coordinator's routes (server.py) are     *)
(* coroutines: a handler runs alone among them until it awaits the         *)
(* provider; `loop` is the one that runs.  The dispatcher's placement      *)
(* (dispatcher.py, _choose_cache_placement) is another process and may     *)
(* step between any two of their transactions.  What a volume contains is  *)
(* left out: observations and inventories only make it ready or degraded.  *)
(***************************************************************************)
EXTENDS Integers, FiniteSets

CONSTANTS Volumes,     \* provider volumes
          Own,         \* those the user had before, which may be adopted
          Requests,    \* requests the coordinator may serve at a time
          NoVolume, Free,
          Budget,      \* max_monthly_storage_cost, in managed volumes
          MaxLosses    \* bound on the volumes lost at the provider

ASSUME VolumeNames == Own \subseteq Volumes /\ NoVolume \notin Volumes /\ Free \notin Requests

ASSUME VolumeNumbers == Budget \in Nat /\ MaxLosses \in Nat

VARIABLES rows,      \* cache_volumes: status and ownership
          binding,   \* existing_volume_id in config.json
          storage,   \* external: the provider's volumes
          req, loop, \* the coordinator's requests, and the one that runs
          disp,      \* the dispatcher's placement
          losses

volumesVars == <<rows, binding, storage, req, loop, disp, losses>>

-----------------------------------------------------------------------------
(* State *)

Row == [status : {"none", "ready", "degraded", "deleting", "failed"},
        owner  : {"none", "managed", "adopted"}]

NoRow == [status |-> "none", owner |-> "none"]

Request == [op   : {"none", "adopt", "create", "delete", "detach", "verify"},
            pc   : {"idle", "call", "save", "bind", "remove", "restore", "forget"},
            vol  : Volumes \cup {NoVolume},
            call : {"none", "sent", "done"},
            there   : BOOLEAN,     \* get_storage returned a volume
            cleared : BOOLEAN]     \* binding_cleared

NoRequest == [op |-> "none", pc |-> "idle", vol |-> NoVolume, call |-> "none",
              there |-> FALSE, cleared |-> FALSE]

Placement == [pc    : {"idle", "check", "adopt", "count", "create", "record", "choose"},
              bound : Volumes \cup {NoVolume},   \* existing_volume_id when the tick began
              todo  : SUBSET Volumes,
              vol   : Volumes \cup {NoVolume},   \* created, not recorded
              call  : {"none", "sent", "done"}]

NoPlacement == [pc |-> "idle", bound |-> NoVolume, todo |-> {}, vol |-> NoVolume, call |-> "none"]

VolumesTypeOK ==
    /\ rows \in [Volumes -> Row]
    /\ binding \in Volumes \cup {NoVolume}
    /\ storage \in [Volumes -> {"none", "present", "gone"}]
    /\ req \in [Requests -> Request]
    /\ loop \in Requests \cup {Free}
    /\ disp \in Placement
    /\ losses \in 0..MaxLosses

VolumesInit ==
    /\ rows = [v \in Volumes |-> NoRow]
    /\ binding = NoVolume
    /\ storage = [v \in Volumes |-> IF v \in Own THEN "present" ELSE "none"]
    /\ req = [q \in Requests |-> NoRequest]
    /\ loop = Free
    /\ disp = NoPlacement
    /\ losses = 0

Registered == {v \in Volumes : rows[v].status # "none"}

Ready == {v \in Volumes : rows[v].status = "ready"}

\* upsert_volume overwrites the status and the ownership of the row it finds.
Upsert(v, owner) == rows' = [rows EXCEPT ![v] = [status |-> "ready", owner |-> owner]]

\* mark_volume, where the row exists
Mark(v, status) == rows' = [rows EXCEPT ![v].status = status]

-----------------------------------------------------------------------------
(* The coordinator's requests *)

OnlyRequest == UNCHANGED <<rows, binding, storage, disp, losses>>

\* The handler of q goes on at pc; awaits a call; ends.
Goes(q, pc)    == req' = [req EXCEPT ![q].pc = pc, ![q].call = "none"] /\ loop' = q
Awaits(q)      == req' = [req EXCEPT ![q].pc = "call", ![q].call = "sent"] /\ loop' = Free
Ends(q)        == req' = [req EXCEPT ![q] = NoRequest] /\ loop' = Free

Runs(q, pc)     == loop = q /\ req[q].pc = pc
Answered(q, op) == loop = Free /\ req[q].op = op /\ req[q].call = "done"
Errs(q, op)     == loop = Free /\ req[q].op = op /\ req[q].call # "none"

Begins(q, op, v) ==
    /\ loop = Free /\ req[q].op = "none"
    /\ req' = [req EXCEPT ![q] = [NoRequest EXCEPT !.op = op, !.vol = v, !.pc = "call", !.call = "sent"]]
    /\ UNCHANGED loop

\* create_or_adopt_cache_volume and verify_cache_volume ask the provider first.
Adopt(q, v) == Begins(q, "adopt", v) /\ OnlyRequest

\* Only the size of the new volume is compared with the budget.
Create(q, v) == Budget >= 1 /\ storage[v] = "none" /\ Begins(q, "create", v) /\ OnlyRequest

Verify(q, v) == v \in Registered /\ Begins(q, "verify", v) /\ OnlyRequest

\* The provider carries a call out.
ProviderActs(q) ==
    LET v == req[q].vol IN
    /\ req[q].call = "sent"
    /\ \/ req[q].op = "create" /\ storage[v] = "none" /\ storage' = [storage EXCEPT ![v] = "present"]
       \/ req[q].op = "delete" /\ storage[v] = "present" /\ storage' = [storage EXCEPT ![v] = "gone"]
       \/ req[q].op \in {"adopt", "verify"} /\ UNCHANGED storage
    /\ req' = [req EXCEPT ![q].call = "done", ![q].there = storage[v] = "present"]
    /\ UNCHANGED <<rows, binding, loop, disp, losses>>

\* An error, or a volume that does not exist, ends the request with nothing done.
AdoptOrCreateReply(q) ==
    \/ /\ Answered(q, "create") \/ (Answered(q, "adopt") /\ req[q].there)
       /\ Goes(q, "save") /\ OnlyRequest
    \/ (Errs(q, "create") \/ Errs(q, "adopt")) /\ Ends(q) /\ OnlyRequest

SaveVolume(q) ==
    /\ Runs(q, "save")
    /\ Upsert(req[q].vol, IF req[q].op = "create" THEN "managed" ELSE "adopted")
    /\ Goes(q, "bind")
    /\ UNCHANGED <<binding, storage, disp, losses>>

\* _persist_prepared_volume_binding without an expected volume
BindVolume(q) ==
    /\ Runs(q, "bind")
    /\ binding' = req[q].vol
    /\ Ends(q)
    /\ UNCHANGED <<rows, storage, disp, losses>>

\* The inventory decides between ready and degraded; an absent volume, or an
\* error of its store, makes it degraded.  mark_volume finds no row if the
\* volume was forgotten meanwhile.
VerifyReply(q) ==
    LET v == req[q].vol IN
    \/ /\ Answered(q, "verify") /\ v \in Registered
       /\ \/ req[q].there /\ Mark(v, "ready")
          \/ Mark(v, "degraded")
       /\ Ends(q)
       /\ UNCHANGED <<binding, storage, disp, losses>>
    \/ Errs(q, "verify") /\ Ends(q) /\ OnlyRequest

DeleteAny(q, v, op) ==
    /\ loop = Free /\ req[q].op = "none" /\ v \in Registered
    /\ req' = [req EXCEPT ![q] = [NoRequest EXCEPT !.op = op, !.vol = v, !.cleared = binding = v,
                                                  !.pc = IF op = "delete" THEN "remove" ELSE "forget"]]
    /\ loop' = q
    /\ binding' = IF binding = v THEN NoVolume ELSE binding
    /\ UNCHANGED <<rows, storage, disp, losses>>

\* delete_cache_volume reads the row, and clears the binding that names it.
Delete(q, v, op) ==
    /\ loop = Free /\ req[q].op = "none"
    /\ v \in Registered
    /\ op = "delete" => rows[v].owner = "managed"
    /\ req' = [req EXCEPT ![q] = [NoRequest EXCEPT !.op = op, !.vol = v, !.cleared = binding = v,
                                                  !.pc = IF op = "delete" THEN "remove" ELSE "forget"]]
    /\ loop' = q
    /\ binding' = IF binding = v THEN NoVolume ELSE binding
    /\ UNCHANGED <<rows, storage, disp, losses>>

AskRemoval(q) ==
    /\ Runs(q, "remove")
    /\ Mark(req[q].vol, "deleting")
    /\ Awaits(q)
    /\ UNCHANGED <<binding, storage, disp, losses>>

\* A deletion that failed marks the row failed, if it is still there, and
\* puts the binding back.
RemovalReply(q) ==
    LET v == req[q].vol IN
    \/ Answered(q, "delete") /\ Goes(q, "forget") /\ OnlyRequest
    \/ /\ Errs(q, "delete")
       /\ IF v \in Registered THEN Mark(v, "failed") /\ Goes(q, "restore") ELSE UNCHANGED rows /\ Ends(q)
       /\ UNCHANGED <<binding, storage, disp, losses>>

RestoreBlindly(q) ==
    /\ Runs(q, "restore")
    /\ binding' = IF req[q].cleared THEN req[q].vol ELSE binding
    /\ Ends(q)
    /\ UNCHANGED <<rows, storage, disp, losses>>

\* The conditional write: the binding is put back where there is none.
RestoreBinding(q) ==
    /\ Runs(q, "restore")
    /\ binding' = IF req[q].cleared /\ binding = NoVolume THEN req[q].vol ELSE binding
    /\ Ends(q)
    /\ UNCHANGED <<rows, storage, disp, losses>>

\* delete_metadata; a detachment that finds the row gone puts the binding back.
Forget(q) ==
    LET v == req[q].vol IN
    /\ Runs(q, "forget")
    /\ rows' = [rows EXCEPT ![v] = NoRow]
    /\ IF v \notin Registered /\ req[q].op = "detach" THEN Goes(q, "restore") ELSE Ends(q)
    /\ UNCHANGED <<binding, storage, disp, losses>>

-----------------------------------------------------------------------------
(* The dispatcher: _choose_cache_placement *)

OnlyPlacement == UNCHANGED <<rows, binding, storage, req, loop, losses>>

Continues(pc) == disp' = [disp EXCEPT !.pc = pc, !.call = "none"]

\* A failure ends the placement; the job runs cold or waits.
GivesUp == disp' = NoPlacement /\ OnlyPlacement

\* The tick reads the configuration, and the placement the registered volumes.
BeginPlacement ==
    /\ disp.pc = "idle"
    /\ disp' = [NoPlacement EXCEPT !.pc = "check", !.bound = binding, !.todo = Registered]
    /\ OnlyPlacement

\* Every registered volume is looked up; an absent one is degraded, and ends
\* the placement if jobs are bound to it.  An error ends it too.
CheckVolume ==
    /\ disp.pc = "check"
    /\ \E v \in disp.todo :
         \/ /\ storage[v] = "present"
            /\ disp' = [disp EXCEPT !.todo = @ \ {v}] /\ UNCHANGED rows
         \/ /\ storage[v] # "present" /\ v \in Registered
            /\ Mark(v, "degraded")
            /\ disp' = IF v = disp.bound THEN NoPlacement ELSE [disp EXCEPT !.todo = @ \ {v}]
         \/ disp' = NoPlacement /\ UNCHANGED rows
    /\ UNCHANGED <<binding, storage, req, loop, losses>>

AllChecked ==
    /\ disp.pc = "check" /\ disp.todo = {}
    /\ Continues(IF disp.bound \in Volumes \ Registered THEN "adopt" ELSE "count")
    /\ OnlyPlacement

\* The bound volume is registered as the user's, if the provider has it.
AdoptBound ==
    /\ disp.pc = "adopt"
    /\ \/ /\ storage[disp.bound] = "present"
          /\ Upsert(disp.bound, "adopted") /\ Continues("count")
          /\ UNCHANGED <<binding, storage, req, loop, losses>>
       \/ GivesUp

\* A managed volume is created when none is ready and none is bound.
CountReady ==
    /\ disp.pc = "count"
    /\ \/ (Ready # {} \/ disp.bound # NoVolume) /\ Continues("choose")
       \/ /\ Ready = {} /\ disp.bound = NoVolume /\ Budget >= 1
          /\ \E v \in Volumes :
               /\ storage[v] = "none" /\ \A q \in Requests : req[q].vol # v
               /\ disp' = [disp EXCEPT !.pc = "create", !.vol = v, !.call = "sent"]
       \/ Ready = {} /\ disp.bound = NoVolume /\ Budget = 0 /\ disp' = NoPlacement
    /\ OnlyPlacement

ProviderCreates ==
    /\ disp.call = "sent" /\ storage[disp.vol] = "none"
    /\ storage' = [storage EXCEPT ![disp.vol] = "present"]
    /\ disp' = [disp EXCEPT !.call = "done"]
    /\ UNCHANGED <<rows, binding, req, loop, losses>>

CreatedVolume ==
    /\ disp.pc = "create"
    /\ \/ disp.call = "done" /\ Continues("record") /\ OnlyPlacement
       \/ GivesUp

RecordCreated ==
    /\ disp.pc = "record"
    /\ Upsert(disp.vol, "managed") /\ Continues("choose")
    /\ UNCHANGED <<binding, storage, req, loop, losses>>

\* The launch goes to a ready volume, or runs cold.
Choose == disp.pc = "choose" /\ GivesUp

-----------------------------------------------------------------------------
(* Others *)

\* update_config replaces the binding.
UserBinds(v) ==
    /\ loop = Free /\ binding # v
    /\ binding' = v
    /\ UNCHANGED <<rows, storage, req, loop, disp, losses>>

\* record_observation, mark_verified and reconcile_index write the health of a
\* volume over any status.
HealthChanges(v, status) ==
    /\ loop = Free /\ v \in Registered /\ rows[v].status # status
    /\ Mark(v, status)
    /\ UNCHANGED <<binding, storage, req, loop, disp, losses>>

VolumeLost(v) ==
    /\ storage[v] = "present" /\ losses < MaxLosses
    /\ storage' = [storage EXCEPT ![v] = "gone"]
    /\ losses' = losses + 1
    /\ UNCHANGED <<rows, binding, req, loop, disp>>

\* A process that stops loses its requests.
CoordinatorStops ==
    /\ \E q \in Requests : req[q].op # "none"
    /\ req' = [q \in Requests |-> NoRequest] /\ loop' = Free
    /\ UNCHANGED <<rows, binding, storage, disp, losses>>

DispatcherStops == disp.pc # "idle" /\ GivesUp

-----------------------------------------------------------------------------
(* Specification *)

RequestStep(q) ==
    \/ \E v \in Volumes : Adopt(q, v) \/ Verify(q, v) \/ Delete(q, v, "delete") \/ Delete(q, v, "detach")
    \/ \E v \in Volumes : Create(q, v) /\ v # disp.vol /\ \A p \in Requests : req[p].vol # v
    \/ ProviderActs(q) \/ AdoptOrCreateReply(q) \/ SaveVolume(q) \/ BindVolume(q)
    \/ VerifyReply(q) \/ AskRemoval(q) \/ RemovalReply(q) \/ RestoreBinding(q) \/ Forget(q)

PlacementStep ==
    \/ BeginPlacement \/ CheckVolume \/ AllChecked \/ AdoptBound \/ CountReady
    \/ ProviderCreates \/ CreatedVolume \/ RecordCreated \/ Choose

VolumesNext ==
    \/ \E q \in Requests : RequestStep(q)
    \/ PlacementStep
    \/ \E v \in Volumes : VolumeLost(v)
    \/ \E v \in Volumes \cup {NoVolume} : UserBinds(v)
    \/ \E v \in Volumes, status \in {"ready", "degraded"} : HealthChanges(v, status)
    \/ CoordinatorStops \/ DispatcherStops

VolumesSpec == VolumesInit /\ [][VolumesNext]_volumesVars

-----------------------------------------------------------------------------
(* Properties *)

\* The provider is never asked to delete a volume the user had before it was
\* adopted, whatever was adopted, created and detached since
\* (delete_cache_volume, AdoptBound's and SaveVolume's ownership).
NoOwnVolumeDeleted == \A q \in Requests : req[q].op = "delete" => req[q].vol \notin Own

\* A deletion or a detachment of one volume leaves a binding to another as it
\* is: a delayed request does not erase the user's newer choice
\* (_persist_prepared_volume_binding).
DetachKeepsNewChoice ==
    [][\A q \in Requests :
         loop = q /\ req[q].op \in {"delete", "detach"} /\ binding \notin {NoVolume, req[q].vol}
           => binding' = binding]_volumesVars

=============================================================================
