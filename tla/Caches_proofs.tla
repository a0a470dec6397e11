----------------------------- MODULE Caches_proofs -----------------------------
(***************************************************************************)
(* Proofs about the cache volumes and about the inventory of one of them,  *)
(* for any volumes, requests, manifests and digests.                       *)
(***************************************************************************)
EXTENDS CacheVolumes, CacheInventory, TLAPS

-----------------------------------------------------------------------------
(* Volumes: who owns what may be deleted *)

\* A volume of the user's exists before anything else does, so no call creates
\* it; it is recorded as managed nowhere, neither in a row nor in what a
\* request or the placement is about to record; and only managed volumes are
\* deleted.
Sound(r) ==
    /\ r.op \in {"create", "delete"} => r.vol \notin Own
    /\ r.op # "none" => r.vol \in Volumes
    /\ r.pc \in {"save", "bind"} => r.op \in {"adopt", "create"}
    /\ r.pc \in {"remove", "restore", "forget"} => r.op \in {"delete", "detach"}

OwnershipInv ==
    /\ VolumesTypeOK
    /\ \A v \in Own : storage[v] # "none" /\ rows[v].owner # "managed"
    /\ \A q \in Requests : Sound(req[q])
    /\ disp.vol \notin Own
    /\ disp.pc \in {"create", "record"} \/ disp.call = "sent" => disp.vol \in Volumes
    /\ disp.pc = "adopt" => disp.bound \in Volumes

USE VolumeNames, VolumeNumbers

LEMMA InitOwnership == VolumesInit => OwnershipInv
  BY DEF VolumesInit, OwnershipInv, VolumesTypeOK, Sound, Row, NoRow, Request, NoRequest, Placement, NoPlacement

\* A step of one request that leaves the owners of the rows as they are, or
\* records a volume under the owner its operation gives it.
LEMMA RequestKeepsOwnership ==
    ASSUME OwnershipInv, NEW q \in Requests, RequestStep(q)
    PROVE  OwnershipInv'
<1>0. /\ rows \in [Volumes -> Row] /\ binding \in Volumes \cup {NoVolume}
      /\ storage \in [Volumes -> {"none", "present", "gone"}]
      /\ req \in [Requests -> Request] /\ req[q] \in Request
      /\ loop \in Requests \cup {Free} /\ disp \in Placement /\ losses \in 0..MaxLosses
  BY DEF OwnershipInv, VolumesTypeOK
<1>. DEFINE SameOthers == /\ \A p \in Requests : p # q => req'[p] = req[p]
                          /\ req' \in [Requests -> Request] /\ loop' \in Requests \cup {Free}
            SoundHere == Sound(req'[q])
            SoundRows == /\ rows' \in [Volumes -> Row]
                         /\ \A v \in Own : rows'[v].owner # "managed"
            SoundStorage == /\ storage' \in [Volumes -> {"none", "present", "gone"}]
                            /\ \A v \in Own : storage'[v] # "none"
<1>1. ASSUME SameOthers, SoundHere, SoundRows, SoundStorage,
             binding' \in Volumes \cup {NoVolume}, UNCHANGED <<disp, losses>>
      PROVE  OwnershipInv'
  BY <1>1 DEF OwnershipInv, VolumesTypeOK
<1>2. ASSUME UNCHANGED rows PROVE SoundRows
  BY <1>2 DEF OwnershipInv, VolumesTypeOK
<1>3. ASSUME UNCHANGED storage PROVE SoundStorage
  BY <1>3 DEF OwnershipInv, VolumesTypeOK
<1>4. ASSUME Ends(q) PROVE SameOthers /\ SoundHere
  BY <1>0, <1>4 DEF Ends, NoRequest, Request, Sound
<1>5. ASSUME NEW pc \in {"save", "bind", "restore", "forget"},
             pc \in {"save", "bind"} => req[q].op \in {"adopt", "create"},
             pc \in {"restore", "forget"} => req[q].op \in {"delete", "detach"},
             Goes(q, pc)
      PROVE  SameOthers /\ SoundHere
  <2>1. /\ req'[q] = [req[q] EXCEPT !.pc = pc, !.call = "none"]
        /\ \A p \in Requests : p # q => req'[p] = req[p]
        /\ loop' = q
    BY <1>0, <1>5 DEF Goes
  <2>2. req'[q] \in Request /\ req'[q].op = req[q].op /\ req'[q].vol = req[q].vol /\ req'[q].pc = pc
    BY <1>0, <2>1 DEF Request
  <2>3. SoundHere
    BY <1>5, <2>2 DEF Sound, OwnershipInv
  <2>. QED BY <1>0, <1>5, <2>1, <2>2, <2>3 DEF Goes
<1>6. ASSUME Awaits(q) PROVE SameOthers /\ SoundHere
  <2>1. /\ req'[q] = [req[q] EXCEPT !.pc = "call", !.call = "sent"]
        /\ \A p \in Requests : p # q => req'[p] = req[p]
        /\ loop' = Free
    BY <1>0, <1>6 DEF Awaits
  <2>2. req'[q] \in Request /\ req'[q].op = req[q].op /\ req'[q].vol = req[q].vol /\ req'[q].pc = "call"
    BY <1>0, <2>1 DEF Request
  <2>3. SoundHere
    BY <2>2 DEF Sound, OwnershipInv
  <2>. QED BY <1>0, <1>6, <2>1, <2>2, <2>3 DEF Awaits
<1>7. ASSUME NEW v \in Volumes, NEW op \in {"adopt", "create", "verify"}, op = "create" => v \notin Own,
             Begins(q, op, v)
      PROVE  SameOthers /\ SoundHere
  <2>1. /\ req'[q] = [NoRequest EXCEPT !.op = op, !.vol = v, !.pc = "call", !.call = "sent"]
        /\ \A p \in Requests : p # q => req'[p] = req[p]
        /\ loop' = loop
    BY <1>0, <1>7 DEF Begins
  <2>2. req'[q] \in Request /\ req'[q].op = op /\ req'[q].vol = v /\ req'[q].pc = "call"
    BY <2>1 DEF Request, NoRequest
  <2>3. SoundHere
    BY <1>7, <2>2 DEF Sound
  <2>. QED BY <1>0, <1>7, <2>1, <2>2, <2>3 DEF Begins
<1>8. ASSUME NEW v \in Volumes, NEW status \in {"ready", "degraded", "deleting", "failed"}, Mark(v, status)
      PROVE  SoundRows
  <2>1. \A u \in Volumes : rows'[u] \in Row /\ rows'[u].owner = rows[u].owner
    BY <1>0, <1>8 DEF Mark, Row
  <2>. QED BY <1>0, <1>8, <2>1 DEF Mark, OwnershipInv
<1>9. ASSUME NEW v \in Volumes, NEW owner \in {"managed", "adopted"}, owner = "managed" => v \notin Own,
             Upsert(v, owner)
      PROVE  SoundRows
  <2>1. \A u \in Volumes : rows'[u] = IF u = v THEN [status |-> "ready", owner |-> owner] ELSE rows[u]
    BY <1>0, <1>9 DEF Upsert
  <2>2. [status |-> "ready", owner |-> owner] \in Row
    BY DEF Row
  <2>. QED BY <1>0, <1>9, <2>1, <2>2 DEF Upsert, OwnershipInv
<1>10. CASE \E v \in Volumes : Adopt(q, v) \/ Verify(q, v)
  BY <1>0, <1>1, <1>2, <1>3, <1>7, <1>10 DEF Adopt, Verify, OnlyRequest
<1>11. CASE \E v \in Volumes : Create(q, v)
  <2>1. PICK v \in Volumes : Create(q, v)
    BY <1>11
  <2>2. v \notin Own
    BY <2>1 DEF Create, OwnershipInv
  <2>. QED BY <1>0, <1>1, <1>2, <1>3, <1>7, <2>1, <2>2 DEF Create, OnlyRequest
<1>12. CASE \E v \in Volumes : Delete(q, v, "delete") \/ Delete(q, v, "detach")
  <2>1. PICK v \in Volumes, op \in {"delete", "detach"} : Delete(q, v, op)
    BY <1>12
  <2>2. op = "delete" => v \notin Own
    BY <2>1 DEF Delete, OwnershipInv
  <2>3. /\ req'[q].op = op /\ req'[q].vol = v /\ req'[q] \in Request
        /\ req'[q].pc = IF op = "delete" THEN "remove" ELSE "forget"
        /\ \A p \in Requests : p # q => req'[p] = req[p]
    BY <1>0, <2>1 DEF Delete, Request, NoRequest
  <2>4. SameOthers /\ SoundHere
    BY <1>0, <2>1, <2>2, <2>3 DEF Delete, Sound
  <2>. QED BY <1>0, <1>1, <1>2, <1>3, <2>1, <2>4 DEF Delete
<1>13. CASE ProviderActs(q)
  <2>1. /\ req'[q] = [req[q] EXCEPT !.call = "done", !.there = storage[req[q].vol] = "present"]
        /\ \A p \in Requests : p # q => req'[p] = req[p]
    BY <1>0, <1>13 DEF ProviderActs
  <2>2. req'[q] \in Request /\ req'[q].op = req[q].op /\ req'[q].vol = req[q].vol /\ req'[q].pc = req[q].pc
    BY <1>0, <2>1 DEF Request
  <2>3. SameOthers /\ SoundHere
    BY <1>0, <1>13, <2>1, <2>2 DEF ProviderActs, OwnershipInv, Sound
  <2>4. SoundStorage
    BY <1>0, <1>13 DEF ProviderActs, OwnershipInv
  <2>. QED BY <1>0, <1>1, <1>2, <1>13, <2>3, <2>4 DEF ProviderActs
<1>14. CASE AdoptOrCreateReply(q)
  BY <1>0, <1>1, <1>2, <1>3, <1>4, <1>5, <1>14 DEF AdoptOrCreateReply, Answered, Errs, OnlyRequest
<1>15. CASE SaveVolume(q)
  <2>1. req[q].op \in {"adopt", "create"} /\ req[q].vol \in Volumes
    BY <1>15 DEF SaveVolume, Runs, OwnershipInv, Sound
  <2>2. req[q].op = "create" => req[q].vol \notin Own
    BY DEF OwnershipInv, Sound
  <2>. QED BY <1>0, <1>1, <1>3, <1>5, <1>9, <1>15, <2>1, <2>2 DEF SaveVolume
<1>16. CASE BindVolume(q)
  BY <1>0, <1>1, <1>2, <1>3, <1>4, <1>16 DEF BindVolume, Request
<1>17. CASE VerifyReply(q)
  <2>1. CASE Errs(q, "verify") /\ Ends(q) /\ OnlyRequest
    BY <1>0, <1>1, <1>2, <1>3, <1>4, <2>1 DEF OnlyRequest
  <2>2. CASE /\ Answered(q, "verify")
             /\ Mark(req[q].vol, "ready") \/ Mark(req[q].vol, "degraded")
             /\ Ends(q)
             /\ UNCHANGED <<binding, storage, disp, losses>>
    <3>1. req[q].vol \in Volumes
      BY <2>2 DEF Answered, OwnershipInv, Sound
    <3>. QED BY <1>0, <1>1, <1>3, <1>4, <1>8, <2>2, <3>1
  <2>. QED BY <1>17, <2>1, <2>2 DEF VerifyReply
<1>18. CASE AskRemoval(q)
  <2>1. req[q].vol \in Volumes
    BY <1>18 DEF AskRemoval, Runs, OwnershipInv, Sound
  <2>. QED BY <1>0, <1>1, <1>3, <1>6, <1>8, <1>18, <2>1 DEF AskRemoval
<1>19. CASE RemovalReply(q)
  <2>1. CASE Answered(q, "delete") /\ Goes(q, "forget") /\ OnlyRequest
    BY <1>0, <1>1, <1>2, <1>3, <1>5, <2>1 DEF Answered, OnlyRequest
  <2>2. CASE Errs(q, "delete") /\ Mark(req[q].vol, "failed") /\ Goes(q, "restore")
             /\ UNCHANGED <<binding, storage, disp, losses>>
    <3>1. req[q].vol \in Volumes
      BY <2>2 DEF Errs, OwnershipInv, Sound
    <3>. QED BY <1>0, <1>1, <1>3, <1>5, <1>8, <2>2, <3>1 DEF Errs
  <2>3. CASE Errs(q, "delete") /\ UNCHANGED rows /\ Ends(q) /\ UNCHANGED <<binding, storage, disp, losses>>
    BY <1>0, <1>1, <1>2, <1>3, <1>4, <2>3
  <2>. QED BY <1>19, <2>1, <2>2, <2>3 DEF RemovalReply
<1>20. CASE RestoreBinding(q)
  BY <1>0, <1>1, <1>2, <1>3, <1>4, <1>20 DEF RestoreBinding, Request
<1>21. CASE Forget(q)
  <2>1. req[q].op \in {"delete", "detach"} /\ req[q].vol \in Volumes
    BY <1>21 DEF Forget, Runs, OwnershipInv, Sound
  <2>2. SameOthers /\ SoundHere
    BY <1>4, <1>5, <1>21, <2>1 DEF Forget
  <2>3. NoRow \in Row /\ NoRow.owner # "managed"
    BY DEF NoRow, Row
  <2>4. SoundRows
    <3>1. rows' = [rows EXCEPT ![req[q].vol] = NoRow]
      BY <1>21 DEF Forget
    <3>2. \A u \in Volumes : rows'[u] = IF u = req[q].vol THEN NoRow ELSE rows[u]
      BY <1>0, <3>1
    <3>. QED BY <1>0, <2>3, <3>1, <3>2 DEF OwnershipInv
  <2>. QED BY <1>0, <1>1, <1>3, <1>21, <2>2, <2>4 DEF Forget
<1>. QED BY <1>10, <1>11, <1>12, <1>13, <1>14, <1>15, <1>16, <1>17, <1>18, <1>19, <1>20, <1>21 DEF RequestStep

\* The placement creates volumes that nobody had, and registers a bound one
\* that it does not know as the user's.
LEMMA PlacementKeepsOwnership ==
    ASSUME OwnershipInv, PlacementStep \/ DispatcherStops
    PROVE  OwnershipInv'
<1>0. /\ rows \in [Volumes -> Row] /\ binding \in Volumes \cup {NoVolume}
      /\ storage \in [Volumes -> {"none", "present", "gone"}]
      /\ disp \in Placement
      /\ NoPlacement \in Placement /\ NoPlacement.vol \notin Own
      /\ NoPlacement.pc = "idle" /\ NoPlacement.call = "none"
  BY DEF OwnershipInv, VolumesTypeOK, NoPlacement, Placement
<1>. DEFINE SoundDisp == /\ disp' \in Placement /\ disp'.vol \notin Own
                         /\ disp'.pc \in {"create", "record"} \/ disp'.call = "sent" => disp'.vol \in Volumes
                         /\ disp'.pc = "adopt" => disp'.bound \in Volumes
            SoundRows == /\ rows' \in [Volumes -> Row]
                         /\ \A v \in Own : rows'[v].owner # "managed"
            SoundStorage == /\ storage' \in [Volumes -> {"none", "present", "gone"}]
                            /\ \A v \in Own : storage'[v] # "none"
<1>1. ASSUME SoundDisp, SoundRows, SoundStorage, UNCHANGED <<binding, req, loop, losses>>
      PROVE  OwnershipInv'
  BY <1>1 DEF OwnershipInv, VolumesTypeOK
<1>2. ASSUME UNCHANGED rows PROVE SoundRows
  BY <1>2 DEF OwnershipInv, VolumesTypeOK
<1>3. ASSUME UNCHANGED storage PROVE SoundStorage
  BY <1>3 DEF OwnershipInv, VolumesTypeOK
<1>4. ASSUME disp' = NoPlacement PROVE SoundDisp
  BY <1>0, <1>4
<1>5. ASSUME NEW pc \in {"adopt", "count", "record", "choose"}, Continues(pc),
             pc = "adopt" => disp.bound \in Volumes,
             pc = "record" => disp.vol \in Volumes
      PROVE  SoundDisp
  <2>1. disp' = [disp EXCEPT !.pc = pc, !.call = "none"]
    BY <1>5 DEF Continues
  <2>2. /\ disp' \in Placement /\ disp'.vol = disp.vol /\ disp'.bound = disp.bound
        /\ disp'.pc = pc /\ disp'.call = "none"
    BY <1>0, <2>1 DEF Placement
  <2>. QED BY <1>5, <2>2 DEF OwnershipInv
<1>6. ASSUME NEW v \in Volumes, NEW owner \in {"managed", "adopted"}, owner = "managed" => v \notin Own,
             Upsert(v, owner)
      PROVE  SoundRows
  <2>1. \A u \in Volumes : rows'[u] = IF u = v THEN [status |-> "ready", owner |-> owner] ELSE rows[u]
    BY <1>0, <1>6 DEF Upsert
  <2>2. [status |-> "ready", owner |-> owner] \in Row
    BY DEF Row
  <2>. QED BY <1>0, <1>6, <2>1, <2>2 DEF Upsert, OwnershipInv
<1>7. ASSUME NEW v \in Volumes, disp.pc = "check", disp' = [disp EXCEPT !.todo = @ \ {v}] PROVE SoundDisp
  <2>1. /\ disp' \in Placement /\ disp'.vol = disp.vol /\ disp'.bound = disp.bound
        /\ disp'.pc = "check" /\ disp'.call = disp.call
    BY <1>0, <1>7 DEF Placement
  <2>. QED BY <2>1 DEF OwnershipInv
<1>8. ASSUME GivesUp PROVE OwnershipInv'
  BY <1>1, <1>2, <1>3, <1>4, <1>8 DEF GivesUp, OnlyPlacement
<1>9. CASE BeginPlacement
  <2>1. Registered \in SUBSET Volumes
    BY DEF Registered
  <2>2. disp' = [NoPlacement EXCEPT !.pc = "check", !.bound = binding, !.todo = Registered]
    BY <1>9 DEF BeginPlacement
  <2>3. SoundDisp
    BY <1>0, <2>1, <2>2 DEF NoPlacement, Placement
  <2>. QED BY <1>1, <1>2, <1>3, <1>9, <2>3 DEF BeginPlacement, OnlyPlacement
<1>10. CASE CheckVolume
  <2>1. PICK v \in disp.todo :
          \/ disp' = [disp EXCEPT !.todo = @ \ {v}] /\ UNCHANGED rows
          \/ /\ Mark(v, "degraded")
             /\ disp' = NoPlacement \/ disp' = [disp EXCEPT !.todo = @ \ {v}]
          \/ disp' = NoPlacement /\ UNCHANGED rows
    BY <1>10, Zenon DEF CheckVolume
  <2>2. v \in Volumes
    BY <1>0 DEF Placement
  <2>3. ASSUME Mark(v, "degraded") PROVE SoundRows
    <3>1. \A u \in Volumes : rows'[u] \in Row /\ rows'[u].owner = rows[u].owner
      BY <1>0, <2>3 DEF Mark, Row
    <3>. QED BY <1>0, <2>3, <3>1 DEF Mark, OwnershipInv
  <2>4. SoundDisp
    BY <1>4, <1>7, <1>10, <2>1, <2>2 DEF CheckVolume
  <2>5. SoundRows
    BY <1>2, <2>1, <2>3
  <2>. QED BY <1>1, <1>3, <1>10, <2>4, <2>5 DEF CheckVolume
<1>11. CASE AllChecked
  <2>1. SoundDisp
    BY <1>5, <1>11 DEF AllChecked
  <2>. QED BY <1>1, <1>2, <1>3, <1>11, <2>1 DEF AllChecked, OnlyPlacement
<1>12. CASE AdoptBound
  <2>1. disp.bound \in Volumes
    BY <1>12 DEF AdoptBound, OwnershipInv
  <2>. QED BY <1>1, <1>3, <1>5, <1>6, <1>8, <1>12, <2>1 DEF AdoptBound
<1>13. CASE CountReady
  <2>1. ASSUME NEW v \in Volumes, storage[v] = "none",
               disp' = [disp EXCEPT !.pc = "create", !.vol = v, !.call = "sent"]
        PROVE  SoundDisp
    <3>1. v \notin Own
      BY <2>1 DEF OwnershipInv
    <3>. QED BY <1>0, <2>1, <3>1 DEF Placement
  <2>2. SoundDisp
    BY <1>4, <1>5, <1>13, <2>1 DEF CountReady
  <2>. QED BY <1>1, <1>2, <1>3, <1>13, <2>2 DEF CountReady, OnlyPlacement
<1>14. CASE ProviderCreates
  <2>1. disp.vol \in Volumes
    BY <1>14 DEF ProviderCreates, OwnershipInv
  <2>2. /\ disp' \in Placement /\ disp'.vol = disp.vol /\ disp'.bound = disp.bound
        /\ disp'.pc = disp.pc /\ disp'.call = "done"
    BY <1>0, <1>14 DEF ProviderCreates, Placement
  <2>3. SoundDisp
    BY <2>1, <2>2 DEF OwnershipInv
  <2>4. SoundStorage
    BY <1>0, <1>14, <2>1 DEF ProviderCreates, OwnershipInv
  <2>. QED BY <1>1, <1>2, <1>14, <2>3, <2>4 DEF ProviderCreates
<1>15. CASE CreatedVolume
  <2>1. disp.vol \in Volumes
    BY <1>15 DEF CreatedVolume, OwnershipInv
  <2>. QED BY <1>1, <1>2, <1>3, <1>5, <1>8, <1>15, <2>1 DEF CreatedVolume, OnlyPlacement
<1>16. CASE RecordCreated
  <2>1. disp.vol \in Volumes \ Own
    BY <1>16 DEF RecordCreated, OwnershipInv
  <2>. QED BY <1>1, <1>3, <1>5, <1>6, <1>16, <2>1 DEF RecordCreated
<1>17. CASE Choose \/ DispatcherStops
  BY <1>8, <1>17 DEF Choose, DispatcherStops
<1>. QED BY <1>9, <1>10, <1>11, <1>12, <1>13, <1>14, <1>15, <1>16, <1>17 DEF PlacementStep

\* What users, lost volumes and a coordinator that stops do to it.
LEMMA OthersKeepOwnership ==
    ASSUME OwnershipInv,
           \/ \E v \in Volumes : VolumeLost(v)
           \/ \E v \in Volumes \cup {NoVolume} : UserBinds(v)
           \/ \E v \in Volumes, status \in {"ready", "degraded"} : HealthChanges(v, status)
           \/ CoordinatorStops
    PROVE  OwnershipInv'
<1>0. rows \in [Volumes -> Row] /\ storage \in [Volumes -> {"none", "present", "gone"}] /\ losses \in 0..MaxLosses
  BY DEF OwnershipInv, VolumesTypeOK
<1>1. CASE \E v \in Volumes : VolumeLost(v)
  <2>1. PICK v \in Volumes : VolumeLost(v)
    BY <1>1
  <2>2. losses' \in 0..MaxLosses
    BY <1>0, <2>1 DEF VolumeLost
  <2>3. /\ storage' \in [Volumes -> {"none", "present", "gone"}]
        /\ \A u \in Own : storage'[u] # "none"
    BY <1>0, <2>1 DEF VolumeLost, OwnershipInv
  <2>. QED BY <2>1, <2>2, <2>3 DEF VolumeLost, OwnershipInv, VolumesTypeOK
<1>2. CASE \E v \in Volumes \cup {NoVolume} : UserBinds(v)
  BY <1>2 DEF UserBinds, OwnershipInv, VolumesTypeOK
<1>3. CASE \E v \in Volumes, status \in {"ready", "degraded"} : HealthChanges(v, status)
  <2>1. PICK v \in Volumes, status \in {"ready", "degraded"} : HealthChanges(v, status)
    BY <1>3
  <2>2. \A u \in Volumes : rows'[u] \in Row /\ rows'[u].owner = rows[u].owner
    BY <1>0, <2>1 DEF HealthChanges, Mark, Row
  <2>3. rows' \in [Volumes -> Row] /\ \A u \in Own : rows'[u].owner # "managed"
    BY <1>0, <2>1, <2>2 DEF HealthChanges, Mark, OwnershipInv
  <2>. QED BY <2>1, <2>3 DEF HealthChanges, OwnershipInv, VolumesTypeOK
<1>4. CASE CoordinatorStops
  <2>1. NoRequest \in Request /\ Sound(NoRequest)
    BY DEF NoRequest, Request, Sound
  <2>. QED BY <1>4, <2>1 DEF CoordinatorStops, OwnershipInv, VolumesTypeOK
<1>. QED BY <1>1, <1>2, <1>3, <1>4

\* Ownership is recorded truly at every place it is kept: an inductive
\* invariant of the volumes' specification (cache_volumes.ownership).
THEOREM OwnershipInvariant == VolumesSpec => []OwnershipInv
<1>1. ASSUME OwnershipInv, VolumesNext PROVE OwnershipInv'
  BY <1>1, RequestKeepsOwnership, PlacementKeepsOwnership, OthersKeepOwnership DEF VolumesNext
<1>2. ASSUME OwnershipInv, UNCHANGED volumesVars PROVE OwnershipInv'
  BY <1>2 DEF volumesVars, OwnershipInv, VolumesTypeOK
<1>3. OwnershipInv /\ [VolumesNext]_volumesVars => OwnershipInv'
  BY <1>1, <1>2
<1>. QED BY InitOwnership, <1>3, PTL DEF VolumesSpec

\* The provider is never asked to delete a volume of the user's
\* (delete_cache_volume).
THEOREM OwnVolumesStay == VolumesSpec => []NoOwnVolumeDeleted
<1>1. OwnershipInv => NoOwnVolumeDeleted
  BY DEF OwnershipInv, Sound, NoOwnVolumeDeleted
<1>. QED BY OwnershipInvariant, <1>1, PTL

\* A deletion or a detachment in progress leaves a binding to another volume
\* as it is (_persist_prepared_volume_binding).
THEOREM NewChoicesStay == VolumesSpec => DetachKeepsNewChoice
<1>1. ASSUME OwnershipInv, VolumesNext, NEW q \in Requests,
             loop = q, req[q].op \in {"delete", "detach"}, binding \notin {NoVolume, req[q].vol}
      PROVE  binding' = binding
  <2>1. loop # Free
    BY <1>1
  <2>2. CASE \E p \in Requests : RequestStep(p)
    <3>1. PICK p \in Requests : RequestStep(p)
      BY <2>2
    <3>2. CASE BindVolume(p)
      BY <1>1, <3>2 DEF BindVolume, Runs, OwnershipInv, Sound
    <3>3. CASE RestoreBinding(p)
      BY <1>1, <3>3 DEF RestoreBinding, Runs
    <3>4. CASE \E v \in Volumes : Delete(p, v, "delete") \/ Delete(p, v, "detach")
      BY <2>1, <3>4 DEF Delete
    <3>5. CASE \E v \in Volumes : Adopt(p, v) \/ Verify(p, v) \/ Create(p, v)
      BY <3>5 DEF Adopt, Verify, Create, OnlyRequest
    <3>6. CASE \/ ProviderActs(p) \/ AdoptOrCreateReply(p) \/ SaveVolume(p)
               \/ VerifyReply(p) \/ AskRemoval(p) \/ RemovalReply(p) \/ Forget(p)
      BY <3>6 DEF ProviderActs, AdoptOrCreateReply, SaveVolume, VerifyReply, AskRemoval, RemovalReply, Forget,
         OnlyRequest
    <3>. QED BY <3>1, <3>2, <3>3, <3>4, <3>5, <3>6 DEF RequestStep
  <2>3. CASE PlacementStep \/ DispatcherStops
    BY <2>3 DEF PlacementStep, DispatcherStops, BeginPlacement, CheckVolume, AllChecked, AdoptBound, CountReady,
       ProviderCreates, CreatedVolume, RecordCreated, Choose, GivesUp, OnlyPlacement
  <2>4. CASE \/ \E v \in Volumes : VolumeLost(v)
             \/ \E v \in Volumes, status \in {"ready", "degraded"} : HealthChanges(v, status)
             \/ CoordinatorStops
    BY <2>4 DEF VolumeLost, HealthChanges, CoordinatorStops
  <2>5. CASE \E v \in Volumes \cup {NoVolume} : UserBinds(v)
    BY <2>1, <2>5 DEF UserBinds
  <2>. QED BY <1>1, <2>2, <2>3, <2>4, <2>5 DEF VolumesNext
<1>2. OwnershipInv /\ [VolumesNext]_volumesVars =>
        [\A q \in Requests :
           loop = q /\ req[q].op \in {"delete", "detach"} /\ binding \notin {NoVolume, req[q].vol}
             => binding' = binding]_volumesVars
  BY <1>1
<1>. QED BY OwnershipInvariant, <1>2, PTL DEF VolumesSpec, DetachKeepsNewChoice

-----------------------------------------------------------------------------
(* The inventory: what the registry's three tables say of each other *)

\* The registry alone: a digest reported corrupt has no eligible artifact row,
\* and every digest of a listed manifest has a row.
RegistryInv ==
    /\ listed \subseteq Manifests /\ invalid \subseteq Digests
    /\ artifact \in [Digests -> {"none", "eligible", "invalidated", "unknown"}]
    /\ health \in {"ready", "degraded"}
    /\ \A d \in Digests : artifact[d] = "eligible" => d \notin invalid
    /\ ListedIsProjected

\* What is on its way to it: indexes and announcements of real manifests.
SourcesInv ==
    /\ index \subseteq Manifests /\ published \subseteq Manifests
    /\ canary \in CanaryRow
    /\ reader \in [Readers -> [busy : BOOLEAN, read : BOOLEAN, index : SUBSET Manifests]]
    /\ merge \in [Processes -> [on : BOOLEAN, known : SUBSET Manifests]]

\* The blobs with other bytes, and the messages of workers on their way.
MailInv ==
    /\ bad \subseteq Digests /\ damaged \in 0..MaxCorruptions
    /\ mail \subseteq [what : {"announce"}, about : Manifests] \cup [what : {"hit", "corrupt"}, about : Digests]

InventoryInv == RegistryInv /\ SourcesInv /\ MailInv

USE InventoryShape

LEMMA HeldDigests ==
    ASSUME NEW ms \in SUBSET Manifests
    PROVE  HeldBy(ms) \in SUBSET Digests /\ \A m \in ms : Holds[m] \subseteq HeldBy(ms)
  BY DEF HeldBy

LEMMA ReconcileKeeps ==
    ASSUME RegistryInv, NEW ms \in SUBSET Manifests, Reconcile(ms)
    PROVE  RegistryInv'
<1>1. HeldBy(listed') = HeldBy(listed) \cup HeldBy(ms)
  BY DEF Reconcile, HeldBy
<1>2. HeldBy(listed) \subseteq Digests /\ HeldBy(ms) \subseteq Digests
  BY HeldDigests DEF RegistryInv
<1>3. \A d \in Digests : /\ d \in HeldBy(ms) => artifact'[d] \in {"invalidated", "eligible"}
                                                /\ (artifact'[d] = "eligible" => d \notin invalid)
                         /\ d \notin HeldBy(ms) /\ artifact[d] # "none" => artifact'[d] = "unknown"
                         /\ d \notin HeldBy(ms) /\ artifact[d] = "none" => artifact'[d] = "none"
  BY DEF Reconcile, Eligibility
<1>4. /\ listed' \subseteq Manifests /\ invalid' = invalid
      /\ health' \in {"ready", "degraded"}
  BY DEF Reconcile, RegistryInv
<1>5. artifact' \in [Digests -> {"none", "eligible", "invalidated", "unknown"}]
  <2>1. artifact' = [d \in Digests |-> artifact'[d]]
    BY DEF Reconcile
  <2>. QED BY <1>3, <2>1 DEF RegistryInv
<1>6. ListedIsProjected'
  BY <1>1, <1>2, <1>3 DEF ListedIsProjected, RegistryInv
<1>. QED BY <1>3, <1>4, <1>5, <1>6 DEF RegistryInv

LEMMA ReportKeeps ==
    ASSUME RegistryInv, NEW d \in Digests, MarkVerified(d) \/ Invalidate(d)
    PROVE  RegistryInv'
<1>1. /\ artifact' \in [Digests -> {"none", "eligible", "invalidated", "unknown"}]
      /\ \A e \in Digests : artifact[e] # "none" => artifact'[e] # "none"
      /\ \A e \in Digests : artifact'[e] = "eligible" => e \notin invalid'
  BY DEF MarkVerified, Invalidate, RegistryInv
<1>2. health' \in {"ready", "degraded"} /\ listed' = listed /\ invalid' \subseteq Digests
  BY DEF MarkVerified, Invalidate, Health, RegistryInv
<1>3. HeldBy(listed') = HeldBy(listed) /\ HeldBy(listed) \subseteq Digests
  BY <1>2, HeldDigests DEF RegistryInv
<1>. QED BY <1>1, <1>2, <1>3 DEF RegistryInv, ListedIsProjected

LEMMA RemoveKeeps ==
    ASSUME RegistryInv, NEW m \in Manifests, Remove(m)
    PROVE  RegistryInv'
<1>1. HeldBy(listed \ {m}) \subseteq HeldBy(listed) /\ HeldBy(listed) \subseteq Digests
  BY HeldDigests DEF RegistryInv, HeldBy
<1>2. /\ listed' = listed \ {m} /\ invalid' \subseteq invalid
      /\ health' \in {"ready", "degraded"}
  BY DEF Remove, Health
<1>3. \A d \in Digests : /\ d \in HeldBy(listed \ {m}) /\ artifact[d] # "none" => artifact'[d] # "none"
                         /\ artifact'[d] \in {"none", "eligible", "invalidated", "unknown"}
                         /\ artifact'[d] = "eligible" => d \notin invalid
  BY DEF Remove, Orphans, Eligibility, RegistryInv
<1>4. artifact' \in [Digests -> {"none", "eligible", "invalidated", "unknown"}]
  <2>1. artifact' = [d \in Digests |-> artifact'[d]]
    BY DEF Remove
  <2>. QED BY <1>3, <2>1
<1>5. ListedIsProjected'
  BY <1>1, <1>2, <1>3 DEF ListedIsProjected, RegistryInv
<1>. QED BY <1>2, <1>3, <1>4, <1>5 DEF RegistryInv

LEMMA RegistryAlone == RegistryInv /\ UNCHANGED Registry => RegistryInv'
  BY DEF RegistryInv, Registry, ListedIsProjected, HeldBy

LEMMA InitInventory == InventoryInit => InventoryInv
<1>1. InventoryInit => MailInv
  BY DEF InventoryInit, MailInv
<1>2. InventoryInit => RegistryInv /\ SourcesInv
  BY DEF InventoryInit, RegistryInv, SourcesInv, ListedIsProjected, HeldBy, Resting, NoMerge, Processes,
                   CanaryRow
<1>. QED BY <1>1, <1>2 DEF InventoryInv

LEMMA SourcesKept ==
    ASSUME InventoryInv, InventoryNext
    PROVE  SourcesInv'
<1>0. SourcesInv /\ listed \subseteq Manifests
  BY DEF InventoryInv, RegistryInv
<1>. DEFINE SameVolume == index' \subseteq Manifests /\ published' \subseteq Manifests
            SameCanary == canary' \in CanaryRow
            SameReader == reader' \in [Readers -> [busy : BOOLEAN, read : BOOLEAN, index : SUBSET Manifests]]
            SameMerge  == merge' \in [Processes -> [on : BOOLEAN, known : SUBSET Manifests]]
<1>1. ASSUME SameVolume, SameCanary, SameReader, SameMerge PROVE SourcesInv'
  BY <1>1 DEF SourcesInv
<1>2. /\ UNCHANGED <<index, published>> => SameVolume
      /\ UNCHANGED canary => SameCanary
      /\ UNCHANGED reader => SameReader
      /\ UNCHANGED merge => SameMerge
  BY <1>0 DEF SourcesInv
<1>3. ASSUME NEW m \in Manifests, Publish(m) PROVE SameVolume
  BY <1>0, <1>3 DEF Publish, SourcesInv
<1>4. ASSUME NEW p \in Processes, NEW m \in Manifests, ReadsKnown(p, m) PROVE SameMerge
  <2>1. [on |-> TRUE, known |-> listed \cup {m}] \in [on : BOOLEAN, known : SUBSET Manifests]
    BY <1>0
  <2>. QED BY <1>0, <1>4, <2>1 DEF ReadsKnown, SourcesInv
<1>5. ASSUME NEW p \in Processes, merge' = [merge EXCEPT ![p] = NoMerge] PROVE SameMerge
  <2>1. NoMerge \in [on : BOOLEAN, known : SUBSET Manifests]
    BY DEF NoMerge
  <2>. QED BY <1>0, <1>5, <2>1 DEF SourcesInv
<1>6. ASSUME NEW r \in Readers, NEW row \in [busy : BOOLEAN, read : BOOLEAN, index : SUBSET Manifests],
             reader' = [reader EXCEPT ![r] = row]
      PROVE  SameReader
  BY <1>0, <1>6 DEF SourcesInv
<1>7. ASSUME NEW from, NEW to \in {"put", "announced", "live", "restored", "done"}, Canaried(from, to) PROVE SameCanary
  BY <1>0, <1>7 DEF Canaried, SourcesInv, CanaryRow
<1>8. "server" \in Processes /\ "bench" \in Processes
  BY DEF Processes
<1>9. CASE \E m \in Manifests : WorkerPublishes(m) \/ Announced(m) \/ CanaryRemoves(m)
  <2>1. CASE \E m \in Manifests : CanaryRemoves(m)
    <3>1. SameCanary
      BY <1>0, <2>1 DEF CanaryRemoves, SourcesInv, CanaryRow
    <3>. QED BY <1>1, <1>2, <2>1, <3>1 DEF CanaryRemoves, Volume
  <2>2. CASE \E m \in Manifests : WorkerPublishes(m) \/ Announced(m)
    BY <1>1, <1>2, <1>3, <1>4, <1>8, <2>2 DEF WorkerPublishes, Announced, Volume
  <2>. QED BY <1>9, <2>1, <2>2
<1>10. CASE \E d \in Digests : WorkerReads(d) \/ BlobDamaged(d) \/ ReportArrives(d) \/ ReportLost(d)
  BY <1>1, <1>2, <1>10 DEF WorkerReads, BlobDamaged, ReportArrives, ReportLost, Volume
<1>11. CASE \E r \in Readers : BeginRead(r)
  <2>1. PICK r \in Readers : BeginRead(r)
    BY <1>11
  <2>2. SameReader
    BY <1>0, <2>1, ZenonT(60) DEF BeginRead, SourcesInv
  <2>3. SameVolume
    BY <1>2, <1>3, <2>1 DEF BeginRead, Volume
  <2>. QED BY <1>1, <1>2, <2>1, <2>2, <2>3 DEF BeginRead
<1>12. CASE \E r \in Readers : ReadIndex(r)
  <2>1. PICK r \in Readers : ReadIndex(r)
    BY <1>12
  <2>2. SameReader
    BY <1>0, <2>1, ZenonT(60) DEF ReadIndex, SourcesInv
  <2>. QED BY <1>1, <1>2, <2>1, <2>2 DEF ReadIndex, Volume
<1>13. CASE \E r \in Readers : Project(r)
  <2>1. Resting \in [busy : BOOLEAN, read : BOOLEAN, index : SUBSET Manifests]
    BY DEF Resting
  <2>. QED BY <1>1, <1>2, <1>6, <1>13, <2>1 DEF Project, Volume
<1>14. CASE Merge \/ AdoptedAgain
  BY <1>1, <1>2, <1>5, <1>8, <1>14 DEF Merge, AdoptedAgain, Volume
<1>15. CASE CanaryReads
  <2>1. SameCanary
    BY <1>0, <1>15 DEF CanaryReads, SourcesInv, CanaryRow
  <2>. QED BY <1>1, <1>2, <1>15, <2>1 DEF CanaryReads, Volume
<1>16. CASE CanaryPuts
  <2>1. SameVolume
    BY <1>0, <1>16 DEF CanaryPuts, SourcesInv
  <2>. QED BY <1>1, <1>2, <1>7, <1>16, <2>1 DEF CanaryPuts
<1>17. CASE CanaryAnnounces
  BY <1>1, <1>2, <1>4, <1>5, <1>7, <1>8, <1>17 DEF CanaryAnnounces, Volume
<1>18. CASE CanaryGoesLive \/ CanaryRestores
  <2>1. canary.was \in SUBSET Manifests
    BY <1>0 DEF SourcesInv, CanaryRow
  <2>2. SameVolume
    BY <1>0, <1>18, <2>1 DEF CanaryGoesLive, CanaryRestores, SourcesInv
  <2>. QED BY <1>1, <1>2, <1>5, <1>7, <1>8, <1>18, <2>2 DEF CanaryGoesLive, CanaryRestores
<1>19. CASE CanaryRepairs \/ CanaryEnds
  BY <1>1, <1>2, <1>7, <1>19 DEF CanaryRepairs, CanaryEnds
<1>20. CASE CanaryLists
  <2>1. SameCanary
    BY <1>0, <1>20, InventoryShape DEF CanaryLists, SourcesInv, CanaryRow
  <2>. QED BY <1>1, <1>2, <1>20, <2>1 DEF CanaryLists, Volume
<1>. QED BY <1>9, <1>10, <1>11, <1>12, <1>13, <1>14, <1>15, <1>16, <1>17, <1>18, <1>19, <1>20 DEF InventoryNext

LEMMA RegistryKept ==
    ASSUME InventoryInv, InventoryNext
    PROVE  RegistryInv'
<1>0. RegistryInv /\ SourcesInv
  BY DEF InventoryInv
<1>1. /\ \A p \in Processes : merge[p].known \in SUBSET Manifests
      /\ \A r \in Readers : reader[r].index \in SUBSET Manifests
      /\ "server" \in Processes /\ "bench" \in Processes
  BY <1>0 DEF SourcesInv, Processes
<1>2. ASSUME UNCHANGED <<listed, artifact, invalid>>, health' \in {"ready", "degraded"} PROVE RegistryInv'
  BY <1>0, <1>2 DEF RegistryInv, ListedIsProjected, HeldBy
<1>3. CASE \E m \in Manifests : WorkerPublishes(m) \/ Announced(m) \/ CanaryRemoves(m)
  BY <1>0, <1>3, RegistryAlone, RemoveKeeps DEF WorkerPublishes, Announced, CanaryRemoves
<1>4. CASE \E d \in Digests : WorkerReads(d) \/ BlobDamaged(d) \/ ReportArrives(d) \/ ReportLost(d)
  BY <1>0, <1>4, RegistryAlone, ReportKeeps DEF WorkerReads, BlobDamaged, ReportArrives, ReportLost
<1>5. CASE \E r \in Readers : BeginRead(r) \/ ReadIndex(r) \/ Project(r)
  BY <1>0, <1>1, <1>2, <1>5, RegistryAlone, ReconcileKeeps DEF BeginRead, ReadIndex, Project
<1>6. CASE Merge \/ AdoptedAgain
  BY <1>0, <1>1, <1>2, <1>6, RegistryAlone, ReconcileKeeps DEF Merge, AdoptedAgain
<1>7. CASE CanaryAnnounces
  BY <1>0, <1>1, <1>7, RegistryAlone, ReconcileKeeps DEF CanaryAnnounces
<1>8. CASE CanaryReads \/ CanaryPuts \/ CanaryGoesLive \/ CanaryRepairs \/ CanaryRestores \/ CanaryLists \/ CanaryEnds
  BY <1>0, <1>8, RegistryAlone
     DEF CanaryReads, CanaryPuts, CanaryGoesLive, CanaryRepairs, CanaryRestores, CanaryLists, CanaryEnds
<1>. QED BY <1>3, <1>4, <1>5, <1>6, <1>7, <1>8 DEF InventoryNext

LEMMA MailKept ==
    ASSUME InventoryInv, InventoryNext
    PROVE  MailInv'
<1>0. MailInv /\ listed \in SUBSET Manifests /\ published \in SUBSET Manifests
  BY DEF InventoryInv, RegistryInv, SourcesInv
<1>1. HeldBy(listed) \in SUBSET Digests /\ HeldBy(published) \in SUBSET Digests
  BY <1>0, HeldDigests
<1>2. ASSUME bad' \subseteq Digests, damaged' \in 0..MaxCorruptions,
             \/ mail' \subseteq mail
             \/ \E m \in Manifests : mail' = mail \cup {Announcement(m)}
             \/ \E d \in Digests : mail' = mail \cup {Hit(d)} \/ mail' = mail \cup {Corruption(d)}
      PROVE  MailInv'
  <2>1. /\ \A m \in Manifests : Announcement(m) \in [what : {"announce"}, about : Manifests]
        /\ \A d \in Digests : {Hit(d), Corruption(d)} \subseteq [what : {"hit", "corrupt"}, about : Digests]
    BY DEF Announcement, Hit, Corruption
  <2>. QED BY <1>0, <1>2, <2>1 DEF MailInv
<1>3. bad \subseteq Digests /\ damaged \in 0..MaxCorruptions
  BY <1>0 DEF MailInv
<1>4. CASE \E m \in Manifests : WorkerPublishes(m) \/ Announced(m) \/ CanaryRemoves(m)
  BY <1>2, <1>3, <1>4 DEF WorkerPublishes, Publish, Post, Announced, Delivered, CanaryRemoves, Volume
<1>5. CASE \E d \in Digests : WorkerReads(d) \/ ReportArrives(d) \/ ReportLost(d)
  BY <1>2, <1>3, <1>5 DEF WorkerReads, Post, ReportArrives, ReportLost, Delivered, Volume
<1>6. CASE \E d \in Digests : BlobDamaged(d)
  <2>1. PICK d \in Digests : BlobDamaged(d)
    BY <1>6
  <2>2. damaged' \in 0..MaxCorruptions
    BY <1>3, <2>1, InventoryShape DEF BlobDamaged
  <2>. QED BY <1>2, <1>3, <2>1, <2>2 DEF BlobDamaged
<1>7. CASE \E r \in Readers : BeginRead(r) \/ ReadIndex(r) \/ Project(r)
  BY <1>2, <1>3, <1>7 DEF BeginRead, Publish, ReadIndex, Project, Volume
<1>8. CASE \/ Merge \/ AdoptedAgain \/ CanaryReads \/ CanaryAnnounces \/ CanaryGoesLive
           \/ CanaryRepairs \/ CanaryRestores \/ CanaryLists \/ CanaryEnds
  BY <1>2, <1>3, <1>8
     DEF Merge, AdoptedAgain, CanaryReads, CanaryAnnounces, CanaryGoesLive, CanaryRepairs, CanaryRestores,
         CanaryLists, CanaryEnds, Volume
<1>9. CASE CanaryPuts
  BY <1>2, <1>3, <1>9, InventoryShape DEF CanaryPuts
<1>. QED BY <1>4, <1>5, <1>6, <1>7, <1>8, <1>9 DEF InventoryNext

\* The registry's tables agree, whatever is published, announced, read and
\* reported between its transactions: an inductive invariant.
THEOREM InventoryInvariant == InventorySpec => []InventoryInv
<1>1. ASSUME InventoryInv, UNCHANGED inventoryVars PROVE InventoryInv'
  BY <1>1, RegistryAlone DEF inventoryVars, InventoryInv, SourcesInv, MailInv, Registry
<1>2. InventoryInv /\ [InventoryNext]_inventoryVars => InventoryInv'
  BY <1>1, SourcesKept, RegistryKept, MailKept DEF InventoryInv
<1>. QED BY InitInventory, <1>2, PTL DEF InventorySpec

\* What the registry holds, what is on its way to it and what is on the volume
\* keep their types (cache_registry.py).
THEOREM InventoryTypes == InventorySpec => []InventoryTypeOK
<1>1. InventoryInv => InventoryTypeOK
  BY DEF InventoryInv, RegistryInv, SourcesInv, MailInv, InventoryTypeOK
<1>. QED BY InventoryInvariant, <1>1, PTL

\* A digest reported corrupt is not counted as cached (volume_coverage).
THEOREM ReportedDigestsAreNotCovered == InventorySpec => []NoReportedDigestIsCovered
<1>1. InventoryInv => NoReportedDigestIsCovered
  BY DEF InventoryInv, RegistryInv, NoReportedDigestIsCovered, Covered
<1>. QED BY InventoryInvariant, <1>1, PTL

\* Every digest of a listed manifest has its artifact row (reconcile_index,
\* remove_manifest).
THEOREM ManifestsAreProjected == InventorySpec => []ListedIsProjected
<1>1. InventoryInv => ListedIsProjected
  BY DEF InventoryInv, RegistryInv
<1>. QED BY InventoryInvariant, <1>1, PTL

=============================================================================
