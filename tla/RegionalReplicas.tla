--------------------------- MODULE RegionalReplicas ---------------------------
(***************************************************************************)
(* The routes of regional replication (cloud_offload/server.py): one       *)
(* action for each stretch of a handler between two awaits or two items of *)
(* a loop.  A tick of the controller reconciles, expires and executes; a   *)
(* user may also ask to expire or to execute alone.                        *)
(***************************************************************************)
EXTENDS ReplicaRows

OnlyTargets == UNCHANGED <<listed, actions>> /\ ProviderUnchanged
OnlyActions == UNCHANGED <<targets, vols, listed>> /\ ProviderUnchanged
NoRow       == UNCHANGED rows /\ ProviderUnchanged

\* Lists come newest first.
IsNewest(x, S) == x \in S /\ \A y \in S : y <= x

IsOldest(x, S) == x \in S /\ \A y \in S : x <= y

-----------------------------------------------------------------------------
(* _reconcile_automatic_replica_targets *)

\* A tick recovers the copies of S as stale, and lists the rows to clean.
BeginTick(q) ==
    /\ Automatic /\ loop = Free /\ req[q].kind = "none"
    /\ \E S \in SUBSET {a \in Copy : actions[a].status = "copying"} :
         actions' = [a \in Copy |-> IF a \in S THEN [actions[a] EXCEPT !.status = "failed"]
                                               ELSE actions[a]]
    /\ req' = [req EXCEPT ![q].kind = "tick", ![q].pc = "clean",
                          ![q].todo = {t \in InStatus({"deleting"}) : targets[t].bound}]
    /\ loop' = q
    /\ OnlyActions

CleanNext(q) ==
    /\ Runs(q, "clean")
    /\ \/ \E t \in Target : IsNewest(t, req[q].todo) /\ Awaits(q, "get", t)
       \/ req[q].todo = {} /\ Goes(q, "check", InStatus({"ready"}))
    /\ NoRow

\* A target whose provider volume is gone is deleted, its volume failed.
Removed(t) ==
    /\ SetTarget(t, "deleted")
    /\ vols' = IF targets[t].registered /\ vols[t] # "none" THEN [vols EXCEPT ![t] = "failed"] ELSE vols

GetReply(q) ==
    \/ /\ Answered(q, "get") /\ req[q].there
       /\ Awaits(q, "delete", req[q].cur)
       /\ NoRow
    \/ /\ Answered(q, "get") /\ ~req[q].there
       /\ Removed(req[q].cur)
       /\ Goes(q, "clean", req[q].todo)
       /\ OnlyTargets
    \/ Errs(q, "get") /\ Goes(q, "clean", req[q].todo) /\ NoRow

DeleteReply(q) ==
    \/ /\ Answered(q, "delete")
       /\ Removed(req[q].cur)
       /\ Goes(q, "clean", req[q].todo)
       /\ OnlyTargets
    \/ Errs(q, "delete") /\ Goes(q, "clean", req[q].todo) /\ NoRow

DueActions == {a \in Copy : actions[a].status = "completed" /\ actions[a].due}

\* The volume row of a ready target was forgotten, or its volume is inspected.
CheckNext(q) ==
    /\ Runs(q, "check")
    /\ \/ \E t \in Target :
            /\ IsNewest(t, req[q].todo) /\ vols[t] = "none"
            /\ SetTarget(t, "lost") /\ LoseActions(t)
            /\ Goes(q, "check", req[q].todo \ {t})
            /\ UNCHANGED <<vols, listed>> /\ ProviderUnchanged
       \/ \E t \in Target :
            IsNewest(t, req[q].todo) /\ vols[t] # "none" /\ Awaits(q, "inspect", t) /\ NoRow
       \/ req[q].todo = {} /\ Goes(q, "due", DueActions) /\ NoRow

\* A fault: an error of the provider counts as the loss of the volume.
InspectErrorIsLoss(q) ==
    /\ Errs(q, "inspect")
    /\ SetTarget(req[q].cur, "lost") /\ LoseActions(req[q].cur)
    /\ vols' = [vols EXCEPT ![req[q].cur] = "failed"]
    /\ Goes(q, "check", req[q].todo)
    /\ UNCHANGED listed /\ ProviderUnchanged

\* mark_volume finds no row when the volume was forgotten meanwhile: the tick
\* ends, and the actions keep their status.
InspectReply(q) ==
    LET t == req[q].cur IN
    \/ /\ Answered(q, "inspect") /\ ~req[q].there
       /\ SetTarget(t, "lost")
       /\ IF vols[t] = "none"
          THEN Ends(q) /\ UNCHANGED <<vols, actions>>
          ELSE /\ vols' = [vols EXCEPT ![t] = "failed"]
               /\ LoseActions(t)
               /\ Goes(q, "check", req[q].todo)
       /\ UNCHANGED listed /\ ProviderUnchanged
    \/ /\ Answered(q, "inspect") /\ req[q].there
       /\ Goes(q, "check", req[q].todo)
       /\ NoRow
    \/ Errs(q, "inspect") /\ Goes(q, "check", req[q].todo) /\ NoRow

-----------------------------------------------------------------------------
(* expire_regional_replicas *)

BeginExpire(q) ==
    /\ loop = Free /\ req[q].kind = "none"
    /\ req' = [req EXCEPT ![q].kind = "expire", ![q].pc = "due", ![q].todo = DueActions]
    /\ loop' = q
    /\ NoRow

ActiveTargets == {actions[a].target : a \in {b \in Copy : actions[b].status \in Active}}

\* A copy the registry does not show is a failure; the active actions are read
\* once, when the due ones are done.
ExpireNext(q) ==
    /\ Runs(q, "due")
    /\ \/ \E a \in Copy :
            /\ IsNewest(a, req[q].todo)
            /\ IF actions[a].profile \in listed[actions[a].target]
               THEN Awaits(q, "unpublish", a) ELSE Goes(q, "due", req[q].todo \ {a})
       \/ /\ req[q].todo = {}
          /\ req' = [req EXCEPT ![q].pc = "empty", ![q].seen = ActiveTargets,
                                ![q].todo = InStatus({"ready"})]
          /\ loop' = q
    /\ NoRow

\* CacheRegistry.remove_manifest; a row that is gone is left alone.
Unlisted(t, p) ==
    /\ listed' = [listed EXCEPT ![t] = @ \ {p}]
    /\ vols' = IF p \in listed[t] THEN [vols EXCEPT ![t] = "ready"] ELSE vols

\* expire_replica_action counts a row that is no longer completed a failure.
Expired(a) ==
    actions' = IF actions[a].status = "completed" THEN [actions EXCEPT ![a].status = "expired"]
                                                  ELSE actions

UnpublishReply(q) ==
    LET a == req[q].cur IN
    \/ /\ Answered(q, "unpublish")
       /\ Unlisted(actions[a].target, actions[a].profile) /\ Expired(a)
       /\ Goes(q, "due", req[q].todo)
       /\ UNCHANGED targets /\ ProviderUnchanged
    \/ Errs(q, "unpublish") /\ Goes(q, "due", req[q].todo) /\ NoRow

-----------------------------------------------------------------------------
(* _delete_empty_automatic_replica_targets *)

\* The actions are the ones read at the start, the manifests those of now.
IsEmpty(q, t) == vols[t] # "none" /\ t \notin req[q].seen /\ listed[t] = {}

AfterEmpty(q) == IF req[q].kind = "tick" THEN Goes(q, "execute", {}) ELSE Ends(q)

EmptyNext(q) ==
    /\ Runs(q, "empty")
    /\ \/ \E t \in Target :
            /\ IsNewest(t, req[q].todo) /\ ~IsEmpty(q, t)
            /\ Goes(q, "empty", req[q].todo \ {t})
            /\ NoRow
       \/ \E t \in Target :
            /\ IsNewest(t, req[q].todo) /\ IsEmpty(q, t) /\ IndexAllows(t, "deleting")
            /\ SetTarget(t, "deleting") /\ vols' = [vols EXCEPT ![t] = "deleting"]
            /\ Awaits(q, "remove", t)
            /\ OnlyTargets
       \/ \E t \in Target :
            /\ IsNewest(t, req[q].todo) /\ IsEmpty(q, t) /\ ~IndexAllows(t, "deleting")
            /\ Ends(q) /\ NoRow
       \/ req[q].todo = {} /\ AfterEmpty(q) /\ NoRow

\* On any error the volume is ready again, and the target if the index allows;
\* a volume row that was forgotten meanwhile ends the request.
RemoveReply(q) ==
    LET t == req[q].cur IN
    \/ /\ Errs(q, "remove") /\ vols[t] = "none"
       /\ Ends(q) /\ NoRow
    \/ /\ Answered(q, "remove") /\ vols[t] # "none"
       /\ vols' = [vols EXCEPT ![t] = "failed"] /\ SetTarget(t, "deleted")
       /\ Goes(q, "empty", req[q].todo)
       /\ OnlyTargets
    \/ /\ Errs(q, "remove") /\ vols[t] # "none"
       /\ vols' = [vols EXCEPT ![t] = "ready"]
       /\ IF IndexAllows(t, "ready") THEN SetTarget(t, "ready") /\ Goes(q, "empty", req[q].todo)
                                     ELSE UNCHANGED targets /\ Ends(q)
       /\ OnlyTargets

-----------------------------------------------------------------------------
(* build_shadow_report *)

Shows(t, p) == vols[t] = "ready" /\ p \in listed[t]

Covered(p, r) == \E t \in Target : targets[t].region = r /\ Shows(t, p)

Sources(p, r) == {0} \cup {t \in Target : targets[t].region # r /\ Shows(t, p)}

TargetVolumes(r) == {t \in Target : targets[t].region = r /\ vols[t] = "ready"}

\* Demand is there; what is left of the rules is the cost and the coverage.
Recommended(p, r) == ~Covered(p, r) /\ (TargetVolumes(r) # {} \/ TargetBudget >= 1)

-----------------------------------------------------------------------------
(* execute_regional_replica *)

BeginExecute(q) ==
    /\ loop = Free /\ req[q].kind = "none"
    /\ req' = [req EXCEPT ![q].kind = "execute", ![q].pc = "execute"]
    /\ loop' = q
    /\ NoRow

\* A recommendation's identity is its profile, source and target region.
SameCopy(a, p, s, r) ==
    actions[a].profile = p /\ actions[a].source = s /\ targets[actions[a].target].region = r

Copying == {a \in Copy : actions[a].status = "copying"}

FreshCopies == {a \in Copy : actions[a].status = "none"}

\* A fault: only a copy in progress counts as the same copy.
MayClaimCompleted(p, s, t) ==
    /\ \A a \in Copying : ~SameCopy(a, p, s, targets[t].region)
    /\ Cardinality(Copying) < MaxInflight

\* claim_replica_action.  The target exists, so the copy costs no storage.
MayClaim(p, s, t) ==
    /\ \A a \in Copy : actions[a].status \in Active => ~SameCopy(a, p, s, targets[t].region)
    /\ Cardinality(Copying) < MaxInflight

ClaimCopy(q, p, s, t) ==
    IF MayClaim(p, s, t)
    THEN \E c \in Copy :
           /\ IsOldest(c, FreshCopies)
           /\ actions' = [actions EXCEPT ![c] = [status |-> "copying", profile |-> p, source |-> s,
                                                target |-> t, due |-> FALSE]]
           /\ Awaits(q, "copy", c)
    ELSE Ends(q) /\ UNCHANGED actions

\* _registered_storage_monthly_cost and claim_replica_target
InRegion(r) == {t \in InStatus(Open) : targets[t].region = r}

WithinBudgets ==
    /\ Cardinality({t \in Target : vols[t] \in {"ready", "deleting"}}) < TotalBudget
    /\ Cardinality(InStatus(Open)) < TargetBudget

FreshTargets == {t \in Target : targets[t].status = "none"}

\* _ensure_automatic_replica_target up to its first await
ClaimTarget(q, p, s, r) ==
    \/ \E t \in Target :
         /\ InRegion(r) = {} /\ WithinBudgets /\ IsOldest(t, FreshTargets)
         /\ targets' = [targets EXCEPT ![t] = [NoTarget EXCEPT !.status = "creating", !.region = r]]
         /\ req' = [req EXCEPT ![q].pc = "create", ![q].profile = p, ![q].source = s,
                               ![q].cur = t, ![q].call = "sent"]
         /\ loop' = Free
    \/ /\ InRegion(r) # {} \/ ~WithinBudgets
       /\ targets' = [t \in Target |->
                        IF t \in InRegion(r) /\ targets[t].status = "ready" /\ vols[t] = "none"
                        THEN [targets[t] EXCEPT !.status = "lost"] ELSE targets[t]]
       /\ Ends(q)

Execute(q) ==
    /\ Runs(q, "execute")
    /\ \/ \E p \in Profiles, r \in Regions : \E s \in Sources(p, r) :
            /\ Recommended(p, r)
            /\ \/ \E t \in TargetVolumes(r) : ClaimCopy(q, p, s, t) /\ UNCHANGED targets
               \/ TargetVolumes(r) = {} /\ Automatic /\ ClaimTarget(q, p, s, r) /\ UNCHANGED actions
            /\ UNCHANGED <<vols, listed>> /\ ProviderUnchanged
       \/ Ends(q) /\ NoRow    \* nothing recommended, or the gate of the accuracy is closed

\* bind_replica_target_provider, upsert_volume and complete_replica_target,
\* then the report again; or an error, or a volume S3 cannot reach.
CreateReply(q) ==
    LET t == req[q].cur
        Bound(status, registered) ==
            targets' = [targets EXCEPT ![t].status = status, ![t].bound = TRUE, ![t].registered = registered]
    IN
    \/ /\ Answered(q, "create")
       /\ Bound("ready", TRUE) /\ vols' = [vols EXCEPT ![t] = "ready"]
       /\ IF /\ ~Covered(req[q].profile, targets[t].region)
             /\ req[q].source \in Sources(req[q].profile, targets[t].region)
          THEN ClaimCopy(q, req[q].profile, req[q].source, t)
          ELSE Ends(q) /\ UNCHANGED actions
       /\ UNCHANGED listed /\ ProviderUnchanged
    \/ /\ Answered(q, "create")
       /\ Bound("creating", FALSE)
       /\ Awaits(q, "undo", t)
       /\ UNCHANGED vols /\ OnlyTargets
    \/ /\ Errs(q, "create")
       /\ SetTarget(t, "failed") /\ Ends(q)
       /\ UNCHANGED vols /\ OnlyTargets

UndoReply(q) ==
    \/ Answered(q, "undo") /\ SetTarget(req[q].cur, "deleted") /\ Ends(q) /\ UNCHANGED vols /\ OnlyTargets
    \/ Errs(q, "undo") /\ SetTarget(req[q].cur, "deleting") /\ Ends(q) /\ UNCHANGED vols /\ OnlyTargets

\* complete_replica_action and fail_replica_action move a copying row only.
Settle(a, status) ==
    actions' = IF actions[a].status = "copying" THEN [actions EXCEPT ![a].status = status] ELSE actions

CopyReply(q) ==
    \/ Answered(q, "copy") /\ Awaits(q, "index", req[q].cur) /\ NoRow
    \/ Errs(q, "copy") /\ Settle(req[q].cur, "failed") /\ Ends(q) /\ OnlyActions

\* reconcile_index adds what the index shows, and degrades a volume whose
\* artifacts the index no longer has.
Reconciled(t, index) ==
    /\ listed' = [listed EXCEPT ![t] = @ \cup index]
    /\ vols' = [vols EXCEPT ![t] = IF listed[t] \subseteq index THEN "ready" ELSE "degraded"]

IndexReply(q) ==
    LET a == req[q].cur
        t == actions[a].target
    IN
    \/ /\ Answered(q, "index") /\ vols[t] # "none"
       /\ Reconciled(t, req[q].found) /\ Settle(a, "completed")
       /\ Ends(q)
       /\ UNCHANGED targets /\ ProviderUnchanged
    \/ /\ Errs(q, "index")
       /\ Settle(a, "failed") /\ Ends(q) /\ OnlyActions

-----------------------------------------------------------------------------
(* Time, crashes, and others *)

\* expires_at passes.
CopyFallsDue(a) ==
    /\ actions[a].status = "completed" /\ ~actions[a].due
    /\ actions' = [actions EXCEPT ![a].due = TRUE]
    /\ UNCHANGED <<req, loop>> /\ OnlyActions

\* The coordinator stops, between any two statements of a handler.
Crash ==
    /\ crashes < MaxCrashes
    /\ \E q \in Requests : req[q].kind # "none"
    /\ req' = [q \in Requests |-> NoRequest] /\ loop' = Free
    /\ crashes' = crashes + 1
    /\ UNCHANGED <<rows, storage, stored, losses>>

\* The provider loses a volume, or its owner deletes it in the console.
VolumeLost(t) ==
    /\ storage[t] = "present" /\ losses < MaxLosses
    /\ storage' = [storage EXCEPT ![t] = "gone"] /\ stored' = [stored EXCEPT ![t] = {}]
    /\ losses' = losses + 1
    /\ UNCHANGED <<rows, req, loop, crashes>>

\* delete_cache_volume without delete_provider: the row goes, with its manifests.
VolumeForgotten(t) ==
    /\ loop = Free /\ vols[t] # "none" /\ losses < MaxLosses
    /\ vols' = [vols EXCEPT ![t] = "none"] /\ listed' = [listed EXCEPT ![t] = {}]
    /\ losses' = losses + 1
    /\ UNCHANGED <<targets, actions, storage, stored, req, loop, crashes>>

-----------------------------------------------------------------------------
(* Specification *)

Begin(q) == BeginTick(q) \/ BeginExpire(q) \/ BeginExecute(q)

HandlerStep(q) ==
    \/ CleanNext(q) \/ GetReply(q) \/ DeleteReply(q) \/ CheckNext(q) \/ InspectReply(q)
    \/ ExpireNext(q) \/ UnpublishReply(q) \/ EmptyNext(q) \/ RemoveReply(q)
    \/ Execute(q) \/ CreateReply(q) \/ UndoReply(q) \/ CopyReply(q) \/ IndexReply(q)

ProviderStep(q) ==
    \/ ProviderReads(q) \/ ProviderCreates(q) \/ ProviderDeletes(q)
    \/ StoreUnpublishes(q) \/ StorePublishes(q) \/ StoreReads(q)

Next ==
    \/ \E q \in Requests : Begin(q) \/ HandlerStep(q) \/ ProviderStep(q)
    \/ \E a \in Copy : CopyFallsDue(a)
    \/ \E t \in Target : VolumeLost(t) \/ VolumeForgotten(t)
    \/ Crash

Spec == Init /\ [][Next]_vars

-----------------------------------------------------------------------------
(* Properties *)

\* The replication budget covers every target volume with an open row.
SpendWithinBudget == Cardinality(InStatus(Open)) <= TargetBudget

\* A provider volume whose id is stored and which still costs money has an
\* open row, unless its cache volume was forgotten by the user.
PaidVolumeIsOwned ==
    \A t \in Target : storage[t] = "present" /\ targets[t].bound =>
        targets[t].status \in Open \/ vols[t] = "none"

\* Two copies of one recommendation are never claimed at a time.
SingleFlight ==
    \A a, b \in Copy : a # b /\ actions[a].status \in Active /\ actions[b].status \in Active =>
        ~SameCopy(a, actions[b].profile, actions[b].source, targets[actions[b].target].region)

\* A copy that failed, expired or was lost never comes back.
SettledCopiesStay ==
    [][\A a \in Copy : actions[a].status \in {"failed", "expired", "lost"} =>
          actions'[a].status = actions[a].status]_vars

\* A target volume that a copy is made to, or that holds one, is not deleted.
\* It fails where two targets are ready (TargetBudget = 2, MaxInflight = 2): the
\* list of actions is read before the deletion of the first one is awaited.
OnlyEmptyTargetsDeleted ==
    [][\A t \in Target : targets[t].status # "deleting" /\ targets'[t].status = "deleting"
          => t \notin ActiveTargets]_vars

=============================================================================
