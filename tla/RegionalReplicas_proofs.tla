------------------------ MODULE RegionalReplicas_proofs ------------------------
(***************************************************************************)
(* Theorems about regional replication, for any number of regions,         *)
(* profiles, targets, copies and requests in progress, any budgets, and    *)
(* any number of restarts and lost volumes.                                *)
(***************************************************************************)
EXTENDS RegionalReplicas, TLAPS

-----------------------------------------------------------------------------
(* The inductive invariant *)

\* Target rows that were ever claimed, and those whose volume's id is stored.
Known   == {t \in Target : targets[t].status # "none"}
Bound   == {t \in Target : targets[t].bound}
Claimed == {a \in Copy : actions[a].status # "none"}

\* What one target row says about its volume.
TargetsInv ==
    /\ Bound \subseteq Known
    /\ \A t \in Target : targets[t].status = "ready" => t \in Bound
    /\ \A t \in Target : vols[t] # "none" => t \in Known
    /\ \A t \in Target : listed[t] # {} => vols[t] # "none"

\* A copy is made of a profile to a target that was claimed.
ActionsInv ==
    \A a \in Claimed : actions[a].target \in Known /\ actions[a].profile \in Profiles

\* The provider has told the request that the volume in its hand is gone.
ToldGone(r) ==
    /\ r.call = "done"
    /\ \/ r.pc \in {"delete", "remove", "undo"}
       \/ r.pc \in {"get", "inspect"} /\ ~r.there

\* What a request remembers through its awaits stays true of the rows: the
\* targets it goes through have their volumes, the volume it asked for has no
\* id yet, and what it knows to be gone stays gone.
SoundRequest(r) ==
    /\ r.pc \in {"clean", "get", "delete", "check", "inspect", "empty", "remove"} => r.todo \subseteq Bound
    /\ r.pc \in {"get", "delete", "inspect", "remove", "undo"} => r.cur \in Bound
    /\ r.pc \in {"due", "unpublish"} => r.todo \subseteq Claimed
    /\ r.pc \in {"unpublish", "copy", "index"} => r.cur \in Claimed
    /\ r.pc = "create" => r.cur \in Known \ Bound /\ r.profile \in Profiles
    /\ ToldGone(r) => storage[r.cur] # "present"

\* No two requests create the volume of one target.
OneCreation ==
    \A q, x \in Requests : q # x /\ req[q].pc = "create" /\ req[x].pc = "create" => req[q].cur # req[x].cur

ReplicaInv ==
    /\ TypeOK
    /\ TargetsInv /\ ActionsInv
    /\ \A q \in Requests : SoundRequest(req[q])
    /\ OneCreation
    /\ PaidVolumeIsOwned /\ SingleFlight

-----------------------------------------------------------------------------
(* Steps *)

RowTypes ==
    /\ targets \in [Target -> TargetRow]
    /\ vols \in [Target -> {"none", "ready", "degraded", "deleting", "failed"}]
    /\ listed \in [Target -> SUBSET Profiles]
    /\ actions \in [Copy -> ActionRow]
    /\ storage \in [Target -> {"none", "present", "gone"}]
    /\ stored \in [Target -> SUBSET Profiles]
    /\ crashes \in 0..MaxCrashes
    /\ losses \in 0..MaxLosses

\* What a step of q may do to the rows and the volumes: rows never go, only
\* the creation in its hand gets an id, and what is gone does not come back.
RowsStep(q) ==
    /\ RowTypes'
    /\ TargetsInv' /\ ActionsInv' /\ PaidVolumeIsOwned' /\ SingleFlight'
    /\ Known \subseteq Known' /\ Bound \subseteq Bound' /\ Claimed \subseteq Claimed'
    /\ \A t \in Bound' \ Bound : req[q].pc = "create" /\ req[q].cur = t
    /\ \A t \in Bound : storage[t] # "present" => storage'[t] # "present"

ReqStep(q) ==
    /\ req' \in [Requests -> Request]
    /\ \A x \in Requests \ {q} : req'[x] = req[x]
    /\ loop' \in Requests \cup {Free}

\* A request that is left alone stays sound.
LEMMA RequestStays ==
    ASSUME ReplicaInv, NEW x \in Requests, req'[x] = req[x],
           Known \subseteq Known', Bound \subseteq Bound', Claimed \subseteq Claimed',
           req[x].pc = "create" => req[x].cur \notin Bound',
           \A t \in Bound : storage[t] # "present" => storage'[t] # "present"
    PROVE  SoundRequest(req[x])'
<1>1. SoundRequest(req[x])
  BY DEF ReplicaInv
<1>2. ToldGone(req[x]) => storage'[req[x].cur] # "present"
  BY <1>1 DEF SoundRequest, ToldGone
<1>3. ToldGone(req[x])' => storage'[req'[x].cur] # "present"
  BY <1>2 DEF ToldGone
<1>4. req'[x].pc = "create" => req'[x].cur \in Known' \ Bound' /\ req'[x].profile \in Profiles
  BY <1>1 DEF SoundRequest
<1>5. SoundRequest(req[x])!1 /\ SoundRequest(req[x])!2 /\ SoundRequest(req[x])!3 /\ SoundRequest(req[x])!4
  BY <1>1 DEF SoundRequest
<1>6. /\ req'[x].pc \in {"clean", "get", "delete", "check", "inspect", "empty", "remove"} => req'[x].todo \subseteq Bound'
      /\ req'[x].pc \in {"get", "delete", "inspect", "remove", "undo"} => req'[x].cur \in Bound'
      /\ req'[x].pc \in {"due", "unpublish"} => req'[x].todo \subseteq Claimed'
      /\ req'[x].pc \in {"unpublish", "copy", "index"} => req'[x].cur \in Claimed'
  BY <1>5
<1>. QED BY <1>3, <1>4, <1>6 DEF SoundRequest

\* A step keeps the invariant when its rows are sound and so is what its
\* request will remember.
LEMMA StepSound ==
    ASSUME ReplicaInv, NEW q \in Requests, RowsStep(q), ReqStep(q), SoundRequest(req[q])',
           req'[q].pc = "create" => \/ req'[q].cur \notin Known
                                    \/ req[q].pc = "create" /\ req'[q].cur = req[q].cur
    PROVE  ReplicaInv'
<1>1. TypeOK'
  BY DEF TypeOK, RowsStep, RowTypes, ReqStep
<1>2. ASSUME NEW x \in Requests, x # q PROVE SoundRequest(req[x])'
  <2>1. req'[x] = req[x]
    BY <1>2 DEF ReqStep
  <2>2. ASSUME req[x].pc = "create" PROVE req[x].cur \notin Bound'
    <3>1. req[x].cur \notin Bound
      BY <2>2 DEF ReplicaInv, SoundRequest
    <3>2. req[q].pc = "create" => req[q].cur # req[x].cur
      BY <1>2, <2>2 DEF ReplicaInv, OneCreation
    <3>. QED BY <3>1, <3>2 DEF RowsStep
  <2>. QED BY <2>1, <2>2, RequestStays DEF RowsStep
<1>3. \A x \in Requests : SoundRequest(req[x])'
  BY <1>2
<1>4. OneCreation'
  <2> SUFFICES ASSUME NEW x \in Requests, NEW y \in Requests, x # y,
                      req'[x].pc = "create", req'[y].pc = "create"
               PROVE  req'[x].cur # req'[y].cur
    BY DEF OneCreation
  <2>1. \A z \in Requests : z # q /\ req'[z].pc = "create" => req'[z] = req[z] /\ req[z].cur \in Known
    BY DEF ReqStep, ReplicaInv, SoundRequest
  <2>2. CASE x # q /\ y # q
    BY <2>1, <2>2 DEF ReplicaInv, OneCreation
  <2>3. ASSUME NEW z \in Requests, z # q, req'[z].pc = "create", req'[q].pc = "create"
        PROVE  req'[q].cur # req'[z].cur
    <3>1. req'[z] = req[z] /\ req[z].cur \in Known /\ req[z].pc = "create"
      BY <2>1, <2>3
    <3>2. req[q].pc = "create" => req[q].cur # req[z].cur
      BY <3>1, <2>3 DEF ReplicaInv, OneCreation
    <3>. QED BY <3>1, <3>2, <2>3
  <2>. QED BY <2>2, <2>3
<1>. QED BY <1>1, <1>3, <1>4 DEF ReplicaInv, RowsStep

\* The numbers of rows.
LEMMA RowNumbers ==
    /\ Target \subseteq 0..MaxTargets /\ 0..MaxTargets \subseteq 0..(MaxTargets + MaxCopies)
    /\ Target \subseteq 0..(MaxTargets + MaxCopies) /\ Copy \subseteq 0..(MaxTargets + MaxCopies)
  BY ReplicaNumbers DEF Target, Copy

\* A request that ends remembers nothing.
LEMMA EndsSound ==
    ASSUME ReplicaInv, NEW q \in Requests, RowsStep(q), Ends(q)
    PROVE  ReplicaInv'
<1>1. NoRequest \in Request
  BY RowNumbers, ReplicaNumbers DEF NoRequest, Request
<1>2. ReqStep(q) /\ req'[q] = NoRequest
  BY <1>1 DEF Ends, ReqStep, ReplicaInv, TypeOK
<1>3. SoundRequest(req[q])'
  BY <1>2 DEF SoundRequest, ToldGone, NoRequest
<1>. QED BY <1>2, <1>3, StepSound DEF NoRequest

\* A request that goes on remembers the rows it has still to do.
LEMMA GoesSound ==
    ASSUME ReplicaInv, NEW q \in Requests, RowsStep(q),
           NEW pc \in {"clean", "check", "due", "empty", "execute"}, NEW S,
           S \in SUBSET (Target \cup Copy),
           pc \in {"clean", "check", "empty"} => S \subseteq Bound',
           pc = "due" => S \subseteq Claimed',
           Goes(q, pc, S)
    PROVE  ReplicaInv'
<1>1. req[q] \in Request
  BY DEF ReplicaInv, TypeOK
<1>2. 0 \in 0..(MaxTargets + MaxCopies)
  BY ReplicaNumbers
<1>3. req'[q] = [req[q] EXCEPT !.pc = pc, !.todo = S, !.cur = 0, !.call = "none", !.found = {}, !.there = FALSE]
  BY DEF Goes, ReplicaInv, TypeOK
<1>4. req'[q] \in Request /\ req'[q].pc = pc /\ req'[q].todo = S /\ req'[q].call = "none"
  BY <1>1, <1>2, <1>3 DEF Request
<1>5. ReqStep(q)
  BY <1>4 DEF Goes, ReqStep, ReplicaInv, TypeOK
<1>6. SoundRequest(req[q])'
  BY <1>4 DEF SoundRequest, ToldGone
<1>. QED BY <1>4, <1>5, <1>6, StepSound

\* A request that awaits a call remembers the row of the call too.
LEMMA AwaitsSound ==
    ASSUME ReplicaInv, NEW q \in Requests, RowsStep(q),
           NEW pc \in {"get", "delete", "inspect", "unpublish", "remove", "undo", "copy", "index"},
           NEW c \in Target \cup Copy,
           pc \in {"get", "delete", "inspect", "remove"} => req[q].todo \subseteq Bound /\ c \in Bound,
           pc = "undo" => c \in Bound',
           pc = "unpublish" => req[q].todo \subseteq Claimed /\ c \in Claimed,
           pc \in {"copy", "index"} => c \in Claimed',
           Awaits(q, pc, c)
    PROVE  ReplicaInv'
<1>1. req[q] \in Request
  BY DEF ReplicaInv, TypeOK
<1>2. c \in 0..(MaxTargets + MaxCopies)
  BY RowNumbers
<1>3. req'[q] = [req[q] EXCEPT !.pc = pc, !.todo = req[q].todo \ {c}, !.cur = c, !.call = "sent",
                               !.found = {}, !.there = FALSE]
  BY DEF Awaits, ReplicaInv, TypeOK
<1>4. /\ req'[q] \in Request /\ req'[q].pc = pc /\ req'[q].todo = req[q].todo \ {c}
      /\ req'[q].cur = c /\ req'[q].call = "sent"
  <2>1. req[q].todo \ {c} \in SUBSET (Target \cup Copy) /\ {} \in SUBSET Profiles
    BY <1>1 DEF Request
  <2>. HIDE DEF Target, Copy
  <2>. QED BY <1>1, <1>2, <1>3, <2>1 DEF Request
<1>5. ReqStep(q)
  BY <1>4 DEF Awaits, ReqStep, ReplicaInv, TypeOK
<1>6. SoundRequest(req[q])'
  BY <1>4 DEF SoundRequest, ToldGone, RowsStep
<1>. QED BY <1>4, <1>5, <1>6, StepSound

-----------------------------------------------------------------------------
(* What the steps do to the rows *)

\* Actions keep what they copy, and none that is settled becomes active.
ActionsKeep ==
    /\ actions' \in [Copy -> ActionRow]
    /\ \A a \in Copy :
         /\ actions'[a].profile = actions[a].profile
         /\ actions'[a].source = actions[a].source
         /\ actions'[a].target = actions[a].target
         /\ actions'[a].status = "none" <=> actions[a].status = "none"
         /\ actions'[a].status \in Active => actions[a].status \in Active

RegionsKept == Known \subseteq Known' /\ \A t \in Known : targets'[t].region = targets[t].region

ActionsSound == ActionsInv' /\ SingleFlight' /\ Claimed \subseteq Claimed'

TargetsSound ==
    /\ targets' \in [Target -> TargetRow]
    /\ TargetsInv' /\ PaidVolumeIsOwned' /\ RegionsKept /\ Bound \subseteq Bound'

LEMMA SameActionsKeep ==
    ASSUME ReplicaInv, UNCHANGED actions
    PROVE  ActionsKeep
  BY DEF ActionsKeep, ReplicaInv, TypeOK

LEMMA LoseActionsKeep ==
    ASSUME ReplicaInv, NEW t, LoseActions(t)
    PROVE  ActionsKeep
<1>1. actions \in [Copy -> ActionRow]
  BY DEF ReplicaInv, TypeOK
<1>2. \A a \in Copy : /\ actions[a] \in ActionRow
                      /\ actions'[a] = actions[a] \/ /\ actions[a].status \in Active
                                                     /\ actions'[a] = [actions[a] EXCEPT !.status = "lost"]
  BY <1>1 DEF LoseActions
<1>3. DOMAIN actions' = Copy /\ actions' = [a \in Copy |-> actions'[a]]
  BY DEF LoseActions
<1>4. \A a \in Copy : actions'[a] \in ActionRow
  BY <1>2 DEF ActionRow
<1>5. actions' \in [Copy -> ActionRow]
  BY <1>3, <1>4
<1>. QED BY <1>2, <1>5 DEF ActionsKeep, ActionRow, Active

LEMMA SettleKeeps ==
    ASSUME ReplicaInv, NEW a \in Copy, NEW s \in {"failed", "completed"}, Settle(a, s)
    PROVE  ActionsKeep
<1>1. actions \in [Copy -> ActionRow]
  BY DEF ReplicaInv, TypeOK
<1>2. CASE actions[a].status = "copying"
  BY <1>1, <1>2 DEF Settle, ActionsKeep, ActionRow, Active
<1>3. CASE actions[a].status # "copying"
  BY <1>3, SameActionsKeep DEF Settle
<1>. QED BY <1>2, <1>3

LEMMA ExpiredKeeps ==
    ASSUME ReplicaInv, NEW a \in Copy, Expired(a)
    PROVE  ActionsKeep
<1>1. actions \in [Copy -> ActionRow]
  BY DEF ReplicaInv, TypeOK
<1>2. CASE actions[a].status = "completed"
  BY <1>1, <1>2 DEF Expired, ActionsKeep, ActionRow, Active
<1>3. CASE actions[a].status # "completed"
  BY <1>3, SameActionsKeep DEF Expired
<1>. QED BY <1>2, <1>3

\* Actions that keep what they copy stay sound while targets keep regions.
LEMMA KeptActionsSound ==
    ASSUME ReplicaInv, ActionsKeep, RegionsKept
    PROVE  ActionsSound
<1>1. Claimed' = Claimed
  BY DEF Claimed, ActionsKeep
<1>2. ActionsInv'
  BY <1>1 DEF ActionsInv, ActionsKeep, RegionsKept, ReplicaInv, Claimed
<1>3. SingleFlight'
  <2> SUFFICES ASSUME NEW a \in Copy, NEW b \in Copy, a # b, actions'[a].status \in Active,
                      actions'[b].status \in Active,
                      SameCopy(a, actions[b].profile, actions[b].source, targets[actions[b].target].region)'
               PROVE  FALSE
    BY DEF SingleFlight
  <2>1. a \in Claimed /\ b \in Claimed /\ actions[a].status \in Active /\ actions[b].status \in Active
    BY DEF ActionsKeep, Active, Claimed
  <2>2. actions[a].target \in Known /\ actions[b].target \in Known
    BY <2>1 DEF ReplicaInv, ActionsInv
  <2>3. SameCopy(a, actions[b].profile, actions[b].source, targets[actions[b].target].region)
    BY <2>2 DEF SameCopy, ActionsKeep, RegionsKept
  <2>. QED BY <2>1, <2>3 DEF ReplicaInv, SingleFlight
<1>. QED BY <1>1, <1>2, <1>3 DEF ActionsSound

\* A copy is claimed only where no other of the recommendation is active.
LEMMA ClaimedCopySound ==
    ASSUME ReplicaInv, RegionsKept, NEW p \in Profiles, NEW s \in 0..MaxTargets, NEW t \in Known,
           NEW c \in FreshCopies, MayClaim(p, s, t),
           actions' = [actions EXCEPT ![c] = [status |-> "copying", profile |-> p, source |-> s,
                                              target |-> t, due |-> FALSE]]
    PROVE  actions' \in [Copy -> ActionRow] /\ ActionsSound /\ c \in Claimed'
<1>0. /\ actions \in [Copy -> ActionRow] /\ c \in Copy /\ actions[c].status = "none" /\ t \in 0..MaxTargets
      /\ Known \subseteq Known'
  BY RowNumbers DEF ReplicaInv, TypeOK, FreshCopies, Known, RegionsKept
<1>1. actions' \in [Copy -> ActionRow]
  <2>1. [status |-> "copying", profile |-> p, source |-> s, target |-> t, due |-> FALSE] \in ActionRow
    BY <1>0 DEF ActionRow, Active
  <2>. QED BY <1>0, <2>1
<1>2. /\ actions'[c].status = "copying" /\ actions'[c].profile = p /\ actions'[c].source = s
      /\ actions'[c].target = t
      /\ \A a \in Copy : a # c => actions'[a] = actions[a]
  BY <1>0
<1>3. Claimed' = Claimed \cup {c}
  BY <1>0, <1>2 DEF Claimed
<1>4. ActionsInv'
  <2> SUFFICES ASSUME NEW a \in Claimed'
               PROVE  actions'[a].target \in Known' /\ actions'[a].profile \in Profiles
    BY DEF ActionsInv
  <2>1. CASE a = c
    BY <1>0, <1>2, <2>1
  <2>2. CASE a # c
    BY <1>0, <1>2, <1>3, <2>2 DEF ReplicaInv, ActionsInv, Claimed
  <2>. QED BY <2>1, <2>2
<1>5. SingleFlight'
  <2> SUFFICES ASSUME NEW a \in Copy, NEW b \in Copy, a # b, actions'[a].status \in Active,
                      actions'[b].status \in Active,
                      actions'[a].profile = actions'[b].profile,
                      actions'[a].source = actions'[b].source,
                      targets'[actions'[a].target].region = targets'[actions'[b].target].region
               PROVE  FALSE
    BY DEF SingleFlight, SameCopy
  <2>1. \A x \in Copy : x # c /\ actions[x].status \in Active
            => /\ actions[x].target \in Known
               /\ targets'[actions[x].target].region = targets[actions[x].target].region
               /\ ~SameCopy(x, p, s, targets[t].region)
    BY DEF ReplicaInv, ActionsInv, Claimed, Active, RegionsKept, MayClaim
  <2>2. targets'[t].region = targets[t].region
    BY DEF RegionsKept
  <2>3. CASE a = c
    BY <1>2, <2>1, <2>2, <2>3 DEF SameCopy
  <2>4. CASE b = c
    BY <1>2, <2>1, <2>2, <2>4 DEF SameCopy
  <2>5. CASE a # c /\ b # c
    BY <1>2, <2>1, <2>5 DEF SameCopy, ReplicaInv, SingleFlight
  <2>. QED BY <2>3, <2>4, <2>5
<1>. QED BY <1>1, <1>3, <1>4, <1>5 DEF ActionsSound

\* Where the targets are left alone, and so is what rests on the volumes.
LEMMA SameTargetsSound ==
    ASSUME ReplicaInv, UNCHANGED targets,
           \A t \in Target : vols'[t] = "none" \/ vols[t] # "none",
           \A t \in Target : listed'[t] # {} => vols'[t] # "none",
           \A t \in Target : storage'[t] = "present" /\ t \in Bound => storage[t] = "present"
    PROVE  TargetsSound
<1>. QED BY DEF TargetsSound, ReplicaInv, TypeOK, TargetsInv, PaidVolumeIsOwned, RegionsKept, Known, Bound, InStatus

\* A target whose volume still costs money leaves the open ones only if the
\* volume was forgotten.
LEMMA SetTargetSound ==
    ASSUME ReplicaInv, NEW t \in Known, NEW s \in {"failed", "deleted", "lost", "ready", "deleting"},
           SetTarget(t, s), s = "ready" => t \in Bound,
           \/ s \in Open \/ t \notin Bound \/ storage[t] # "present" \/ vols[t] = "none",
           \A u \in Target : vols'[u] = "none" <=> vols[u] = "none",
           UNCHANGED <<listed, storage>>
    PROVE  TargetsSound
<1>1. targets \in [Target -> TargetRow] /\ t \in Target
  BY DEF ReplicaInv, TypeOK, Known
<1>2. s \in {"none", "failed", "deleted", "lost"} \cup Open
  BY DEF Open
<1>3. /\ targets' \in [Target -> TargetRow]
      /\ targets'[t].status = s
      /\ \A u \in Target : /\ u # t => targets'[u] = targets[u]
                           /\ targets'[u].region = targets[u].region
                           /\ targets'[u].bound = targets[u].bound
  BY <1>1, <1>2 DEF SetTarget, TargetRow
<1>4. Known' = Known /\ Bound' = Bound
  BY <1>1, <1>3 DEF Known, Bound, Open
<1>5. TargetsInv'
  BY <1>3, <1>4 DEF ReplicaInv, TargetsInv
<1>6. PaidVolumeIsOwned'
  BY <1>3 DEF ReplicaInv, PaidVolumeIsOwned, Bound
<1>7. RegionsKept
  BY <1>3, <1>4 DEF RegionsKept, Known
<1>. QED BY <1>3, <1>4, <1>5, <1>6, <1>7 DEF TargetsSound

\* The parts make a step.
LEMMA PartsMakeStep ==
    ASSUME ReplicaInv, NEW q \in Requests, TargetsSound, ActionsSound,
           actions' \in [Copy -> ActionRow],
           vols' \in [Target -> {"none", "ready", "degraded", "deleting", "failed"}],
           listed' \in [Target -> SUBSET Profiles], UNCHANGED <<storage, stored, crashes, losses>>,
           \A t \in Bound' \ Bound : req[q].pc = "create" /\ req[q].cur = t
    PROVE  RowsStep(q)
<1>1. RowTypes'
  BY DEF RowTypes, ReplicaInv, TypeOK, TargetsSound
<1>. QED BY <1>1 DEF RowsStep, TargetsSound, ActionsSound, RegionsKept

\* A step that leaves the rows alone.
LEMMA NoRowStep ==
    ASSUME ReplicaInv, NEW q \in Requests, NoRow
    PROVE  RowsStep(q)
<1>1. TargetsSound
  BY DEF NoRow, rows, ProviderUnchanged, TargetsSound, ReplicaInv, TypeOK, TargetsInv,
         PaidVolumeIsOwned, RegionsKept, Known, Bound
<1>2. ActionsKeep
  BY SameActionsKeep DEF NoRow, rows
<1>3. ActionsSound
  BY <1>1, <1>2, KeptActionsSound DEF TargetsSound
<1>4. Bound' = Bound
  BY DEF Bound, NoRow, rows
<1>. QED BY <1>1, <1>3, <1>4, PartsMakeStep DEF NoRow, rows, ProviderUnchanged, ReplicaInv, TypeOK

\* A step that moves one target.
LEMMA TargetMoves ==
    ASSUME ReplicaInv, NEW q \in Requests, NEW t \in Known,
           NEW s \in {"failed", "deleted", "lost", "ready", "deleting"},
           SetTarget(t, s), s = "ready" => t \in Bound,
           \/ s \in Open \/ t \notin Bound \/ storage[t] # "present" \/ vols[t] = "none",
           vols' \in [Target -> {"none", "ready", "degraded", "deleting", "failed"}],
           \A u \in Target : vols'[u] = "none" <=> vols[u] = "none",
           ActionsKeep, UNCHANGED listed, ProviderUnchanged
    PROVE  RowsStep(q)
<1>1. TargetsSound
  BY SetTargetSound DEF ProviderUnchanged
<1>2. ActionsSound
  BY <1>1, KeptActionsSound DEF TargetsSound
<1>3. Bound' = Bound
  BY DEF Bound, SetTarget, ReplicaInv, TypeOK, TargetRow
<1>. QED BY <1>1, <1>2, <1>3, PartsMakeStep DEF ActionsKeep, ProviderUnchanged, ReplicaInv, TypeOK

\* A step that changes only what the coordinator knows of the volumes and copies.
LEMMA RowsMove ==
    ASSUME ReplicaInv, NEW q \in Requests, UNCHANGED targets, ActionsKeep,
           vols' \in [Target -> {"none", "ready", "degraded", "deleting", "failed"}],
           listed' \in [Target -> SUBSET Profiles],
           \A t \in Target : vols'[t] = "none" \/ vols[t] # "none",
           \A t \in Target : listed'[t] # {} => vols'[t] # "none",
           ProviderUnchanged
    PROVE  RowsStep(q)
<1>1. TargetsSound
  BY SameTargetsSound DEF ProviderUnchanged
<1>2. ActionsSound
  BY <1>1, KeptActionsSound DEF TargetsSound
<1>3. Bound' = Bound
  BY DEF Bound
<1>. QED BY <1>1, <1>2, <1>3, PartsMakeStep DEF ActionsKeep, ProviderUnchanged

-----------------------------------------------------------------------------
(* The loops of a tick *)

LEMMA ReadyTargets ==
    ASSUME ReplicaInv
    PROVE  InStatus({"ready"}) \subseteq Bound /\ DueActions \subseteq Claimed
  BY DEF ReplicaInv, TargetsInv, InStatus, DueActions, Claimed

LEMMA BeginsSound ==
    ASSUME ReplicaInv, NEW q \in Requests, RowsStep(q), loop' = q,
           NEW kind \in {"tick", "expire", "execute"}, NEW pc \in {"clean", "due", "execute"},
           NEW S \in SUBSET (Target \cup Copy),
           pc = "clean" => S \subseteq Bound, pc = "due" => S \subseteq Claimed,
           req[q].kind = "none",
           req' = [req EXCEPT ![q].kind = kind, ![q].pc = pc, ![q].todo = S]
    PROVE  ReplicaInv'
<1>1. req[q] \in Request
  BY DEF ReplicaInv, TypeOK
<1>2. req'[q] = [req[q] EXCEPT !.kind = kind, !.pc = pc, !.todo = S]
  BY DEF ReplicaInv, TypeOK
<1>3. req'[q] \in Request /\ req'[q].pc = pc /\ req'[q].todo = S
  <2>1. S \in SUBSET (Target \cup Copy)
    OBVIOUS
  <2>2. kind \in {"none", "tick", "expire", "execute"}
    OBVIOUS
  <2>3. pc \in {"clean", "due", "execute"}
    OBVIOUS
  <2>. HIDE DEF Target, Copy
  <2>. QED BY ONLY <1>1, <1>2, <2>1, <2>2, <2>3 DEF Request
<1>4. ReqStep(q)
  BY <1>3 DEF ReqStep, ReplicaInv, TypeOK
<1>5. SoundRequest(req[q])'
  BY <1>3 DEF SoundRequest, ToldGone, RowsStep
<1>. QED BY <1>3, <1>4, <1>5, StepSound

LEMMA BeginKeeps ==
    ASSUME ReplicaInv, NEW q \in Requests, Begin(q)
    PROVE  ReplicaInv'
<1>1. CASE BeginTick(q)
  <2>0. PICK F \in SUBSET {a \in Copy : actions[a].status = "copying"} :
             actions' = [a \in Copy |-> IF a \in F THEN [actions[a] EXCEPT !.status = "failed"]
                                                   ELSE actions[a]]
    BY <1>1 DEF BeginTick
  <2>1. \A a \in Copy : /\ actions[a] \in ActionRow
                        /\ actions'[a] = actions[a] \/ /\ actions[a].status = "copying"
                                                       /\ actions'[a] = [actions[a] EXCEPT !.status = "failed"]
    BY <2>0 DEF ReplicaInv, TypeOK
  <2>2. \A a \in Copy : actions'[a] \in ActionRow
    BY <2>1, ZenonT(60) DEF ActionRow
  <2>3. actions' \in [Copy -> ActionRow]
    BY <2>0, <2>2
  <2>4. ActionsKeep
    BY <2>1, <2>3 DEF ActionsKeep, ActionRow, Active
  <2>5. RowsStep(q)
    BY <1>1, <2>4, RowsMove DEF BeginTick, OnlyActions, ReplicaInv, TypeOK, TargetsInv
  <2>6. {t \in InStatus({"deleting"}) : targets[t].bound} \in SUBSET (Target \cup Copy)
    BY DEF InStatus
  <2>7. {t \in InStatus({"deleting"}) : targets[t].bound} \subseteq Bound
    BY DEF InStatus, Bound
  <2>. QED BY <1>1, <2>5, <2>6, <2>7, BeginsSound DEF BeginTick
<1>2. CASE BeginExpire(q)
  <2>1. DueActions \in SUBSET (Target \cup Copy)
    BY DEF DueActions
  <2>. QED BY <1>2, <2>1, NoRowStep, ReadyTargets, BeginsSound DEF BeginExpire
<1>3. CASE BeginExecute(q)
  <2>1. req' = [req EXCEPT ![q].kind = "execute", ![q].pc = "execute", ![q].todo = req[q].todo]
    BY <1>3 DEF BeginExecute, ReplicaInv, TypeOK, Request
  <2>2. req[q].todo \in SUBSET (Target \cup Copy)
    BY DEF ReplicaInv, TypeOK, Request
  <2>. QED BY <1>3, <2>1, <2>2, NoRowStep, BeginsSound DEF BeginExecute
<1>. QED BY <1>1, <1>2, <1>3 DEF Begin

\* What a request knows of the rows, by where it stands.
LEMMA Knows ==
    ASSUME ReplicaInv, NEW q \in Requests
    PROVE  /\ req[q].todo \in SUBSET (Target \cup Copy)
           /\ Bound \subseteq Target /\ Bound \subseteq Known /\ Known \subseteq Target /\ Claimed \subseteq Copy
           /\ req[q].pc \in {"clean", "get", "delete", "check", "inspect", "empty", "remove"} => req[q].todo \subseteq Bound
           /\ req[q].pc \in {"get", "delete", "inspect", "remove", "undo"} => req[q].cur \in Bound
           /\ req[q].pc \in {"due", "unpublish"} => req[q].todo \subseteq Claimed
           /\ req[q].pc \in {"unpublish", "copy", "index"} => req[q].cur \in Claimed
<1>1. SoundRequest(req[q]) /\ req[q] \in Request /\ TargetsInv
  BY DEF ReplicaInv, TypeOK
<1>. QED BY <1>1 DEF SoundRequest, Request, Known, Bound, Claimed, TargetsInv

LEMMA CleanKeeps ==
    ASSUME ReplicaInv, NEW q \in Requests, CleanNext(q)
    PROVE  ReplicaInv'
<1>0. req[q].pc = "clean" /\ RowsStep(q)
  BY NoRowStep DEF CleanNext, Runs
<1>1. CASE \E t \in Target : IsNewest(t, req[q].todo) /\ Awaits(q, "get", t)
  BY <1>0, <1>1, Knows, AwaitsSound DEF IsNewest
<1>2. CASE Goes(q, "check", InStatus({"ready"}))
  <2>1. InStatus({"ready"}) \subseteq Bound' /\ InStatus({"ready"}) \in SUBSET (Target \cup Copy)
    BY <1>0, ReadyTargets DEF RowsStep, InStatus
  <2>. QED BY <1>0, <1>2, <2>1, GoesSound
<1>. QED BY <1>1, <1>2 DEF CleanNext

\* The loop goes on with targets that have their volumes.
LEMMA GoesOn ==
    ASSUME ReplicaInv, NEW q \in Requests, RowsStep(q), NEW pc \in {"clean", "check", "due", "empty"},
           NEW S \in SUBSET req[q].todo,
           \/ /\ pc \in {"clean", "check", "empty"}
              /\ req[q].pc \in {"clean", "get", "delete", "check", "inspect", "empty", "remove"}
           \/ pc = "due" /\ req[q].pc \in {"due", "unpublish"},
           Goes(q, pc, S)
    PROVE  ReplicaInv'
<1>1. S \in SUBSET (Target \cup Copy)
  BY Knows
<1>2. pc \in {"clean", "check", "empty"} => S \subseteq Bound'
  BY Knows DEF RowsStep
<1>3. pc = "due" => S \subseteq Claimed'
  BY Knows DEF RowsStep
<1>. QED BY <1>1, <1>2, <1>3, GoesSound

\* A target whose volume is gone is removed with its cache volume.
LEMMA RemovedMoves ==
    ASSUME ReplicaInv, NEW q \in Requests, NEW t \in Bound, storage[t] # "present", Removed(t), OnlyTargets
    PROVE  RowsStep(q)
<1>1. t \in Known /\ t \in Target /\ vols \in [Target -> {"none", "ready", "degraded", "deleting", "failed"}]
  BY Knows DEF ReplicaInv, TypeOK
<1>2. /\ vols' \in [Target -> {"none", "ready", "degraded", "deleting", "failed"}]
      /\ \A u \in Target : vols'[u] = "none" <=> vols[u] = "none"
  BY <1>1 DEF Removed
<1>. QED BY <1>1, <1>2, TargetMoves, SameActionsKeep DEF Removed, OnlyTargets

LEMMA GetKeeps ==
    ASSUME ReplicaInv, NEW q \in Requests, GetReply(q)
    PROVE  ReplicaInv'
<1>0. req[q].pc = "get" /\ req[q].cur \in Bound /\ req[q].cur \in Target
  BY Knows DEF GetReply, Answered, Errs
<1>1. CASE Answered(q, "get") /\ req[q].there /\ Awaits(q, "delete", req[q].cur) /\ NoRow
  BY <1>0, <1>1, NoRowStep, Knows, AwaitsSound
<1>2. CASE /\ Answered(q, "get") /\ ~req[q].there /\ Removed(req[q].cur)
           /\ Goes(q, "clean", req[q].todo) /\ OnlyTargets
  <2>1. storage[req[q].cur] # "present"
    BY <1>0, <1>2 DEF Answered, ReplicaInv, SoundRequest, ToldGone
  <2>. QED BY <1>0, <1>2, <2>1, RemovedMoves, GoesOn
<1>3. CASE Errs(q, "get") /\ Goes(q, "clean", req[q].todo) /\ NoRow
  BY <1>0, <1>3, NoRowStep, GoesOn
<1>. QED BY <1>1, <1>2, <1>3 DEF GetReply

LEMMA DeleteKeeps ==
    ASSUME ReplicaInv, NEW q \in Requests, DeleteReply(q)
    PROVE  ReplicaInv'
<1>0. req[q].pc = "delete" /\ req[q].cur \in Bound
  BY Knows DEF DeleteReply, Answered, Errs
<1>1. CASE Answered(q, "delete") /\ Removed(req[q].cur) /\ Goes(q, "clean", req[q].todo) /\ OnlyTargets
  <2>1. storage[req[q].cur] # "present"
    BY <1>0, <1>1 DEF Answered, ReplicaInv, SoundRequest, ToldGone
  <2>. QED BY <1>0, <1>1, <2>1, RemovedMoves, GoesOn
<1>2. CASE Errs(q, "delete") /\ Goes(q, "clean", req[q].todo) /\ NoRow
  BY <1>0, <1>2, NoRowStep, GoesOn
<1>. QED BY <1>1, <1>2 DEF DeleteReply

LEMMA CheckKeeps ==
    ASSUME ReplicaInv, NEW q \in Requests, CheckNext(q)
    PROVE  ReplicaInv'
<1>0. req[q].pc = "check"
  BY DEF CheckNext, Runs
<1>1. ASSUME NEW t \in Target, IsNewest(t, req[q].todo), vols[t] = "none", SetTarget(t, "lost"),
             LoseActions(t), Goes(q, "check", req[q].todo \ {t}), UNCHANGED <<vols, listed>>, ProviderUnchanged
      PROVE  ReplicaInv'
  <2>1. t \in Known
    BY <1>0, <1>1, Knows DEF IsNewest
  <2>2. RowsStep(q)
    BY <1>1, <2>1, LoseActionsKeep, TargetMoves DEF ReplicaInv, TypeOK
  <2>. QED BY <1>0, <1>1, <2>2, GoesOn
<1>2. CASE NoRow /\ \E t \in Target : IsNewest(t, req[q].todo) /\ vols[t] # "none" /\ Awaits(q, "inspect", t)
  BY <1>0, <1>2, NoRowStep, Knows, AwaitsSound DEF IsNewest
<1>3. CASE Goes(q, "due", DueActions) /\ NoRow
  <2>1. RowsStep(q)
    BY <1>3, NoRowStep
  <2>2. DueActions \in SUBSET (Target \cup Copy) /\ DueActions \subseteq Claimed'
    BY <2>1, ReadyTargets DEF DueActions, RowsStep
  <2>. QED BY <1>3, <2>1, <2>2, GoesSound
<1>. QED BY <1>1, <1>2, <1>3 DEF CheckNext

LEMMA InspectKeeps ==
    ASSUME ReplicaInv, NEW q \in Requests, InspectReply(q)
    PROVE  ReplicaInv'
<1> DEFINE t == req[q].cur
<1>0. req[q].pc = "inspect" /\ t \in Bound /\ t \in Known /\ t \in Target
  BY Knows DEF InspectReply, Answered, Errs
<1>1. CASE NoRow /\ Goes(q, "check", req[q].todo)
  BY <1>0, <1>1, NoRowStep, GoesOn
<1>2. CASE /\ Answered(q, "inspect") /\ ~req[q].there /\ SetTarget(t, "lost")
           /\ IF vols[t] = "none"
              THEN Ends(q) /\ UNCHANGED <<vols, actions>>
              ELSE /\ vols' = [vols EXCEPT ![t] = "failed"]
                   /\ LoseActions(t)
                   /\ Goes(q, "check", req[q].todo)
           /\ UNCHANGED listed /\ ProviderUnchanged
  <2>1. storage[t] # "present"
    BY <1>0, <1>2 DEF Answered, ReplicaInv, SoundRequest, ToldGone
  <2>2. CASE vols[t] = "none"
    <3>1. RowsStep(q)
      BY <1>0, <1>2, <2>1, <2>2, SameActionsKeep, TargetMoves DEF ReplicaInv, TypeOK
    <3>. QED BY <1>2, <2>2, <3>1, EndsSound
  <2>3. CASE vols[t] # "none"
    <3>1. /\ vols' \in [Target -> {"none", "ready", "degraded", "deleting", "failed"}]
          /\ \A u \in Target : vols'[u] = "none" <=> vols[u] = "none"
      BY <1>0, <1>2, <2>3 DEF ReplicaInv, TypeOK
    <3>2. RowsStep(q)
      BY <1>0, <1>2, <2>1, <2>3, <3>1, LoseActionsKeep, TargetMoves
    <3>. QED BY <1>0, <1>2, <2>3, <3>2, GoesOn
  <2>. QED BY <2>2, <2>3
<1>. QED BY <1>1, <1>2 DEF InspectReply

-----------------------------------------------------------------------------
(* The expiry of copies and the deletion of empty targets *)

LEMMA ExpireKeeps ==
    ASSUME ReplicaInv, NEW q \in Requests, ExpireNext(q)
    PROVE  ReplicaInv'
<1>0. req[q].pc = "due" /\ RowsStep(q)
  BY NoRowStep DEF ExpireNext, Runs
<1>1. ASSUME NEW a \in Copy, IsNewest(a, req[q].todo), Awaits(q, "unpublish", a)
      PROVE  ReplicaInv'
  BY <1>0, <1>1, Knows, AwaitsSound DEF IsNewest
<1>2. ASSUME NEW a \in Copy, Goes(q, "due", req[q].todo \ {a})
      PROVE  ReplicaInv'
  BY <1>0, <1>2, GoesOn
<1>3. ASSUME req' = [req EXCEPT ![q].pc = "empty", ![q].seen = ActiveTargets, ![q].todo = InStatus({"ready"})],
             loop' = q
      PROVE  ReplicaInv'
  <2>1. InStatus({"ready"}) \in SUBSET (Target \cup Copy) /\ InStatus({"ready"}) \subseteq Bound'
    BY <1>0, ReadyTargets DEF InStatus, RowsStep
  <2>2. ActiveTargets \in SUBSET Target
    BY DEF ActiveTargets, ReplicaInv, ActionsInv, Claimed, Known, Active
  <2>3. req[q] \in Request
    BY DEF ReplicaInv, TypeOK
  <2>4. req'[q] = [req[q] EXCEPT !.pc = "empty", !.seen = ActiveTargets, !.todo = InStatus({"ready"})]
    BY <1>3 DEF ReplicaInv, TypeOK
  <2>5. req'[q] \in Request /\ req'[q].pc = "empty" /\ req'[q].todo = InStatus({"ready"})
    BY <2>1, <2>2, <2>3, <2>4 DEF Request
  <2>6. ReqStep(q)
    BY <1>3, <2>5 DEF ReqStep, ReplicaInv, TypeOK
  <2>7. SoundRequest(req[q])'
    BY <2>1, <2>5 DEF SoundRequest, ToldGone
  <2>. QED BY <1>0, <2>5, <2>6, <2>7, StepSound
<1>. QED BY <1>1, <1>2, <1>3 DEF ExpireNext

LEMMA UnpublishKeeps ==
    ASSUME ReplicaInv, NEW q \in Requests, UnpublishReply(q)
    PROVE  ReplicaInv'
<1> DEFINE a == req[q].cur
           t == actions[a].target
           p == actions[a].profile
<1>0. req[q].pc = "unpublish" /\ a \in Claimed /\ a \in Copy
  BY Knows DEF UnpublishReply, Answered, Errs
<1>1. CASE /\ Unlisted(t, p) /\ Expired(a) /\ Goes(q, "due", req[q].todo)
           /\ UNCHANGED targets /\ ProviderUnchanged
  <2>1. ActionsKeep
    BY <1>0, <1>1, ExpiredKeeps
  <2>2. /\ listed \in [Target -> SUBSET Profiles] /\ t \in Target
        /\ vols \in [Target -> {"none", "ready", "degraded", "deleting", "failed"}]
        /\ \A u \in Target : listed[u] # {} => vols[u] # "none"
    BY <1>0, Knows DEF ReplicaInv, TypeOK, TargetsInv, ActionsInv
  <2>3. listed' \in [Target -> SUBSET Profiles] /\ \A u \in Target : listed'[u] \subseteq listed[u]
    BY <1>1, <2>2 DEF Unlisted
  <2>4. /\ vols' \in [Target -> {"none", "ready", "degraded", "deleting", "failed"}]
        /\ \A u \in Target : vols'[u] = "none" <=> vols[u] = "none"
    BY <1>1, <2>2 DEF Unlisted
  <2>5. RowsStep(q)
    BY <1>1, <2>1, <2>2, <2>3, <2>4, RowsMove
  <2>. QED BY <1>0, <1>1, <2>5, GoesOn
<1>2. CASE Goes(q, "due", req[q].todo) /\ NoRow
  BY <1>0, <1>2, NoRowStep, GoesOn
<1>. QED BY <1>1, <1>2 DEF UnpublishReply

LEMMA EmptyKeeps ==
    ASSUME ReplicaInv, NEW q \in Requests, EmptyNext(q)
    PROVE  ReplicaInv'
<1>0. req[q].pc = "empty"
  BY DEF EmptyNext, Runs
<1>1. ASSUME NEW t \in Target, Goes(q, "empty", req[q].todo \ {t}), NoRow
      PROVE  ReplicaInv'
  BY <1>0, <1>1, NoRowStep, GoesOn
<1>2. ASSUME NEW t \in Target, IsNewest(t, req[q].todo), IsEmpty(q, t), SetTarget(t, "deleting"),
             vols' = [vols EXCEPT ![t] = "deleting"], Awaits(q, "remove", t), OnlyTargets
      PROVE  ReplicaInv'
  <2>1. t \in Bound /\ t \in Known /\ req[q].todo \subseteq Bound
    BY <1>0, <1>2, Knows DEF IsNewest
  <2>2. /\ vols' \in [Target -> {"none", "ready", "degraded", "deleting", "failed"}]
        /\ \A u \in Target : vols'[u] = "none" <=> vols[u] = "none"
    BY <1>2 DEF IsEmpty, ReplicaInv, TypeOK
  <2>3. RowsStep(q)
    BY <1>2, <2>1, <2>2, SameActionsKeep, TargetMoves DEF OnlyTargets, Open
  <2>. QED BY <1>2, <2>1, <2>3, AwaitsSound
<1>3. CASE Ends(q) /\ NoRow
  BY <1>3, NoRowStep, EndsSound
<1>4. CASE AfterEmpty(q) /\ NoRow
  <2>1. RowsStep(q)
    BY <1>4, NoRowStep
  <2>2. CASE Goes(q, "execute", {})
    BY <2>1, <2>2, GoesSound
  <2>. QED BY <1>4, <2>1, <2>2, EndsSound DEF AfterEmpty
<1>. QED BY <1>1, <1>2, <1>3, <1>4 DEF EmptyNext

LEMMA RemoveKeeps ==
    ASSUME ReplicaInv, NEW q \in Requests, RemoveReply(q)
    PROVE  ReplicaInv'
<1> DEFINE t == req[q].cur
<1>0. req[q].pc = "remove" /\ t \in Bound /\ t \in Known /\ t \in Target
  BY Knows DEF RemoveReply, Answered, Errs
<1>1. CASE Ends(q) /\ NoRow
  BY <1>1, NoRowStep, EndsSound
<1>2. ASSUME vols[t] # "none", NEW s \in {"ready", "failed"}, vols' = [vols EXCEPT ![t] = s]
      PROVE  /\ vols' \in [Target -> {"none", "ready", "degraded", "deleting", "failed"}]
             /\ \A u \in Target : vols'[u] = "none" <=> vols[u] = "none"
  BY <1>0, <1>2 DEF ReplicaInv, TypeOK
<1>3. CASE /\ Answered(q, "remove") /\ vols[t] # "none" /\ vols' = [vols EXCEPT ![t] = "failed"]
           /\ SetTarget(t, "deleted") /\ Goes(q, "empty", req[q].todo) /\ OnlyTargets
  <2>1. storage[t] # "present"
    BY <1>0, <1>3 DEF Answered, ReplicaInv, SoundRequest, ToldGone
  <2>2. RowsStep(q)
    BY <1>0, <1>2, <1>3, <2>1, SameActionsKeep, TargetMoves DEF OnlyTargets
  <2>. QED BY <1>0, <1>3, <2>2, GoesOn
<1>4. CASE /\ vols[t] # "none" /\ vols' = [vols EXCEPT ![t] = "ready"]
           /\ SetTarget(t, "ready") /\ Goes(q, "empty", req[q].todo) /\ OnlyTargets
  <2>1. RowsStep(q)
    BY <1>0, <1>2, <1>4, SameActionsKeep, TargetMoves DEF OnlyTargets, Open
  <2>. QED BY <1>0, <1>4, <2>1, GoesOn
<1>5. CASE /\ vols[t] # "none" /\ vols' = [vols EXCEPT ![t] = "ready"]
           /\ UNCHANGED targets /\ Ends(q) /\ OnlyTargets
  <2>1. RowsStep(q)
    BY <1>0, <1>2, <1>5, SameActionsKeep, RowsMove DEF OnlyTargets, ReplicaInv, TypeOK, TargetsInv
  <2>. QED BY <1>5, <2>1, EndsSound
<1>. QED BY <1>1, <1>3, <1>4, <1>5 DEF RemoveReply

-----------------------------------------------------------------------------
(* The execution of a recommendation *)

LEMMA SourceNumbers ==
    ASSUME NEW p \in Profiles, NEW r, NEW s \in Sources(p, r)
    PROVE  s \in 0..MaxTargets
  BY RowNumbers, ReplicaNumbers DEF Sources

\* A recommended copy to a target that was claimed is claimed, or the request ends.
LEMMA ClaimCopyKeeps ==
    ASSUME ReplicaInv, NEW q \in Requests, NEW p \in Profiles, NEW s \in 0..MaxTargets, NEW t \in Known,
           ClaimCopy(q, p, s, t), TargetsSound,
           \A u \in Bound' \ Bound : req[q].pc = "create" /\ req[q].cur = u,
           vols' \in [Target -> {"none", "ready", "degraded", "deleting", "failed"}],
           UNCHANGED listed, ProviderUnchanged
    PROVE  ReplicaInv'
<1>0. listed' \in [Target -> SUBSET Profiles] /\ RegionsKept
  BY DEF ReplicaInv, TypeOK, TargetsSound
<1>1. CASE MayClaim(p, s, t)
  <2>1. PICK c \in Copy : /\ IsOldest(c, FreshCopies)
                          /\ actions' = [actions EXCEPT ![c] = [status |-> "copying", profile |-> p, source |-> s,
                                                               target |-> t, due |-> FALSE]]
                          /\ Awaits(q, "copy", c)
    BY <1>1 DEF ClaimCopy
  <2>2. c \in FreshCopies
    BY <2>1 DEF IsOldest
  <2>3. actions' \in [Copy -> ActionRow] /\ ActionsSound /\ c \in Claimed'
    BY <1>0, <1>1, <2>1, <2>2, ClaimedCopySound
  <2>4. RowsStep(q)
    BY <1>0, <2>3, PartsMakeStep DEF ProviderUnchanged
  <2>. QED BY <2>1, <2>3, <2>4, AwaitsSound
<1>2. CASE ~MayClaim(p, s, t)
  <2>1. Ends(q) /\ UNCHANGED actions
    BY <1>2 DEF ClaimCopy
  <2>2. ActionsKeep
    BY <2>1, SameActionsKeep
  <2>3. ActionsSound
    BY <1>0, <2>2, KeptActionsSound
  <2>4. RowsStep(q)
    BY <1>0, <2>2, <2>3, PartsMakeStep DEF ProviderUnchanged, ActionsKeep
  <2>. QED BY <2>1, <2>4, EndsSound
<1>. QED BY <1>1, <1>2

LEMMA ClaimTargetKeeps ==
    ASSUME ReplicaInv, NEW q \in Requests, NEW p \in Profiles, NEW r \in Regions, NEW s \in 0..MaxTargets,
           ClaimTarget(q, p, s, r), UNCHANGED <<vols, listed, actions>>, ProviderUnchanged
    PROVE  ReplicaInv'
<1>0. /\ targets \in [Target -> TargetRow] /\ ActionsKeep /\ req[q] \in Request
      /\ vols' \in [Target -> {"none", "ready", "degraded", "deleting", "failed"}]
      /\ listed' \in [Target -> SUBSET Profiles]
  BY SameActionsKeep DEF ReplicaInv, TypeOK
<1>1. ASSUME NEW t \in Target, IsOldest(t, FreshTargets),
             targets' = [targets EXCEPT ![t] = [NoTarget EXCEPT !.status = "creating", !.region = r]],
             req' = [req EXCEPT ![q].pc = "create", ![q].profile = p, ![q].source = s,
                                ![q].cur = t, ![q].call = "sent"],
             loop' = Free
      PROVE  ReplicaInv'
  <2>1. targets[t].status = "none" /\ t \notin Known /\ t \notin Bound /\ vols[t] = "none"
    BY <1>1 DEF IsOldest, FreshTargets, Known, ReplicaInv, TargetsInv
  <2> DEFINE row == [NoTarget EXCEPT !.status = "creating", !.region = r]
  <2>2. row \in TargetRow /\ row.status = "creating" /\ ~row.bound
    BY DEF NoTarget, TargetRow, Open
  <2>0. targets' = [targets EXCEPT ![t] = row]
    BY <1>1
  <2> HIDE DEF row
  <2>3. targets' \in [Target -> TargetRow]
    BY <1>0, <2>2, <2>0
  <2>4. /\ targets'[t].status = "creating" /\ ~targets'[t].bound
        /\ \A u \in Target : u # t => targets'[u] = targets[u]
    BY <1>0, <2>2, <2>0
  <2>5. Known' = Known \cup {t} /\ Bound' = Bound
    BY <2>1, <2>4 DEF Known, Bound
  <2>6. TargetsInv'
    BY <2>1, <2>4, <2>5 DEF ReplicaInv, TargetsInv
  <2>7. PaidVolumeIsOwned'
    BY <2>4 DEF ReplicaInv, PaidVolumeIsOwned, ProviderUnchanged
  <2>8. RegionsKept
    BY <2>1, <2>4, <2>5 DEF RegionsKept, Known
  <2>9. TargetsSound
    BY <2>3, <2>5, <2>6, <2>7, <2>8 DEF TargetsSound
  <2>10. ActionsSound
    BY <1>0, <2>8, KeptActionsSound
  <2>11. RowsStep(q)
    BY <1>0, <2>5, <2>9, <2>10, PartsMakeStep DEF ProviderUnchanged, ActionsKeep
  <2>12. req'[q] = [req[q] EXCEPT !.pc = "create", !.profile = p, !.source = s, !.cur = t, !.call = "sent"]
    BY <1>1 DEF ReplicaInv, TypeOK
  <2>13. t \in 0..(MaxTargets + MaxCopies)
    BY RowNumbers
  <2>14. /\ req'[q] \in Request /\ req'[q].pc = "create" /\ req'[q].profile = p /\ req'[q].cur = t
         /\ req'[q].call = "sent"
    <3>. HIDE DEF Target, Copy
    <3>. QED BY <1>0, <2>12, <2>13 DEF Request
  <2>15. ReqStep(q)
    BY <1>1, <2>14 DEF ReqStep, ReplicaInv, TypeOK
  <2>16. t \in Known' \ Bound'
    BY <2>1, <2>5
  <2>17. SoundRequest(req[q])'
    BY <2>14, <2>16 DEF SoundRequest, ToldGone
  <2>. QED BY <2>1, <2>11, <2>14, <2>15, <2>17, StepSound
<1>2. ASSUME targets' = [t \in Target |->
                           IF t \in InRegion(r) /\ targets[t].status = "ready" /\ vols[t] = "none"
                           THEN [targets[t] EXCEPT !.status = "lost"] ELSE targets[t]],
             Ends(q)
      PROVE  ReplicaInv'
  <2>1. \A t \in Target : /\ targets[t] \in TargetRow
                          /\ \/ targets'[t] = targets[t]
                             \/ /\ targets[t].status = "ready" /\ vols[t] = "none"
                                /\ targets'[t] = [targets[t] EXCEPT !.status = "lost"]
    BY <1>0, <1>2
  <2>2. \A t \in Target : /\ targets'[t] \in TargetRow
                          /\ targets'[t].region = targets[t].region /\ targets'[t].bound = targets[t].bound
                          /\ targets'[t].status # targets[t].status =>
                                targets[t].status = "ready" /\ vols[t] = "none" /\ targets'[t].status = "lost"
    BY <2>1 DEF TargetRow
  <2>3. targets' \in [Target -> TargetRow]
    BY <1>2, <2>2
  <2>4. Known' = Known /\ Bound' = Bound
    BY <2>2 DEF Known, Bound
  <2>5. TargetsInv'
    BY <2>2, <2>4 DEF ReplicaInv, TargetsInv
  <2>6. PaidVolumeIsOwned'
    BY <2>2 DEF ReplicaInv, PaidVolumeIsOwned, ProviderUnchanged
  <2>7. RegionsKept
    BY <2>2, <2>4 DEF RegionsKept, Known
  <2>8. TargetsSound
    BY <2>3, <2>4, <2>5, <2>6, <2>7 DEF TargetsSound
  <2>9. ActionsSound
    BY <1>0, <2>7, KeptActionsSound
  <2>10. RowsStep(q)
    BY <1>0, <2>4, <2>8, <2>9, PartsMakeStep DEF ProviderUnchanged, ActionsKeep
  <2>. QED BY <1>2, <2>10, EndsSound
<1>. QED BY <1>1, <1>2 DEF ClaimTarget

LEMMA ExecuteKeeps ==
    ASSUME ReplicaInv, NEW q \in Requests, Execute(q)
    PROVE  ReplicaInv'
<1>1. ASSUME NEW p \in Profiles, NEW r \in Regions, NEW s \in Sources(p, r), NEW t \in TargetVolumes(r),
             ClaimCopy(q, p, s, t), UNCHANGED targets, UNCHANGED <<vols, listed>>, ProviderUnchanged
      PROVE  ReplicaInv'
  <2>1. t \in Known /\ s \in 0..MaxTargets
    BY SourceNumbers DEF TargetVolumes, ReplicaInv, TargetsInv
  <2>2. TargetsSound
    BY <1>1, SameTargetsSound DEF ReplicaInv, TargetsInv, ProviderUnchanged
  <2>3. Bound' = Bound /\ vols' \in [Target -> {"none", "ready", "degraded", "deleting", "failed"}]
    BY <1>1 DEF Bound, ReplicaInv, TypeOK
  <2>. QED BY <1>1, <2>1, <2>2, <2>3, ClaimCopyKeeps
<1>2. ASSUME NEW p \in Profiles, NEW r \in Regions, NEW s \in Sources(p, r),
             ClaimTarget(q, p, s, r), UNCHANGED actions, UNCHANGED <<vols, listed>>, ProviderUnchanged
      PROVE  ReplicaInv'
  BY <1>2, SourceNumbers, ClaimTargetKeeps
<1>3. CASE Ends(q) /\ NoRow
  BY <1>3, NoRowStep, EndsSound
<1>. QED BY <1>1, <1>2, <1>3 DEF Execute

\* The id of the volume that was created is stored.
LEMMA VolumeBound ==
    ASSUME ReplicaInv, NEW q \in Requests, req[q].pc = "create",
           NEW status \in {"ready", "creating"}, NEW registered \in BOOLEAN,
           NEW t \in {req[q].cur},
           targets' = [targets EXCEPT ![t].status = status, ![t].bound = TRUE, ![t].registered = registered],
           \A u \in Target : vols[u] # "none" => vols'[u] # "none",
           \A u \in Target : u # t /\ vols[u] = "none" => vols'[u] = "none",
           UNCHANGED <<listed, storage>>
    PROVE  TargetsSound /\ t \in Known /\ Bound' = Bound \cup {t} /\ RegionsKept
<1>1. t \in Known /\ t \in Target /\ targets \in [Target -> TargetRow] /\ targets[t] \in TargetRow
  BY DEF ReplicaInv, SoundRequest, Known, TypeOK
<1>2. targets'[t] = [targets[t] EXCEPT !.status = status, !.bound = TRUE, !.registered = registered]
  BY <1>1
<1>3. /\ targets'[t] \in TargetRow /\ targets'[t].status = status /\ targets'[t].bound
      /\ targets'[t].region = targets[t].region
  BY <1>1, <1>2 DEF TargetRow, Open
<1>4. \A u \in Target : u # t => targets'[u] = targets[u]
  BY <1>1
<1>5. targets' \in [Target -> TargetRow]
  BY <1>1, <1>3
<1>6. Known' = Known /\ Bound' = Bound \cup {t}
  BY <1>1, <1>3, <1>4 DEF Known, Bound
<1>7. TargetsInv'
  BY <1>1, <1>3, <1>4, <1>6 DEF ReplicaInv, TargetsInv
<1>8. PaidVolumeIsOwned'
  BY <1>3, <1>4 DEF ReplicaInv, PaidVolumeIsOwned, Open
<1>9. RegionsKept
  BY <1>3, <1>4, <1>6 DEF RegionsKept, Known
<1>. QED BY <1>1, <1>5, <1>6, <1>7, <1>8, <1>9 DEF TargetsSound

LEMMA CreateKeeps ==
    ASSUME ReplicaInv, NEW q \in Requests, CreateReply(q)
    PROVE  ReplicaInv'
<1> DEFINE t == req[q].cur
<1>0. /\ req[q].pc = "create" /\ t \in Known \ Bound /\ t \in Target /\ req[q].profile \in Profiles
      /\ req[q].source \in 0..MaxTargets
  BY DEF CreateReply, Answered, Errs, ReplicaInv, SoundRequest, Known, TypeOK, Request
<1>1. CASE /\ targets' = [targets EXCEPT ![t].status = "ready", ![t].bound = TRUE, ![t].registered = TRUE]
           /\ vols' = [vols EXCEPT ![t] = "ready"]
           /\ \/ ClaimCopy(q, req[q].profile, req[q].source, t)
              \/ Ends(q) /\ UNCHANGED actions
           /\ UNCHANGED listed /\ ProviderUnchanged
  <2>1. /\ vols' \in [Target -> {"none", "ready", "degraded", "deleting", "failed"}]
        /\ \A u \in Target : vols[u] # "none" => vols'[u] # "none"
        /\ \A u \in Target : u # t /\ vols[u] = "none" => vols'[u] = "none"
    BY <1>0, <1>1 DEF ReplicaInv, TypeOK
  <2>2. TargetsSound /\ Bound' = Bound \cup {t} /\ RegionsKept
    <3>1. UNCHANGED <<listed, storage>>
      BY <1>1 DEF ProviderUnchanged
    <3>2. targets' = [targets EXCEPT ![t].status = "ready", ![t].bound = TRUE, ![t].registered = TRUE]
      BY <1>1
    <3>3. "ready" \in {"ready", "creating"} /\ TRUE \in BOOLEAN /\ req[q].pc = "create"
      BY <1>0
    <3>4. /\ \A u \in Target : vols[u] # "none" => vols'[u] # "none"
          /\ \A u \in Target : u # t /\ vols[u] = "none" => vols'[u] = "none"
      BY <2>1
    <3>. QED BY <3>1, <3>2, <3>3, <3>4, VolumeBound
  <2>3. \A u \in Bound' \ Bound : req[q].pc = "create" /\ req[q].cur = u
    BY <1>0, <2>2
  <2>4. CASE ClaimCopy(q, req[q].profile, req[q].source, t)
    BY <1>0, <1>1, <2>1, <2>2, <2>3, <2>4, ClaimCopyKeeps
  <2>5. CASE Ends(q) /\ UNCHANGED actions
    <3>1. ActionsKeep
      BY <2>5, SameActionsKeep
    <3>2. ActionsSound
      BY <2>2, <3>1, KeptActionsSound
    <3>3. RowsStep(q)
      BY <1>1, <2>1, <2>2, <2>3, <3>1, <3>2, PartsMakeStep
         DEF ProviderUnchanged, ActionsKeep, ReplicaInv, TypeOK
    <3>. QED BY <2>5, <3>3, EndsSound
  <2>. QED BY <1>1, <2>4, <2>5
<1>2. CASE /\ targets' = [targets EXCEPT ![t].status = "creating", ![t].bound = TRUE, ![t].registered = FALSE]
           /\ Awaits(q, "undo", t)
           /\ UNCHANGED vols /\ OnlyTargets
  <2>1. TargetsSound /\ Bound' = Bound \cup {t} /\ RegionsKept
    BY <1>0, <1>2, VolumeBound DEF OnlyTargets, ProviderUnchanged
  <2>2. ActionsKeep
    BY <1>2, SameActionsKeep DEF OnlyTargets
  <2>3. ActionsSound
    BY <2>1, <2>2, KeptActionsSound
  <2>4. RowsStep(q)
    BY <1>0, <1>2, <2>1, <2>2, <2>3, PartsMakeStep
       DEF OnlyTargets, ProviderUnchanged, ActionsKeep, ReplicaInv, TypeOK
  <2>. QED BY <1>0, <1>2, <2>1, <2>4, AwaitsSound
<1>3. CASE SetTarget(t, "failed") /\ Ends(q) /\ UNCHANGED vols /\ OnlyTargets
  <2>1. RowsStep(q)
    BY <1>0, <1>3, SameActionsKeep, TargetMoves DEF OnlyTargets, ReplicaInv, TypeOK
  <2>. QED BY <1>3, <2>1, EndsSound
<1>. QED BY <1>1, <1>2, <1>3 DEF CreateReply

LEMMA UndoKeeps ==
    ASSUME ReplicaInv, NEW q \in Requests, UndoReply(q)
    PROVE  ReplicaInv'
<1> DEFINE t == req[q].cur
<1>0. req[q].pc = "undo" /\ t \in Bound /\ t \in Known /\ t \in Target
  BY Knows DEF UndoReply, Answered, Errs
<1>1. CASE Answered(q, "undo") /\ SetTarget(t, "deleted") /\ Ends(q) /\ UNCHANGED vols /\ OnlyTargets
  <2>1. storage[t] # "present"
    BY <1>0, <1>1 DEF Answered, ReplicaInv, SoundRequest, ToldGone
  <2>2. RowsStep(q)
    BY <1>0, <1>1, <2>1, SameActionsKeep, TargetMoves DEF OnlyTargets, ReplicaInv, TypeOK
  <2>. QED BY <1>1, <2>2, EndsSound
<1>2. CASE SetTarget(t, "deleting") /\ Ends(q) /\ UNCHANGED vols /\ OnlyTargets
  <2>1. RowsStep(q)
    BY <1>0, <1>2, SameActionsKeep, TargetMoves DEF OnlyTargets, Open, ReplicaInv, TypeOK
  <2>. QED BY <1>2, <2>1, EndsSound
<1>. QED BY <1>1, <1>2 DEF UndoReply

\* Whatever becomes of a copy, the request ends.
LEMMA SettleEnds ==
    ASSUME ReplicaInv, NEW q \in Requests, req[q].cur \in Copy, NEW s \in {"failed", "completed"},
           Settle(req[q].cur, s), Ends(q), UNCHANGED targets,
           vols' \in [Target -> {"none", "ready", "degraded", "deleting", "failed"}],
           listed' \in [Target -> SUBSET Profiles],
           \A t \in Target : vols'[t] = "none" \/ vols[t] # "none",
           \A t \in Target : listed'[t] # {} => vols'[t] # "none",
           ProviderUnchanged
    PROVE  ReplicaInv'
<1>1. ActionsKeep
  BY SettleKeeps
<1>2. RowsStep(q)
  BY <1>1, RowsMove
<1>. QED BY <1>2, EndsSound

LEMMA CopyKeeps ==
    ASSUME ReplicaInv, NEW q \in Requests, CopyReply(q)
    PROVE  ReplicaInv'
<1>0. req[q].pc = "copy" /\ req[q].cur \in Claimed /\ req[q].cur \in Copy
  BY Knows DEF CopyReply, Answered, Errs
<1>1. CASE Awaits(q, "index", req[q].cur) /\ NoRow
  <2>1. RowsStep(q)
    BY <1>1, NoRowStep
  <2>. QED BY <1>0, <1>1, <2>1, AwaitsSound DEF RowsStep
<1>2. CASE Settle(req[q].cur, "failed") /\ Ends(q) /\ OnlyActions
  BY <1>0, <1>2, SettleEnds DEF OnlyActions, ReplicaInv, TypeOK, TargetsInv
<1>. QED BY <1>1, <1>2 DEF CopyReply

LEMMA IndexKeeps ==
    ASSUME ReplicaInv, NEW q \in Requests, IndexReply(q)
    PROVE  ReplicaInv'
<1> DEFINE a == req[q].cur
           t == actions[a].target
<1>0. req[q].pc = "index" /\ a \in Claimed /\ a \in Copy
  BY Knows DEF IndexReply, Answered, Errs
<1>1. CASE /\ vols[t] # "none" /\ Reconciled(t, req[q].found) /\ Settle(a, "completed")
           /\ Ends(q) /\ UNCHANGED targets /\ ProviderUnchanged
  <2>1. /\ listed \in [Target -> SUBSET Profiles] /\ t \in Target /\ req[q].found \in SUBSET Profiles
        /\ vols \in [Target -> {"none", "ready", "degraded", "deleting", "failed"}]
        /\ \A u \in Target : listed[u] # {} => vols[u] # "none"
    BY <1>0, Knows DEF ReplicaInv, TypeOK, TargetsInv, ActionsInv, Request
  <2>2. listed' \in [Target -> SUBSET Profiles] /\ \A u \in Target : u # t => listed'[u] = listed[u]
    BY <1>1, <2>1 DEF Reconciled
  <2>3. /\ vols' \in [Target -> {"none", "ready", "degraded", "deleting", "failed"}]
        /\ \A u \in Target : u # t => vols'[u] = vols[u]
        /\ vols'[t] # "none"
    BY <1>1, <2>1 DEF Reconciled
  <2>. QED BY <1>0, <1>1, <2>1, <2>2, <2>3, SettleEnds
<1>2. CASE Settle(a, "failed") /\ Ends(q) /\ OnlyActions
  BY <1>0, <1>2, SettleEnds DEF OnlyActions, ReplicaInv, TypeOK, TargetsInv
<1>. QED BY <1>1, <1>2 DEF IndexReply

-----------------------------------------------------------------------------
(* The provider, time, and others *)

\* What a step of no request's handler may do.
WorldStep ==
    /\ RowTypes' /\ TargetsInv' /\ ActionsInv' /\ PaidVolumeIsOwned' /\ SingleFlight'
    /\ Known' = Known /\ Bound' = Bound /\ Claimed' = Claimed
    /\ \A t \in Bound : storage[t] # "present" => storage'[t] # "present"

LEMMA WorldSound ==
    ASSUME ReplicaInv, WorldStep, UNCHANGED <<req, loop>>
    PROVE  ReplicaInv'
<1>1. TypeOK'
  BY DEF TypeOK, WorldStep, RowTypes, ReplicaInv
<1>2. ASSUME NEW x \in Requests PROVE SoundRequest(req[x])'
  <2>1. req[x].pc = "create" => req[x].cur \notin Bound'
    BY DEF ReplicaInv, SoundRequest, WorldStep
  <2>. QED BY <2>1, RequestStays DEF WorldStep
<1>3. OneCreation'
  BY DEF ReplicaInv, OneCreation
<1>4. \A x \in Requests : SoundRequest(req[x])'
  BY <1>2
<1>. QED BY <1>1, <1>3, <1>4 DEF ReplicaInv, WorldStep

\* Volumes go, and what they hold; none that has an id comes back.
LEMMA StorageMoves ==
    ASSUME ReplicaInv, UNCHANGED rows,
           storage' \in [Target -> {"none", "present", "gone"}], stored' \in [Target -> SUBSET Profiles],
           crashes' \in 0..MaxCrashes, losses' \in 0..MaxLosses,
           \A t \in Bound : storage'[t] = "present" => storage[t] = "present"
    PROVE  WorldStep
<1>1. TargetsInv' /\ ActionsInv' /\ SingleFlight' /\ Known' = Known /\ Bound' = Bound /\ Claimed' = Claimed
  BY DEF rows, ReplicaInv, TargetsInv, ActionsInv, SingleFlight, SameCopy, Known, Bound, Claimed
<1>2. PaidVolumeIsOwned'
  BY DEF rows, ReplicaInv, PaidVolumeIsOwned, Bound
<1>3. RowTypes'
  BY DEF RowTypes, rows, ReplicaInv, TypeOK
<1>. QED BY <1>1, <1>2, <1>3 DEF WorldStep

\* A call that is carried out, with what it found.
LEMMA CalledSound ==
    ASSUME ReplicaInv, NEW q \in Requests, WorldStep, loop' = loop,
           req' \in [Requests -> Request], \A x \in Requests \ {q} : req'[x] = req[x],
           req'[q].pc = req[q].pc, req'[q].cur = req[q].cur, req'[q].todo = req[q].todo,
           req'[q].profile = req[q].profile,
           ToldGone(req[q])' => storage'[req[q].cur] # "present"
    PROVE  ReplicaInv'
<1>1. RowsStep(q)
  BY DEF RowsStep, WorldStep
<1>2. ReqStep(q)
  BY DEF ReqStep, ReplicaInv, TypeOK
<1>3. SoundRequest(req[q])
  BY DEF ReplicaInv
<1>4. /\ SoundRequest(req[q])!1 /\ SoundRequest(req[q])!2 /\ SoundRequest(req[q])!3
      /\ SoundRequest(req[q])!4 /\ SoundRequest(req[q])!5
  BY <1>3 DEF SoundRequest
<1>5. /\ req'[q].pc \in {"clean", "get", "delete", "check", "inspect", "empty", "remove"} => req'[q].todo \subseteq Bound'
      /\ req'[q].pc \in {"get", "delete", "inspect", "remove", "undo"} => req'[q].cur \in Bound'
      /\ req'[q].pc \in {"due", "unpublish"} => req'[q].todo \subseteq Claimed'
      /\ req'[q].pc \in {"unpublish", "copy", "index"} => req'[q].cur \in Claimed'
      /\ req'[q].pc = "create" => req'[q].cur \in Known' \ Bound' /\ req'[q].profile \in Profiles
  BY <1>4 DEF WorldStep
<1>6. SoundRequest(req[q])'
  BY <1>5 DEF SoundRequest
<1>. QED BY <1>1, <1>2, <1>6, StepSound

\* The request after its call was carried out.
LEMMA CallsDone ==
    ASSUME ReplicaInv, NEW q \in Requests, NEW F \in SUBSET Profiles, NEW b \in BOOLEAN,
           req' = [req EXCEPT ![q] = [req[q] EXCEPT !.call = "done", !.found = F, !.there = b]]
    PROVE  /\ req' \in [Requests -> Request] /\ \A x \in Requests \ {q} : req'[x] = req[x]
           /\ req'[q].pc = req[q].pc /\ req'[q].cur = req[q].cur /\ req'[q].todo = req[q].todo
           /\ req'[q].profile = req[q].profile /\ req'[q].there = b
<1>1. req \in [Requests -> Request] /\ req[q] \in Request
  BY DEF ReplicaInv, TypeOK
<1>2. req'[q] = [req[q] EXCEPT !.call = "done", !.found = F, !.there = b]
  BY <1>1
<1>3. /\ req'[q] \in Request /\ req'[q].pc = req[q].pc /\ req'[q].cur = req[q].cur
      /\ req'[q].todo = req[q].todo /\ req'[q].profile = req[q].profile /\ req'[q].there = b
  BY <1>1, <1>2 DEF Request
<1>. QED BY <1>1, <1>3

LEMMA CarriedDone ==
    ASSUME ReplicaInv, NEW q \in Requests, Carried(q)
    PROVE  /\ req' \in [Requests -> Request] /\ \A x \in Requests \ {q} : req'[x] = req[x]
           /\ req'[q].pc = req[q].pc /\ req'[q].cur = req[q].cur /\ req'[q].todo = req[q].todo
           /\ req'[q].profile = req[q].profile /\ req'[q].there = req[q].there
<1>1. req \in [Requests -> Request] /\ req[q] \in Request
  BY DEF ReplicaInv, TypeOK
<1>2. req'[q] = [req[q] EXCEPT !.call = "done"]
  BY <1>1 DEF Carried
<1>3. /\ req'[q] \in Request /\ req'[q].pc = req[q].pc /\ req'[q].cur = req[q].cur
      /\ req'[q].todo = req[q].todo /\ req'[q].profile = req[q].profile /\ req'[q].there = req[q].there
  BY <1>1, <1>2 DEF Request
<1>4. req' \in [Requests -> Request]
  BY <1>1, <1>3 DEF Carried
<1>. QED BY <1>1, <1>3, <1>4 DEF Carried

LEMMA ProviderKeeps ==
    ASSUME ReplicaInv, NEW q \in Requests, ProviderStep(q)
    PROVE  ReplicaInv'
<1>0. /\ storage \in [Target -> {"none", "present", "gone"}] /\ stored \in [Target -> SUBSET Profiles]
      /\ crashes \in 0..MaxCrashes /\ losses \in 0..MaxLosses
      /\ req \in [Requests -> Request] /\ req[q] \in Request /\ Bound \subseteq Target
  BY Knows DEF ReplicaInv, TypeOK
<1>1. CASE ProviderReads(q)
  <2>1. WorldStep
    BY <1>0, <1>1, StorageMoves DEF ProviderReads
  <2>2. req' = [req EXCEPT ![q] = [req[q] EXCEPT !.call = "done", !.found = req[q].found,
                                                 !.there = storage[req[q].cur] = "present"]]
    <3>1. req'[q] = [req[q] EXCEPT !.call = "done", !.there = storage[req[q].cur] = "present"]
      BY <1>0, <1>1 DEF ProviderReads
    <3>2. req'[q] = [req[q] EXCEPT !.call = "done", !.found = req[q].found,
                                   !.there = storage[req[q].cur] = "present"]
      BY <1>0, <3>1 DEF Request
    <3>. QED BY <1>0, <1>1, <3>2 DEF ProviderReads
  <2>3. req[q].found \in SUBSET Profiles /\ (storage[req[q].cur] = "present") \in BOOLEAN
    BY <1>0 DEF Request
  <2>4. /\ req' \in [Requests -> Request] /\ \A x \in Requests \ {q} : req'[x] = req[x]
        /\ req'[q].pc = req[q].pc /\ req'[q].cur = req[q].cur /\ req'[q].todo = req[q].todo
        /\ req'[q].profile = req[q].profile /\ req'[q].there = (storage[req[q].cur] = "present")
    BY <2>2, <2>3, CallsDone
  <2>5. ToldGone(req[q])' => storage'[req[q].cur] # "present"
    BY <1>1, <2>4 DEF ToldGone, ProviderReads, Called
  <2>. QED BY <1>1, <2>1, <2>4, <2>5, CalledSound DEF ProviderReads
<1>2. CASE ProviderCreates(q)
  <2>1. req[q].pc = "create" /\ req[q].cur \notin Bound
    BY <1>2 DEF ProviderCreates, Called, ReplicaInv, SoundRequest
  <2>2. WorldStep
    BY <1>0, <1>2, <2>1, StorageMoves DEF ProviderCreates
  <2>3. ToldGone(req[q])' => storage'[req[q].cur] # "present"
    BY <1>2, <2>1, CarriedDone DEF ToldGone, ProviderCreates
  <2>. QED BY <1>2, <2>2, <2>3, CarriedDone, CalledSound DEF ProviderCreates
<1>3. CASE ProviderDeletes(q)
  <2>1. req[q].pc \in {"delete", "remove", "undo"} /\ req[q].cur \in Target
    BY <1>3, Knows DEF ProviderDeletes, Called
  <2>2. storage' \in [Target -> {"none", "present", "gone"}] /\ stored' \in [Target -> SUBSET Profiles]
    BY <1>0, <1>3, <2>1 DEF ProviderDeletes
  <2>3. storage'[req[q].cur] = "gone" /\ \A t \in Target : storage'[t] = "present" => storage[t] = "present"
    BY <1>0, <1>3, <2>1 DEF ProviderDeletes
  <2>4. WorldStep
    BY <1>0, <1>3, <2>2, <2>3, StorageMoves DEF ProviderDeletes
  <2>. QED BY <1>3, <2>3, <2>4, CarriedDone, CalledSound DEF ProviderDeletes
<1>4. CASE StoreUnpublishes(q) \/ StorePublishes(q)
  <2>1. req[q].pc \in {"unpublish", "copy"} /\ req[q].cur \in Claimed
    BY <1>4, Knows DEF StoreUnpublishes, StorePublishes, Called
  <2>2. actions[req[q].cur].target \in Target /\ actions[req[q].cur].profile \in Profiles
    BY <2>1, Knows DEF ReplicaInv, ActionsInv
  <2>3. stored' \in [Target -> SUBSET Profiles]
    BY <1>0, <1>4, <2>2 DEF StoreUnpublishes, StorePublishes
  <2>4. WorldStep
    BY <1>0, <1>4, <2>3, StorageMoves DEF StoreUnpublishes, StorePublishes
  <2>5. ~ToldGone(req[q])'
    BY <1>4, <2>1, CarriedDone DEF ToldGone, StoreUnpublishes, StorePublishes
  <2>. QED BY <1>4, <2>4, <2>5, CarriedDone, CalledSound DEF StoreUnpublishes, StorePublishes
<1>5. CASE StoreReads(q)
  <2>1. req[q].pc = "index" /\ req[q].cur \in Claimed
    BY <1>5, Knows DEF StoreReads, Called
  <2>2. actions[req[q].cur].target \in Target
    BY <2>1, Knows DEF ReplicaInv, ActionsInv
  <2> DEFINE F == stored[actions[req[q].cur].target]
  <2>3. WorldStep /\ F \in SUBSET Profiles /\ req[q].there \in BOOLEAN
    BY <1>0, <1>5, <2>2, StorageMoves DEF StoreReads, Request
  <2>4. req' = [req EXCEPT ![q] = [req[q] EXCEPT !.call = "done", !.found = F, !.there = req[q].there]]
    <3>1. req'[q] = [req[q] EXCEPT !.call = "done", !.found = F]
      BY <1>0, <1>5 DEF StoreReads
    <3>2. req'[q] = [req[q] EXCEPT !.call = "done", !.found = F, !.there = req[q].there]
      BY <1>0, <3>1 DEF Request
    <3>. QED BY <1>0, <1>5, <3>2 DEF StoreReads
  <2>5. /\ req' \in [Requests -> Request] /\ \A x \in Requests \ {q} : req'[x] = req[x]
        /\ req'[q].pc = req[q].pc /\ req'[q].cur = req[q].cur /\ req'[q].todo = req[q].todo
        /\ req'[q].profile = req[q].profile
    BY <2>3, <2>4, CallsDone
  <2>6. ~ToldGone(req[q])'
    BY <2>1, <2>5 DEF ToldGone
  <2>. QED BY <1>5, <2>3, <2>5, <2>6, CalledSound DEF StoreReads
<1>. QED BY <1>1, <1>2, <1>3, <1>4, <1>5 DEF ProviderStep

LEMMA OthersKeep ==
    ASSUME ReplicaInv,
           \/ \E a \in Copy : CopyFallsDue(a)
           \/ \E t \in Target : VolumeLost(t) \/ VolumeForgotten(t)
           \/ Crash
    PROVE  ReplicaInv'
<1>0. /\ storage \in [Target -> {"none", "present", "gone"}] /\ stored \in [Target -> SUBSET Profiles]
      /\ vols \in [Target -> {"none", "ready", "degraded", "deleting", "failed"}]
      /\ listed \in [Target -> SUBSET Profiles]
      /\ crashes \in 0..MaxCrashes /\ losses \in 0..MaxLosses
      /\ actions \in [Copy -> ActionRow] /\ Bound \subseteq Target
  BY DEF ReplicaInv, TypeOK, Bound
<1>1. ASSUME NEW a \in Copy, CopyFallsDue(a) PROVE ReplicaInv'
  <2>1. \A b \in Copy : /\ actions'[b] \in ActionRow /\ actions'[b].status = actions[b].status
                        /\ actions'[b].profile = actions[b].profile /\ actions'[b].source = actions[b].source
                        /\ actions'[b].target = actions[b].target
    BY <1>0, <1>1 DEF CopyFallsDue, ActionRow
  <2>2. actions' \in [Copy -> ActionRow]
    BY <1>0, <1>1, <2>1 DEF CopyFallsDue
  <2>3. ActionsKeep
    BY <2>1, <2>2 DEF ActionsKeep
  <2>4. RegionsKept /\ Known' = Known /\ Bound' = Bound /\ TargetsInv' /\ PaidVolumeIsOwned'
    BY <1>1 DEF CopyFallsDue, OnlyActions, ProviderUnchanged, RegionsKept, Known, Bound, ReplicaInv,
                TargetsInv, PaidVolumeIsOwned
  <2>5. ActionsSound
    BY <2>3, <2>4, KeptActionsSound
  <2>6. Claimed' = Claimed
    BY <2>1 DEF Claimed
  <2>7. RowTypes'
    BY <1>1, <2>2 DEF RowTypes, CopyFallsDue, OnlyActions, ProviderUnchanged, ReplicaInv, TypeOK
  <2>8. WorldStep
    BY <1>1, <2>4, <2>5, <2>6, <2>7 DEF WorldStep, ActionsSound, CopyFallsDue, OnlyActions, ProviderUnchanged
  <2>. QED BY <1>1, <2>8, WorldSound DEF CopyFallsDue
<1>2. ASSUME NEW t \in Target, VolumeLost(t) PROVE ReplicaInv'
  <2>1. /\ storage' \in [Target -> {"none", "present", "gone"}] /\ stored' \in [Target -> SUBSET Profiles]
        /\ \A u \in Target : storage'[u] = "present" => storage[u] = "present"
    BY <1>0, <1>2 DEF VolumeLost
  <2>2. losses' \in 0..MaxLosses
    BY <1>0, <1>2, ReplicaNumbers DEF VolumeLost
  <2>3. WorldStep
    BY <1>0, <1>2, <2>1, <2>2, StorageMoves DEF VolumeLost
  <2>. QED BY <1>2, <2>3, WorldSound DEF VolumeLost
<1>3. ASSUME NEW t \in Target, VolumeForgotten(t) PROVE ReplicaInv'
  <2>1. /\ vols' \in [Target -> {"none", "ready", "degraded", "deleting", "failed"}]
        /\ listed' \in [Target -> SUBSET Profiles]
        /\ vols'[t] = "none" /\ listed'[t] = {}
        /\ \A u \in Target : u # t => vols'[u] = vols[u] /\ listed'[u] = listed[u]
    BY <1>0, <1>3 DEF VolumeForgotten
  <2>2. losses' \in 0..MaxLosses
    BY <1>0, <1>3, ReplicaNumbers DEF VolumeForgotten
  <2>3. UNCHANGED <<targets, actions, storage, stored, req, loop, crashes>>
    BY <1>3 DEF VolumeForgotten
  <2>4. Known' = Known /\ Bound' = Bound /\ Claimed' = Claimed
    BY <2>3 DEF Known, Bound, Claimed
  <2>5. TargetsInv'
    BY <2>1, <2>3, <2>4 DEF ReplicaInv, TargetsInv
  <2>6. PaidVolumeIsOwned' /\ ActionsInv' /\ SingleFlight'
    BY <2>1, <2>3, <2>4 DEF ReplicaInv, PaidVolumeIsOwned, ActionsInv, SingleFlight, SameCopy
  <2>7. RowTypes'
    BY <2>1, <2>2, <2>3 DEF RowTypes, ReplicaInv, TypeOK
  <2>8. WorldStep
    BY <2>3, <2>4, <2>5, <2>6, <2>7 DEF WorldStep
  <2>. QED BY <2>3, <2>8, WorldSound
<1>4. CASE Crash
  <2>1. crashes' \in 0..MaxCrashes
    BY <1>0, <1>4, ReplicaNumbers DEF Crash
  <2>2. WorldStep
    BY <1>0, <1>4, <2>1, StorageMoves DEF Crash
  <2>3. NoRequest \in Request
    BY RowNumbers, ReplicaNumbers DEF NoRequest, Request
  <2>4. req' \in [Requests -> Request] /\ loop' \in Requests \cup {Free} /\ \A x \in Requests : req'[x] = NoRequest
    BY <1>4, <2>3 DEF Crash
  <2>5. TypeOK'
    BY <2>2, <2>4 DEF TypeOK, WorldStep, RowTypes
  <2>6. \A x \in Requests : SoundRequest(req[x])'
    BY <2>4 DEF SoundRequest, ToldGone, NoRequest
  <2>7. OneCreation'
    BY <2>4 DEF OneCreation, NoRequest
  <2>. QED BY <2>2, <2>5, <2>6, <2>7 DEF ReplicaInv, WorldStep
<1>. QED BY <1>1, <1>2, <1>3, <1>4

-----------------------------------------------------------------------------
(* Theorems *)

LEMMA InitSound == Init => ReplicaInv
<1> SUFFICES ASSUME Init PROVE ReplicaInv
  OBVIOUS
<1>1. NoRequest \in Request /\ NoTarget \in TargetRow /\ NoAction \in ActionRow
  BY RowNumbers, ReplicaNumbers DEF NoRequest, Request, NoTarget, TargetRow, NoAction, ActionRow
<1>2. TypeOK
  BY <1>1, ReplicaNumbers DEF Init, TypeOK
<1>3. TargetsInv /\ ActionsInv /\ PaidVolumeIsOwned /\ SingleFlight
  BY DEF Init, NoTarget, NoAction, TargetsInv, ActionsInv, Known, Bound, Claimed, PaidVolumeIsOwned,
         SingleFlight, Active
<1>4. OneCreation /\ \A x \in Requests : SoundRequest(req[x])
  BY DEF Init, NoRequest, OneCreation, SoundRequest, ToldGone
<1>. QED BY <1>2, <1>3, <1>4 DEF ReplicaInv

LEMMA HandlerKeeps ==
    ASSUME ReplicaInv, NEW q \in Requests, HandlerStep(q)
    PROVE  ReplicaInv'
  BY CleanKeeps, GetKeeps, DeleteKeeps, CheckKeeps, InspectKeeps, ExpireKeeps, UnpublishKeeps, EmptyKeeps,
     RemoveKeeps, ExecuteKeeps, CreateKeeps, UndoKeeps, CopyKeeps, IndexKeeps DEF HandlerStep

LEMMA StepKeeps == ReplicaInv /\ [Next]_vars => ReplicaInv'
<1> SUFFICES ASSUME ReplicaInv, [Next]_vars PROVE ReplicaInv'
  OBVIOUS
<1>1. CASE UNCHANGED vars
  <2>1. WorldStep
    BY <1>1, StorageMoves DEF vars, rows, ReplicaInv, TypeOK
  <2>. QED BY <1>1, <2>1, WorldSound DEF vars
<1>2. ASSUME NEW q \in Requests, Begin(q) \/ HandlerStep(q) \/ ProviderStep(q) PROVE ReplicaInv'
  BY <1>2, BeginKeeps, HandlerKeeps, ProviderKeeps
<1>. QED BY <1>1, <1>2, OthersKeep DEF Next

\* The invariant holds in every state of the controller, its provider and its
\* restarts: the rows agree with the volumes, and so does what a handler
\* remembers while it awaits a call.
THEOREM ReplicaInvariant == Spec => []ReplicaInv
  BY InitSound, StepKeeps, PTL DEF Spec

\* A provider volume whose id was stored and which still costs money has an open
\* target row, whatever fails between the row and the volume, unless the user
\* forgot the volume.
THEOREM PaidVolumesAreOwned == Spec => []PaidVolumeIsOwned
<1>1. ReplicaInv => PaidVolumeIsOwned
  BY DEF ReplicaInv
<1>. QED BY <1>1, ReplicaInvariant, PTL

\* claim_replica_action never claims two copies of one recommendation, however
\* ticks and requests interleave at their awaits.
THEOREM CopiesFlyAlone == Spec => []SingleFlight
<1>1. ReplicaInv => SingleFlight
  BY DEF ReplicaInv
<1>. QED BY <1>1, ReplicaInvariant, PTL

\* A settled copy is neither active nor fresh, and no handler writes another row.
SettledStay == \A a \in Copy : actions[a].status \in {"failed", "expired", "lost"} =>
                               actions'[a].status = actions[a].status

LEMMA WritesSpareSettled ==
    ASSUME actions \in [Copy -> ActionRow],
           \/ UNCHANGED actions
           \/ \E t \in Target : LoseActions(t)
           \/ \E a : Expired(a)
           \/ \E a, status : Settle(a, status)
           \/ \E a \in FreshCopies, row \in ActionRow : actions' = [actions EXCEPT ![a] = row]
    PROVE  SettledStay
<1>1. CASE UNCHANGED actions
  BY <1>1 DEF SettledStay
<1>2. CASE \E t \in Target : LoseActions(t)
  BY <1>2 DEF SettledStay, LoseActions, Active
<1>3. CASE \E a : Expired(a)
  BY <1>3 DEF SettledStay, Expired
<1>4. CASE \E a, status : Settle(a, status)
  BY <1>4 DEF SettledStay, Settle
<1>5. CASE \E a \in FreshCopies, row \in ActionRow : actions' = [actions EXCEPT ![a] = row]
  BY <1>5 DEF SettledStay, FreshCopies
<1>. QED BY <1>1, <1>2, <1>3, <1>4, <1>5

\* A claim writes the oldest row that was never used.
LEMMA ClaimTakesFresh ==
    ASSUME NEW q, NEW p, NEW s, NEW t, ClaimCopy(q, p, s, t), actions \in [Copy -> ActionRow]
    PROVE  SettledStay
<1>1. ASSUME NEW c \in Copy, IsOldest(c, FreshCopies) PROVE c \in FreshCopies
  BY <1>1 DEF IsOldest
<1>2. ASSUME NEW c \in FreshCopies, NEW row, actions' = [actions EXCEPT ![c] = row] PROVE SettledStay
  BY <1>2 DEF SettledStay, FreshCopies
<1>3. CASE UNCHANGED actions
  BY <1>3 DEF SettledStay
<1>. QED BY <1>1, <1>2, <1>3 DEF ClaimCopy

LEMMA HandlersSpareSettled ==
    ASSUME ReplicaInv, NEW q \in Requests, HandlerStep(q)
    PROVE  SettledStay
<1>0. actions \in [Copy -> ActionRow] /\ req[q] \in Request
  BY DEF ReplicaInv, TypeOK
<1>1. req[q].pc = "inspect" => req[q].cur \in Target
  BY DEF ReplicaInv, SoundRequest, Bound
<1>2. CASE CleanNext(q) \/ GetReply(q) \/ DeleteReply(q) \/ ExpireNext(q) \/ EmptyNext(q) \/ RemoveReply(q)
           \/ UndoReply(q)
  <2>1. UNCHANGED actions
    BY <1>2 DEF CleanNext, GetReply, DeleteReply, ExpireNext, EmptyNext, RemoveReply, UndoReply,
                NoRow, OnlyTargets, rows
  <2>. QED BY <1>0, <2>1, WritesSpareSettled
<1>3. CASE CheckNext(q) \/ InspectReply(q)
  <2>1. UNCHANGED actions \/ \E t \in Target : LoseActions(t)
    BY <1>1, <1>3 DEF CheckNext, InspectReply, Answered, NoRow, rows
  <2>. QED BY <1>0, <2>1, WritesSpareSettled
<1>4. CASE UnpublishReply(q)
  BY <1>0, <1>4, WritesSpareSettled DEF UnpublishReply, NoRow, rows
<1>5. CASE Execute(q) \/ CreateReply(q)
  <2>1. UNCHANGED actions \/ \E p, s, t : ClaimCopy(q, p, s, t)
    BY <1>5 DEF Execute, CreateReply, NoRow, OnlyTargets, rows
  <2>. QED BY <1>0, <2>1, ClaimTakesFresh, WritesSpareSettled
<1>6. CASE CopyReply(q) \/ IndexReply(q)
  <2>1. UNCHANGED actions \/ \E a, status : Settle(a, status)
    BY <1>6 DEF CopyReply, IndexReply, NoRow, rows
  <2>. QED BY <1>0, <2>1, WritesSpareSettled
<1>. QED BY <1>2, <1>3, <1>4, <1>5, <1>6 DEF HandlerStep

\* Copies settle once: a late answer of a copy that was recovered as stale, a
\* new tick, an expiry or a lost target never brings one back (cache_registry.py).
THEOREM CopiesSettleOnce == Spec => SettledCopiesStay
<1>1. ASSUME ReplicaInv, [Next]_vars PROVE SettledStay \/ UNCHANGED vars
  <2>0. actions \in [Copy -> ActionRow]
    BY <1>1 DEF ReplicaInv, TypeOK
  <2>1. ASSUME NEW q \in Requests, BeginTick(q) PROVE SettledStay
    BY <2>0, <2>1 DEF BeginTick, SettledStay
  <2>2. ASSUME NEW q \in Requests, BeginExpire(q) \/ BeginExecute(q) \/ ProviderStep(q) PROVE SettledStay
    <3>1. UNCHANGED actions
      BY <2>2 DEF BeginExpire, BeginExecute, ProviderStep, ProviderReads, ProviderCreates, ProviderDeletes,
                  StoreUnpublishes, StorePublishes, StoreReads, NoRow, rows
    <3>. QED BY <2>0, <3>1, WritesSpareSettled
  <2>3. ASSUME NEW q \in Requests, HandlerStep(q) PROVE SettledStay
    BY <1>1, <2>3, HandlersSpareSettled
  <2>4. ASSUME NEW a \in Copy, CopyFallsDue(a) PROVE SettledStay
    BY <2>0, <2>4 DEF CopyFallsDue, SettledStay
  <2>5. CASE Crash \/ \E t \in Target : VolumeLost(t) \/ VolumeForgotten(t)
    <3>1. UNCHANGED actions
      BY <2>5 DEF Crash, VolumeLost, VolumeForgotten, rows
    <3>. QED BY <2>0, <3>1, WritesSpareSettled
  <2>. QED BY <1>1, <2>1, <2>2, <2>3, <2>4, <2>5 DEF Next, Begin
<1>2. ReplicaInv /\ [Next]_vars =>
          [\A a \in Copy : actions[a].status \in {"failed", "expired", "lost"} =>
              actions'[a].status = actions[a].status]_vars
  BY <1>1 DEF SettledStay
<1>. QED BY ReplicaInvariant, <1>2, PTL DEF Spec, SettledCopiesStay

=============================================================================
