---------------------------- MODULE MultipartUpload ----------------------------
(***************************************************************************)
(* The upload of one large object in parts (prepared_state.py,             *)
(* _upload_resumable_multipart).  A window of threads is submitted; each   *)
(* part that is stored refills the window; a thread that fails raises the  *)
(* flag that stops refills, and the caller drains the window until the     *)
(* error of a part can be raised.  A later upload of the same key resumes  *)
(* the session the provider still lists, with the parts of full size.      *)
(***************************************************************************)
EXTENDS Integers, FiniteSets, FiniteSetsExt

CONSTANTS PartCount,
          Window,        \* RUNPOD_S3_MULTIPART_CONCURRENCY
          MaxUploads     \* bound on calls of upload_verified

ASSUME UploadShape == PartCount \in Nat \ {0} /\ Window \in Nat \ {0} /\ MaxUploads \in Nat

VARIABLES session,    \* the provider lists a session for the key
          stored,     \* its parts, as listed
          merging,    \* a completion the gateway gave up on still runs
          whole,      \* the object is at its key
          main,       \* the caller
          todo,       \* pending parts, not submitted yet
          task,       \* the threads' futures, by part
          completed,  \* parts whose ETag the caller has
          cancel,     \* upload_cancelled
          uploads

uploadVars == <<session, stored, merging, whole, main, todo, task, completed, cancel, uploads>>

-----------------------------------------------------------------------------
(* State *)

Parts   == 1..PartCount
Done    == {"stored", "error", "cancelled"}
NoTasks == [p \in Parts |-> "none"]

UploadTypeOK ==
    /\ session \in BOOLEAN /\ merging \in BOOLEAN /\ whole \in BOOLEAN /\ cancel \in BOOLEAN
    /\ stored \in [Parts -> {"none", "short", "whole"}]
    /\ main \in {"idle", "window", "running", "raising error", "raising cancelled", "completing", "polling"}
    /\ todo \subseteq Parts /\ completed \subseteq Parts
    /\ task \in [Parts -> {"none", "initial", "refill", "sent"} \cup Done]
    /\ uploads \in 0..MaxUploads

UploadInit ==
    /\ session = FALSE /\ merging = FALSE /\ whole = FALSE /\ cancel = FALSE
    /\ stored = [p \in Parts |-> "none"]
    /\ main = "idle" /\ todo = {} /\ completed = {}
    /\ task = NoTasks
    /\ uploads = 0

InFlight == {p \in Parts : task[p] # "none"}
Provider == <<session, stored, merging, whole>>

-----------------------------------------------------------------------------
(* The caller *)

AnyListed == {p \in Parts : stored[p] # "none"}

\* _find_resumable_multipart keeps the parts of exact size: one in flight is
\* listed with its short size.
Resumable == {p \in Parts : stored[p] = "whole"}

\* upload_verified returns at once when the object has its size.  Without a
\* session, or with a gateway that cannot list them, a new one is created.
BeginUpload ==
    /\ main = "idle" /\ uploads < MaxUploads /\ ~whole
    /\ uploads' = uploads + 1
    /\ \/ session /\ completed' = Resumable /\ UNCHANGED stored
       \/ completed' = {} /\ stored' = [p \in Parts |-> "none"]
    /\ session' = TRUE
    /\ todo' = Parts \ completed'
    /\ main' = "window" /\ cancel' = FALSE /\ task' = NoTasks
    /\ UNCHANGED <<merging, whole>>

\* The first window is submitted part by part, and stops once one has failed.
SubmitInitial ==
    /\ main = "window"
    /\ IF Cardinality(InFlight) < Window /\ todo # {} /\ ~cancel
       THEN /\ task' = [task EXCEPT ![Min(todo)] = "initial"]
            /\ todo' = todo \ {Min(todo)}
            /\ UNCHANGED main
       ELSE main' = "running" /\ UNCHANGED <<task, todo>>
    /\ UNCHANGED <<Provider, completed, cancel, uploads>>

RaisesAtOnce(D) ==
    IF \E p \in D : task[p] = "cancelled" THEN "raising cancelled"
    ELSE IF \E p \in D : task[p] = "error" THEN "raising error" ELSE "running"

\* What the caller does with the futures that are done: an error is raised,
\* the signal of a cancelled part only when nothing is left to wait for.
Verdict(D) ==
    IF \E p \in D : task[p] = "error" THEN "raising error"
    ELSE IF InFlight = D /\ \E p \in D : task[p] = "cancelled" THEN "raising cancelled" ELSE "running"

Refills(n) == IF cancel THEN {} ELSE {p \in todo : Cardinality({q \in todo : q < p}) < n}

Drain ==
    /\ main = "running"
    /\ \E D \in (SUBSET {p \in Parts : task[p] \in Done}) \ {{}} :
         LET results == {p \in D : task[p] = "stored"}
             refills == IF Verdict(D) = "running" THEN Refills(Cardinality(results)) ELSE {}
         IN
         /\ main' = Verdict(D)
         /\ completed' = IF Verdict(D) = "running" THEN completed \cup results ELSE completed
         /\ todo' = todo \ refills
         /\ task' = [p \in Parts |-> IF p \in refills THEN "refill" ELSE IF p \in D THEN "none" ELSE task[p]]
         /\ cancel' = (cancel \/ Verdict(D) # "running")
    /\ UNCHANGED <<Provider, uploads>>

\* executor.shutdown waits for the threads, and the upload has failed.
Raise ==
    /\ main \in {"raising error", "raising cancelled"}
    /\ \A p \in Parts : task[p] \in Done \cup {"none"}
    /\ main' = "idle" /\ task' = NoTasks
    /\ UNCHANGED <<Provider, todo, completed, cancel, uploads>>

AllDone ==
    /\ main = "running" /\ InFlight = {}
    /\ main' = "completing"
    /\ UNCHANGED <<Provider, todo, task, completed, cancel, uploads>>

\* complete_multipart_upload merges the parts, or the gateway gives up while
\* the provider may go on.
Complete ==
    /\ main = "completing" /\ session
    /\ \/ /\ session' = FALSE /\ whole' = TRUE /\ main' = "idle"
          /\ UNCHANGED merging
       \/ /\ main' = "polling"
          /\ merging' \in BOOLEAN /\ session' = ~merging'
          /\ UNCHANGED whole
    /\ UNCHANGED <<stored, todo, task, completed, cancel, uploads>>

\* _recover_completed_multipart looks for an object of the right size.
Recover ==
    /\ main = "polling" /\ main' = "idle"
    /\ UNCHANGED <<Provider, todo, task, completed, cancel, uploads>>

LateMerge ==
    /\ merging /\ merging' = FALSE /\ whole' = TRUE
    /\ UNCHANGED <<session, stored, main, todo, task, completed, cancel, uploads>>

UploaderDies ==
    /\ main # "idle" /\ main' = "idle"
    /\ task' = NoTasks /\ todo' = {} /\ completed' = {} /\ cancel' = FALSE
    /\ UNCHANGED <<Provider, uploads>>

-----------------------------------------------------------------------------
(* The threads: upload_part *)

Becomes(p, from, to) == task[p] = from /\ task' = [task EXCEPT ![p] = to]

\* Initial parts always make their attempt; refills see the flag first.
SendPart(p) ==
    /\ \/ Becomes(p, "initial", "sent") /\ UNCHANGED cancel
       \/ ~cancel /\ Becomes(p, "refill", "sent") /\ UNCHANGED cancel
       \/ cancel /\ Becomes(p, "refill", "cancelled") /\ UNCHANGED cancel
    /\ UNCHANGED <<Provider, main, todo, completed, uploads>>

\* The provider lists a part while its bytes arrive.
PartArrives(p) ==
    /\ task[p] = "sent" /\ stored[p] # "short"
    /\ stored' = [stored EXCEPT ![p] = "short"]
    /\ UNCHANGED <<session, merging, whole, main, todo, task, completed, cancel, uploads>>

PartStored(p) ==
    /\ Becomes(p, "sent", "stored")
    /\ stored' = [stored EXCEPT ![p] = "whole"]
    /\ UNCHANGED <<session, merging, whole, main, todo, completed, cancel, uploads>>

\* The last attempt fails, before the part is stored or after it.
PartFails(p) ==
    /\ Becomes(p, "sent", "error")
    /\ cancel' = TRUE
    /\ \/ UNCHANGED stored
       \/ stored' = [stored EXCEPT ![p] = "whole"]
    /\ UNCHANGED <<session, merging, whole, main, todo, completed, uploads>>

-----------------------------------------------------------------------------
(* Specification *)

UploadNext ==
    \/ BeginUpload \/ SubmitInitial \/ Drain \/ Raise \/ AllDone \/ Complete \/ Recover
    \/ LateMerge \/ UploaderDies
    \/ \E p \in Parts : SendPart(p) \/ PartArrives(p) \/ PartStored(p) \/ PartFails(p)

UploadSpec == UploadInit /\ [][UploadNext]_uploadVars

-----------------------------------------------------------------------------
(* Properties *)

\* The caller asks for the merge only with every part, each of full size at the
\* provider, whatever an earlier upload that died or failed has left there.
MergesWholeParts ==
    main = "completing" => completed = Parts /\ \A p \in Parts : stored[p] = "whole"

\* A failed upload raises the error of a part, never the signal that stopped
\* its siblings (comment at prepared_state.py:1972).
OwnErrorPropagates == main # "raising cancelled"

=============================================================================
