------------------------------ MODULE MCStorage ------------------------------
(* The store on a volume and the upload of one object, one of the two at a time. *)
EXTENDS PreparedVolume, MultipartUpload, TLC

CONSTANTS w1, w2, c1, p1, p2, b1

VARIABLE part

MCNeeds == (p1 :> {b1} @@ p2 :> {b1})

Symmetry == Permutations(Workers) \cup Permutations(Profiles)

StorageInit == PreparedInit /\ UploadInit /\ part \in {"volume", "upload"}

StorageNext ==
    \/ part = "volume" /\ PreparedNext /\ UNCHANGED <<uploadVars, part>>
    \/ part = "upload" /\ UploadNext /\ UNCHANGED <<preparedVars, part>>

StorageSpec == StorageInit /\ [][StorageNext]_<<preparedVars, uploadVars, part>>

=============================================================================
