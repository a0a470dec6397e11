------------------------------- MODULE MCCaches -------------------------------
(* The volumes and the inventory of one of them, one of the two at a time. *)
EXTENDS CacheVolumes, CacheInventory, TLC

CONSTANTS m1, m2, m3, d1, d2

VARIABLE part

MCHolds == (m1 :> {d1} @@ m2 :> {d2} @@ m3 :> {d1, d2})
MCOlder == {<<m1, m2>>, <<m1, m3>>, <<m3, m2>>}

Symmetry == Permutations(Requests)

CachesInit == VolumesInit /\ InventoryInit /\ part \in {"volumes", "inventory"}

CachesNext ==
    \/ part = "volumes" /\ VolumesNext /\ UNCHANGED <<inventoryVars, part>>
    \/ part = "inventory" /\ InventoryNext /\ UNCHANGED <<volumesVars, part>>

CachesSpec == CachesInit /\ [][CachesNext]_<<volumesVars, inventoryVars, part>>

=============================================================================
