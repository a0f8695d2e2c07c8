------------------------ MODULE MCRawVaultSatellites ------------------------
(* Small instances.                                                         *)
EXTENDS RawVaultSatellites, TLC

CONSTANTS Entities, Values, Active, Deleted, details, status

(* An upsert gives its entity a value and marks its record active; a        *)
(* deletion does not concern the Satellite of details.                      *)
SmallEvents ==
    {[entity |-> e, state |-> (details :> v @@ status :> Active)] : e \in Entities, v \in Values}
    \cup {[entity |-> e, state |-> (details :> None @@ status :> Deleted)] : e \in Entities}

Symmetry == Permutations(Batches) \cup Permutations(Jobs)
=============================================================================
