--------------------------- MODULE MCControlPlane ---------------------------
(* Small instances of the control plane.                                    *)
EXTENDS ControlPlane, TLC

(* Batches and Airflow runs are interchangeable.                            *)
Symmetry == Permutations(Batches) \cup Permutations(Runs) \cup Permutations(Partitions)
=============================================================================
