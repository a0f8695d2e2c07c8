---------------------------- MODULE MCCurrentGold ----------------------------
(* A small instance of the way from the source to Gold.                     *)
EXTENDS CurrentGold, TLC

(* Pairs of transactions share their commit time.                           *)
MCTimes == <<0, 1, 1>>

Symmetry == Permutations(Batches)
=============================================================================
