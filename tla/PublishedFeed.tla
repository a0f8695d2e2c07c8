---------------------------- MODULE PublishedFeed ----------------------------
(***************************************************************************)
(* What the batch control plane promises to the warehouse, without batches, *)
(* attempts or tables: Bronze objects land per partition at consecutive     *)
(* offsets, and what has been delivered of a partition is always a prefix   *)
(* of what has landed.  A delivery extends any number of prefixes at once   *)
(* and is never taken back.                                                 *)
(***************************************************************************)
EXTENDS Integers

CONSTANT Partitions

VARIABLES
    landed,     \* number of objects landed per partition
    delivered   \* set of offsets delivered per partition

feedVars == <<landed, delivered>>

Init ==
    /\ landed = [p \in Partitions |-> 0]
    /\ delivered = [p \in Partitions |-> {}]

Land(p) ==
    /\ landed' = [landed EXCEPT ![p] = @ + 1]
    /\ UNCHANGED delivered

IsPrefix(offsets, length) == \E n \in 0 .. length : offsets = 0 .. n - 1

Deliver ==
    /\ delivered' \in [Partitions -> SUBSET Nat]
    /\ \A p \in Partitions :
        /\ delivered[p] \subseteq delivered'[p]
        /\ IsPrefix(delivered'[p], landed[p])
    /\ UNCHANGED landed

Next == (\E p \in Partitions : Land(p)) \/ Deliver

Spec == Init /\ [][Next]_feedVars
=============================================================================
