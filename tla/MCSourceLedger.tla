--------------------------- MODULE MCSourceLedger ---------------------------
(* A small instance: transactions of one topic, of the other, and of both,  *)
(* one of them with two events in a topic.                                  *)
EXTENDS SourceLedger, TLC

CONSTANTS customers, loans

SmallShapes ==
    {customers :> 1 @@ loans :> 0, customers :> 0 @@ loans :> 1, customers :> 1 @@ loans :> 2}
=============================================================================
