--------------------------- MODULE MCBronzeWriter ---------------------------
(* Small instances of the Bronze writer's consumer group.                   *)
EXTENDS BronzeWriter, TLC
=============================================================================
