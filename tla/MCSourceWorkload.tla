-------------------------- MODULE MCSourceWorkload --------------------------
(* A small instance: number 4 is the first application that is PENDING.     *)
EXTENDS SourceWorkload, TLC

SmallModes ==
    "snapshot" :> "snapshot" @@ "changes" :> "changes"
    @@ "setup" :> "setup" @@ "delete" :> "delete"
=============================================================================
