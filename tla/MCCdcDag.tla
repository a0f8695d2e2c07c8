------------------------------ MODULE MCCdcDag ------------------------------
(* A small instance of the DAG over the control plane.                      *)
EXTENDS CdcDag, TLC

CONSTANTS load, reconcile

MCPhases == <<load, reconcile>>
=============================================================================
