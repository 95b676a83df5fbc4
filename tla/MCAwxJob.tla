-------------------------------- MODULE MCAwxJob --------------------------------
(* An instance of AwxJob small enough for TLC. *)
EXTENDS AwxJob

CONSTANTS t1, t2
=============================================================================
