------------------------------ MODULE MCApiServer ------------------------------
(* Instances of ApiServer small enough for TLC. *)
EXTENDS ApiServer

\* Two targets that share a backend and one with its own, in sorted order.
ThreeTargets == <<"gcp", "local-lab", "okd">>
=============================================================================
