------------------------------ MODULE MCLocalLab ------------------------------
(* Instances of LocalLab small enough for TLC. *)
EXTENDS LocalLab, TLC

\* Request threads are interchangeable.
ThreadSymmetry == Permutations(Threads)

\* The actions of the demo script that reach the scan history.
DemoScript == {"create_environment", "apply_baseline", "run_compliance_scan",
               "inject_ssh_drift", "run_remediation"}
=============================================================================
