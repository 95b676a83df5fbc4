------------------------------ MODULE MCDemoConfig ------------------------------
(* An instance of DemoConfig small enough for TLC. *)
EXTENDS DemoConfig

CONSTANTS t1, t2

\* A custom request that moves Ansible to a remote controller, one that moves
\* Terraform to docker compose, and one that fails after its first assignment.
MCPayloads ==
  { << <<<<"ansible", "backend">>, "remote">>, <<<<"ansible", "access">>, "given">> >>,
    << <<<<"terraform", "mode">>, "compose">> >>,
    << <<<<"terraform", "backend">>, "remote">>, <<<<"ansible", "mode">>, "invalid">> >> }
=============================================================================
