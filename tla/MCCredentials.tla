----------------------------- MODULE MCCredentials -----------------------------
(* An instance of Credentials small enough for TLC. *)
EXTENDS Credentials, TLC

CONSTANTS lab, okd, alias, access, v1

\* Of the sorted targets, hyper-v, okd and parallels: the shared backend, one
\* that is yet to be built, and the shared one again.
MCOrder    == <<lab, okd, lab>>
MCRequired == <<HcpToken, access>>

\* The UI sends every key it knows, typed or blank; another client sends one
\* key, and one the backend does not accept.
MCSent ==
  {alias :> a @@ access :> b @@ TfKey :> Absent : a, b \in {v1, Blank}}
    \cup {alias :> Absent @@ access :> v1 @@ TfKey :> v1}
=============================================================================
