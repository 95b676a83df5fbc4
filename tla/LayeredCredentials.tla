-------------------------- MODULE LayeredCredentials --------------------------
(***************************************************************************)
(* What a user expects of the credentials of each backend: the values      *)
(* typed into the UI lie in a layer above those the process started with   *)
(* (environment variables, or else the .env file).  A typed value hides    *)
(* the one below; clearing it uncovers that one again, however often it    *)
(* was overwritten; a restart clears the layer.                            *)
(***************************************************************************)
CONSTANTS
  Backends, \* each with its own layer
  Keys,     \* the keys the UI may set
  AllKeys,  \* these and the Terraform token of the configured host
  Values,   \* values a credential may have
  Blank,    \* what the UI sends for an empty input
  Absent,   \* a key the request does not mention
  NoEntry   \* no value

VARIABLES
  origin,   \* what the process was started with
  ui,       \* per backend, the layer of typed values
  view      \* per backend, value and source of each key, as checks see them

vars == <<origin, ui, view>>

Origins == [value: Values, source: {"env", "dotenv"}]
Batches == [AllKeys -> Values \cup {Blank, Absent}]

Seen(layer, k) ==
  IF layer[k] = NoEntry THEN origin[k] ELSE [value |-> layer[k], source |-> "ui"]

Typed(layer, batch) ==
  [k \in AllKeys |->
     IF k \notin Keys \/ batch[k] = Absent THEN layer[k]
     ELSE IF batch[k] = Blank THEN NoEntry ELSE batch[k]]

Untyped == [k \in AllKeys |-> NoEntry]

Init ==
  /\ origin \in [AllKeys -> Origins \cup {NoEntry}]
  /\ ui = [b \in Backends |-> Untyped]
  /\ view = [b \in Backends |-> origin]

Configure ==
  \E b \in Backends, batch \in Batches :
    /\ ui' = [ui EXCEPT ![b] = Typed(@, batch)]
    /\ view' = [view EXCEPT ![b] = [k \in AllKeys |-> Seen(Typed(ui[b], batch), k)]]
    /\ UNCHANGED origin

Restart ==
  /\ ui' = [b \in Backends |-> Untyped]
  /\ view' = [b \in Backends |-> origin]
  /\ UNCHANGED origin

Next == Configure \/ Restart

Spec == Init /\ [][Next]_vars
=============================================================================
