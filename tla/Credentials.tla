------------------------------ MODULE Credentials ------------------------------
(***************************************************************************)
(* The credentials of the backends and the readiness checks made on them,  *)
(* called by concurrent request threads.                                   *)
(*                                                                         *)
(* Every backend keeps one entry per key.  An entry made in the UI carries *)
(* the entry it replaced as its fallback.  A batch of changes is applied   *)
(* within one critical section of _credentials_lock, hence in one step; a  *)
(* readiness check takes that lock anew for every credential it asks for.  *)
(* A configure request goes through all backends, building those nobody    *)
(* has asked for yet; if that fails it ends there, half way.  (Until it is *)
(* built a backend's entries are those it will start with.)                *)
(***************************************************************************)
EXTENDS Naturals, Sequences

CONSTANTS
  Backends,     \* backend objects
  Order,        \* the backends of the sorted targets: configured in turn
  Prebuilt,     \* those make_handler builds
  Keys,         \* CREDENTIAL_KEYS
  TfKey,        \* TF_TOKEN_<hostname>
  Alias,        \* HCP_TERRAFORM_TOKEN
  HcpToken,     \* HCP_TOKEN_REQUIREMENT, which either of them meets
  Required,     \* the requirements of the target asked about
  Values, Blank, Absent, NoEntry,   \* as in LayeredCredentials
  Sent,         \* the batches of changes that clients send
  Threads,      \* request threads
  MaxRequests,  \* bound: requests ever made
  MaxRestarts   \* bound: restarts of the server

AllKeys == Keys \cup {TfKey}

ASSUME KeyAssumption      == TfKey \notin Keys /\ Alias \in Keys /\ HcpToken \notin AllKeys
ASSUME OrderAssumption    == /\ Order \in Seq(Backends) /\ Order # << >>
                             /\ Backends = {Order[i] : i \in 1..Len(Order)}
                             /\ Prebuilt \subseteq Backends
ASSUME RequiredAssumption == Required \in Seq(Keys \cup {HcpToken})
ASSUME ValueAssumption    == /\ Blank # Absent
                             /\ {Blank, Absent, NoEntry} \cap Values = {}
ASSUME BoundAssumption    == {MaxRequests, MaxRestarts} \subseteq Nat

VARIABLES
  origin,    \* what the environment and the .env file define
  entries,   \* _credentials of every backend
  built,     \* the backends in the cache of get_active_backend
  pc,        \* per thread: where its request is
  batch,     \* per thread: the credentials of its configure request
  left,      \* per thread: the backends still to configure and ask
  todo,      \* per thread: the requirements still to look up
  missing, sources, \* per thread: what its get_auth_status has found
  seen,      \* history: per thread, the entries its check could have read
  torn,      \* history: the keys some backends may hold otherwise than others
  sure,      \* history: per thread, the keys its configure request alone is at
             \* work on, so that they are no longer torn once it is through
  requests, restarts

vars == <<origin, entries, built, pc, batch, left, todo, missing, sources,
          seen, torn, sure, requests, restarts>>

Origins   == [value: Values, source: {"env", "dotenv"}]
UiEntries == [value: Values, source: {"ui"}, fallback: Origins \cup {NoEntry}]
Entries   == Origins \cup UiEntries \cup {NoEntry}
Batches   == [AllKeys -> Values \cup {Blank, Absent}]

ASSUME SentAssumption    == Sent \subseteq Batches
ASSUME NoEntryAssumption == NoEntry \notin Origins \cup UiEntries

-----------------------------------------------------------------------------
(* _apply_credential_value.                                                *)

IsUi(entry) == entry # NoEntry /\ entry.source = "ui"

\* Mutated form: overwriting a UI entry takes that entry for the fallback.
UiEntryNested(value, existing) ==
  [value |-> value, source |-> "ui",
   fallback |-> IF existing = NoEntry THEN NoEntry
                ELSE [value |-> existing.value, source |-> "env"]]

\* _ui_credential_entry: the first UI value of a key keeps what it replaces,
\* later ones hand it on.
UiEntry(value, existing) ==
  [value |-> value, source |-> "ui",
   fallback |-> IF IsUi(existing) THEN existing.fallback ELSE existing]

\* Mutated form: a blank value is stored like any other.
AppliedBlank(existing, value) == UiEntry(value, existing)

\* A blank value removes a UI entry and leaves any other alone.
Applied(existing, value) ==
  IF value # Blank THEN UiEntry(value, existing)
  ELSE IF IsUi(existing) THEN existing.fallback ELSE existing

\* The loop of configure_credentials; it skips keys it does not know.
Configured(old, changes) ==
  [k \in AllKeys |-> IF k \in Keys /\ changes[k] # Absent
                     THEN Applied(old[k], changes[k]) ELSE old[k]]

\* The keys a batch sets or clears.
Named(changes) == {k \in Keys : changes[k] # Absent}

-----------------------------------------------------------------------------
(* What get_auth_status asks of the entries.                               *)

\* _credential_value(key) is not empty.
Present(item, r) ==
  IF r = HcpToken THEN item[TfKey] # NoEntry \/ item[Alias] # NoEntry
                  ELSE item[r] # NoEntry

\* Mutated form: the alias is not looked up.
HasSourceNoAlias(item, r) ==
  IF r = HcpToken THEN item[TfKey] # NoEntry ELSE item[r] # NoEntry

\* _auth_source lists the requirement.
HasSource(item, r) ==
  IF r = HcpToken THEN item[TfKey] # NoEntry \/ item[Alias] # NoEntry
                  ELSE item[r] # NoEntry

Requirements == {Required[i] : i \in 1..Len(Required)}

-----------------------------------------------------------------------------
Locations == {"idle", "configure", "check", "answer"}

Nothing == [k \in AllKeys |-> Absent]

Init ==
  /\ origin \in [AllKeys -> Origins \cup {NoEntry}]
  /\ entries = [b \in Backends |-> origin]
  /\ built = Prebuilt
  /\ pc = [t \in Threads |-> "idle"]
  /\ batch = [t \in Threads |-> Nothing]
  /\ left = [t \in Threads |-> << >>]
  /\ todo = [t \in Threads |-> << >>]
  /\ missing = [t \in Threads |-> {}]
  /\ sources = [t \in Threads |-> {}]
  /\ seen = [t \in Threads |-> {}]
  /\ torn = {}
  /\ sure = [t \in Threads |-> {}]
  /\ requests = 0
  /\ restarts = 0

Checking == {"check", "answer"}

AskStatus(t) ==
  /\ pc[t] = "idle"
  /\ requests < MaxRequests
  /\ \E b \in Backends :
       /\ left' = [left EXCEPT ![t] = <<b>>]
       /\ seen' = [seen EXCEPT ![t] = {entries[b]}]
       /\ built' = built \cup {b}
  /\ todo' = [todo EXCEPT ![t] = Required]
  /\ pc' = [pc EXCEPT ![t] = "check"]
  /\ requests' = requests + 1
  /\ UNCHANGED <<origin, entries, batch, missing, sources, torn, sure, restarts>>

\* The keys of a batch are torn while it is at work, and surely its own only if
\* no other request works on them.
Note(t, new) ==
  /\ torn' = torn \cup Named(new)
  /\ sure' = [u \in Threads |->
       IF u = t THEN Named(new) \ UNION {Named(batch[v]) : v \in Threads}
                ELSE sure[u] \ Named(new)]

\* Mutated form: only the first backend is configured.
AskConfigureOne(t) ==
  /\ pc[t] = "idle"
  /\ requests < MaxRequests
  /\ \E new \in Sent : batch' = [batch EXCEPT ![t] = new] /\ Note(t, new)
  /\ left' = [left EXCEPT ![t] = <<Head(Order)>>]
  /\ pc' = [pc EXCEPT ![t] = "configure"]
  /\ requests' = requests + 1
  /\ UNCHANGED <<origin, entries, built, todo, missing, sources, seen, restarts>>

AskConfigure(t) ==
  /\ pc[t] = "idle"
  /\ requests < MaxRequests
  /\ \E new \in Sent : batch' = [batch EXCEPT ![t] = new] /\ Note(t, new)
  /\ left' = [left EXCEPT ![t] = Order]
  /\ pc' = [pc EXCEPT ![t] = "configure"]
  /\ requests' = requests + 1
  /\ UNCHANGED <<origin, entries, built, todo, missing, sources, seen, restarts>>

\* get_active_backend, and configure_credentials of what it returns up to its
\* call of get_auth_status.
Configure(t) ==
  /\ pc[t] = "configure"
  /\ LET b   == Head(left[t])
         new == Configured(entries[b], batch[t])
     IN  /\ entries' = [entries EXCEPT ![b] = new]
         /\ seen' = [u \in Threads |->
              IF u = t THEN {new}
              ELSE IF pc[u] \in Checking /\ Head(left[u]) = b THEN seen[u] \cup {new}
              ELSE seen[u]]
         /\ built' = built \cup {b}
  /\ todo' = [todo EXCEPT ![t] = Required]
  /\ pc' = [pc EXCEPT ![t] = "check"]
  /\ UNCHANGED <<origin, batch, left, missing, sources, torn, sure, requests, restarts>>

\* The constructor of the next backend raises: the request is over, and the
\* backends configured so far stay so.
BuildFails(t) ==
  /\ pc[t] = "configure"
  /\ Head(left[t]) \notin built
  /\ pc' = [pc EXCEPT ![t] = "idle"]
  /\ batch' = [batch EXCEPT ![t] = Nothing]
  /\ left' = [left EXCEPT ![t] = << >>]
  /\ sure' = [sure EXCEPT ![t] = {}]
  /\ UNCHANGED <<origin, entries, built, todo, missing, sources, seen, torn,
                 requests, restarts>>

\* One round of the comprehension that collects the missing credentials.
LookUp(t) ==
  /\ pc[t] = "check"
  /\ todo[t] # << >>
  /\ todo' = [todo EXCEPT ![t] = Tail(@)]
  /\ \/ /\ Present(entries[Head(left[t])], Head(todo[t]))
        /\ UNCHANGED missing
     \/ /\ ~Present(entries[Head(left[t])], Head(todo[t]))
        /\ missing' = [missing EXCEPT ![t] = @ \cup {Head(todo[t])}]
  /\ UNCHANGED <<origin, entries, built, pc, batch, left, sources, seen, torn, sure,
                 requests, restarts>>

CollectSources(t) ==
  /\ pc[t] = "check"
  /\ todo[t] = << >>
  /\ sources' = [sources EXCEPT ![t] =
       {r \in Requirements : HasSource(entries[Head(left[t])], r)}]
  /\ pc' = [pc EXCEPT ![t] = "answer"]
  /\ UNCHANGED <<origin, entries, built, batch, left, todo, missing, seen, torn, sure,
                 requests, restarts>>

\* get_auth_status returns; a configure request goes on to the next backend.
Answer(t) ==
  /\ pc[t] = "answer"
  /\ left' = [left EXCEPT ![t] = Tail(@)]
  /\ missing' = [missing EXCEPT ![t] = {}]
  /\ sources' = [sources EXCEPT ![t] = {}]
  /\ seen' = [seen EXCEPT ![t] = {}]
  /\ \/ /\ Tail(left[t]) # << >>
        /\ pc' = [pc EXCEPT ![t] = "configure"]
        /\ UNCHANGED <<batch, torn, sure>>
     \/ /\ Tail(left[t]) = << >>
        /\ pc' = [pc EXCEPT ![t] = "idle"]
        /\ batch' = [batch EXCEPT ![t] = Nothing]
        /\ torn' = torn \ sure[t]
        /\ sure' = [sure EXCEPT ![t] = {}]
  /\ UNCHANGED <<origin, entries, built, todo, requests, restarts>>

\* The server is started again: only what comes from outside survives.
Restart ==
  /\ restarts < MaxRestarts
  /\ restarts' = restarts + 1
  /\ entries' = [b \in Backends |-> origin]
  /\ built' = Prebuilt
  /\ pc' = [t \in Threads |-> "idle"]
  /\ batch' = [t \in Threads |-> Nothing]
  /\ left' = [t \in Threads |-> << >>]
  /\ todo' = [t \in Threads |-> << >>]
  /\ missing' = [t \in Threads |-> {}]
  /\ sources' = [t \in Threads |-> {}]
  /\ seen' = [t \in Threads |-> {}]
  /\ torn' = {}
  /\ sure' = [t \in Threads |-> {}]
  /\ UNCHANGED <<origin, requests>>

Quiet ==
  /\ \A t \in Threads : pc[t] = "idle"
  /\ UNCHANGED vars

Next ==
  \/ \E t \in Threads : \/ AskStatus(t) \/ AskConfigure(t)
                        \/ Configure(t) \/ BuildFails(t)
                        \/ LookUp(t) \/ CollectSources(t) \/ Answer(t)
  \/ Restart \/ Quiet

Spec == Init /\ [][Next]_vars

-----------------------------------------------------------------------------
(* Properties.                                                             *)

\* Every variable has its type.
TypeOK ==
  /\ origin \in [AllKeys -> Origins \cup {NoEntry}]
  /\ entries \in [Backends -> [AllKeys -> Entries]]
  /\ pc \in [Threads -> Locations]
  /\ batch \in [Threads -> Batches]
  /\ left \in [Threads -> Seq(Backends)]
  /\ \A t \in Threads : pc[t] # "idle" => left[t] # << >>
  /\ todo \in [Threads -> Seq(Requirements)]
  /\ missing \in [Threads -> SUBSET Requirements]
  /\ sources \in [Threads -> SUBSET Requirements]
  /\ seen \in [Threads -> SUBSET [AllKeys -> Entries]]
  /\ built \subseteq Backends
  /\ torn \subseteq Keys
  /\ sure \in [Threads -> SUBSET Keys]
  /\ {requests, restarts} \subseteq Nat

\* What the process was started with is the fallback of an entry of the UI and
\* any other entry itself.
Remembers(entry, first) == first = IF IsUi(entry) THEN entry.fallback ELSE entry

\* However often a key was overwritten and cleared, its entry remembers exactly
\* what the process was started with.
EntriesRememberOrigin ==
  \A b \in Backends : \A k \in AllKeys : Remembers(entries[b][k], origin[k])

\* What an entry contributes to the layer of typed values, and what it shows.
UiValue(entry) == IF IsUi(entry) THEN entry.value ELSE NoEntry
Shown(entry) ==
  IF entry = NoEntry THEN NoEntry ELSE [value |-> entry.value, source |-> entry.source]

Layered == INSTANCE LayeredCredentials WITH
  ui   <- [b \in Backends |-> [k \in AllKeys |-> UiValue(entries[b][k])]],
  view <- [b \in Backends |-> [k \in AllKeys |-> Shown(entries[b][k])]]

\* The entries with their fallbacks implement two layers of credentials:
\* clearing a typed value uncovers what the process was started with, through
\* any sequence of batches, clearings and restarts.
IsLayered == Layered!Spec

\* A status blames or credits each requirement for what was so at some moment
\* of the check, and one that no configure request disturbed lists a source
\* for exactly the requirements it does not call missing.
StatusExplained ==
  \A t \in Threads : pc[t] = "answer" =>
    /\ \A r \in Requirements :
         \E item \in seen[t] : r \in missing[t] <=> ~Present(item, r)
    /\ \A item \in seen[t] : seen[t] = {item} =>
         sources[t] = Requirements \ missing[t]

\* A credential differs between backends only where a configure request that
\* names it is at work, or the last such requests overlapped or ended half way:
\* the next one that runs through, with no other naming the credential at work
\* meanwhile, makes all backends hold the same again, whatever they held before.
BackendsAgree ==
  \A k \in AllKeys \ torn : \A b, c \in Backends : entries[b][k] = entries[c][k]

=============================================================================
