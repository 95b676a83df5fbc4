--------------------------- MODULE CredentialsProofs ---------------------------
(***************************************************************************)
(* Theorems about Credentials, for any backends, keys and values, any      *)
(* number of threads, and any batches clients may send.                    *)
(***************************************************************************)
EXTENDS Credentials, TLAPS

-----------------------------------------------------------------------------
(* One entry.                                                              *)

\* Applying one value to an entry that remembers where its key started.
LEMMA ApplyOne ==
  ASSUME NEW existing \in Entries, NEW first \in Origins \cup {NoEntry},
         Remembers(existing, first), NEW value \in Values \cup {Blank}
  PROVE  /\ Applied(existing, value) \in Entries
         /\ Remembers(Applied(existing, value), first)
         /\ UiValue(Applied(existing, value)) = (IF value = Blank THEN NoEntry ELSE value)
<1> USE ValueAssumption, NoEntryAssumption
<1>1. \A o \in Origins : o # NoEntry /\ o.source # "ui"
  BY DEF Origins
<1>2. first # NoEntry => ~IsUi(first)
  BY <1>1 DEF IsUi
<1>3. CASE value = Blank
  <2>1. Applied(existing, value) = first
    BY <1>3 DEF Applied, Remembers
  <2> QED BY <1>1, <1>2, <1>3, <2>1 DEF Entries, Remembers, UiValue, IsUi
<1>4. CASE value # Blank
  <2> DEFINE new == [value |-> value, source |-> "ui", fallback |-> first]
  <2>1. Applied(existing, value) = new
    BY <1>4 DEF Applied, UiEntry, Remembers
  <2>2. value \in Values
    BY <1>4
  <2>3. new \in UiEntries
    BY <2>2 DEF UiEntries
  <2>4. new # NoEntry
    BY <2>3
  <2>5. IsUi(new) /\ new.fallback = first /\ new.value = value
    BY <2>4 DEF IsUi
  <2> HIDE DEF new
  <2> QED BY <1>4, <2>1, <2>3, <2>5 DEF Entries, Remembers, UiValue
<1> QED BY <1>3, <1>4

\* What an entry shows is its typed value, or else where its key started.
LEMMA ShownIsLayered ==
  ASSUME NEW entry \in Entries, NEW first \in Origins \cup {NoEntry}, Remembers(entry, first)
  PROVE  Shown(entry) = (IF UiValue(entry) = NoEntry THEN first
                         ELSE [value |-> UiValue(entry), source |-> "ui"])
<1> USE ValueAssumption, NoEntryAssumption
<1>1. CASE IsUi(entry)
  <2>1. entry \in UiEntries
    BY <1>1 DEF IsUi, Entries, Origins
  <2>2. entry # NoEntry /\ entry.value \in Values /\ entry.source = "ui"
    BY <2>1 DEF UiEntries
  <2>3. UiValue(entry) = entry.value /\ entry.value # NoEntry
    BY <1>1, <2>2 DEF UiValue
  <2> QED BY <2>2, <2>3 DEF Shown
<1>2. CASE ~IsUi(entry)
  <2>1. first = entry /\ UiValue(entry) = NoEntry
    BY <1>2 DEF Remembers, UiValue
  <2>2. entry \in Origins \/ entry = NoEntry
    BY <2>1
  <2>3. ASSUME entry \in Origins
        PROVE  [value |-> entry.value, source |-> entry.source] = entry
    BY <2>3 DEF Origins
  <2> QED BY <2>1, <2>2, <2>3 DEF Shown
<1> QED BY <1>1, <1>2

\* A whole batch, key by key.
LEMMA ApplyBatch ==
  ASSUME NEW old \in [AllKeys -> Entries],
         origin \in [AllKeys -> Origins \cup {NoEntry}],
         \A k \in AllKeys : Remembers(old[k], origin[k]),
         NEW changes \in Batches
  PROVE  /\ Configured(old, changes) \in [AllKeys -> Entries]
         /\ \A k \in AllKeys :
              /\ Remembers(Configured(old, changes)[k], origin[k])
              /\ UiValue(Configured(old, changes)[k]) =
                   (IF k \notin Keys \/ changes[k] = Absent THEN UiValue(old[k])
                    ELSE IF changes[k] = Blank THEN NoEntry ELSE changes[k])
<1>1. ASSUME NEW k \in AllKeys
      PROVE  /\ Configured(old, changes)[k] \in Entries
             /\ Remembers(Configured(old, changes)[k], origin[k])
             /\ UiValue(Configured(old, changes)[k]) =
                  (IF k \notin Keys \/ changes[k] = Absent THEN UiValue(old[k])
                   ELSE IF changes[k] = Blank THEN NoEntry ELSE changes[k])
  <2>1. old[k] \in Entries /\ origin[k] \in Origins \cup {NoEntry}
    OBVIOUS
  <2>2. CASE k \notin Keys \/ changes[k] = Absent
    <3>1. Configured(old, changes)[k] = old[k]
      BY <2>2 DEF Configured
    <3> QED BY <2>1, <2>2, <3>1
  <2>3. CASE k \in Keys /\ changes[k] # Absent
    <3>1. Configured(old, changes)[k] = Applied(old[k], changes[k])
      BY <2>3 DEF Configured
    <3>2. changes[k] \in Values \cup {Blank}
      BY <2>3 DEF Batches
    <3> QED BY <2>1, <2>3, <3>1, <3>2, ApplyOne
  <2> QED BY <2>2, <2>3
<1>2. Configured(old, changes) = [k \in AllKeys |-> Configured(old, changes)[k]]
  BY DEF Configured
<1> HIDE DEF Configured
<1> QED BY <1>1, <1>2

-----------------------------------------------------------------------------
(* The inductive invariant: types, and what every entry remembers.         *)

IInv == TypeOK /\ EntriesRememberOrigin

\* The batch that changes nothing is a batch.
LEMMA NothingTyped == Nothing \in Batches
BY DEF Nothing, Batches

\* At the start every entry is the origin itself.
LEMMA InitEstablishes == Init => IInv
<1> SUFFICES ASSUME Init PROVE IInv
  OBVIOUS
<1> USE DEF Init
<1>1. \A o \in Origins : o.source # "ui"
  BY DEF Origins
<1>2. /\ batch \in [Threads -> Batches]
      /\ left \in [Threads -> Seq(Backends)]
      /\ todo \in [Threads -> Seq(Requirements)]
  <2>1. << >> \in Seq(Backends) /\ << >> \in Seq(Requirements)
    OBVIOUS
  <2> QED BY <2>1, NothingTyped
<1>3. entries \in [Backends -> [AllKeys -> Entries]]
  BY DEF Entries
<1>4. TypeOK
  <2>1. /\ pc \in [Threads -> Locations]
        /\ \A t \in Threads : pc[t] # "idle" => left[t] # << >>
    BY DEF Locations
  <2>2. /\ missing \in [Threads -> SUBSET Requirements]
        /\ sources \in [Threads -> SUBSET Requirements]
        /\ seen \in [Threads -> SUBSET [AllKeys -> Entries]]
    OBVIOUS
  <2>3. {requests, restarts} \subseteq Nat
    OBVIOUS
  <2>4. built \subseteq Backends /\ torn \subseteq Keys /\ sure \in [Threads -> SUBSET Keys]
    BY OrderAssumption
  <2> QED BY <1>2, <1>3, <2>1, <2>2, <2>3, <2>4 DEF TypeOK
<1>5. EntriesRememberOrigin
  BY <1>1 DEF EntriesRememberOrigin, Remembers, IsUi
<1> QED BY <1>4, <1>5 DEF IInv

\* Only Configure and Restart change an entry, so for the other steps the
\* types are all there is to show.
LEMMA EntriesUnchanged ==
  ASSUME EntriesRememberOrigin, entries' = entries, origin' = origin
  PROVE  EntriesRememberOrigin'
BY DEF EntriesRememberOrigin, Remembers, IsUi

\* What a check is to look up consists of requirements.
LEMMA RequirementsTyped == Required \in Seq(Requirements)
BY RequiredAssumption DEF Requirements

\* A status request starts a check and leaves the entries alone.
LEMMA AskStatusKeeps ==
  ASSUME IInv, NEW t \in Threads, AskStatus(t)
  PROVE  IInv'
<1> USE DEF IInv
<1>1. PICK b \in Backends : /\ left' = [left EXCEPT ![t] = <<b>>]
                            /\ seen' = [seen EXCEPT ![t] = {entries[b]}]
  BY DEF AskStatus
<1>2. /\ left' \in [Threads -> Seq(Backends)]
      /\ \A u \in Threads : pc'[u] # "idle" => left'[u] # << >>
      /\ seen' \in [Threads -> SUBSET [AllKeys -> Entries]]
  BY <1>1 DEF TypeOK, AskStatus
<1>3. todo' \in [Threads -> Seq(Requirements)]
  BY RequirementsTyped DEF TypeOK, AskStatus
<1>4. pc' \in [Threads -> Locations] /\ requests' \in Nat /\ restarts' \in Nat
  BY DEF TypeOK, AskStatus, Locations
<1>5. built' \subseteq Backends
  BY DEF TypeOK, AskStatus
<1> QED BY <1>2, <1>3, <1>4, <1>5, EntriesUnchanged DEF AskStatus, TypeOK

\* A configure request that comes in has all of Order before it.
LEMMA AskConfigureKeeps ==
  ASSUME IInv, NEW t \in Threads, AskConfigure(t)
  PROVE  IInv'
<1> USE DEF IInv
<1>1. batch' \in [Threads -> Batches]
  BY SentAssumption DEF TypeOK, AskConfigure
<1>2. /\ left' \in [Threads -> Seq(Backends)]
      /\ \A u \in Threads : pc'[u] # "idle" => left'[u] # << >>
  BY OrderAssumption DEF TypeOK, AskConfigure
<1>3. pc' \in [Threads -> Locations] /\ requests' \in Nat /\ restarts' \in Nat
  BY DEF TypeOK, AskConfigure, Locations
<1>4. torn' \subseteq Keys /\ sure' \in [Threads -> SUBSET Keys]
  <2>1. PICK new \in Sent : Note(t, new)
    BY DEF AskConfigure
  <2> QED BY <2>1 DEF TypeOK, Note, Named
<1> QED BY <1>1, <1>2, <1>3, <1>4, EntriesUnchanged DEF AskConfigure, TypeOK

\* Where Configure works, and on what.
LEMMA ConfigureFacts ==
  ASSUME IInv, NEW t \in Threads, Configure(t)
  PROVE  /\ Head(left[t]) \in Backends
         /\ batch[t] \in Batches
         /\ entries[Head(left[t])] \in [AllKeys -> Entries]
         /\ \A k \in AllKeys : Remembers(entries[Head(left[t])][k], origin[k])
         /\ origin \in [AllKeys -> Origins \cup {NoEntry}]
<1>1. left[t] \in Seq(Backends) /\ left[t] # << >> /\ batch[t] \in Batches
  BY DEF IInv, TypeOK, Configure
<1>2. Head(left[t]) \in Backends
  BY <1>1
<1> QED BY <1>1, <1>2 DEF IInv, TypeOK, EntriesRememberOrigin

\* The backend that is configured remembers what it did; the others are left alone.
LEMMA ConfigureKeeps ==
  ASSUME IInv, NEW t \in Threads, Configure(t)
  PROVE  IInv'
<1> USE DEF IInv
<1> DEFINE b     == Head(left[t])
           after == Configured(entries[b], batch[t])
<1>1. /\ b \in Backends
      /\ after \in [AllKeys -> Entries]
      /\ \A k \in AllKeys : Remembers(after[k], origin[k])
  BY ConfigureFacts, ApplyBatch
<1>2. /\ entries' = [entries EXCEPT ![b] = after]
      /\ seen' = [u \in Threads |->
           IF u = t THEN {after}
           ELSE IF pc[u] \in Checking /\ Head(left[u]) = b THEN seen[u] \cup {after}
           ELSE seen[u]]
      /\ origin' = origin
  BY DEF Configure
<1> HIDE DEF after, b
<1>3. seen' \in [Threads -> SUBSET [AllKeys -> Entries]]
  <2>1. \A u \in Threads : seen'[u] \in SUBSET [AllKeys -> Entries]
    BY <1>1, <1>2 DEF TypeOK
  <2> QED BY <1>2, <2>1
<1>4. todo' \in [Threads -> Seq(Requirements)]
  BY RequirementsTyped DEF TypeOK, Configure
<1>5. /\ pc' \in [Threads -> Locations]
      /\ \A u \in Threads : pc'[u] # "idle" => left'[u] # << >>
  BY DEF TypeOK, Configure, Locations
<1>6. entries' \in [Backends -> [AllKeys -> Entries]] /\ built' \subseteq Backends
  <2>1. entries' \in [Backends -> [AllKeys -> Entries]]
    BY <1>1, <1>2 DEF TypeOK
  <2>2. built' = built \cup {b}
    BY DEF Configure, b
  <2> QED BY <1>1, <2>1, <2>2 DEF TypeOK
<1>7. EntriesRememberOrigin'
  <2> SUFFICES ASSUME NEW c \in Backends, NEW k \in AllKeys
               PROVE  Remembers(entries'[c][k], origin'[k])
    BY DEF EntriesRememberOrigin, Remembers, IsUi
  <2>1. CASE c = b
    BY <1>1, <1>2, <2>1 DEF TypeOK
  <2>2. CASE c # b
    BY <1>2, <2>2 DEF TypeOK, EntriesRememberOrigin
  <2> QED BY <2>1, <2>2
<1> QED BY <1>3, <1>4, <1>5, <1>6, <1>7 DEF Configure, TypeOK

\* Nor does a request that ends half way touch an entry.
LEMMA BuildFailsKeeps ==
  ASSUME IInv, NEW t \in Threads, BuildFails(t)
  PROVE  IInv'
<1> USE DEF IInv
<1>1. /\ left' \in [Threads -> Seq(Backends)]
      /\ pc' \in [Threads -> Locations]
      /\ \A u \in Threads : pc'[u] # "idle" => left'[u] # << >>
  <2>1. << >> \in Seq(Backends)
    OBVIOUS
  <2> QED BY <2>1 DEF TypeOK, BuildFails, Locations
<1>2. batch' \in [Threads -> Batches] /\ sure' \in [Threads -> SUBSET Keys]
  BY NothingTyped DEF TypeOK, BuildFails
<1> QED BY <1>1, <1>2, EntriesUnchanged DEF BuildFails, TypeOK

\* Looking a credential up leaves the entries alone.
LEMMA LookUpKeeps ==
  ASSUME IInv, NEW t \in Threads, LookUp(t)
  PROVE  IInv'
<1> USE DEF IInv
<1>1. /\ todo[t] \in Seq(Requirements)
      /\ todo[t] # << >>
  BY DEF TypeOK, LookUp
<1>2. Head(todo[t]) \in Requirements /\ Tail(todo[t]) \in Seq(Requirements)
  BY <1>1
<1>3. todo' \in [Threads -> Seq(Requirements)]
  BY <1>2 DEF TypeOK, LookUp
<1>4. missing' \in [Threads -> SUBSET Requirements]
  <2>1. CASE missing' = missing
    BY <2>1 DEF TypeOK
  <2>2. CASE missing' = [missing EXCEPT ![t] = @ \cup {Head(todo[t])}]
    BY <1>2, <2>2 DEF TypeOK
  <2> QED BY <2>1, <2>2 DEF LookUp
<1> QED BY <1>3, <1>4, EntriesUnchanged DEF LookUp, TypeOK

\* So does collecting the sources.
LEMMA CollectSourcesKeeps ==
  ASSUME IInv, NEW t \in Threads, CollectSources(t)
  PROVE  IInv'
<1> USE DEF IInv
<1>1. sources' \in [Threads -> SUBSET Requirements]
  BY DEF TypeOK, CollectSources
<1>2. /\ pc' \in [Threads -> Locations]
      /\ \A u \in Threads : pc'[u] # "idle" => left'[u] # << >>
  BY DEF TypeOK, CollectSources, Locations
<1> QED BY <1>1, <1>2, EntriesUnchanged DEF CollectSources, TypeOK

\* A request goes on to the next backend only if there is one.
LEMMA AnswerKeeps ==
  ASSUME IInv, NEW t \in Threads, Answer(t)
  PROVE  IInv'
<1> USE DEF IInv
<1>1. Tail(left[t]) \in Seq(Backends)
  BY DEF TypeOK, Answer
<1>2. /\ left' \in [Threads -> Seq(Backends)]
      /\ pc' \in [Threads -> Locations]
      /\ \A u \in Threads : pc'[u] # "idle" => left'[u] # << >>
  BY <1>1 DEF TypeOK, Answer, Locations
<1>3. batch' \in [Threads -> Batches]
  BY NothingTyped DEF TypeOK, Answer
<1>4. /\ missing' \in [Threads -> SUBSET Requirements]
      /\ sources' \in [Threads -> SUBSET Requirements]
      /\ seen' \in [Threads -> SUBSET [AllKeys -> Entries]]
  BY DEF TypeOK, Answer
<1>5. torn' \subseteq Keys /\ sure' \in [Threads -> SUBSET Keys]
  BY DEF TypeOK, Answer
<1> QED BY <1>2, <1>3, <1>4, <1>5, EntriesUnchanged DEF Answer, TypeOK

\* After a restart every entry is the origin itself.
LEMMA RestartKeeps ==
  ASSUME IInv, Restart
  PROVE  IInv'
<1> USE DEF IInv
<1>1. \A o \in Origins : o.source # "ui"
  BY DEF Origins
<1>2. /\ batch' \in [Threads -> Batches]
      /\ left' \in [Threads -> Seq(Backends)]
      /\ todo' \in [Threads -> Seq(Requirements)]
  <2>1. << >> \in Seq(Backends) /\ << >> \in Seq(Requirements)
    OBVIOUS
  <2> QED BY <2>1, NothingTyped DEF Restart
<1>3. entries' \in [Backends -> [AllKeys -> Entries]]
  BY DEF Entries, Restart, TypeOK
<1>4. TypeOK'
  <2>1. /\ pc' \in [Threads -> Locations]
        /\ \A t \in Threads : pc'[t] # "idle" => left'[t] # << >>
    BY DEF Locations, Restart
  <2>2. /\ missing' \in [Threads -> SUBSET Requirements]
        /\ sources' \in [Threads -> SUBSET Requirements]
        /\ seen' \in [Threads -> SUBSET [AllKeys -> Entries]]
    BY DEF Restart
  <2>3. {requests, restarts}' \subseteq Nat
    BY DEF Restart, TypeOK
  <2>4. (built \subseteq Backends /\ torn \subseteq Keys /\ sure \in [Threads -> SUBSET Keys])'
    BY OrderAssumption DEF Restart
  <2> QED BY <1>2, <1>3, <2>1, <2>2, <2>3, <2>4 DEF TypeOK, Restart
<1>5. EntriesRememberOrigin'
  BY <1>1 DEF EntriesRememberOrigin, Remembers, IsUi, Restart, TypeOK
<1> QED BY <1>4, <1>5

\* Every step keeps the invariant.
LEMMA NextKeeps == IInv /\ [Next]_vars => IInv'
<1> SUFFICES ASSUME IInv, [Next]_vars PROVE IInv'
  OBVIOUS
<1>1. CASE UNCHANGED vars
  <2>1. TypeOK'
    BY <1>1 DEF IInv, TypeOK, vars
  <2> QED BY <1>1, <2>1, EntriesUnchanged DEF IInv, vars
<1>2. CASE Next
  <2>1. CASE Quiet
    BY <1>1, <2>1 DEF Quiet
  <2>2. CASE Restart
    BY <2>2, RestartKeeps
  <2>3. ASSUME NEW t \in Threads,
               \/ AskStatus(t) \/ AskConfigure(t) \/ Configure(t) \/ BuildFails(t)
               \/ LookUp(t) \/ CollectSources(t) \/ Answer(t)
        PROVE  IInv'
    BY <2>3, AskStatusKeeps, AskConfigureKeeps, ConfigureKeeps, BuildFailsKeeps, LookUpKeeps,
       CollectSourcesKeeps, AnswerKeeps
  <2> QED BY <1>2, <2>1, <2>2, <2>3 DEF Next
<1> QED BY <1>1, <1>2

\* The types, and what entries remember, hold in every reachable state.
THEOREM Invariant == Spec => []IInv
BY InitEstablishes, NextKeeps, PTL DEF Spec

\* Every variable of Credentials keeps its type: in particular a request that
\* is at work always has a backend left to work on, so the next Head of it is
\* defined.
THEOREM TypeCorrect == Spec => []TypeOK
<1>1. IInv => TypeOK
  BY DEF IInv
<1> QED BY <1>1, Invariant, PTL

\* Whatever is typed, overwritten and cleared by any number of concurrent
\* requests: an entry remembers exactly what the process was started with
\* (_ui_credential_entry hands the fallback on, never a typed value).
THEOREM OriginRemembered == Spec => []EntriesRememberOrigin
<1>1. IInv => EntriesRememberOrigin
  BY DEF IInv
<1> QED BY <1>1, Invariant, PTL

-----------------------------------------------------------------------------
(* The refinement of the two layers of LayeredCredentials.                 *)

\* The layer of typed values and what checks see, as Layered reads them.
Ui   == [b \in Backends |-> [k \in AllKeys |-> UiValue(entries[b][k])]]
View == [b \in Backends |-> [k \in AllKeys |-> Shown(entries[b][k])]]

\* Entries made at the start show themselves and have no typed value.
LEMMA AtTheStart ==
  ASSUME NEW first \in Origins \cup {NoEntry}
  PROVE  UiValue(first) = NoEntry /\ Shown(first) = first
<1>1. CASE first = NoEntry
  BY <1>1 DEF UiValue, Shown, IsUi
<1>2. CASE first \in Origins /\ first # NoEntry
  <2>1. [value |-> first.value, source |-> first.source] = first /\ first.source # "ui"
    BY <1>2 DEF Origins
  <2> QED BY <1>2, <2>1 DEF UiValue, Shown, IsUi
<1> QED BY <1>1, <1>2

\* At the start nothing is typed and every backend shows the origin.
LEMMA InitLayered == Init => Layered!Init
<1> SUFFICES ASSUME Init PROVE Layered!Init
  OBVIOUS
<1>1. origin \in [AllKeys -> Origins \cup {NoEntry}]
  BY DEF Init
<1>2. \A b \in Backends : \A k \in AllKeys :
        UiValue(entries[b][k]) = NoEntry /\ Shown(entries[b][k]) = origin[k]
  BY <1>1, AtTheStart DEF Init
<1>3. Ui = [b \in Backends |-> Layered!Untyped]
  BY <1>2 DEF Ui, Layered!Untyped
<1>4. View = [b \in Backends |-> origin]
  <2>1. \A b \in Backends : [k \in AllKeys |-> Shown(entries[b][k])] = origin
    BY <1>1, <1>2
  <2> QED BY <2>1 DEF View
<1> QED BY <1>1, <1>3, <1>4 DEF Layered!Init, Layered!Origins, Origins, Ui, View

\* A restart loses the typed layer and nothing else.
LEMMA RestartLayered == IInv /\ Restart => Layered!Restart
<1> SUFFICES ASSUME IInv, Restart PROVE Layered!Restart
  OBVIOUS
<1>1. origin \in [AllKeys -> Origins \cup {NoEntry}] /\ origin' = origin
  BY DEF IInv, TypeOK, Restart
<1>2. \A b \in Backends : \A k \in AllKeys :
        UiValue(entries'[b][k]) = NoEntry /\ Shown(entries'[b][k]) = origin[k]
  BY <1>1, AtTheStart DEF Restart
<1>3. Ui' = [b \in Backends |-> Layered!Untyped]
  BY <1>2 DEF Ui, Layered!Untyped, UiValue, IsUi
<1>4. View' = [b \in Backends |-> origin]
  <2>1. \A b \in Backends : [k \in AllKeys |-> Shown(entries'[b][k])] = origin
    BY <1>1, <1>2
  <2> QED BY <2>1 DEF View, Shown
<1> QED BY <1>1, <1>3, <1>4 DEF Layered!Restart, Ui, View

\* What the changed backend shows after a batch is what two layers would show.
LEMMA ConfigureLayered ==
  ASSUME IInv, NEW t \in Threads, Configure(t)
  PROVE  Layered!Configure
<1> DEFINE b       == Head(left[t])
           changes == batch[t]
           old     == entries[b]
           after   == Configured(old, changes)
<1>1. /\ b \in Backends
      /\ changes \in Batches
      /\ old \in [AllKeys -> Entries]
      /\ \A k \in AllKeys : Remembers(old[k], origin[k])
      /\ origin \in [AllKeys -> Origins \cup {NoEntry}]
  BY ConfigureFacts
<1>2. /\ after \in [AllKeys -> Entries]
      /\ \A k \in AllKeys :
           /\ Remembers(after[k], origin[k])
           /\ UiValue(after[k]) =
                (IF k \notin Keys \/ changes[k] = Absent THEN UiValue(old[k])
                 ELSE IF changes[k] = Blank THEN NoEntry ELSE changes[k])
  BY <1>1, ApplyBatch
<1>3. /\ entries' = [entries EXCEPT ![b] = after]
      /\ entries \in [Backends -> [AllKeys -> Entries]]
      /\ origin' = origin
  BY DEF Configure, IInv, TypeOK
<1> HIDE DEF after
<1>4. [k \in AllKeys |-> UiValue(after[k])] = Layered!Typed(Ui[b], changes)
  BY <1>1, <1>2 DEF Layered!Typed, Ui
<1>5. [k \in AllKeys |-> Shown(after[k])]
        = [k \in AllKeys |-> Layered!Seen(Layered!Typed(Ui[b], changes), k)]
  <2> SUFFICES ASSUME NEW k \in AllKeys
               PROVE  Shown(after[k]) = Layered!Seen(Layered!Typed(Ui[b], changes), k)
    OBVIOUS
  <2>1. Shown(after[k]) = (IF UiValue(after[k]) = NoEntry THEN origin[k]
                           ELSE [value |-> UiValue(after[k]), source |-> "ui"])
    BY <1>1, <1>2, ShownIsLayered
  <2>2. Layered!Typed(Ui[b], changes)[k] = UiValue(after[k])
    BY <1>4
  <2> QED BY <2>1, <2>2 DEF Layered!Seen
<1>6. \A c \in Backends : entries'[c] = (IF c = b THEN after ELSE entries[c])
  BY <1>1, <1>3
<1>7. Ui' = [Ui EXCEPT ![b] = Layered!Typed(@, changes)]
  <2>1. \A c \in Backends :
          [k \in AllKeys |-> UiValue(entries'[c][k])]
            = IF c = b THEN Layered!Typed(Ui[b], changes) ELSE Ui[c]
    BY <1>4, <1>6 DEF Ui
  <2>2. Ui' = [c \in Backends |-> [k \in AllKeys |-> UiValue(entries'[c][k])]]
    BY DEF Ui, UiValue, IsUi
  <2> QED BY <1>1, <2>1, <2>2 DEF Ui
<1>8. View' = [View EXCEPT ![b] = [k \in AllKeys |->
                             Layered!Seen(Layered!Typed(Ui[b], changes), k)]]
  <2>1. \A c \in Backends :
          [k \in AllKeys |-> Shown(entries'[c][k])]
            = IF c = b THEN [k \in AllKeys |-> Layered!Seen(Layered!Typed(Ui[b], changes), k)]
              ELSE View[c]
    BY <1>5, <1>6 DEF View
  <2>2. View' = [c \in Backends |-> [k \in AllKeys |-> Shown(entries'[c][k])]]
    BY DEF View, Shown
  <2> QED BY <1>1, <2>1, <2>2 DEF View
<1>9. changes \in Layered!Batches
  BY <1>1 DEF Batches, Layered!Batches
<1> HIDE DEF b, changes, old
<1> QED BY <1>1, <1>3, <1>7, <1>8, <1>9 DEF Layered!Configure, Ui, View

\* Every step is one of the layers or leaves them alone.
LEMMA StepLayered == IInv /\ [Next]_vars => [Layered!Next]_(Layered!vars)
<1> SUFFICES ASSUME IInv, [Next]_vars PROVE [Layered!Next]_(Layered!vars)
  OBVIOUS
<1>1. ASSUME entries' = entries, origin' = origin
      PROVE  UNCHANGED Layered!vars
  BY <1>1 DEF Layered!vars, UiValue, Shown, IsUi
<1>2. CASE UNCHANGED vars
  BY <1>1, <1>2 DEF vars
<1>3. CASE Next
  <2>1. CASE Quiet
    BY <1>1, <2>1 DEF Quiet, vars
  <2>2. CASE Restart
    BY <2>2, RestartLayered DEF Layered!Next
  <2>3. ASSUME NEW t \in Threads, Configure(t)
        PROVE  Layered!Next
    BY <2>3, ConfigureLayered DEF Layered!Next
  <2>4. ASSUME NEW t \in Threads,
               \/ AskStatus(t) \/ AskConfigure(t) \/ BuildFails(t)
               \/ LookUp(t) \/ CollectSources(t) \/ Answer(t)
        PROVE  UNCHANGED Layered!vars
    BY <1>1, <2>4 DEF AskStatus, AskConfigure, BuildFails, LookUp, CollectSources, Answer
  <2> QED BY <1>3, <2>1, <2>2, <2>3, <2>4 DEF Next
<1> QED BY <1>2, <1>3

\* The entries with their fallbacks implement two layers of credentials: every
\* configure_credentials is one change of the typed layer of its backend, and
\* nothing else changes what a check sees.
THEOREM ImplementsLayers == Spec => IsLayered
<1>1. Init => Layered!Init
  BY InitLayered
<1>2. IInv /\ [Next]_vars => [Layered!Next]_(Layered!vars)
  BY StepLayered
<1>3. Spec => Layered!Init /\ [][Layered!Next]_(Layered!vars)
  BY <1>1, <1>2, Invariant, PTL DEF Spec
<1> QED BY <1>3 DEF IsLayered, Layered!Spec

-----------------------------------------------------------------------------
(* What a check has found: missing and sources speak of entries the check   *)
(* could have read, and seen holds all of those.                            *)

Pending(t) == {todo[t][i] : i \in 1..Len(todo[t])}

CheckKnown(t) ==
  /\ pc[t] \notin Checking => missing[t] = {}
  /\ pc[t] \in Checking =>
       /\ entries[Head(left[t])] \in seen[t]
       /\ \A r \in missing[t] : \E item \in seen[t] : ~Present(item, r)
       /\ \A r \in Requirements \ missing[t] :
            r \in Pending(t) \/ \E item \in seen[t] : Present(item, r)
  /\ pc[t] = "answer" =>
       /\ todo[t] = << >>
       /\ \A item \in seen[t] : seen[t] = {item} =>
            sources[t] = {r \in Requirements : HasSource(item, r)}

CheckInv == IInv /\ \A t \in Threads : CheckKnown(t)

\* A thread whose request a step leaves alone, its check still covered by seen,
\* knows what it knew.
LEMMA CheckFrame ==
  ASSUME NEW u \in Threads, CheckKnown(u),
         pc'[u] = pc[u], left'[u] = left[u], todo'[u] = todo[u],
         missing'[u] = missing[u], sources'[u] = sources[u],
         pc[u] \in Checking =>
           /\ seen[u] \subseteq seen'[u]
           /\ entries'[Head(left[u])] \in seen'[u]
           /\ seen'[u] # seen[u] => \E new : seen'[u] = seen[u] \cup {new}
  PROVE  CheckKnown(u)'
<1>1. CASE pc[u] \notin Checking
  BY <1>1 DEF CheckKnown, Checking
<1>2. CASE pc[u] \in Checking
  <2>1. /\ \A r \in missing'[u] : \E item \in seen'[u] : ~Present(item, r)
        /\ \A r \in Requirements \ missing'[u] :
             r \in Pending(u)' \/ \E item \in seen'[u] : Present(item, r)
    BY <1>2 DEF CheckKnown, Pending
  <2>2. ASSUME pc[u] = "answer", NEW item \in seen'[u], seen'[u] = {item}
        PROVE  sources[u] = {r \in Requirements : HasSource(item, r)}
    <3>1. entries[Head(left[u])] \in seen[u] /\ seen[u] \subseteq {item}
      BY <1>2, <2>2 DEF CheckKnown
    <3>2. item \in seen[u] /\ seen[u] = {item}
      BY <3>1
    <3> QED BY <2>2, <3>2 DEF CheckKnown
  <2>3. entries'[Head(left'[u])] \in seen'[u]
    BY <1>2
  <2>4. pc[u] = "answer" => todo'[u] = << >>
    BY DEF CheckKnown
  <2> QED BY <1>2, <2>1, <2>2, <2>3, <2>4 DEF CheckKnown
<1> QED BY <1>1, <1>2

\* At the start nobody checks anything.
LEMMA InitCheck == Init => CheckInv
<1> SUFFICES ASSUME Init PROVE CheckInv
  OBVIOUS
<1>1. \A t \in Threads : CheckKnown(t)
  BY DEF Init, CheckKnown, Checking
<1> QED BY <1>1, InitEstablishes DEF CheckInv

\* The steps that neither begin a check nor change what it reads.
LEMMA AskStatusChecks ==
  ASSUME CheckInv, NEW t \in Threads, AskStatus(t)
  PROVE  \A u \in Threads : CheckKnown(u)'
<1>1. TypeOK /\ CheckKnown(t)
  BY DEF CheckInv, IInv
<1>2. PICK b \in Backends : /\ left' = [left EXCEPT ![t] = <<b>>]
                            /\ seen' = [seen EXCEPT ![t] = {entries[b]}]
  BY DEF AskStatus
<1>3. CheckKnown(t)'
  <2>1. /\ pc'[t] = "check" /\ left'[t] = <<b>> /\ seen'[t] = {entries[b]}
        /\ todo'[t] = Required /\ missing'[t] = missing[t] /\ entries' = entries
    BY <1>1, <1>2 DEF AskStatus, TypeOK
  <2>2. missing[t] = {}
    BY <1>1 DEF CheckKnown, AskStatus, Checking
  <2>3. Requirements = Pending(t)'
    BY <2>1 DEF Requirements, Pending
  <2>4. Head(left'[t]) = b
    BY <2>1
  <2> QED BY <2>1, <2>2, <2>3, <2>4 DEF CheckKnown, Checking
<1>4. ASSUME NEW u \in Threads, u # t PROVE CheckKnown(u)'
  <2>1. /\ pc'[u] = pc[u] /\ left'[u] = left[u] /\ todo'[u] = todo[u] /\ seen'[u] = seen[u]
        /\ missing'[u] = missing[u] /\ sources'[u] = sources[u] /\ entries' = entries
    BY <1>1, <1>2, <1>4 DEF AskStatus, TypeOK
  <2>2. CheckKnown(u)
    BY DEF CheckInv
  <2>3. pc[u] \in Checking => entries[Head(left[u])] \in seen[u]
    BY <2>2 DEF CheckKnown
  <2> QED BY <2>1, <2>2, <2>3, CheckFrame
<1> QED BY <1>3, <1>4

\* A configure request that comes in has found nothing yet.
LEMMA AskConfigureChecks ==
  ASSUME CheckInv, NEW t \in Threads, AskConfigure(t)
  PROVE  \A u \in Threads : CheckKnown(u)'
<1>1. TypeOK /\ CheckKnown(t)
  BY DEF CheckInv, IInv
<1>2. CheckKnown(t)'
  <2>1. pc'[t] = "configure" /\ missing'[t] = {}
    BY <1>1 DEF AskConfigure, TypeOK, CheckKnown, Checking
  <2> QED BY <2>1 DEF CheckKnown, Checking
<1>3. ASSUME NEW u \in Threads, u # t PROVE CheckKnown(u)'
  <2>1. /\ pc'[u] = pc[u] /\ left'[u] = left[u] /\ todo'[u] = todo[u] /\ seen'[u] = seen[u]
        /\ missing'[u] = missing[u] /\ sources'[u] = sources[u] /\ entries' = entries
    BY <1>1, <1>3 DEF AskConfigure, TypeOK
  <2>2. CheckKnown(u)
    BY DEF CheckInv
  <2>3. pc[u] \in Checking => entries[Head(left[u])] \in seen[u]
    BY <2>2 DEF CheckKnown
  <2> QED BY <2>1, <2>2, <2>3, CheckFrame
<1> QED BY <1>2, <1>3

\* A backend that is configured under a check has its new entries seen by it.
LEMMA ConfigureChecks ==
  ASSUME CheckInv, NEW t \in Threads, Configure(t)
  PROVE  \A u \in Threads : CheckKnown(u)'
<1> DEFINE b     == Head(left[t])
           after == Configured(entries[b], batch[t])
<1>1. TypeOK /\ CheckKnown(t)
  BY DEF CheckInv, IInv
<1>2. b \in Backends
  BY ConfigureFacts DEF CheckInv
<1>3. /\ entries' = [entries EXCEPT ![b] = after]
      /\ seen' = [u \in Threads |->
           IF u = t THEN {after}
           ELSE IF pc[u] \in Checking /\ Head(left[u]) = b THEN seen[u] \cup {after}
           ELSE seen[u]]
      /\ left' = left /\ missing' = missing /\ sources' = sources
      /\ todo' = [todo EXCEPT ![t] = Required] /\ pc' = [pc EXCEPT ![t] = "check"]
      /\ pc[t] = "configure"
  BY DEF Configure
<1> HIDE DEF after
<1>4. CheckKnown(t)'
  <2>1. /\ pc'[t] = "check" /\ seen'[t] = {after} /\ todo'[t] = Required
        /\ entries'[Head(left'[t])] = after
    BY <1>1, <1>2, <1>3 DEF TypeOK
  <2>2. missing'[t] = {}
    BY <1>1, <1>3 DEF CheckKnown, Checking
  <2>3. Requirements = Pending(t)'
    BY <2>1 DEF Requirements, Pending
  <2> QED BY <2>1, <2>2, <2>3 DEF CheckKnown, Checking
<1>5. ASSUME NEW u \in Threads, u # t PROVE CheckKnown(u)'
  <2>1. /\ pc'[u] = pc[u] /\ left'[u] = left[u] /\ todo'[u] = todo[u]
        /\ missing'[u] = missing[u] /\ sources'[u] = sources[u]
    BY <1>1, <1>3, <1>5 DEF TypeOK
  <2>2. CheckKnown(u)
    BY DEF CheckInv
  <2>3. pc[u] \in Checking => entries[Head(left[u])] \in seen[u]
    BY <2>2 DEF CheckKnown
  <2> HIDE DEF b
  <2>4. CASE pc[u] \in Checking /\ Head(left[u]) = b
    <3>1. seen'[u] = seen[u] \cup {after} /\ entries'[Head(left[u])] = after
      BY <1>1, <1>2, <1>3, <1>5, <2>4 DEF TypeOK
    <3> QED BY <2>1, <2>2, <3>1, CheckFrame
  <2>5. CASE pc[u] \in Checking /\ Head(left[u]) # b
    <3>1. left[u] \in Seq(Backends) /\ left[u] # << >>
      BY <1>1, <2>5 DEF TypeOK, Checking
    <3>2. Head(left[u]) \in Backends
      BY <3>1
    <3>3. seen'[u] = seen[u] /\ entries'[Head(left[u])] = entries[Head(left[u])]
      BY <1>1, <1>3, <1>5, <2>5, <3>2 DEF TypeOK
    <3> QED BY <2>1, <2>2, <2>3, <3>3, CheckFrame
  <2>6. CASE pc[u] \notin Checking
    BY <2>1, <2>2, <2>6, CheckFrame
  <2> QED BY <2>4, <2>5, <2>6
<1> QED BY <1>4, <1>5

\* A configure request that ends half way has nothing found that it has not answered.
LEMMA BuildFailsChecks ==
  ASSUME CheckInv, NEW t \in Threads, BuildFails(t)
  PROVE  \A u \in Threads : CheckKnown(u)'
<1>1. TypeOK /\ CheckKnown(t)
  BY DEF CheckInv, IInv
<1>2. CheckKnown(t)'
  <2>1. pc'[t] = "idle" /\ missing'[t] = {}
    BY <1>1 DEF BuildFails, TypeOK, CheckKnown, Checking
  <2> QED BY <2>1 DEF CheckKnown, Checking
<1>3. ASSUME NEW u \in Threads, u # t PROVE CheckKnown(u)'
  <2>1. /\ pc'[u] = pc[u] /\ left'[u] = left[u] /\ todo'[u] = todo[u] /\ seen'[u] = seen[u]
        /\ missing'[u] = missing[u] /\ sources'[u] = sources[u] /\ entries' = entries
    BY <1>1, <1>3 DEF BuildFails, TypeOK
  <2>2. CheckKnown(u)
    BY DEF CheckInv
  <2>3. pc[u] \in Checking => entries[Head(left[u])] \in seen[u]
    BY <2>2 DEF CheckKnown
  <2> QED BY <2>1, <2>2, <2>3, CheckFrame
<1> QED BY <1>2, <1>3

\* A requirement is blamed for an entry in seen, or found in one.
LEMMA LookUpChecks ==
  ASSUME CheckInv, NEW t \in Threads, LookUp(t)
  PROVE  \A u \in Threads : CheckKnown(u)'
<1> DEFINE item == entries[Head(left[t])]
           asked == Head(todo[t])
<1>1. TypeOK /\ CheckKnown(t) /\ pc[t] = "check"
  BY DEF CheckInv, IInv, LookUp
<1>2. /\ todo[t] \in Seq(Requirements) /\ todo[t] # << >>
      /\ pc' = pc /\ left' = left /\ entries' = entries /\ seen' = seen /\ sources' = sources
      /\ todo' = [todo EXCEPT ![t] = Tail(todo[t])]
  BY <1>1 DEF LookUp, TypeOK
<1>3. \/ Present(item, asked) /\ missing' = missing
      \/ ~Present(item, asked) /\ missing' = [missing EXCEPT ![t] = missing[t] \cup {asked}]
  BY DEF LookUp
<1>4. ASSUME NEW r \in Pending(t), r # asked PROVE r \in Pending(t)'
  <2>1. PICK i \in 1..Len(todo[t]) : r = todo[t][i]
    BY <1>4 DEF Pending
  <2>2. i # 1
    BY <1>2, <1>4, <2>1
  <2>3. i - 1 \in 1..Len(Tail(todo[t])) /\ Tail(todo[t])[i - 1] = r
    BY <1>2, <2>1, <2>2
  <2>4. todo'[t] = Tail(todo[t])
    BY <1>1, <1>2 DEF TypeOK
  <2> QED BY <2>3, <2>4 DEF Pending
<1>5. item \in seen[t]
  BY <1>1 DEF CheckKnown, Checking
<1> HIDE DEF item, asked
<1>6. CheckKnown(t)'
  <2>1. ASSUME NEW r \in missing'[t] PROVE \E one \in seen[t] : ~Present(one, r)
    <3>1. r \in missing[t] \/ (r = asked /\ ~Present(item, asked))
      BY <1>1, <1>3, <2>1 DEF TypeOK
    <3> QED BY <1>1, <1>5, <3>1 DEF CheckKnown, Checking
  <2>2. ASSUME NEW r \in Requirements \ missing'[t]
        PROVE  r \in Pending(t)' \/ \E one \in seen[t] : Present(one, r)
    <3>1. r \notin missing[t] /\ (r = asked => Present(item, asked))
      BY <1>1, <1>3, <2>2 DEF TypeOK
    <3>2. r \in Pending(t) \/ \E one \in seen[t] : Present(one, r)
      BY <1>1, <3>1 DEF CheckKnown, Checking
    <3> QED BY <1>4, <1>5, <3>1, <3>2
  <2> QED BY <1>1, <1>2, <1>5, <2>1, <2>2 DEF CheckKnown, Checking, item
<1>7. ASSUME NEW u \in Threads, u # t PROVE CheckKnown(u)'
  <2>1. todo'[u] = todo[u] /\ missing'[u] = missing[u]
    BY <1>1, <1>2, <1>3, <1>7 DEF TypeOK
  <2>2. CheckKnown(u)
    BY DEF CheckInv
  <2>3. pc[u] \in Checking => entries[Head(left[u])] \in seen[u]
    BY <2>2 DEF CheckKnown
  <2> QED BY <1>2, <2>1, <2>2, <2>3, CheckFrame
<1> QED BY <1>6, <1>7

\* The sources are those of an entry in seen: of all of seen, if it has only one.
LEMMA CollectSourcesChecks ==
  ASSUME CheckInv, NEW t \in Threads, CollectSources(t)
  PROVE  \A u \in Threads : CheckKnown(u)'
<1>1. TypeOK /\ CheckKnown(t) /\ pc[t] = "check" /\ todo[t] = << >>
  BY DEF CheckInv, IInv, CollectSources
<1>2. /\ todo' = todo /\ left' = left /\ entries' = entries /\ seen' = seen /\ missing' = missing
      /\ pc' = [pc EXCEPT ![t] = "answer"]
      /\ sources' = [sources EXCEPT ![t] =
           {r \in Requirements : HasSource(entries[Head(left[t])], r)}]
  BY DEF CollectSources
<1>3. CheckKnown(t)'
  <2>1. /\ pc'[t] = "answer"
        /\ sources'[t] = {r \in Requirements : HasSource(entries[Head(left[t])], r)}
    BY <1>1, <1>2 DEF TypeOK
  <2>2. entries[Head(left[t])] \in seen[t]
    BY <1>1 DEF CheckKnown, Checking
  <2>3. ASSUME NEW item \in seen[t], seen[t] = {item}
        PROVE  sources'[t] = {r \in Requirements : HasSource(item, r)}
    <3>1. item = entries[Head(left[t])]
      BY <2>2, <2>3
    <3> QED BY <2>1, <3>1
  <2>4. /\ \A r \in missing[t] : \E item \in seen[t] : ~Present(item, r)
        /\ \A r \in Requirements \ missing[t] :
             r \in Pending(t) \/ \E item \in seen[t] : Present(item, r)
    BY <1>1 DEF CheckKnown, Checking
  <2> QED BY <1>1, <1>2, <2>1, <2>2, <2>3, <2>4 DEF CheckKnown, Checking, Pending
<1>4. ASSUME NEW u \in Threads, u # t PROVE CheckKnown(u)'
  <2>1. pc'[u] = pc[u] /\ sources'[u] = sources[u]
    BY <1>1, <1>2, <1>4 DEF TypeOK
  <2>2. CheckKnown(u)
    BY DEF CheckInv
  <2>3. pc[u] \in Checking => entries[Head(left[u])] \in seen[u]
    BY <2>2 DEF CheckKnown
  <2> QED BY <1>2, <2>1, <2>2, <2>3, CheckFrame
<1> QED BY <1>3, <1>4

\* After its answer a check knows nothing any more.
LEMMA AnswerChecks ==
  ASSUME CheckInv, NEW t \in Threads, Answer(t)
  PROVE  \A u \in Threads : CheckKnown(u)'
<1>1. TypeOK
  BY DEF CheckInv, IInv
<1>2. CheckKnown(t)'
  <2>1. pc'[t] \in {"configure", "idle"} /\ missing'[t] = {}
    BY <1>1 DEF Answer, TypeOK
  <2> QED BY <2>1 DEF CheckKnown, Checking
<1>3. ASSUME NEW u \in Threads, u # t PROVE CheckKnown(u)'
  <2>1. /\ pc'[u] = pc[u] /\ left'[u] = left[u] /\ todo'[u] = todo[u] /\ seen'[u] = seen[u]
        /\ missing'[u] = missing[u] /\ sources'[u] = sources[u] /\ entries' = entries
    BY <1>1, <1>3 DEF Answer, TypeOK
  <2>2. CheckKnown(u)
    BY DEF CheckInv
  <2>3. pc[u] \in Checking => entries[Head(left[u])] \in seen[u]
    BY <2>2 DEF CheckKnown
  <2> QED BY <2>1, <2>2, <2>3, CheckFrame
<1> QED BY <1>2, <1>3

\* Every step keeps what checks have found.
LEMMA NextCheck == CheckInv /\ [Next]_vars => CheckInv'
<1> SUFFICES ASSUME CheckInv, [Next]_vars PROVE \A u \in Threads : CheckKnown(u)'
  BY NextKeeps DEF CheckInv
<1>1. CASE UNCHANGED vars
  BY <1>1 DEF vars, CheckInv, CheckKnown, Pending
<1>2. CASE Restart
  BY <1>2 DEF Restart, CheckKnown, Checking
<1>3. ASSUME NEW t \in Threads,
             \/ AskStatus(t) \/ AskConfigure(t) \/ Configure(t) \/ BuildFails(t)
             \/ LookUp(t) \/ CollectSources(t) \/ Answer(t)
      PROVE  \A u \in Threads : CheckKnown(u)'
  BY <1>3, AskStatusChecks, AskConfigureChecks, ConfigureChecks, BuildFailsChecks, LookUpChecks,
     CollectSourcesChecks, AnswerChecks
<1> QED BY <1>1, <1>2, <1>3 DEF Next, Quiet

\* What a request's check has found is so of entries that it could have read.
THEOREM CheckInvariant == Spec => []CheckInv
BY InitCheck, NextCheck, PTL DEF Spec

\* However configure requests run under a readiness check, which takes the lock
\* anew for each credential, its answer blames or credits a requirement only for
\* what was so at some moment of it (get_auth_status).
THEOREM StatusesExplained == Spec => []StatusExplained
<1>1. CheckInv => StatusExplained
  <2> SUFFICES ASSUME CheckInv, NEW t \in Threads, pc[t] = "answer"
               PROVE  /\ \A r \in Requirements :
                           \E item \in seen[t] : r \in missing[t] <=> ~Present(item, r)
                      /\ \A item \in seen[t] : seen[t] = {item} =>
                           sources[t] = Requirements \ missing[t]
    BY DEF StatusExplained
  <2>1. CheckKnown(t) /\ missing[t] \subseteq Requirements
    BY DEF CheckInv, IInv, TypeOK
  <2>2. Pending(t) = {}
    BY <2>1 DEF CheckKnown, Pending
  <2>3. /\ \A r \in missing[t] : \E item \in seen[t] : ~Present(item, r)
        /\ \A r \in Requirements \ missing[t] : \E item \in seen[t] : Present(item, r)
    BY <2>1, <2>2 DEF CheckKnown, Checking
  <2>4. ASSUME NEW item \in seen[t], seen[t] = {item}
        PROVE  sources[t] = Requirements \ missing[t]
    <3>1. \A r \in Requirements : HasSource(item, r) <=> Present(item, r)
      BY DEF HasSource, Present
    <3>2. sources[t] = {r \in Requirements : HasSource(item, r)}
      BY <2>1, <2>4 DEF CheckKnown
    <3>3. \A r \in Requirements : r \in missing[t] <=> ~Present(item, r)
      BY <2>1, <2>3, <2>4
    <3> HIDE DEF Requirements
    <3> QED BY <3>1, <3>2, <3>3
  <2> QED BY <2>3, <2>4
<1> QED BY <1>1, CheckInvariant, PTL

-----------------------------------------------------------------------------
(* How far a configure request has come: it works through the rest of       *)
(* Order, and the keys it alone is at work on have, in the backends it has  *)
(* reached, the value of its batch over what the process was started with.  *)

Rest(s) ==
  /\ Len(s) <= Len(Order)
  /\ \A i \in 1..Len(s) : s[i] = Order[Len(Order) - Len(s) + i]

Reached(t) ==
  {Order[i] : i \in 1..Len(Order) - Len(left[t]) + (IF pc[t] = "configure" THEN 0 ELSE 1)}

Halfway(t) ==
  /\ batch[t] # Nothing => pc[t] # "idle" /\ Rest(left[t])
  /\ \A k \in sure[t] : \A b \in Reached(t) :
       entries[b][k] = Applied(origin[k], batch[t][k])

\* What is torn and sure fits the batches at work.
Noted ==
  \A t \in Threads :
    /\ sure[t] \subseteq Named(batch[t])
    /\ Named(batch[t]) \subseteq torn
    /\ \A u \in Threads : u # t => sure[t] \cap Named(batch[u]) = {}

AgreeInv == IInv /\ Noted /\ BackendsAgree /\ \A t \in Threads : Halfway(t)

\* The empty batch names no key.
LEMMA NothingNamed == Named(Nothing) = {}
BY DEF Named, Nothing, AllKeys

\* What becomes of an entry depends on the value and on where its key started,
\* not on what the entry held before.
LEMMA AppliedForgets ==
  ASSUME NEW existing, NEW first \in Origins \cup {NoEntry}, Remembers(existing, first), NEW value
  PROVE  Applied(existing, value) = Applied(first, value)
<1>1. ~IsUi(first)
  BY NoEntryAssumption DEF Origins, IsUi
<1>2. Applied(first, value) = IF value # Blank THEN [value |-> value, source |-> "ui", fallback |-> first]
                              ELSE first
  BY <1>1 DEF Applied, UiEntry
<1>3. Applied(existing, value) = IF value # Blank
                                 THEN [value |-> value, source |-> "ui", fallback |-> first]
                                 ELSE first
  BY DEF Applied, UiEntry, Remembers
<1> QED BY <1>2, <1>3

\* The rest of Order after its first backend.
LEMMA RestAfterHead ==
  ASSUME NEW s \in Seq(Backends), s # << >>, Rest(s)
  PROVE  /\ Rest(Tail(s)) /\ Len(Tail(s)) = Len(s) - 1
         /\ Head(s) = Order[Len(Order) - Len(s) + 1]
         /\ Len(s) \in 1..Len(Order)
<1>1. Order \in Seq(Backends) /\ Len(Order) \in Nat
  BY OrderAssumption
<1>2. /\ Len(s) \in Nat /\ Len(s) > 0 /\ Len(s) <= Len(Order)
      /\ Len(Tail(s)) = Len(s) - 1 /\ Head(s) = s[1]
  BY DEF Rest
<1>3. \A i \in 1..Len(Tail(s)) : Tail(s)[i] = s[i + 1]
  OBVIOUS
<1>4. \A i \in 1..Len(Tail(s)) : Tail(s)[i] = Order[Len(Order) - Len(Tail(s)) + i]
  <2> SUFFICES ASSUME NEW i \in 1..Len(Tail(s))
               PROVE  Tail(s)[i] = Order[Len(Order) - Len(Tail(s)) + i]
    OBVIOUS
  <2>1. i + 1 \in 1..Len(s)
    BY <1>2
  <2>2. s[i + 1] = Order[Len(Order) - Len(s) + (i + 1)]
    BY <2>1 DEF Rest
  <2>3. Len(Order) - Len(s) + (i + 1) = Len(Order) - Len(Tail(s)) + i
    BY <1>1, <1>2
  <2> QED BY <1>3, <2>2, <2>3
<1>5. s[1] = Order[Len(Order) - Len(s) + 1]
  BY <1>2 DEF Rest
<1> QED BY <1>1, <1>2, <1>4, <1>5 DEF Rest

\* A thread whose request a step leaves where it was: the step changes no key
\* that this request alone is at work on.
LEMMA HalfwayFrame ==
  ASSUME NEW u \in Threads, Halfway(u), origin' = origin,
         batch'[u] = batch[u], left'[u] = left[u], sure'[u] \subseteq sure[u],
         pc'[u] = "configure" <=> pc[u] = "configure",
         pc'[u] = "idle" <=> pc[u] = "idle",
         \A k \in sure'[u] : \A b \in Reached(u) : entries'[b][k] = entries[b][k]
  PROVE  Halfway(u)'
<1>1. Reached(u)' = Reached(u)
  BY DEF Reached
<1>2. \A k \in sure'[u] : \A b \in Reached(u)' : entries'[b][k] = Applied(origin'[k], batch'[u][k])
  BY <1>1 DEF Halfway
<1>3. batch'[u] # Nothing => pc'[u] # "idle" /\ Rest(left'[u])
  BY DEF Halfway
<1> QED BY <1>2, <1>3 DEF Halfway, Nothing, Rest, Applied, UiEntry, IsUi

\* A thread at work on nothing of its own.
LEMMA HalfwayIdle ==
  ASSUME NEW u \in Threads, batch'[u] = Nothing, sure'[u] = {}
  PROVE  Halfway(u)'
BY DEF Halfway, Nothing

\* Steps that leave the batches, the entries and the history alone.
LEMMA AgreeFrame ==
  ASSUME AgreeInv, UNCHANGED <<batch, entries, torn, sure>>
  PROVE  Noted' /\ BackendsAgree'
BY DEF AgreeInv, Noted, BackendsAgree, Named

\* A thread without a batch has no key of its own.
LEMMA NothingSure ==
  ASSUME AgreeInv, NEW t \in Threads, batch[t] = Nothing
  PROVE  sure[t] = {}
BY NothingNamed DEF AgreeInv, Noted

\* A request that has come to its last steps, or has none, has reached backends.
LEMMA ReachedTyped ==
  ASSUME AgreeInv, NEW u \in Threads, sure[u] # {}
  PROVE  Reached(u) \subseteq Backends
<1>1. batch[u] # Nothing
  BY NothingSure
<1>2. /\ pc[u] # "idle" /\ Rest(left[u]) /\ left[u] \in Seq(Backends) /\ left[u] # << >>
  BY <1>1 DEF AgreeInv, Halfway, IInv, TypeOK
<1>3. /\ Len(left[u]) \in 1..Len(Order) /\ Len(Order) \in Nat
      /\ \A i \in 1..Len(Order) : Order[i] \in Backends
  BY <1>2, RestAfterHead, OrderAssumption
<1>4. \A m \in Nat : \A k \in 1..m : 1..m - k + 0 \subseteq 1..m /\ 1..m - k + 1 \subseteq 1..m
  OBVIOUS
<1>5. 1..Len(Order) - Len(left[u]) + (IF pc[u] = "configure" THEN 0 ELSE 1) \subseteq 1..Len(Order)
  BY <1>3, <1>4
<1> QED BY <1>3, <1>5 DEF Reached

\* The backend a configure request is about to configure is the next it reaches.
LEMMA ReachesNext ==
  ASSUME NEW t \in Threads, left[t] \in Seq(Backends), left[t] # << >>, Rest(left[t]),
         pc[t] = "configure", pc'[t] = "check", left' = left
  PROVE  /\ Reached(t)' = Reached(t) \cup {Head(left[t])}
         /\ Reached(t) \subseteq Backends
<1> DEFINE n == Len(Order) - Len(left[t])
<1>1. Head(left[t]) = Order[n + 1] /\ n \in Nat /\ n + 1 \in 1..Len(Order)
  <2>1. /\ Head(left[t]) = Order[Len(Order) - Len(left[t]) + 1]
        /\ Len(left[t]) \in 1..Len(Order)
    BY RestAfterHead
  <2>2. Len(Order) \in Nat
    BY OrderAssumption
  <2>3. \A m \in Nat : \A k \in 1..m : m - k \in Nat /\ m - k + 1 \in 1..m
    OBVIOUS
  <2>4. n \in Nat /\ n + 1 \in 1..Len(Order)
    BY <2>1, <2>2, <2>3
  <2> QED BY <2>1, <2>4
<1>2. Reached(t) = {Order[i] : i \in 1..n} /\ Reached(t)' = {Order[i] : i \in 1..n + 1}
  BY <1>1 DEF Reached
<1> HIDE DEF n
<1>3. 1..n + 1 = (1..n) \cup {n + 1} /\ 1..n \subseteq 1..Len(Order)
  BY <1>1, OrderAssumption
<1>4. \A i \in 1..Len(Order) : Order[i] \in Backends
  BY OrderAssumption
<1> QED BY <1>1, <1>2, <1>3, <1>4

\* A request that is over leaves the others' accounts in order.
LEMMA NotedWithout ==
  ASSUME AgreeInv, NEW t \in Threads,
         batch'[t] = Nothing, sure'[t] = {}, torn \ sure[t] \subseteq torn',
         \A u \in Threads : u # t => batch'[u] = batch[u] /\ sure'[u] = sure[u]
  PROVE  Noted'
<1>1. \A x : Named(x)' = Named(x)
  BY DEF Named
<1>2. ASSUME NEW u \in Threads
      PROVE  /\ sure'[u] \subseteq Named(batch'[u]) /\ Named(batch'[u]) \subseteq torn'
             /\ \A v \in Threads : v # u => sure'[u] \cap Named(batch'[v]) = {}
  <2>1. CASE u = t
    BY <2>1, NothingNamed
  <2>2. CASE u # t
    <3>1. sure'[u] \subseteq Named(batch'[u]) /\ Named(batch'[u]) \subseteq torn
      BY <2>2 DEF AgreeInv, Noted
    <3>2. sure[t] \cap Named(batch[u]) = {}
      BY <2>2 DEF AgreeInv, Noted
    <3>3. ASSUME NEW v \in Threads, v # u PROVE sure'[u] \cap Named(batch'[v]) = {}
      <4>1. CASE v = t
        BY <4>1, NothingNamed
      <4>2. CASE v # t
        BY <2>2, <3>3, <4>2 DEF AgreeInv, Noted
      <4> QED BY <4>1, <4>2
    <3> QED BY <2>2, <3>1, <3>2, <3>3
  <2> QED BY <2>1, <2>2
<1> QED BY <1>1, <1>2 DEF Noted, Named

\* At the start all backends hold the origin.
LEMMA InitAgree == Init => AgreeInv
<1> SUFFICES ASSUME Init PROVE AgreeInv
  OBVIOUS
<1>1. Noted /\ BackendsAgree /\ \A t \in Threads : Halfway(t)
  BY NothingNamed DEF Init, Noted, BackendsAgree, Halfway
<1> QED BY <1>1, InitEstablishes DEF AgreeInv

\* A status request carries no batch.
LEMMA AskStatusAgrees ==
  ASSUME AgreeInv, NEW t \in Threads, AskStatus(t)
  PROVE  AgreeInv'
<1>1. IInv /\ IInv' /\ TypeOK
  BY AskStatusKeeps DEF AgreeInv, IInv
<1>2. batch[t] = Nothing
  BY DEF AgreeInv, Halfway, AskStatus
<1>3. Halfway(t)'
  BY <1>2, NothingSure, HalfwayIdle DEF AskStatus
<1>4. ASSUME NEW u \in Threads, u # t PROVE Halfway(u)'
  <2>1. left'[u] = left[u] /\ pc'[u] = pc[u]
    BY <1>1, <1>4 DEF AskStatus, TypeOK
  <2> QED BY <2>1, HalfwayFrame DEF AgreeInv, AskStatus
<1> QED BY <1>1, <1>3, <1>4, AgreeFrame DEF AgreeInv, AskStatus

\* A configure request that comes in takes the keys it names for torn, and from
\* the others what they had for themselves.
LEMMA AskConfigureAgrees ==
  ASSUME AgreeInv, NEW t \in Threads, AskConfigure(t)
  PROVE  AgreeInv'
<1>1. IInv /\ IInv' /\ TypeOK
  BY AskConfigureKeeps DEF AgreeInv, IInv
<1>2. PICK new \in Sent : batch' = [batch EXCEPT ![t] = new] /\ Note(t, new)
  BY DEF AskConfigure
<1>3. /\ pc[t] = "idle" /\ batch[t] = Nothing /\ entries' = entries /\ origin' = origin
      /\ left'[t] = Order /\ pc'[t] = "configure" /\ batch'[t] = new
      /\ torn' = torn \cup Named(new)
      /\ sure'[t] \subseteq Named(new)
      /\ \A u \in Threads : sure'[t] \cap Named(batch[u]) = {}
      /\ \A u \in Threads : u # t =>
           /\ batch'[u] = batch[u] /\ left'[u] = left[u] /\ pc'[u] = pc[u]
           /\ sure'[u] = sure[u] \ Named(new)
  BY <1>1, <1>2 DEF AskConfigure, TypeOK, AgreeInv, Halfway, Note
<1>4. Noted'
  <2> SUFFICES ASSUME NEW u \in Threads, NEW v \in Threads, v # u
               PROVE  /\ sure'[u] \subseteq Named(batch'[u]) /\ Named(batch'[u]) \subseteq torn'
                      /\ sure'[u] \cap Named(batch'[v]) = {}
    <3>1. sure'[t] \subseteq Named(batch'[t]) /\ Named(batch'[t]) \subseteq torn'
      BY <1>3
    <3>2. \A u \in Threads : u # t =>
            sure'[u] \subseteq Named(batch'[u]) /\ Named(batch'[u]) \subseteq torn'
      BY <1>3 DEF AgreeInv, Noted
    <3>3. \A x : Named(x)' = Named(x)
      BY DEF Named
    <3> QED BY <3>1, <3>2, <3>3 DEF Noted, Named
  <2>1. CASE u = t
    BY <1>3, <2>1
  <2>2. CASE u # t
    <3>1. sure[u] \subseteq Named(batch[u]) /\ Named(batch[u]) \subseteq torn
          /\ sure[u] \cap Named(batch[v]) = {}
      BY DEF AgreeInv, Noted
    <3> QED BY <1>3, <2>2, <3>1
  <2> QED BY <2>1, <2>2
<1>5. BackendsAgree'
  BY <1>3 DEF AgreeInv, BackendsAgree
<1>6. Halfway(t)'
  <2>1. Len(Order) \in Nat
    BY OrderAssumption
  <2>2. Rest(left[t])' /\ Reached(t)' = {}
    BY <1>3, <2>1 DEF Rest, Reached
  <2> QED BY <1>3, <2>2 DEF Halfway, Nothing
<1>7. ASSUME NEW u \in Threads, u # t PROVE Halfway(u)'
  BY <1>3, <1>7, HalfwayFrame DEF AgreeInv
<1> QED BY <1>1, <1>4, <1>5, <1>6, <1>7 DEF AgreeInv

\* One more backend is reached.  The keys this request alone is at work on get
\* what the backends reached before have; of no other request, and of no key
\* that is not torn, is anything changed.
LEMMA ConfigureAgrees ==
  ASSUME AgreeInv, NEW t \in Threads, Configure(t)
  PROVE  AgreeInv'
<1> DEFINE b == Head(left[t])
<1>1. IInv /\ IInv' /\ TypeOK
  BY ConfigureKeeps DEF AgreeInv, IInv
<1>2. /\ b \in Backends /\ batch[t] \in Batches /\ entries[b] \in [AllKeys -> Entries]
      /\ left[t] \in Seq(Backends) /\ left[t] # << >>
      /\ \A k \in AllKeys : Remembers(entries[b][k], origin[k])
      /\ origin \in [AllKeys -> Origins \cup {NoEntry}]
  BY <1>1, ConfigureFacts DEF TypeOK, Configure
<1>3. /\ pc[t] = "configure" /\ pc'[t] = "check" /\ origin' = origin
      /\ batch' = batch /\ left' = left /\ torn' = torn /\ sure' = sure
      /\ entries' = [entries EXCEPT ![b] = Configured(entries[b], batch[t])]
      /\ \A u \in Threads : u # t => pc'[u] = pc[u]
  BY <1>1 DEF Configure, TypeOK
<1> HIDE DEF b
<1>4. \A c \in Backends : \A k \in AllKeys :
        entries'[c][k] = IF c = b /\ k \in Named(batch[t]) THEN Applied(entries[b][k], batch[t][k])
                         ELSE entries[c][k]
  <2>1. \A k \in AllKeys :
          Configured(entries[b], batch[t])[k]
            = IF k \in Named(batch[t]) THEN Applied(entries[b][k], batch[t][k]) ELSE entries[b][k]
    BY DEF Configured, Named
  <2>2. \A c \in Backends :
          entries'[c] = IF c = b THEN Configured(entries[b], batch[t]) ELSE entries[c]
    BY <1>1, <1>3 DEF TypeOK
  <2> QED BY <2>1, <2>2
<1>5. \A u \in Threads : sure[u] \subseteq AllKeys
  BY <1>1 DEF TypeOK, AllKeys
<1>6. Noted'
  BY <1>3 DEF AgreeInv, Noted, Named
<1>7. BackendsAgree'
  <2>1. \A k \in AllKeys \ torn : k \notin Named(batch[t])
    BY DEF AgreeInv, Noted
  <2>2. \A k \in AllKeys \ torn : \A c \in Backends : entries'[c][k] = entries[c][k]
    BY <1>4, <2>1
  <2> QED BY <1>3, <2>2 DEF AgreeInv, BackendsAgree
<1>8. ASSUME NEW u \in Threads, u # t PROVE Halfway(u)'
  <2>1. \A k \in sure[u] : k \notin Named(batch[t])
    BY <1>8 DEF AgreeInv, Noted
  <2>2. \A k \in sure'[u] : \A c \in Backends : entries'[c][k] = entries[c][k]
    BY <1>3, <1>4, <1>5, <2>1
  <2>3. \A k \in sure'[u] : \A c \in Reached(u) : entries'[c][k] = entries[c][k]
    <3>1. CASE sure[u] = {}
      BY <1>3, <3>1
    <3>2. CASE sure[u] # {}
      BY <1>1, <1>3, <1>8, <2>2, <3>2, ReachedTyped
    <3> QED BY <3>1, <3>2
  <2> QED BY <1>3, <1>8, <2>3, HalfwayFrame DEF AgreeInv
<1>9. Halfway(t)'
  <2>1. CASE batch[t] = Nothing
    BY <1>3, <2>1, NothingSure, HalfwayIdle
  <2>2. CASE batch[t] # Nothing
    <3>1. Halfway(t) /\ Rest(left[t]) /\ Rest(left[t])'
      BY <1>3, <2>2 DEF AgreeInv, Halfway, Rest
    <3>2. Reached(t)' = Reached(t) \cup {b} /\ Reached(t) \subseteq Backends
      BY <1>1, <1>2, <1>3, <2>2, <3>1, ReachesNext DEF b
    <3>3. ASSUME NEW k \in sure[t], NEW c \in Reached(t)'
          PROVE  entries'[c][k] = Applied(origin[k], batch[t][k])
      <4>1. k \in AllKeys /\ k \in Named(batch[t])
        BY <1>5 DEF AgreeInv, Noted
      <4>2. CASE c = b
        <5>1. entries'[c][k] = Applied(entries[b][k], batch[t][k])
          BY <1>2, <1>4, <4>1, <4>2
        <5>2. Applied(entries[b][k], batch[t][k]) = Applied(origin[k], batch[t][k])
          BY <1>2, <4>1, AppliedForgets
        <5> QED BY <5>1, <5>2
      <4>3. CASE c # b
        <5>1. c \in Reached(t) /\ c \in Backends
          BY <3>2, <4>3
        <5> QED BY <1>4, <3>1, <4>1, <4>3, <5>1 DEF Halfway
      <4> QED BY <4>2, <4>3
    <3>4. \A k \in sure'[t] : \A c \in Reached(t)' :
            entries'[c][k] = Applied(origin'[k], batch'[t][k])
      BY <1>3, <3>3
    <3> QED BY <1>3, <3>1, <3>4 DEF Halfway, Nothing, Applied, UiEntry, IsUi
  <2> QED BY <2>1, <2>2
<1> QED BY <1>1, <1>6, <1>7, <1>8, <1>9 DEF AgreeInv

\* The backends it has configured stay so, and the keys it named stay torn.
LEMMA BuildFailsAgrees ==
  ASSUME AgreeInv, NEW t \in Threads, BuildFails(t)
  PROVE  AgreeInv'
<1>1. IInv /\ IInv' /\ TypeOK
  BY BuildFailsKeeps DEF AgreeInv, IInv
<1>2. /\ batch'[t] = Nothing /\ sure'[t] = {} /\ entries' = entries /\ torn' = torn
      /\ origin' = origin
      /\ \A u \in Threads : u # t => /\ batch'[u] = batch[u] /\ left'[u] = left[u]
                                     /\ pc'[u] = pc[u] /\ sure'[u] = sure[u]
  BY <1>1 DEF BuildFails, TypeOK
<1>3. Noted'
  BY <1>2, NotedWithout
<1>4. BackendsAgree'
  BY <1>2 DEF AgreeInv, BackendsAgree
<1>5. Halfway(t)'
  BY <1>2, HalfwayIdle
<1>6. \A u \in Threads : u # t => Halfway(u)'
  BY <1>2, HalfwayFrame DEF AgreeInv
<1> QED BY <1>1, <1>3, <1>4, <1>5, <1>6 DEF AgreeInv

\* A check changes neither the entries nor how far its request has come.
LEMMA CheckStepAgrees ==
  ASSUME AgreeInv, NEW t \in Threads, LookUp(t) \/ CollectSources(t)
  PROVE  AgreeInv'
<1>1. IInv /\ IInv' /\ TypeOK
  BY LookUpKeeps, CollectSourcesKeeps DEF AgreeInv, IInv
<1>2. /\ UNCHANGED <<origin, batch, entries, left, torn, sure>>
      /\ \A u \in Threads : /\ pc'[u] = "configure" <=> pc[u] = "configure"
                            /\ pc'[u] = "idle" <=> pc[u] = "idle"
  BY <1>1 DEF LookUp, CollectSources, TypeOK
<1>3. \A u \in Threads : Halfway(u)'
  BY <1>2, HalfwayFrame DEF AgreeInv
<1> QED BY <1>1, <1>2, <1>3, AgreeFrame DEF AgreeInv

\* When a configure request has reached the last of Order it has reached every
\* backend: the keys it alone was at work on are the same in all of them.
LEMMA AnswerAgrees ==
  ASSUME AgreeInv, NEW t \in Threads, Answer(t)
  PROVE  AgreeInv'
<1>1. IInv /\ IInv' /\ TypeOK
  BY AnswerKeeps DEF AgreeInv, IInv
<1>2. /\ pc[t] = "answer" /\ entries' = entries /\ origin' = origin
      /\ left'[t] = Tail(left[t]) /\ left[t] \in Seq(Backends) /\ left[t] # << >>
      /\ \A u \in Threads : u # t =>
           /\ batch'[u] = batch[u] /\ left'[u] = left[u] /\ pc'[u] = pc[u]
           /\ sure'[u] = sure[u]
  BY <1>1 DEF Answer, TypeOK
<1>3. \A u \in Threads : u # t => Halfway(u)'
  BY <1>2, HalfwayFrame DEF AgreeInv
<1>4. CASE Tail(left[t]) # << >>
  <2>1. pc'[t] = "configure" /\ batch' = batch /\ torn' = torn /\ sure' = sure
    BY <1>1, <1>4 DEF Answer, TypeOK
  <2>2. Halfway(t)'
    <3>1. CASE batch[t] = Nothing
      BY <2>1, <3>1, NothingSure, HalfwayIdle
    <3>2. CASE batch[t] # Nothing
      <4>1. Rest(left[t]) /\ Halfway(t)
        BY <3>2 DEF AgreeInv, Halfway
      <4>2. /\ Rest(Tail(left[t])) /\ Len(Tail(left[t])) = Len(left[t]) - 1
            /\ Len(left[t]) \in Nat /\ Len(Order) \in Nat
        BY <1>2, <4>1, RestAfterHead, OrderAssumption
      <4>3. Reached(t)' = Reached(t)
        <5>1. \A m, k \in Nat : m - (k - 1) + 0 = m - k + 1
          OBVIOUS
        <5>4. Len(Order) - Len(Tail(left[t])) + 0 = Len(Order) - Len(left[t]) + 1
          <6>1. Len(Order) - (Len(left[t]) - 1) + 0 = Len(Order) - Len(left[t]) + 1
            BY <4>2, <5>1
          <6> QED BY <4>2, <6>1
        <5>2. Reached(t)' = {Order[i] : i \in 1..Len(Order) - Len(Tail(left[t])) + 0}
          BY <1>2, <2>1 DEF Reached
        <5>3. Reached(t) = {Order[i] : i \in 1..Len(Order) - Len(left[t]) + 1}
          BY <1>2 DEF Reached
        <5> QED BY <5>2, <5>3, <5>4
      <4>4. Rest(left[t])'
        BY <1>2, <4>2 DEF Rest
      <4>5. \A k \in sure'[t] : \A b \in Reached(t)' :
              entries'[b][k] = Applied(origin'[k], batch'[t][k])
        BY <1>2, <2>1, <4>1, <4>3 DEF Halfway
      <4> QED BY <2>1, <4>4, <4>5 DEF Halfway, Nothing, Applied, UiEntry, IsUi
    <3> QED BY <3>1, <3>2
  <2> QED BY <1>1, <1>2, <1>3, <2>1, <2>2, AgreeFrame DEF AgreeInv
<1>5. CASE Tail(left[t]) = << >>
  <2>1. batch'[t] = Nothing /\ sure'[t] = {} /\ torn' = torn \ sure[t]
    BY <1>1, <1>5 DEF Answer, TypeOK
  <2>2. Halfway(t)'
    BY <2>1, HalfwayIdle
  <2>3. Noted'
    BY <1>2, <2>1, NotedWithout
  <2>4. ASSUME NEW k \in sure[t], NEW b \in Backends
        PROVE  entries[b][k] = Applied(origin[k], batch[t][k])
    <3>1. batch[t] # Nothing
      BY <2>4, NothingSure
    <3>2. Rest(left[t]) /\ Halfway(t)
      BY <3>1 DEF AgreeInv, Halfway
    <3>3. Len(left[t]) = 1 /\ Len(Order) \in Nat
      <4>1. Len(Tail(left[t])) = Len(left[t]) - 1 /\ Len(left[t]) \in Nat
        BY <1>2
      <4>2. Len(Tail(left[t])) = 0
        <5>1. Len(<< >>) = 0
          OBVIOUS
        <5> QED BY <1>5, <5>1, Zenon
      <4> QED BY <4>1, <4>2, OrderAssumption
    <3>4. Reached(t) = {Order[i] : i \in 1..Len(Order)}
      BY <1>2, <3>3 DEF Reached
    <3>5. Reached(t) = Backends
      BY <3>4, OrderAssumption
    <3> QED BY <3>2, <3>5 DEF Halfway
  <2>5. ASSUME NEW k \in AllKeys \ torn', NEW b \in Backends, NEW c \in Backends
        PROVE  entries'[b][k] = entries'[c][k]
    <3>1. CASE k \in sure[t]
      BY <1>2, <2>4, <3>1
    <3>2. CASE k \notin sure[t]
      BY <1>2, <2>1, <2>5, <3>2 DEF AgreeInv, BackendsAgree
    <3> QED BY <3>1, <3>2
  <2>6. BackendsAgree'
    BY <2>5 DEF BackendsAgree
  <2> QED BY <1>1, <1>3, <2>2, <2>3, <2>6 DEF AgreeInv
<1> QED BY <1>4, <1>5

\* Every step keeps the agreement.
LEMMA NextAgree == AgreeInv /\ [Next]_vars => AgreeInv'
<1> SUFFICES ASSUME AgreeInv, [Next]_vars PROVE AgreeInv'
  OBVIOUS
<1>1. CASE UNCHANGED vars
  <2>1. IInv'
    BY <1>1, NextKeeps DEF AgreeInv
  <2>2. \A u \in Threads : Halfway(u)'
    BY <1>1, HalfwayFrame DEF AgreeInv, vars
  <2> QED BY <1>1, <2>1, <2>2, AgreeFrame DEF AgreeInv, vars
<1>2. CASE Restart
  <2>1. IInv'
    BY <1>2, RestartKeeps DEF AgreeInv
  <2>2. \A u \in Threads : batch'[u] = Nothing /\ sure'[u] = {}
    BY <1>2 DEF Restart
  <2>3. Noted'
    BY <1>2, <2>2, NothingNamed DEF Noted, Named, Restart
  <2>4. BackendsAgree'
    BY <1>2 DEF Restart, BackendsAgree
  <2>5. \A u \in Threads : Halfway(u)'
    BY <2>2, HalfwayIdle
  <2> QED BY <2>1, <2>3, <2>4, <2>5 DEF AgreeInv
<1>3. ASSUME NEW t \in Threads,
             \/ AskStatus(t) \/ AskConfigure(t) \/ Configure(t) \/ BuildFails(t)
             \/ LookUp(t) \/ CollectSources(t) \/ Answer(t)
      PROVE  AgreeInv'
  BY <1>3, AskStatusAgrees, AskConfigureAgrees, ConfigureAgrees, BuildFailsAgrees,
     CheckStepAgrees, AnswerAgrees
<1> QED BY <1>1, <1>2, <1>3 DEF Next, Quiet

\* A credential that is not torn is the same in all backends, and a request at
\* work makes those it alone works on the same in one backend after the other.
THEOREM AgreeInvariant == Spec => []AgreeInv
BY InitAgree, NextAgree, PTL DEF Spec

\* Backends differ in a credential only while a request that names it is at work
\* or after one that overlapped with another or ended half way; one that runs
\* through alone with it makes them alike again, whatever they held, though each
\* is configured in a critical section of its own (_handle_auth_configure).
THEOREM BackendsStayAlike == Spec => []BackendsAgree
<1>1. AgreeInv => BackendsAgree
  BY DEF AgreeInv
<1> QED BY <1>1, AgreeInvariant, PTL
================================================================================
