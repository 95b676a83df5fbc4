------------------------------ MODULE StateFile ------------------------------
(***************************************************************************)
(* _load_state, _save_state and _mutate_state of LocalLabBackend, one file *)
(* operation per step: the re-entrant _state_lock, the temporary file      *)
(* written in two steps, and the rename over state.json.  Threads crash    *)
(* together with their process; a write may raise an OSError.              *)
(*                                                                         *)
(* The temporary file's name is unique to its call, so a file left behind  *)
(* by a crash or an error is never read or replaced: it is forgotten here. *)
(***************************************************************************)
EXTENDS Naturals

CONSTANTS
  Threads, Docs, Default, Mutators, Pending, Failed,   \* as in AtomicDocument
  NoThread,    \* _state_lock is free
  Missing,     \* there is no state.json, or no temporary file
  Torn,        \* a file whose text was written in part
  MaxCalls,    \* bound: calls ever made
  MaxCrashes   \* bound: crashes

ASSUME FileAssumption ==
  /\ Default \in Docs
  /\ Mutators \subseteq [Docs -> Docs]
  /\ Pending \notin Docs /\ Failed \notin Docs /\ Pending # Failed
  /\ NoThread \notin Threads
  /\ Missing \notin Docs /\ Torn \notin Docs /\ Missing # Torn
  /\ MaxCalls \in Nat /\ MaxCrashes \in Nat

VARIABLES
  file,      \* state.json
  temp,      \* per thread, its temporary file
  holder,    \* the thread holding _state_lock
  pc,        \* per thread, the point its call has reached
  call,      \* per thread, the call in progress
  loaded,    \* per thread, the document parsed from state.json
  answer,    \* per thread, what its call returned
  calls, crashes   \* counters for the bounds

vars == <<file, temp, holder, pc, call, loaded, answer, calls, crashes>>

Locations == {"idle", "lock", "exists", "read", "open", "write", "replace", "unlock"}
\* Inside "with self._state_lock".
Critical  == Locations \ {"idle", "lock"}

Calls  == [op: {"load"}] \cup [op: {"save"}, doc: Docs]
          \cup [op: {"mutate"}, edit: Mutators]
NoCall == [op |-> "none"]

\* json.loads of the file, or the default state if it is absent or invalid.
Parsed(text) == IF text \in {Missing, Torn} THEN Default ELSE text

\* The document a save or a mutation dumps.
Dumped(t) == IF call[t].op = "save" THEN call[t].doc ELSE call[t].edit[loaded[t]]

Goto(t, there) == pc' = [pc EXCEPT ![t] = there]

Init ==
  /\ file = Missing
  /\ temp = [t \in Threads |-> Missing]
  /\ holder = NoThread
  /\ pc = [t \in Threads |-> "idle"]
  /\ call = [t \in Threads |-> NoCall]
  /\ loaded = [t \in Threads |-> Default]
  /\ answer = [t \in Threads |-> Pending]
  /\ calls = 0
  /\ crashes = 0

Invoke(t) ==
  /\ pc[t] = "idle"
  /\ calls < MaxCalls
  /\ calls' = calls + 1
  /\ \E c \in Calls : call' = [call EXCEPT ![t] = c]
  /\ Goto(t, "lock")
  /\ UNCHANGED <<file, temp, holder, loaded, answer, crashes>>

\* Mutated form: _mutate_state does not take the lock around its load.
LockNotForMutators(t) ==
  /\ pc[t] = "lock"
  /\ holder = NoThread \/ call[t].op = "mutate"
  /\ holder' = t
  /\ Goto(t, IF call[t].op = "save" THEN "open" ELSE "exists")
  /\ UNCHANGED <<file, temp, call, loaded, answer, calls, crashes>>

\* The nested "with self._state_lock" of the _load_state inside a
\* _mutate_state finds the lock its own.
Lock(t) ==
  /\ pc[t] = "lock"
  /\ holder = NoThread
  /\ holder' = t
  /\ Goto(t, IF call[t].op = "save" THEN "open" ELSE "exists")
  /\ UNCHANGED <<file, temp, call, loaded, answer, calls, crashes>>

\* A load is answered with the document it has; a mutation goes on to write.
Loaded(t, d) ==
  /\ loaded' = [loaded EXCEPT ![t] = d]
  /\ IF call[t].op = "load"
     THEN answer' = [answer EXCEPT ![t] = d] /\ Goto(t, "unlock")
     ELSE UNCHANGED answer /\ Goto(t, "open")
  /\ UNCHANGED <<file, temp, holder, call, calls, crashes>>

LoadMissing(t) ==
  /\ pc[t] = "exists"
  /\ file = Missing
  /\ Loaded(t, Default)

LoadExists(t) ==
  /\ pc[t] = "exists"
  /\ file # Missing
  /\ Goto(t, "read")
  /\ UNCHANGED <<file, temp, holder, call, loaded, answer, calls, crashes>>

Read(t) ==
  /\ pc[t] = "read"
  /\ Loaded(t, Parsed(file))

\* Mutated form: state.json itself is opened for writing.
OpenInPlace(t) ==
  /\ pc[t] = "open"
  /\ temp' = [temp EXCEPT ![t] = Torn]
  /\ file' = Torn
  /\ Goto(t, "write")
  /\ UNCHANGED <<holder, call, loaded, answer, calls, crashes>>

OpenTemp(t) ==
  /\ pc[t] = "open"
  /\ temp' = [temp EXCEPT ![t] = Torn]
  /\ Goto(t, "write")
  /\ UNCHANGED <<file, holder, call, loaded, answer, calls, crashes>>

WriteTemp(t) ==
  /\ pc[t] = "write"
  /\ temp' = [temp EXCEPT ![t] = Dumped(t)]
  /\ Goto(t, "replace")
  /\ UNCHANGED <<file, holder, call, loaded, answer, calls, crashes>>

\* Mutated form: an OSError leaves the lock held.
WriteFailsLocked(t) ==
  /\ pc[t] \in {"open", "write", "replace"}
  /\ temp' = [temp EXCEPT ![t] = Missing]
  /\ answer' = [answer EXCEPT ![t] = Pending]
  /\ call' = [call EXCEPT ![t] = NoCall]
  /\ Goto(t, "idle")
  /\ UNCHANGED <<file, holder, loaded, calls, crashes>>

\* mkdir, write_text or replace raises; the temporary file stays behind.
WriteFails(t) ==
  /\ pc[t] \in {"open", "write", "replace"}
  /\ temp' = [temp EXCEPT ![t] = Missing]
  /\ answer' = [answer EXCEPT ![t] = Failed]
  /\ Goto(t, "unlock")
  /\ UNCHANGED <<file, holder, call, loaded, calls, crashes>>

\* The rename is atomic: state.json becomes the temporary file.
Replace(t) ==
  /\ pc[t] = "replace"
  /\ file' = temp[t]
  /\ temp' = [temp EXCEPT ![t] = Missing]
  /\ answer' = [answer EXCEPT ![t] = temp[t]]
  /\ Goto(t, "unlock")
  /\ UNCHANGED <<holder, call, loaded, calls, crashes>>

Unlock(t) ==
  /\ pc[t] = "unlock"
  /\ holder' = NoThread
  /\ call' = [call EXCEPT ![t] = NoCall]
  /\ loaded' = [loaded EXCEPT ![t] = Default]
  /\ answer' = [answer EXCEPT ![t] = Pending]
  /\ Goto(t, "idle")
  /\ UNCHANGED <<file, temp, calls, crashes>>

\* The process dies between two file operations and is started again.
Crash ==
  /\ crashes < MaxCrashes
  /\ crashes' = crashes + 1
  /\ temp' = [t \in Threads |-> Missing]
  /\ holder' = NoThread
  /\ pc' = [t \in Threads |-> "idle"]
  /\ call' = [t \in Threads |-> NoCall]
  /\ loaded' = [t \in Threads |-> Default]
  /\ answer' = [t \in Threads |-> Pending]
  /\ UNCHANGED <<file, calls>>

\* Every call has returned; the backend may make no more.
Quiet ==
  /\ \A t \in Threads : pc[t] = "idle"
  /\ UNCHANGED vars

Step(t) ==
  \/ Lock(t) \/ LoadMissing(t) \/ LoadExists(t) \/ Read(t) \/ OpenTemp(t)
  \/ WriteTemp(t) \/ WriteFails(t) \/ Replace(t) \/ Unlock(t)

Next ==
  \/ \E t \in Threads : Invoke(t) \/ Step(t)
  \/ Crash \/ Quiet

Spec == Init /\ [][Next]_vars

\* Threads are scheduled and file operations end.
FairSpec == Spec /\ \A t \in Threads : WF_vars(Step(t))

-----------------------------------------------------------------------------
TypeOK ==
  /\ file \in Docs \cup {Missing, Torn}
  /\ temp \in [Threads -> Docs \cup {Missing, Torn}]
  /\ holder \in Threads \cup {NoThread}
  /\ pc \in [Threads -> Locations]
  /\ call \in [Threads -> Calls \cup {NoCall}]
  /\ loaded \in [Threads -> Docs]
  /\ answer \in [Threads -> Docs \cup {Pending, Failed}]
  /\ calls \in Nat /\ crashes \in Nat

\* state.json is absent or holds one whole document, whatever crashes and
\* failed writes do: _load_state never falls back to the default state over a
\* half-written file, which would lose everything recorded.
FileComplete == file # Torn

\* Exactly the thread inside "with self._state_lock" holds the lock.
LockHeld == \A t \in Threads : pc[t] \in Critical <=> holder = t

\* A mutation about to write still has the newest document: nobody saved
\* between its load and its rename.
EditsNewest ==
  \A t \in Threads : pc[t] \in {"open", "write", "replace"} /\ call[t].op = "mutate"
                       => loaded[t] = Parsed(file)

\* The three methods are atomic: each call takes effect, fails or is dropped
\* by a crash as a whole, and each call that is not dropped returns.
Atomic == INSTANCE AtomicDocument WITH doc <- Parsed(file)
IsAtomicDocument == Atomic!FairSpec
=============================================================================
