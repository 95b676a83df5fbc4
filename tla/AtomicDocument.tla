---------------------------- MODULE AtomicDocument ----------------------------
(***************************************************************************)
(* What the backend relies on when it calls _load_state, _save_state and   *)
(* _mutate_state: a document that every call reads or replaces in a single *)
(* step somewhere between its start and its return.  A write may fail      *)
(* instead, and a crash may cut any call short; neither leaves a trace in  *)
(* the document.  StateFile is shown to implement this.                    *)
(***************************************************************************)
CONSTANTS
  Threads,
  Docs,       \* the documents
  Default,    \* the document before anything was saved
  Mutators,   \* the edits handed to _mutate_state, functions on Docs
  Pending,    \* answer of a call that has not taken effect yet
  Failed      \* answer of a write that raised an OSError

VARIABLES
  doc,      \* the document
  call,     \* per thread, the call in progress
  answer    \* per thread, what that call has returned

absVars == <<doc, call, answer>>

Calls  == [op: {"load"}] \cup [op: {"save"}, doc: Docs]
          \cup [op: {"mutate"}, edit: Mutators]
NoCall == [op |-> "none"]

\* What a save or a mutation makes of document d.
Written(c, d) == IF c.op = "save" THEN c.doc ELSE c.edit[d]

Init ==
  /\ doc = Default
  /\ call = [t \in Threads |-> NoCall]
  /\ answer = [t \in Threads |-> Pending]

Invoke(t) ==
  /\ call[t] = NoCall
  /\ \E c \in Calls : call' = [call EXCEPT ![t] = c]
  /\ UNCHANGED <<doc, answer>>

Load(t) ==
  /\ call[t].op = "load" /\ answer[t] = Pending
  /\ answer' = [answer EXCEPT ![t] = doc]
  /\ UNCHANGED <<doc, call>>

Write(t) ==
  /\ call[t].op \in {"save", "mutate"} /\ answer[t] = Pending
  /\ doc' = Written(call[t], doc)
  /\ answer' = [answer EXCEPT ![t] = doc']
  /\ UNCHANGED call

Fail(t) ==
  /\ call[t].op \in {"save", "mutate"} /\ answer[t] = Pending
  /\ answer' = [answer EXCEPT ![t] = Failed]
  /\ UNCHANGED <<doc, call>>

Return(t) ==
  /\ answer[t] # Pending
  /\ call' = [call EXCEPT ![t] = NoCall]
  /\ answer' = [answer EXCEPT ![t] = Pending]
  /\ UNCHANGED doc

Crash ==
  /\ call' = [t \in Threads |-> NoCall]
  /\ answer' = [t \in Threads |-> Pending]
  /\ UNCHANGED doc

Next ==
  \/ \E t \in Threads : Invoke(t) \/ Load(t) \/ Write(t) \/ Fail(t) \/ Return(t)
  \/ Crash

Spec == Init /\ [][Next]_absVars

\* Every call that is not cut short by a crash returns.
FairSpec == Spec /\ \A t \in Threads :
                      WF_absVars(Load(t) \/ Write(t) \/ Fail(t) \/ Return(t))
=============================================================================
