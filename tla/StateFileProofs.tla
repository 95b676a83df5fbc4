--------------------------- MODULE StateFileProofs ---------------------------
(***************************************************************************)
(* Theorems about StateFile, for any number of threads, calls and crashes: *)
(* state.json is never torn, and the three methods are atomic.             *)
(***************************************************************************)
EXTENDS StateFile, TLAPS

\* Where a call may be, given its operation, and what it has by then: an
\* answer only once it is about to unlock, and a complete temporary file
\* when it is about to rename it.
CallInv ==
  \A t \in Threads :
    /\ pc[t] = "idle" <=> call[t] = NoCall
    /\ pc[t] \in {"exists", "read"} => call[t].op \in {"load", "mutate"}
    /\ pc[t] \in {"open", "write", "replace"} => call[t].op \in {"save", "mutate"}
    /\ pc[t] = "unlock" <=> answer[t] # Pending
    /\ pc[t] = "replace" => temp[t] = Dumped(t)

IInv == TypeOK /\ LockHeld /\ FileComplete /\ EditsNewest /\ CallInv

\* What a save or mutation dumps is a document.
LEMMA DumpedType ==
  ASSUME TypeOK, NEW t \in Threads, call[t] # NoCall, call[t].op \in {"save", "mutate"}
  PROVE  Dumped(t) \in Docs
<1>1. call[t] \in Calls /\ loaded[t] \in Docs
  BY DEF TypeOK
<1>2. CASE call[t].op = "save"
  BY <1>1, <1>2 DEF Calls, Dumped
<1>3. CASE call[t].op = "mutate"
  <2>1. call[t].edit \in [Docs -> Docs]
    BY <1>1, <1>3, FileAssumption DEF Calls
  <2> QED BY <1>1, <1>3, <2>1 DEF Dumped
<1> QED BY <1>2, <1>3

\* Whatever state.json holds, what is parsed from it is a document.
LEMMA ParsedType == \A f \in Docs \cup {Missing, Torn} : Parsed(f) \in Docs
  BY FileAssumption DEF Parsed

\* A call is told from no call by its operation.
LEMMA CallsAreCalls == NoCall \notin Calls /\ \A c \in Calls : c.op \in {"load", "save", "mutate"}
  BY DEF Calls, NoCall

\* At the start there is no file and no call.
LEMMA InitialInvariant == Init => IInv
  BY FileAssumption
     DEF Init, IInv, TypeOK, LockHeld, FileComplete, EditsNewest, CallInv, Locations, Critical

\* A step of thread t that holds _state_lock, or waits for it, does not
\* disturb the others: while t is inside they are all outside.
LEMMA OthersOutside ==
  ASSUME IInv, NEW t \in Threads, pc[t] \in Critical, NEW u \in Threads, u # t
  PROVE  pc[u] \notin Critical
  BY DEF IInv, LockHeld

\* A thread's step that keeps its lock obligations: the parts of the
\* invariant about the other threads follow from it.
LEMMA StepInvariant ==
  ASSUME IInv, NEW t \in Threads, Step(t) \/ Invoke(t)
  PROVE  IInv'
<1> USE FileAssumption
<1>1. CASE Invoke(t)
  <2>1. PICK c \in Calls : call' = [call EXCEPT ![t] = c]
    BY <1>1 DEF Invoke
  <2>2. TypeOK'
    BY <1>1, <2>1 DEF IInv, TypeOK, Invoke, Goto, Locations
  <2>3. c # NoCall
    BY CallsAreCalls
  <2>4. LockHeld' /\ FileComplete' /\ EditsNewest'
    BY <1>1, <2>1 DEF IInv, TypeOK, LockHeld, FileComplete, EditsNewest, Invoke, Goto,
                      Critical, Locations
  <2>5. CallInv'
    BY <1>1, <2>1, <2>3 DEF IInv, TypeOK, CallInv, Invoke, Goto, Locations, Dumped
  <2> QED BY <2>2, <2>4, <2>5 DEF IInv
<1>2. CASE Lock(t)
  <2>1. TypeOK'
    BY <1>2 DEF IInv, TypeOK, Lock, Goto, Locations
  <2>2. LockHeld' /\ FileComplete'
    BY <1>2 DEF IInv, TypeOK, LockHeld, FileComplete, Lock, Goto, Critical, Locations
  <2>3. call[t] \in Calls
    BY <1>2 DEF IInv, TypeOK, CallInv, Lock
  <2>4. EditsNewest' /\ CallInv'
    BY <1>2, <2>3, CallsAreCalls
       DEF IInv, TypeOK, EditsNewest, CallInv, Lock, Goto, Locations, Dumped
  <2> QED BY <2>1, <2>2, <2>4 DEF IInv
<1>3. CASE LoadMissing(t) \/ Read(t)
  <2>1. Loaded(t, Parsed(file)) /\ pc[t] \in {"exists", "read"}
    BY <1>3 DEF LoadMissing, Read, Parsed
  <2>2. Parsed(file) \in Docs
    BY ParsedType DEF IInv, TypeOK
  <2>3. call[t].op \in {"load", "mutate"} /\ Pending # Parsed(file)
    BY <2>1, <2>2 DEF IInv, CallInv
  <2>4. /\ pc[t] \in Critical
        /\ \A u \in Threads : u # t => pc[u] \notin Critical
    BY <2>1, OthersOutside DEF Critical, Locations
  <2>5. CASE call[t].op = "load"
    <3>1. TypeOK'
      BY <2>1, <2>2, <2>5 DEF IInv, TypeOK, Loaded, Goto, Locations
    <3>2. LockHeld' /\ FileComplete'
      BY <2>1, <2>4, <2>5
         DEF IInv, TypeOK, LockHeld, FileComplete, Loaded, Goto, Critical, Locations
    <3>3. EditsNewest' /\ CallInv'
      BY <2>1, <2>2, <2>3, <2>5
         DEF IInv, TypeOK, EditsNewest, CallInv, Loaded, Goto, Locations, Dumped
    <3> QED BY <3>1, <3>2, <3>3 DEF IInv
  <2>6. CASE call[t].op = "mutate"
    <3>1. TypeOK'
      BY <2>1, <2>2, <2>6 DEF IInv, TypeOK, Loaded, Goto, Locations
    <3>2. LockHeld' /\ FileComplete'
      BY <2>1, <2>4, <2>6
         DEF IInv, TypeOK, LockHeld, FileComplete, Loaded, Goto, Critical, Locations
    <3>3. EditsNewest' /\ CallInv'
      BY <2>1, <2>2, <2>3, <2>6
         DEF IInv, TypeOK, EditsNewest, CallInv, Loaded, Goto, Locations, Dumped
    <3> QED BY <3>1, <3>2, <3>3 DEF IInv
  <2> QED BY <2>3, <2>5, <2>6
<1>4. CASE LoadExists(t)
  <2>1. TypeOK' /\ LockHeld' /\ FileComplete'
    BY <1>4 DEF IInv, TypeOK, LockHeld, FileComplete, LoadExists, Goto, Critical, Locations
  <2>2. EditsNewest' /\ CallInv'
    BY <1>4 DEF IInv, TypeOK, EditsNewest, CallInv, LoadExists, Goto, Locations, Dumped
  <2> QED BY <2>1, <2>2 DEF IInv
<1>5. CASE OpenTemp(t)
  <2>1. TypeOK' /\ LockHeld' /\ FileComplete'
    BY <1>5 DEF IInv, TypeOK, LockHeld, FileComplete, OpenTemp, Goto, Critical, Locations
  <2>2. EditsNewest' /\ CallInv'
    BY <1>5 DEF IInv, TypeOK, EditsNewest, CallInv, OpenTemp, Goto, Locations, Dumped
  <2> QED BY <2>1, <2>2 DEF IInv
<1>6. CASE WriteTemp(t)
  <2>1. Dumped(t) \in Docs
    BY <1>6, DumpedType DEF IInv, CallInv, WriteTemp, NoCall
  <2>2. TypeOK' /\ LockHeld' /\ FileComplete'
    BY <1>6, <2>1 DEF IInv, TypeOK, LockHeld, FileComplete, WriteTemp, Goto, Critical, Locations
  <2>3. EditsNewest' /\ CallInv'
    BY <1>6, <2>1 DEF IInv, TypeOK, EditsNewest, CallInv, WriteTemp, Goto, Locations, Dumped
  <2> QED BY <2>2, <2>3 DEF IInv
<1>7. CASE WriteFails(t)
  <2>1. TypeOK' /\ LockHeld' /\ FileComplete'
    BY <1>7 DEF IInv, TypeOK, LockHeld, FileComplete, WriteFails, Goto, Critical, Locations
  <2>2. EditsNewest' /\ CallInv'
    BY <1>7 DEF IInv, TypeOK, EditsNewest, CallInv, WriteFails, Goto, Locations, Dumped
  <2> QED BY <2>1, <2>2 DEF IInv
<1>8. CASE Replace(t)
  <2>1. temp[t] \in Docs
    BY <1>8, DumpedType DEF IInv, CallInv, Replace, NoCall
  <2>2. /\ pc[t] \in Critical
        /\ \A u \in Threads : u # t => pc[u] \notin Critical
    BY <1>8, OthersOutside DEF Replace, Critical, Locations
  <2>3. TypeOK' /\ LockHeld' /\ FileComplete'
    BY <1>8, <2>1 DEF IInv, TypeOK, LockHeld, FileComplete, Replace, Goto, Critical, Locations
  <2>4. EditsNewest'
    BY <1>8, <2>2 DEF IInv, TypeOK, EditsNewest, Replace, Goto, Critical, Locations
  <2>5. CallInv'
    BY <1>8, <2>1 DEF IInv, TypeOK, CallInv, Replace, Goto, Locations, Dumped
  <2> QED BY <2>3, <2>4, <2>5 DEF IInv
<1>9. CASE Unlock(t)
  <2>1. \A u \in Threads : u # t => pc[u] \notin Critical
    BY <1>9, OthersOutside DEF Unlock, Critical, Locations
  <2>2. TypeOK' /\ FileComplete'
    BY <1>9 DEF IInv, TypeOK, FileComplete, Unlock, Goto, Locations
  <2>3. LockHeld'
    BY <1>9, <2>1 DEF IInv, TypeOK, LockHeld, Unlock, Goto, Critical, Locations
  <2>4. EditsNewest' /\ CallInv'
    BY <1>9 DEF IInv, TypeOK, EditsNewest, CallInv, Unlock, Goto, Locations, Dumped
  <2> QED BY <2>2, <2>3, <2>4 DEF IInv
<1> QED BY <1>1, <1>2, <1>3, <1>4, <1>5, <1>6, <1>7, <1>8, <1>9 DEF Step

\* A crash drops the calls and the temporary files, and leaves state.json alone.
LEMMA CrashInvariant == IInv /\ Crash => IInv'
<1> SUFFICES ASSUME IInv, Crash PROVE IInv'
  OBVIOUS
<1>1. TypeOK' /\ FileComplete'
  BY FileAssumption DEF IInv, TypeOK, FileComplete, Crash, Locations
<1>2. LockHeld' /\ EditsNewest' /\ CallInv'
  BY FileAssumption DEF LockHeld, EditsNewest, CallInv, Crash, Critical, Locations
<1> QED BY <1>1, <1>2 DEF IInv

\* A stutter changes nothing.
LEMMA UnchangedInvariant == IInv /\ UNCHANGED vars => IInv'
  BY DEF IInv, TypeOK, LockHeld, FileComplete, EditsNewest, CallInv, Dumped, vars

\* Every step keeps the invariant.
LEMMA NextInvariant == IInv /\ [Next]_vars => IInv'
  BY StepInvariant, CrashInvariant, UnchangedInvariant DEF Next, Quiet

\* The invariant the theorems below rest on holds in every reachable state.
THEOREM Invariant == Spec => []IInv
  BY InitialInvariant, NextInvariant, PTL DEF Spec

\* The variables keep their types; state.json holds a whole document.
THEOREM TypeCorrect == Spec => []TypeOK
<1>1. IInv => TypeOK
  BY DEF IInv
<1> QED BY <1>1, Invariant, PTL

\* No crash and no failed write leaves state.json written in part, where
\* _load_state would fall back to the default state.
THEOREM FileNeverTorn == Spec => []FileComplete
<1>1. IInv => FileComplete
  BY DEF IInv
<1> QED BY <1>1, Invariant, PTL

\* _state_lock is held by exactly the thread inside one of the three methods.
THEOREM LockDiscipline == Spec => []LockHeld
<1>1. IInv => LockHeld
  BY DEF IInv
<1> QED BY <1>1, Invariant, PTL

\* _mutate_state never writes an edit of an outdated document.
THEOREM MutationsEditTheNewest == Spec => []EditsNewest
<1>1. IInv => EditsNewest
  BY DEF IInv
<1> QED BY <1>1, Invariant, PTL

\* Every step of the three methods is, to their callers, one step of the
\* atomic document or none.
LEMMA StepSimulation ==
  ASSUME IInv, NEW t \in Threads, Step(t) \/ Invoke(t)
  PROVE  [Atomic!Next]_(Atomic!absVars)
<1> USE FileAssumption DEF Atomic!absVars
<1>1. CASE Invoke(t)
  <2>1. call[t] = NoCall
    BY <1>1 DEF Invoke, IInv, CallInv
  <2>2. Atomic!Invoke(t)
    BY <1>1, <2>1 DEF Invoke, Atomic!Invoke, Atomic!NoCall, NoCall, Atomic!Calls, Calls
  <2> QED BY <2>2 DEF Atomic!Next
<1>2. CASE Lock(t) \/ LoadExists(t) \/ OpenTemp(t) \/ WriteTemp(t)
  BY <1>2 DEF Lock, LoadExists, OpenTemp, WriteTemp
<1>3. CASE LoadMissing(t) \/ Read(t)
  <2>1. Loaded(t, Parsed(file)) /\ pc[t] \in {"exists", "read"}
    BY <1>3 DEF LoadMissing, Read, Parsed
  <2>2. answer[t] = Pending
    BY <2>1 DEF IInv, CallInv
  <2>3. CASE call[t].op = "load"
    <3>1. Atomic!Load(t)
      BY <2>1, <2>2, <2>3 DEF Loaded, Atomic!Load
    <3> QED BY <3>1 DEF Atomic!Next
  <2>4. CASE call[t].op # "load"
    BY <2>1, <2>4 DEF Loaded
  <2> QED BY <2>3, <2>4
<1>4. CASE WriteFails(t)
  <2>1. answer[t] = Pending /\ call[t].op \in {"save", "mutate"}
    BY <1>4 DEF IInv, CallInv, WriteFails
  <2>2. Atomic!Fail(t)
    BY <1>4, <2>1 DEF WriteFails, Atomic!Fail
  <2> QED BY <2>2 DEF Atomic!Next
<1>5. CASE Replace(t)
  <2>1. answer[t] = Pending /\ call[t].op \in {"save", "mutate"} /\ temp[t] = Dumped(t)
    BY <1>5 DEF IInv, CallInv, Replace
  <2>2. temp[t] \in Docs
    BY <2>1, DumpedType DEF IInv, NoCall
  <2>3. Dumped(t) = Atomic!Written(call[t], Parsed(file))
    BY <1>5, <2>1 DEF IInv, EditsNewest, Replace, Dumped, Atomic!Written
  <2>4. Parsed(file)' = Dumped(t)
    BY <1>5, <2>1, <2>2 DEF Replace, Parsed
  <2>5. Atomic!Write(t)
    BY <1>5, <2>1, <2>3, <2>4 DEF Replace, Atomic!Write
  <2> QED BY <2>5 DEF Atomic!Next
<1>6. CASE Unlock(t)
  <2>1. answer[t] # Pending
    BY <1>6 DEF IInv, CallInv, Unlock
  <2>2. Atomic!Return(t)
    BY <1>6, <2>1 DEF Unlock, Atomic!Return, Atomic!NoCall, NoCall, Parsed
  <2> QED BY <2>2 DEF Atomic!Next
<1> QED BY <1>1, <1>2, <1>3, <1>4, <1>5, <1>6 DEF Step

\* Every step, crashes included, is one of the atomic document or none.
LEMMA NextSimulation == IInv /\ [Next]_vars => [Atomic!Next]_(Atomic!absVars)
<1>1. Crash => Atomic!Crash
  BY DEF Crash, Atomic!Crash, Atomic!NoCall, NoCall, Parsed
<1>2. UNCHANGED vars => UNCHANGED Atomic!absVars
  BY DEF vars, Atomic!absVars, Parsed
<1> QED BY <1>1, <1>2, StepSimulation DEF Next, Quiet, Atomic!Next

\* _load_state, _save_state and _mutate_state are atomic: what threads see of
\* them is a behaviour of AtomicDocument.
THEOREM StateFileIsAtomic == Spec => Atomic!Spec
<1>1. Init => Atomic!Init
  BY FileAssumption DEF Init, Atomic!Init, Atomic!NoCall, NoCall, Parsed
<1> QED BY <1>1, Invariant, NextSimulation, PTL DEF Spec, Atomic!Spec
=============================================================================
