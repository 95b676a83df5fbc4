------------------------- MODULE ApiServerProofs -------------------------
(***************************************************************************)
(* Theorems about ApiServer, for any number of threads, requests and       *)
(* faults and any list of targets.                                         *)
(***************************************************************************)
EXTENDS ApiServer, SequenceTheorems, TLAPS

-----------------------------------------------------------------------------
(* The inductive invariant.                                                *)

\* backends_lock is held by exactly the thread that builds.
LockHeld == \A t \in Threads : pc[t] = "building" <=> backendsLock = t

\* A thread builds only what is not there yet.
FirstBuild == \A t \in Threads : pc[t] = "building" => backends[Key(t)] = 0

\* A local variable never outlives its place in the cache.
Held ==
  \A t \in Threads :
    pc[t] \in Holding => req[t].backend = backends[Key(t)] /\ backends[Key(t)] # 0

\* One action lock per instance.
OneAtWork ==
  \A t, u \in Threads :
    pc[t] = "working" /\ pc[u] = "working" /\ req[t].backend = req[u].backend => t = u

\* No answer before the end, one then.
Answers ==
  \A t \in Threads :
    /\ pc[t] # "idle" => replies[t] = << >>
    /\ Len(replies[t]) <= 1
    /\ pc[t] = "idle" /\ req[t].batch # 0 /\ ~req[t].gone /\ ~req[t].faulty
         => Len(replies[t]) = 1

\* Loops start at the first target; only actions take an action lock;
\* only unknown ones are answered 404.
Stages ==
  \A t \in Threads :
    /\ pc[t] \in {"received", "read"} => req[t].at = 1
    /\ pc[t] \in {"waiting", "working"} => req[t].kind = "action"
    /\ pc[t] = "send" /\ req[t].code = "not_found" => req[t].kind = "unknown"

\* A configure request that may still write, or will be answered "ok".
Active(t) ==
  /\ req[t].kind = "configure"
  /\ pc[t] \in {"lookup", "building", "use"} \/ (pc[t] = "send" /\ req[t].code = "ok")

Alone ==
  \A t, u \in Threads : Active(t) /\ req[t].alone /\ Active(u) => t = u

\* The backend of target i has the batch.
Entered(i, batch) ==
  LET k == CacheKey(SortedTargets[i])
  IN  backends[k] # 0 /\ credentials[backends[k]] = batch

\* A configure request on its own has reached all targets it has passed.
Reach ==
  \A t \in Threads :
    Active(t) /\ req[t].alone =>
      \A i \in 1..Len(SortedTargets) :
        i < req[t].at \/ pc[t] = "send" => Entered(i, req[t].batch)

Calm ==
  calm # 0 =>
    /\ \A t \in Threads : ~Active(t)
    /\ \A i \in 1..Len(SortedTargets) : Entered(i, calm)

IInv ==
  /\ TypeOK /\ LockHeld /\ FirstBuild /\ Held /\ OneAtWork
  /\ Answers /\ Stages /\ Alone /\ Reach /\ Calm

\* What get_active_backend makes of a target is a key of the cache.
LEMMA KeyFacts ==
  /\ \A target : CacheKey(target) \in Keys
  /\ \A t : Key(t) \in Keys
  /\ Len(SortedTargets) \in Nat \ {0}
<1>1. Len(SortedTargets) \in Nat \ {0}
  <2>1. PICK i \in DOMAIN SortedTargets : SortedTargets[i] = "local-lab"
    BY TargetAssumption DEF Range
  <2>2. DOMAIN SortedTargets = 1..Len(SortedTargets) /\ Len(SortedTargets) \in Nat
    BY TargetAssumption, LenProperties
  <2> QED BY <2>1, <2>2
<1>2. \A target : CacheKey(target) \in Keys
  BY DEF CacheKey, Keys
<1>3. \A t : Key(t) \in Keys
  BY <1>2 DEF Key
<1> QED BY <1>1, <1>2, <1>3

\* Every request's record is well-formed.
LEMMA NewRequest ==
  ASSUME NEW kind \in Kinds, NEW target \in STRING, NEW n \in Nat
  PROVE  Received(kind, target, n) \in Requests
BY DEF Requests, Received, Codes

\* The key the other targets fall back to.
LEMMA LabIsAString == "local-lab" \in STRING
<1>1. PICK i \in DOMAIN SortedTargets : SortedTargets[i] = "local-lab"
  BY TargetAssumption DEF Range
<1> QED BY <1>1, TargetAssumption, ElementOfSeq, LenProperties

\* Before its first request a thread has the locals of no request.
LEMMA FirstRequest ==
  /\ Received("status", "local-lab", 0) \in Requests
  /\ Received("status", "local-lab", 0).at = 1
BY LabIsAString DEF Requests, Received, Kinds, Codes

\* At the start nothing is built and nobody is at work.
LEMMA InitEstablishes == Init => IInv
<1> SUFFICES ASSUME Init PROVE IInv
  OBVIOUS
<1> USE DEF Init
<1>1. TypeOK
  <2>1. \A t \in Threads : req[t] \in Requests /\ req[t].at = 1
    BY FirstRequest
  <2>2. req \in [Threads -> Requests]
    BY <2>1
  <2>3. credentials \in Seq(Nat) /\ Len(credentials) = 1
    OBVIOUS
  <2>4. replies \in [Threads -> Seq(Codes)]
    BY DEF Codes
  <2>5. pc \in [Threads -> Locations]
    BY DEF Locations
  <2> QED BY <2>1, <2>2, <2>3, <2>4, <2>5, KeyFacts DEF TypeOK
<1>2. LockHeld /\ FirstBuild /\ Held /\ OneAtWork /\ Stages
  BY ThreadAssumption DEF LockHeld, FirstBuild, Held, OneAtWork, Stages, Holding
<1>3. Answers
  BY DEF Answers, Received
<1>4. Alone /\ Reach /\ Calm
  BY DEF Alone, Reach, Calm, Active, Received
<1> QED BY <1>1, <1>2, <1>3, <1>4 DEF IInv

-----------------------------------------------------------------------------
(* Every step preserves it.                                                *)

\* A step that neither writes a backend nor brings a configure request on.
LEMMA Moves ==
  ASSUME IInv, NEW t \in Threads,
         \A u \in Threads \ {t} : req'[u] = req[u] /\ pc'[u] = pc[u],
         UNCHANGED <<backends, credentials, calm>>,
         Active(t)' =>
           /\ Active(t)
           /\ req'[t].alone = req[t].alone
           /\ req'[t].batch = req[t].batch
           /\ req'[t].at = req[t].at
           /\ pc'[t] = "send" => pc[t] = "send"
  PROVE  Alone' /\ Reach' /\ Calm'
<1>1. \A u \in Threads : Active(u)' => Active(u)
  BY DEF Active
<1>2. \A u \in Threads : Active(u)' =>
        /\ req'[u].alone = req[u].alone
        /\ req'[u].batch = req[u].batch
        /\ req'[u].at = req[u].at
        /\ pc'[u] = "send" => pc[u] = "send"
  OBVIOUS
<1>3. \A i, b : Entered(i, b)' <=> Entered(i, b)
  BY DEF Entered
<1>4. Alone'
  BY <1>1, <1>2 DEF IInv, Alone
<1>5. Reach'
  BY <1>1, <1>2, <1>3 DEF IInv, Reach
<1>6. Calm'
  BY <1>1, <1>3 DEF IInv, Calm
<1> QED BY <1>4, <1>5, <1>6

\* A refused POST is answered without having touched a backend.
LEMMA RefuseKeeps ==
  ASSUME IInv, NEW t \in Threads, Refuse(t)
  PROVE  IInv'
<1>1. /\ pc[t] = "received"
      /\ UNCHANGED <<backends, credentials, backendsLock, replies, calm, requests, faults>>
  BY DEF Refuse, Goto, Answer
<1>2. req'[t] = [req[t] EXCEPT !.code = "forbidden"] /\ pc'[t] = "send"
  BY DEF Refuse, Goto, Answer, IInv, TypeOK
<1>3. \A u \in Threads \ {t} : req'[u] = req[u] /\ pc'[u] = pc[u]
  BY DEF Refuse, Goto, Answer, IInv, TypeOK
<1>4. req[t] \in Requests /\ req[t].at \in 1..Len(SortedTargets) /\ Len(SortedTargets) \in Nat
  BY KeyFacts DEF IInv, TypeOK
<1>5. /\ req'[t] \in Requests
      /\ req'[t].kind = req[t].kind
      /\ req'[t].target = req[t].target
      /\ req'[t].batch = req[t].batch
      /\ req'[t].at = req[t].at
      /\ req'[t].backend = req[t].backend
      /\ req'[t].report = req[t].report
      /\ req'[t].gone = req[t].gone
      /\ req'[t].faulty = req[t].faulty
      /\ req'[t].alone = req[t].alone
      /\ req'[t].code = "forbidden"
      /\ pc'[t] = "send"
  BY <1>2, <1>4 DEF Requests, Codes
<1>6. \A u \in Threads : Key(u)' = Key(u)
  BY <1>3, <1>5 DEF Key, Wanted
<1>7. req' \in [Threads -> Requests] /\ pc' \in [Threads -> Locations]
  BY <1>1, <1>2, <1>3, <1>5 DEF Refuse, Goto, Answer, IInv, TypeOK, Locations
<1>8. TypeOK'
  BY <1>1, <1>3, <1>4, <1>5, <1>7, ThreadAssumption DEF IInv, TypeOK
<1>9. LockHeld'
  BY <1>1, <1>3, <1>5, <1>6, ThreadAssumption DEF IInv, TypeOK, LockHeld
<1>10. FirstBuild'
  BY <1>1, <1>3, <1>5, <1>6, ThreadAssumption DEF IInv, TypeOK, FirstBuild
<1>11. Held'
  BY <1>1, <1>3, <1>5, <1>6, ThreadAssumption DEF IInv, TypeOK, Held, Holding
<1>12. OneAtWork'
  BY <1>1, <1>3, <1>5, <1>6, ThreadAssumption DEF IInv, OneAtWork
<1>13. Answers'
  BY <1>1, <1>3, <1>5, <1>6, ThreadAssumption DEF IInv, TypeOK, Answers
<1>14. Stages'
  BY <1>1, <1>3, <1>5, <1>6, ThreadAssumption DEF IInv, TypeOK, Stages
<1>15. Active(t)' =>
        /\ Active(t) /\ req'[t].alone = req[t].alone /\ req'[t].batch = req[t].batch
        /\ req'[t].at = req[t].at /\ (pc'[t] = "send" => pc[t] = "send")
  BY <1>1, <1>3, <1>5 DEF IInv, TypeOK, Stages, Active
<1>16. Alone' /\ Reach' /\ Calm'
  BY <1>1, <1>3, <1>15, Moves
<1> QED BY <1>8, <1>9, <1>10, <1>11, <1>12, <1>13, <1>14, <1>16 DEF IInv

\* Passing the guard changes the place of the request only.
LEMMA AdmitKeeps ==
  ASSUME IInv, NEW t \in Threads, Admit(t)
  PROVE  IInv'
<1>1. /\ pc[t] = "received"
      /\ UNCHANGED <<backends, credentials, backendsLock, replies, calm, requests, faults>>
  BY DEF Admit, Goto
<1>2. req'[t] = req[t] /\ pc'[t] = "read"
  BY DEF Admit, Goto, IInv, TypeOK
<1>3. \A u \in Threads \ {t} : req'[u] = req[u] /\ pc'[u] = pc[u]
  BY DEF Admit, Goto, IInv, TypeOK
<1>4. req[t] \in Requests /\ req[t].at \in 1..Len(SortedTargets) /\ Len(SortedTargets) \in Nat
  BY KeyFacts DEF IInv, TypeOK
<1>5. /\ req'[t] \in Requests
      /\ req'[t].kind = req[t].kind
      /\ req'[t].target = req[t].target
      /\ req'[t].batch = req[t].batch
      /\ req'[t].at = req[t].at
      /\ req'[t].backend = req[t].backend
      /\ req'[t].code = req[t].code
      /\ req'[t].report = req[t].report
      /\ req'[t].gone = req[t].gone
      /\ req'[t].faulty = req[t].faulty
      /\ req'[t].alone = req[t].alone
      /\ pc'[t] = "read"
  BY <1>2, <1>4 DEF Requests, Codes
<1>6. \A u \in Threads : Key(u)' = Key(u)
  BY <1>3, <1>5 DEF Key, Wanted
<1>7. req' \in [Threads -> Requests] /\ pc' \in [Threads -> Locations]
  BY <1>1, <1>2, <1>3, <1>5 DEF Admit, Goto, IInv, TypeOK, Locations
<1>8. TypeOK'
  BY <1>1, <1>3, <1>4, <1>5, <1>7, ThreadAssumption DEF IInv, TypeOK
<1>9. LockHeld'
  BY <1>1, <1>3, <1>5, <1>6, ThreadAssumption DEF IInv, TypeOK, LockHeld
<1>10. FirstBuild'
  BY <1>1, <1>3, <1>5, <1>6, ThreadAssumption DEF IInv, TypeOK, FirstBuild
<1>11. Held'
  BY <1>1, <1>3, <1>5, <1>6, ThreadAssumption DEF IInv, TypeOK, Held, Holding
<1>12. OneAtWork'
  BY <1>1, <1>3, <1>5, <1>6, ThreadAssumption DEF IInv, OneAtWork
<1>13. Answers'
  BY <1>1, <1>3, <1>5, <1>6, ThreadAssumption DEF IInv, TypeOK, Answers
<1>14. Stages'
  BY <1>1, <1>3, <1>5, <1>6, ThreadAssumption DEF IInv, TypeOK, Stages
<1>15. Active(t)' =>
        /\ Active(t) /\ req'[t].alone = req[t].alone /\ req'[t].batch = req[t].batch
        /\ req'[t].at = req[t].at /\ (pc'[t] = "send" => pc[t] = "send")
  BY <1>1, <1>3, <1>5 DEF IInv, TypeOK, Stages, Active
<1>16. Alone' /\ Reach' /\ Calm'
  BY <1>1, <1>3, <1>15, Moves
<1> QED BY <1>8, <1>9, <1>10, <1>11, <1>12, <1>13, <1>14, <1>16 DEF IInv

\* A payload that cannot be read ends in an except branch.
LEMMA ReadFailsKeeps ==
  ASSUME IInv, NEW t \in Threads, ReadFails(t)
  PROVE  IInv'
<1>1. /\ pc[t] = "read"
      /\ UNCHANGED <<backends, credentials, backendsLock, replies, calm, requests, faults>>
  BY DEF ReadFails, Goto, Answer
<1>2. \/ req[t].kind = "configure" /\ req'[t] = [req[t] EXCEPT !.code = "bad_request"]
         /\ pc'[t] = "send"
      \/ req[t].kind # "configure"
         /\ req'[t] = [req[t] EXCEPT !.target = "local-lab", !.report = TRUE]
            /\ pc'[t] = "lookup"
  BY DEF ReadFails, Goto, Answer, IInv, TypeOK
<1>3. \A u \in Threads \ {t} : req'[u] = req[u] /\ pc'[u] = pc[u]
  BY DEF ReadFails, Goto, Answer, IInv, TypeOK
<1>4. req[t] \in Requests /\ req[t].at \in 1..Len(SortedTargets) /\ Len(SortedTargets) \in Nat
  BY KeyFacts DEF IInv, TypeOK
<1>5. /\ req'[t] \in Requests
      /\ req'[t].kind = req[t].kind
      /\ req'[t].batch = req[t].batch
      /\ req'[t].at = req[t].at
      /\ req'[t].backend = req[t].backend
      /\ req'[t].gone = req[t].gone
      /\ req'[t].faulty = req[t].faulty
      /\ req'[t].alone = req[t].alone
      /\ req'[t].kind = "configure" => pc'[t] = "send" /\ req'[t].code = "bad_request"
      /\ pc'[t] \in {"send", "lookup"}
      /\ pc'[t] = "send" => req'[t].code = "bad_request"
  <2>1. CASE req[t].kind = "configure" /\ req'[t] = [req[t] EXCEPT !.code = "bad_request"]
             /\ pc'[t] = "send"
    BY <1>4, <2>1, LabIsAString DEF Requests, Codes
  <2>2. CASE req[t].kind # "configure"
             /\ req'[t] = [req[t] EXCEPT !.target = "local-lab", !.report = TRUE]
                /\ pc'[t] = "lookup"
    BY <1>4, <2>2, LabIsAString DEF Requests, Codes
  <2> QED BY <1>2, <2>1, <2>2
<1>6. \A u \in Threads \ {t} : Key(u)' = Key(u)
  BY <1>3, <1>5 DEF Key, Wanted
<1>7. req' \in [Threads -> Requests] /\ pc' \in [Threads -> Locations]
  BY <1>1, <1>2, <1>3, <1>5 DEF ReadFails, Goto, Answer, IInv, TypeOK, Locations
<1>8. TypeOK'
  BY <1>1, <1>3, <1>4, <1>5, <1>7, ThreadAssumption DEF IInv, TypeOK
<1>9. LockHeld'
  BY <1>1, <1>3, <1>5, <1>6, ThreadAssumption DEF IInv, TypeOK, LockHeld
<1>10. FirstBuild'
  BY <1>1, <1>3, <1>5, <1>6, ThreadAssumption DEF IInv, TypeOK, FirstBuild
<1>11. Held'
  BY <1>1, <1>3, <1>5, <1>6, ThreadAssumption DEF IInv, TypeOK, Held, Holding
<1>12. OneAtWork'
  BY <1>1, <1>3, <1>5, <1>6, ThreadAssumption DEF IInv, OneAtWork
<1>13. Answers'
  BY <1>1, <1>3, <1>5, <1>6, ThreadAssumption DEF IInv, TypeOK, Answers
<1>14. Stages'
  BY <1>1, <1>3, <1>5, <1>6, ThreadAssumption DEF IInv, TypeOK, Stages
<1>15. Active(t)' =>
        /\ Active(t) /\ req'[t].alone = req[t].alone /\ req'[t].batch = req[t].batch
        /\ req'[t].at = req[t].at /\ (pc'[t] = "send" => pc[t] = "send")
  BY <1>1, <1>3, <1>5 DEF IInv, TypeOK, Stages, Active
<1>16. Alone' /\ Reach' /\ Calm'
  BY <1>1, <1>3, <1>15, Moves
<1> QED BY <1>8, <1>9, <1>10, <1>11, <1>12, <1>13, <1>14, <1>16 DEF IInv

\* A hit takes what the cache holds; a miss takes the lock to build.
LEMMA LookupKeeps ==
  ASSUME IInv, NEW t \in Threads, Lookup(t)
  PROVE  IInv'
<1>1. /\ pc[t] = "lookup"
      /\ backendsLock = NoThread
      /\ UNCHANGED <<backends, credentials, replies, calm, requests, faults>>
  BY DEF Lookup, Goto
<1>2. \/ backends[Key(t)] # 0 /\ UNCHANGED backendsLock
         /\ req'[t] = [req[t] EXCEPT !.backend = backends[Key(t)]] /\ pc'[t] = "use"
      \/ backends[Key(t)] = 0 /\ backendsLock' = t /\ req'[t] = req[t] /\ pc'[t] = "building"
  BY DEF Lookup, Goto, IInv, TypeOK
<1>3. \A u \in Threads \ {t} : req'[u] = req[u] /\ pc'[u] = pc[u]
  BY DEF Lookup, Goto, IInv, TypeOK
<1>4. req[t] \in Requests /\ req[t].at \in 1..Len(SortedTargets)
      /\ Len(SortedTargets) \in Nat /\ backends[Key(t)] \in Nat
  BY KeyFacts DEF IInv, TypeOK
<1>5. /\ req'[t] \in Requests
      /\ req'[t].kind = req[t].kind
      /\ req'[t].target = req[t].target
      /\ req'[t].batch = req[t].batch
      /\ req'[t].at = req[t].at
      /\ req'[t].code = req[t].code
      /\ req'[t].report = req[t].report
      /\ req'[t].gone = req[t].gone
      /\ req'[t].faulty = req[t].faulty
      /\ req'[t].alone = req[t].alone
  <2>1. CASE backends[Key(t)] # 0 /\ UNCHANGED backendsLock
             /\ req'[t] = [req[t] EXCEPT !.backend = backends[Key(t)]] /\ pc'[t] = "use"
    BY <1>4, <2>1 DEF Requests, Codes
  <2>2. CASE backends[Key(t)] = 0 /\ backendsLock' = t /\ req'[t] = req[t]
             /\ pc'[t] = "building"
    BY <1>4, <2>2 DEF Requests, Codes
  <2> QED BY <1>2, <2>1, <2>2
<1>6. \/ backends[Key(t)] # 0 /\ UNCHANGED backendsLock
         /\ req'[t].backend = backends[Key(t)] /\ pc'[t] = "use"
      \/ backends[Key(t)] = 0 /\ backendsLock' = t /\ pc'[t] = "building"
  <2>1. [req[t] EXCEPT !.backend = backends[Key(t)]].backend = backends[Key(t)]
    BY <1>4 DEF Requests
  <2> QED BY <1>2, <2>1
<1>7. \A u \in Threads : Key(u)' = Key(u)
  BY <1>3, <1>5 DEF Key, Wanted
<1>8. req' \in [Threads -> Requests] /\ pc' \in [Threads -> Locations]
  BY <1>1, <1>2, <1>3, <1>5, <1>6 DEF Lookup, Goto, IInv, TypeOK, Locations
<1>9. TypeOK'
  BY <1>1, <1>3, <1>5, <1>4, <1>6, <1>8, ThreadAssumption DEF IInv, TypeOK
<1>10. LockHeld'
  BY <1>1, <1>3, <1>5, <1>6, <1>7, ThreadAssumption DEF IInv, TypeOK, LockHeld
<1>11. FirstBuild'
  BY <1>1, <1>3, <1>5, <1>6, <1>7, ThreadAssumption DEF IInv, TypeOK, FirstBuild
<1>12. Held'
  BY <1>1, <1>3, <1>5, <1>6, <1>7, ThreadAssumption DEF IInv, TypeOK, Held, Holding
<1>13. OneAtWork'
  BY <1>1, <1>3, <1>5, <1>6, <1>7, ThreadAssumption DEF IInv, OneAtWork
<1>14. Answers'
  BY <1>1, <1>3, <1>5, <1>6, <1>7, ThreadAssumption DEF IInv, TypeOK, Answers
<1>15. Stages'
  BY <1>1, <1>3, <1>5, <1>6, <1>7, ThreadAssumption DEF IInv, TypeOK, Stages
<1>16. Active(t)' =>
        /\ Active(t) /\ req'[t].alone = req[t].alone /\ req'[t].batch = req[t].batch
        /\ req'[t].at = req[t].at /\ (pc'[t] = "send" => pc[t] = "send")
  BY <1>1, <1>3, <1>5, <1>6 DEF IInv, TypeOK, Stages, Active
<1>17. Alone' /\ Reach' /\ Calm'
  BY <1>1, <1>3, <1>16, Moves
<1> QED BY <1>9, <1>10, <1>11, <1>12, <1>13, <1>14, <1>15, <1>17 DEF IInv

\* A constructor that raises gives the lock back and leaves no entry.
LEMMA BuildFailsKeeps ==
  ASSUME IInv, NEW t \in Threads, BuildFails(t)
  PROVE  IInv'
<1>1. /\ pc[t] = "building"
      /\ backendsLock' = NoThread
      /\ faults' = faults + 1
      /\ UNCHANGED <<backends, credentials, replies, calm, requests>>
  BY DEF BuildFails, Raise, Goto
<1>2. \/ req[t].kind = "configure"
         /\ req'[t] = [req[t] EXCEPT !.faulty = TRUE, !.code = "bad_request"] /\ pc'[t] = "send"
      \/ req[t].kind \in {"action", "unknown"}
         /\ req'[t] = [req[t] EXCEPT !.faulty = TRUE, !.report = TRUE] /\ pc'[t] = "lookup"
      \/ req'[t] = [req[t] EXCEPT !.faulty = TRUE] /\ pc'[t] = "idle"
  BY DEF BuildFails, Raise, Goto, IInv, TypeOK
<1>3. \A u \in Threads \ {t} : req'[u] = req[u] /\ pc'[u] = pc[u]
  BY DEF BuildFails, Raise, Goto, IInv, TypeOK
<1>4. req[t] \in Requests /\ req[t].at \in 1..Len(SortedTargets) /\ Len(SortedTargets) \in Nat
  BY KeyFacts DEF IInv, TypeOK
<1>5. /\ req'[t] \in Requests
      /\ req'[t].kind = req[t].kind
      /\ req'[t].target = req[t].target
      /\ req'[t].batch = req[t].batch
      /\ req'[t].at = req[t].at
      /\ req'[t].backend = req[t].backend
      /\ req'[t].gone = req[t].gone
      /\ req'[t].alone = req[t].alone
      /\ req'[t].faulty
      /\ pc'[t] \in {"send", "lookup", "idle"}
      /\ pc'[t] = "send" => req'[t].code = "bad_request"
      /\ pc'[t] = "lookup" => req[t].kind \in {"action", "unknown"}
  <2>1. CASE req[t].kind = "configure"
             /\ req'[t] = [req[t] EXCEPT !.faulty = TRUE, !.code = "bad_request"]
             /\ pc'[t] = "send"
    BY <1>4, <2>1 DEF Requests, Codes
  <2>2. CASE req[t].kind \in {"action", "unknown"}
             /\ req'[t] = [req[t] EXCEPT !.faulty = TRUE, !.report = TRUE] /\ pc'[t] = "lookup"
    BY <1>4, <2>2 DEF Requests, Codes
  <2>3. CASE req'[t] = [req[t] EXCEPT !.faulty = TRUE] /\ pc'[t] = "idle"
    BY <1>4, <2>3 DEF Requests, Codes
  <2> QED BY <1>2, <2>1, <2>2, <2>3
<1>6. \A u \in Threads : Key(u)' = Key(u)
  BY <1>3, <1>5 DEF Key, Wanted
<1>7. req' \in [Threads -> Requests] /\ pc' \in [Threads -> Locations]
  BY <1>1, <1>2, <1>3, <1>5 DEF BuildFails, Raise, Goto, IInv, TypeOK, Locations
<1>8. TypeOK'
  <2>1. \A u \in Threads : req'[u].at \in 1..Len(SortedTargets)
    BY <1>4, <1>3, <1>5 DEF IInv, TypeOK
  <2>2. faults' \in Nat /\ backendsLock' \in Threads \cup {NoThread}
    BY <1>1 DEF IInv, TypeOK
  <2> QED BY <1>1, <1>7, <2>1, <2>2 DEF IInv, TypeOK
<1>9. LockHeld'
  BY <1>1, <1>3, <1>5, <1>6, ThreadAssumption DEF IInv, TypeOK, LockHeld
<1>10. FirstBuild'
  BY <1>1, <1>3, <1>5, <1>6, ThreadAssumption DEF IInv, TypeOK, FirstBuild
<1>11. Held'
  BY <1>1, <1>3, <1>5, <1>6, ThreadAssumption DEF IInv, TypeOK, Held, Holding
<1>12. OneAtWork'
  BY <1>1, <1>3, <1>5, <1>6, ThreadAssumption DEF IInv, OneAtWork
<1>13. Answers'
  BY <1>1, <1>3, <1>5, <1>6, ThreadAssumption DEF IInv, TypeOK, Answers
<1>14. Stages'
  BY <1>1, <1>3, <1>5, <1>6, ThreadAssumption DEF IInv, TypeOK, Stages
<1>15. Active(t)' =>
        /\ Active(t) /\ req'[t].alone = req[t].alone /\ req'[t].batch = req[t].batch
        /\ req'[t].at = req[t].at /\ (pc'[t] = "send" => pc[t] = "send")
  BY <1>1, <1>3, <1>5 DEF IInv, TypeOK, Stages, Active
<1>16. Alone' /\ Reach' /\ Calm'
  BY <1>1, <1>3, <1>15, Moves
<1> QED BY <1>8, <1>9, <1>10, <1>11, <1>12, <1>13, <1>14, <1>16 DEF IInv

\* Reading a state changes nothing that is shared.
LEMMA ReadStateKeeps ==
  ASSUME IInv, NEW t \in Threads, ReadState(t)
  PROVE  IInv'
<1>1. /\ pc[t] = "use"
      /\ UNCHANGED <<backends, credentials, backendsLock, replies, calm, requests, faults>>
  BY DEF ReadState, Goto, Answer
<1>2. \/ req[t].report /\ req'[t] = [req[t] EXCEPT !.code = "failed"] /\ pc'[t] = "send"
      \/ req[t].kind = "status" /\ req'[t] = [req[t] EXCEPT !.code = "ok"] /\ pc'[t] = "send"
  BY DEF ReadState, Goto, Answer, IInv, TypeOK
<1>3. \A u \in Threads \ {t} : req'[u] = req[u] /\ pc'[u] = pc[u]
  BY DEF ReadState, Goto, Answer, IInv, TypeOK
<1>4. req[t] \in Requests /\ req[t].at \in 1..Len(SortedTargets) /\ Len(SortedTargets) \in Nat
  BY KeyFacts DEF IInv, TypeOK
<1>5. /\ req'[t] \in Requests
      /\ req'[t].kind = req[t].kind
      /\ req'[t].target = req[t].target
      /\ req'[t].batch = req[t].batch
      /\ req'[t].at = req[t].at
      /\ req'[t].backend = req[t].backend
      /\ req'[t].report = req[t].report
      /\ req'[t].gone = req[t].gone
      /\ req'[t].faulty = req[t].faulty
      /\ req'[t].alone = req[t].alone
      /\ pc'[t] = "send"
      /\ req'[t].code # "not_found"
      /\ req'[t].kind = "configure" => req'[t].code # "ok"
  <2>1. CASE req[t].report /\ req'[t] = [req[t] EXCEPT !.code = "failed"] /\ pc'[t] = "send"
    BY <1>4, <2>1 DEF Requests, Codes
  <2>2. CASE req[t].kind = "status" /\ req'[t] = [req[t] EXCEPT !.code = "ok"]
             /\ pc'[t] = "send"
    BY <1>4, <2>2 DEF Requests, Codes
  <2> QED BY <1>2, <2>1, <2>2
<1>6. \A u \in Threads : Key(u)' = Key(u)
  BY <1>3, <1>5 DEF Key, Wanted
<1>7. req' \in [Threads -> Requests] /\ pc' \in [Threads -> Locations]
  BY <1>1, <1>2, <1>3, <1>5 DEF ReadState, Goto, Answer, IInv, TypeOK, Locations
<1>8. TypeOK'
  BY <1>1, <1>3, <1>4, <1>5, <1>7, ThreadAssumption DEF IInv, TypeOK
<1>9. LockHeld'
  BY <1>1, <1>3, <1>5, <1>6, ThreadAssumption DEF IInv, TypeOK, LockHeld
<1>10. FirstBuild'
  BY <1>1, <1>3, <1>5, <1>6, ThreadAssumption DEF IInv, TypeOK, FirstBuild
<1>11. Held'
  BY <1>1, <1>3, <1>5, <1>6, ThreadAssumption DEF IInv, TypeOK, Held, Holding
<1>12. OneAtWork'
  BY <1>1, <1>3, <1>5, <1>6, ThreadAssumption DEF IInv, OneAtWork
<1>13. Answers'
  BY <1>1, <1>3, <1>5, <1>6, ThreadAssumption DEF IInv, TypeOK, Answers
<1>14. Stages'
  BY <1>1, <1>3, <1>5, <1>6, ThreadAssumption DEF IInv, TypeOK, Stages
<1>15. Active(t)' =>
        /\ Active(t) /\ req'[t].alone = req[t].alone /\ req'[t].batch = req[t].batch
        /\ req'[t].at = req[t].at /\ (pc'[t] = "send" => pc[t] = "send")
  BY <1>1, <1>3, <1>5 DEF IInv, TypeOK, Stages, Active
<1>16. Alone' /\ Reach' /\ Calm'
  BY <1>1, <1>3, <1>15, Moves
<1> QED BY <1>8, <1>9, <1>10, <1>11, <1>12, <1>13, <1>14, <1>16 DEF IInv

\* Nor does a read that raises.
LEMMA ReadStateFailsKeeps ==
  ASSUME IInv, NEW t \in Threads, ReadStateFails(t)
  PROVE  IInv'
<1>1. /\ pc[t] = "use"
      /\ faults' = faults + 1
      /\ UNCHANGED <<backends, credentials, backendsLock, replies, calm, requests>>
  BY DEF ReadStateFails, Raise, Goto
<1>2. \/ req[t].kind = "configure"
         /\ req'[t] = [req[t] EXCEPT !.faulty = TRUE, !.code = "bad_request"] /\ pc'[t] = "send"
      \/ req[t].kind \in {"action", "unknown"}
         /\ req'[t] = [req[t] EXCEPT !.faulty = TRUE, !.report = TRUE] /\ pc'[t] = "lookup"
      \/ req'[t] = [req[t] EXCEPT !.faulty = TRUE] /\ pc'[t] = "idle"
  BY DEF ReadStateFails, Raise, Goto, IInv, TypeOK
<1>3. \A u \in Threads \ {t} : req'[u] = req[u] /\ pc'[u] = pc[u]
  BY DEF ReadStateFails, Raise, Goto, IInv, TypeOK
<1>4. req[t] \in Requests /\ req[t].at \in 1..Len(SortedTargets) /\ Len(SortedTargets) \in Nat
  BY KeyFacts DEF IInv, TypeOK
<1>5. /\ req'[t] \in Requests
      /\ req'[t].kind = req[t].kind
      /\ req'[t].target = req[t].target
      /\ req'[t].batch = req[t].batch
      /\ req'[t].at = req[t].at
      /\ req'[t].backend = req[t].backend
      /\ req'[t].gone = req[t].gone
      /\ req'[t].alone = req[t].alone
      /\ req'[t].faulty
      /\ pc'[t] \in {"send", "lookup", "idle"}
      /\ pc'[t] = "send" => req'[t].code = "bad_request"
      /\ pc'[t] = "lookup" => req[t].kind \in {"action", "unknown"}
  <2>1. CASE req[t].kind = "configure"
             /\ req'[t] = [req[t] EXCEPT !.faulty = TRUE, !.code = "bad_request"]
             /\ pc'[t] = "send"
    BY <1>4, <2>1 DEF Requests, Codes
  <2>2. CASE req[t].kind \in {"action", "unknown"}
             /\ req'[t] = [req[t] EXCEPT !.faulty = TRUE, !.report = TRUE] /\ pc'[t] = "lookup"
    BY <1>4, <2>2 DEF Requests, Codes
  <2>3. CASE req'[t] = [req[t] EXCEPT !.faulty = TRUE] /\ pc'[t] = "idle"
    BY <1>4, <2>3 DEF Requests, Codes
  <2> QED BY <1>2, <2>1, <2>2, <2>3
<1>6. \A u \in Threads : Key(u)' = Key(u)
  BY <1>3, <1>5 DEF Key, Wanted
<1>7. req' \in [Threads -> Requests] /\ pc' \in [Threads -> Locations]
  BY <1>1, <1>2, <1>3, <1>5 DEF ReadStateFails, Raise, Goto, IInv, TypeOK, Locations
<1>8. TypeOK'
  <2>1. \A u \in Threads : req'[u].at \in 1..Len(SortedTargets)
    BY <1>4, <1>3, <1>5 DEF IInv, TypeOK
  <2>2. faults' \in Nat /\ backendsLock' \in Threads \cup {NoThread}
    BY <1>1 DEF IInv, TypeOK
  <2> QED BY <1>1, <1>7, <2>1, <2>2 DEF IInv, TypeOK
<1>9. LockHeld'
  BY <1>1, <1>3, <1>5, <1>6, ThreadAssumption DEF IInv, TypeOK, LockHeld
<1>10. FirstBuild'
  BY <1>1, <1>3, <1>5, <1>6, ThreadAssumption DEF IInv, TypeOK, FirstBuild
<1>11. Held'
  BY <1>1, <1>3, <1>5, <1>6, ThreadAssumption DEF IInv, TypeOK, Held, Holding
<1>12. OneAtWork'
  BY <1>1, <1>3, <1>5, <1>6, ThreadAssumption DEF IInv, OneAtWork
<1>13. Answers'
  BY <1>1, <1>3, <1>5, <1>6, ThreadAssumption DEF IInv, TypeOK, Answers
<1>14. Stages'
  BY <1>1, <1>3, <1>5, <1>6, ThreadAssumption DEF IInv, TypeOK, Stages
<1>15. Active(t)' =>
        /\ Active(t) /\ req'[t].alone = req[t].alone /\ req'[t].batch = req[t].batch
        /\ req'[t].at = req[t].at /\ (pc'[t] = "send" => pc[t] = "send")
  BY <1>1, <1>3, <1>5 DEF IInv, TypeOK, Stages, Active
<1>16. Alone' /\ Reach' /\ Calm'
  BY <1>1, <1>3, <1>15, Moves
<1> QED BY <1>8, <1>9, <1>10, <1>11, <1>12, <1>13, <1>14, <1>16 DEF IInv

\* A round of the matrix moves on to the next target.
LEMMA AskStatusKeeps ==
  ASSUME IInv, NEW t \in Threads, AskStatus(t)
  PROVE  IInv'
<1>1. /\ pc[t] = "use"
      /\ req[t].kind = "matrix"
      /\ UNCHANGED <<backends, credentials, backendsLock, replies, calm, requests, faults>>
  BY DEF AskStatus, NextTarget, Goto, Answer
<1>2. \/ req[t].at < Len(SortedTargets) /\ req'[t] = [req[t] EXCEPT !.at = @ + 1]
         /\ pc'[t] = "lookup"
      \/ ~(req[t].at < Len(SortedTargets)) /\ req'[t] = [req[t] EXCEPT !.code = "ok"]
         /\ pc'[t] = "send"
  BY DEF AskStatus, NextTarget, Goto, Answer, IInv, TypeOK
<1>3. \A u \in Threads \ {t} : req'[u] = req[u] /\ pc'[u] = pc[u]
  BY DEF AskStatus, NextTarget, Goto, Answer, IInv, TypeOK
<1>4. req[t] \in Requests /\ req[t].at \in 1..Len(SortedTargets) /\ Len(SortedTargets) \in Nat
  BY KeyFacts DEF IInv, TypeOK
<1>5. /\ req'[t] \in Requests
      /\ req'[t].kind = req[t].kind
      /\ req'[t].target = req[t].target
      /\ req'[t].batch = req[t].batch
      /\ req'[t].backend = req[t].backend
      /\ req'[t].report = req[t].report
      /\ req'[t].gone = req[t].gone
      /\ req'[t].faulty = req[t].faulty
      /\ req'[t].alone = req[t].alone
      /\ req'[t].at \in 1..Len(SortedTargets)
      /\ pc'[t] \in {"lookup", "send"}
      /\ pc'[t] = "send" => req'[t].code = "ok"
  <2>1. CASE req[t].at < Len(SortedTargets) /\ req'[t] = [req[t] EXCEPT !.at = @ + 1]
             /\ pc'[t] = "lookup"
    BY <1>4, <2>1 DEF Requests, Codes
  <2>2. CASE ~(req[t].at < Len(SortedTargets)) /\ req'[t] = [req[t] EXCEPT !.code = "ok"]
             /\ pc'[t] = "send"
    BY <1>4, <2>2 DEF Requests, Codes
  <2> QED BY <1>2, <2>1, <2>2
<1>6. \A u \in Threads \ {t} : Key(u)' = Key(u)
  BY <1>3, <1>5 DEF Key, Wanted
<1>7. req' \in [Threads -> Requests] /\ pc' \in [Threads -> Locations]
  BY <1>1, <1>2, <1>3, <1>5 DEF AskStatus, NextTarget, Goto, Answer, IInv, TypeOK, Locations
<1>8. TypeOK'
  BY <1>1, <1>3, <1>4, <1>5, <1>7, ThreadAssumption DEF IInv, TypeOK
<1>9. LockHeld'
  BY <1>1, <1>3, <1>5, <1>6, ThreadAssumption DEF IInv, TypeOK, LockHeld
<1>10. FirstBuild'
  BY <1>1, <1>3, <1>5, <1>6, ThreadAssumption DEF IInv, TypeOK, FirstBuild
<1>11. Held'
  BY <1>1, <1>3, <1>5, <1>6, ThreadAssumption DEF IInv, TypeOK, Held, Holding
<1>12. OneAtWork'
  BY <1>1, <1>3, <1>5, <1>6, ThreadAssumption DEF IInv, OneAtWork
<1>13. Answers'
  BY <1>1, <1>3, <1>5, <1>6, ThreadAssumption DEF IInv, TypeOK, Answers
<1>14. Stages'
  BY <1>1, <1>3, <1>5, <1>6, ThreadAssumption DEF IInv, TypeOK, Stages
<1>15. Active(t)' =>
        /\ Active(t) /\ req'[t].alone = req[t].alone /\ req'[t].batch = req[t].batch
        /\ req'[t].at = req[t].at /\ (pc'[t] = "send" => pc[t] = "send")
  BY <1>1, <1>3, <1>5 DEF IInv, TypeOK, Stages, Active
<1>16. Alone' /\ Reach' /\ Calm'
  BY <1>1, <1>3, <1>15, Moves
<1> QED BY <1>8, <1>9, <1>10, <1>11, <1>12, <1>13, <1>14, <1>16 DEF IInv

\* A known action goes on to its lock, any other to its answer.
LEMMA DispatchKeeps ==
  ASSUME IInv, NEW t \in Threads, Dispatch(t)
  PROVE  IInv'
<1>1. /\ pc[t] = "use"
      /\ UNCHANGED <<backends, credentials, backendsLock, replies, calm, requests, faults>>
  BY DEF Dispatch, Goto, Answer
<1>2. \/ req[t].kind = "action" /\ req'[t] = req[t] /\ pc'[t] = "waiting"
      \/ req[t].kind = "unknown" /\ req'[t] = [req[t] EXCEPT !.code = "not_found"]
         /\ pc'[t] = "send"
  BY DEF Dispatch, Goto, Answer, IInv, TypeOK
<1>3. \A u \in Threads \ {t} : req'[u] = req[u] /\ pc'[u] = pc[u]
  BY DEF Dispatch, Goto, Answer, IInv, TypeOK
<1>4. req[t] \in Requests /\ req[t].at \in 1..Len(SortedTargets) /\ Len(SortedTargets) \in Nat
  BY KeyFacts DEF IInv, TypeOK
<1>5. /\ req'[t] \in Requests
      /\ req'[t].kind = req[t].kind
      /\ req'[t].target = req[t].target
      /\ req'[t].batch = req[t].batch
      /\ req'[t].at = req[t].at
      /\ req'[t].backend = req[t].backend
      /\ req'[t].report = req[t].report
      /\ req'[t].gone = req[t].gone
      /\ req'[t].faulty = req[t].faulty
      /\ req'[t].alone = req[t].alone
  <2>1. CASE req[t].kind = "action" /\ req'[t] = req[t] /\ pc'[t] = "waiting"
    BY <1>4, <2>1 DEF Requests, Codes
  <2>2. CASE req[t].kind = "unknown" /\ req'[t] = [req[t] EXCEPT !.code = "not_found"]
             /\ pc'[t] = "send"
    BY <1>4, <2>2 DEF Requests, Codes
  <2> QED BY <1>2, <2>1, <2>2
<1>6. \/ pc'[t] = "waiting" /\ req[t].kind = "action"
      \/ pc'[t] = "send" /\ req[t].kind = "unknown"
  BY <1>2
<1>7. \A u \in Threads : Key(u)' = Key(u)
  BY <1>3, <1>5 DEF Key, Wanted
<1>8. req' \in [Threads -> Requests] /\ pc' \in [Threads -> Locations]
  BY <1>1, <1>2, <1>3, <1>5, <1>6 DEF Dispatch, Goto, Answer, IInv, TypeOK, Locations
<1>9. TypeOK'
  BY <1>1, <1>3, <1>5, <1>4, <1>6, <1>8, ThreadAssumption DEF IInv, TypeOK
<1>10. LockHeld'
  BY <1>1, <1>3, <1>5, <1>6, <1>7, ThreadAssumption DEF IInv, TypeOK, LockHeld
<1>11. FirstBuild'
  BY <1>1, <1>3, <1>5, <1>6, <1>7, ThreadAssumption DEF IInv, TypeOK, FirstBuild
<1>12. Held'
  BY <1>1, <1>3, <1>5, <1>6, <1>7, ThreadAssumption DEF IInv, TypeOK, Held, Holding
<1>13. OneAtWork'
  BY <1>1, <1>3, <1>5, <1>6, <1>7, ThreadAssumption DEF IInv, OneAtWork
<1>14. Answers'
  BY <1>1, <1>3, <1>5, <1>6, <1>7, ThreadAssumption DEF IInv, TypeOK, Answers
<1>15. Stages'
  BY <1>1, <1>3, <1>5, <1>6, <1>7, ThreadAssumption DEF IInv, TypeOK, Stages
<1>16. Active(t)' =>
        /\ Active(t) /\ req'[t].alone = req[t].alone /\ req'[t].batch = req[t].batch
        /\ req'[t].at = req[t].at /\ (pc'[t] = "send" => pc[t] = "send")
  BY <1>1, <1>3, <1>5, <1>6 DEF IInv, TypeOK, Stages, Active
<1>17. Alone' /\ Reach' /\ Calm'
  BY <1>1, <1>3, <1>16, Moves
<1> QED BY <1>9, <1>10, <1>11, <1>12, <1>13, <1>14, <1>15, <1>17 DEF IInv

\* The action lock of the backend keeps a second thread from working on it.
LEMMA StartActionKeeps ==
  ASSUME IInv, NEW t \in Threads, StartAction(t)
  PROVE  IInv'
<1>1. /\ pc[t] = "waiting"
      /\ ~Busy(t)
      /\ UNCHANGED <<backends, credentials, backendsLock, replies, calm, requests, faults>>
  BY DEF StartAction, Goto
<1>2. req'[t] = req[t] /\ pc'[t] = "working"
  BY DEF StartAction, Goto, IInv, TypeOK
<1>3. \A u \in Threads \ {t} : req'[u] = req[u] /\ pc'[u] = pc[u]
  BY DEF StartAction, Goto, IInv, TypeOK
<1>4. req[t] \in Requests /\ req[t].at \in 1..Len(SortedTargets) /\ Len(SortedTargets) \in Nat
  BY KeyFacts DEF IInv, TypeOK
<1>5. /\ req'[t] \in Requests
      /\ req'[t].kind = req[t].kind
      /\ req'[t].target = req[t].target
      /\ req'[t].batch = req[t].batch
      /\ req'[t].at = req[t].at
      /\ req'[t].backend = req[t].backend
      /\ req'[t].code = req[t].code
      /\ req'[t].report = req[t].report
      /\ req'[t].gone = req[t].gone
      /\ req'[t].faulty = req[t].faulty
      /\ req'[t].alone = req[t].alone
      /\ pc'[t] = "working"
  BY <1>2, <1>4 DEF Requests, Codes
<1>6. \A u \in Threads : Key(u)' = Key(u)
  BY <1>3, <1>5 DEF Key, Wanted
<1>7. req' \in [Threads -> Requests] /\ pc' \in [Threads -> Locations]
  BY <1>1, <1>2, <1>3, <1>5 DEF StartAction, Goto, IInv, TypeOK, Locations
<1>8. TypeOK'
  BY <1>1, <1>3, <1>4, <1>5, <1>7, ThreadAssumption DEF IInv, TypeOK
<1>9. LockHeld'
  BY <1>1, <1>3, <1>5, <1>6, ThreadAssumption DEF IInv, TypeOK, LockHeld
<1>10. FirstBuild'
  BY <1>1, <1>3, <1>5, <1>6, ThreadAssumption DEF IInv, TypeOK, FirstBuild
<1>11. Held'
  BY <1>1, <1>3, <1>5, <1>6, ThreadAssumption DEF IInv, TypeOK, Held, Holding
<1>12. OneAtWork'
  BY <1>1, <1>3, <1>5, <1>6, ThreadAssumption DEF IInv, OneAtWork, Busy
<1>13. Answers'
  BY <1>1, <1>3, <1>5, <1>6, ThreadAssumption DEF IInv, TypeOK, Answers
<1>14. Stages'
  BY <1>1, <1>3, <1>5, <1>6, ThreadAssumption DEF IInv, TypeOK, Stages
<1>15. Active(t)' =>
        /\ Active(t) /\ req'[t].alone = req[t].alone /\ req'[t].batch = req[t].batch
        /\ req'[t].at = req[t].at /\ (pc'[t] = "send" => pc[t] = "send")
  BY <1>1, <1>3, <1>5 DEF IInv, TypeOK, Stages, Active
<1>16. Alone' /\ Reach' /\ Calm'
  BY <1>1, <1>3, <1>15, Moves
<1> QED BY <1>8, <1>9, <1>10, <1>11, <1>12, <1>13, <1>14, <1>16 DEF IInv

\* An action that returns goes on to its answer.
LEMMA ActionReturnsKeeps ==
  ASSUME IInv, NEW t \in Threads, ActionReturns(t)
  PROVE  IInv'
<1>1. /\ pc[t] = "working"
      /\ UNCHANGED <<backends, credentials, backendsLock, replies, calm, requests, faults>>
  BY DEF ActionReturns, Goto, Answer
<1>2. req'[t] = [req[t] EXCEPT !.code = "ok"] /\ pc'[t] = "send"
  BY DEF ActionReturns, Goto, Answer, IInv, TypeOK
<1>3. \A u \in Threads \ {t} : req'[u] = req[u] /\ pc'[u] = pc[u]
  BY DEF ActionReturns, Goto, Answer, IInv, TypeOK
<1>4. req[t] \in Requests /\ req[t].at \in 1..Len(SortedTargets) /\ Len(SortedTargets) \in Nat
  BY KeyFacts DEF IInv, TypeOK
<1>5. /\ req'[t] \in Requests
      /\ req'[t].kind = req[t].kind
      /\ req'[t].target = req[t].target
      /\ req'[t].batch = req[t].batch
      /\ req'[t].at = req[t].at
      /\ req'[t].backend = req[t].backend
      /\ req'[t].report = req[t].report
      /\ req'[t].gone = req[t].gone
      /\ req'[t].faulty = req[t].faulty
      /\ req'[t].alone = req[t].alone
      /\ pc'[t] = "send"
      /\ req'[t].code = "ok"
  BY <1>2, <1>4 DEF Requests, Codes
<1>6. \A u \in Threads : Key(u)' = Key(u)
  BY <1>3, <1>5 DEF Key, Wanted
<1>7. req' \in [Threads -> Requests] /\ pc' \in [Threads -> Locations]
  BY <1>1, <1>2, <1>3, <1>5 DEF ActionReturns, Goto, Answer, IInv, TypeOK, Locations
<1>8. TypeOK'
  BY <1>1, <1>3, <1>4, <1>5, <1>7, ThreadAssumption DEF IInv, TypeOK
<1>9. LockHeld'
  BY <1>1, <1>3, <1>5, <1>6, ThreadAssumption DEF IInv, TypeOK, LockHeld
<1>10. FirstBuild'
  BY <1>1, <1>3, <1>5, <1>6, ThreadAssumption DEF IInv, TypeOK, FirstBuild
<1>11. Held'
  BY <1>1, <1>3, <1>5, <1>6, ThreadAssumption DEF IInv, TypeOK, Held, Holding
<1>12. OneAtWork'
  BY <1>1, <1>3, <1>5, <1>6, ThreadAssumption DEF IInv, OneAtWork
<1>13. Answers'
  BY <1>1, <1>3, <1>5, <1>6, ThreadAssumption DEF IInv, TypeOK, Answers
<1>14. Stages'
  BY <1>1, <1>3, <1>5, <1>6, ThreadAssumption DEF IInv, TypeOK, Stages
<1>15. Active(t)' =>
        /\ Active(t) /\ req'[t].alone = req[t].alone /\ req'[t].batch = req[t].batch
        /\ req'[t].at = req[t].at /\ (pc'[t] = "send" => pc[t] = "send")
  BY <1>1, <1>3, <1>5 DEF IInv, TypeOK, Stages, Active
<1>16. Alone' /\ Reach' /\ Calm'
  BY <1>1, <1>3, <1>15, Moves
<1> QED BY <1>8, <1>9, <1>10, <1>11, <1>12, <1>13, <1>14, <1>16 DEF IInv

\* One that raises goes on to the except branch.
LEMMA ActionRaisesKeeps ==
  ASSUME IInv, NEW t \in Threads, ActionRaises(t)
  PROVE  IInv'
<1>1. /\ pc[t] = "working"
      /\ UNCHANGED <<backends, credentials, backendsLock, replies, calm, requests, faults>>
  BY DEF ActionRaises, Goto
<1>2. req'[t] = [req[t] EXCEPT !.report = TRUE] /\ pc'[t] = "lookup"
  BY DEF ActionRaises, Goto, IInv, TypeOK
<1>3. \A u \in Threads \ {t} : req'[u] = req[u] /\ pc'[u] = pc[u]
  BY DEF ActionRaises, Goto, IInv, TypeOK
<1>4. req[t] \in Requests /\ req[t].at \in 1..Len(SortedTargets) /\ Len(SortedTargets) \in Nat
  BY KeyFacts DEF IInv, TypeOK
<1>5. /\ req'[t] \in Requests
      /\ req'[t].kind = req[t].kind
      /\ req'[t].target = req[t].target
      /\ req'[t].batch = req[t].batch
      /\ req'[t].at = req[t].at
      /\ req'[t].backend = req[t].backend
      /\ req'[t].code = req[t].code
      /\ req'[t].gone = req[t].gone
      /\ req'[t].faulty = req[t].faulty
      /\ req'[t].alone = req[t].alone
      /\ pc'[t] = "lookup"
  BY <1>2, <1>4 DEF Requests, Codes
<1>6. \A u \in Threads : Key(u)' = Key(u)
  BY <1>3, <1>5 DEF Key, Wanted
<1>7. req' \in [Threads -> Requests] /\ pc' \in [Threads -> Locations]
  BY <1>1, <1>2, <1>3, <1>5 DEF ActionRaises, Goto, IInv, TypeOK, Locations
<1>8. TypeOK'
  BY <1>1, <1>3, <1>4, <1>5, <1>7, ThreadAssumption DEF IInv, TypeOK
<1>9. LockHeld'
  BY <1>1, <1>3, <1>5, <1>6, ThreadAssumption DEF IInv, TypeOK, LockHeld
<1>10. FirstBuild'
  BY <1>1, <1>3, <1>5, <1>6, ThreadAssumption DEF IInv, TypeOK, FirstBuild
<1>11. Held'
  BY <1>1, <1>3, <1>5, <1>6, ThreadAssumption DEF IInv, TypeOK, Held, Holding
<1>12. OneAtWork'
  BY <1>1, <1>3, <1>5, <1>6, ThreadAssumption DEF IInv, OneAtWork
<1>13. Answers'
  BY <1>1, <1>3, <1>5, <1>6, ThreadAssumption DEF IInv, TypeOK, Answers
<1>14. Stages'
  BY <1>1, <1>3, <1>5, <1>6, ThreadAssumption DEF IInv, TypeOK, Stages
<1>15. Active(t)' =>
        /\ Active(t) /\ req'[t].alone = req[t].alone /\ req'[t].batch = req[t].batch
        /\ req'[t].at = req[t].at /\ (pc'[t] = "send" => pc[t] = "send")
  BY <1>1, <1>3, <1>5 DEF IInv, TypeOK, Stages, Active
<1>16. Alone' /\ Reach' /\ Calm'
  BY <1>1, <1>3, <1>15, Moves
<1> QED BY <1>8, <1>9, <1>10, <1>11, <1>12, <1>13, <1>14, <1>16 DEF IInv

\* A client that has gone gets no answer, so none is sent twice.
LEMMA ClientGoneKeeps ==
  ASSUME IInv, NEW t \in Threads, ClientGone(t)
  PROVE  IInv'
<1>1. /\ pc[t] = "send"
      /\ UNCHANGED <<backends, credentials, backendsLock, replies, calm, requests, faults>>
  BY DEF ClientGone, Goto
<1>2. \/ req[t].kind = "configure"
         /\ req'[t] = [req[t] EXCEPT !.gone = TRUE, !.code = "bad_request"] /\ pc'[t] = "send"
      \/ req[t].code = "not_found"
         /\ req'[t] = [req[t] EXCEPT !.gone = TRUE, !.report = TRUE] /\ pc'[t] = "lookup"
      \/ req'[t] = [req[t] EXCEPT !.gone = TRUE] /\ pc'[t] = "idle"
  BY DEF ClientGone, Goto, IInv, TypeOK
<1>3. \A u \in Threads \ {t} : req'[u] = req[u] /\ pc'[u] = pc[u]
  BY DEF ClientGone, Goto, IInv, TypeOK
<1>4. req[t] \in Requests /\ req[t].at \in 1..Len(SortedTargets) /\ Len(SortedTargets) \in Nat
  BY KeyFacts DEF IInv, TypeOK
<1>5. /\ req'[t] \in Requests
      /\ req'[t].kind = req[t].kind
      /\ req'[t].target = req[t].target
      /\ req'[t].batch = req[t].batch
      /\ req'[t].at = req[t].at
      /\ req'[t].backend = req[t].backend
      /\ req'[t].faulty = req[t].faulty
      /\ req'[t].alone = req[t].alone
      /\ req'[t].gone
      /\ pc'[t] \in {"send", "lookup", "idle"}
      /\ pc'[t] = "send" => req'[t].code = "bad_request"
      /\ pc'[t] = "lookup" => req[t].code = "not_found"
  <2>1. CASE req[t].kind = "configure"
             /\ req'[t] = [req[t] EXCEPT !.gone = TRUE, !.code = "bad_request"]
             /\ pc'[t] = "send"
    BY <1>4, <2>1 DEF Requests, Codes
  <2>2. CASE req[t].code = "not_found"
             /\ req'[t] = [req[t] EXCEPT !.gone = TRUE, !.report = TRUE] /\ pc'[t] = "lookup"
    BY <1>4, <2>2 DEF Requests, Codes
  <2>3. CASE req'[t] = [req[t] EXCEPT !.gone = TRUE] /\ pc'[t] = "idle"
    BY <1>4, <2>3 DEF Requests, Codes
  <2> QED BY <1>2, <2>1, <2>2, <2>3
<1>6. \A u \in Threads : Key(u)' = Key(u)
  BY <1>3, <1>5 DEF Key, Wanted
<1>7. req' \in [Threads -> Requests] /\ pc' \in [Threads -> Locations]
  BY <1>1, <1>2, <1>3, <1>5 DEF ClientGone, Goto, IInv, TypeOK, Locations
<1>8. TypeOK'
  BY <1>1, <1>3, <1>4, <1>5, <1>7, ThreadAssumption DEF IInv, TypeOK
<1>9. LockHeld'
  BY <1>1, <1>3, <1>5, <1>6, ThreadAssumption DEF IInv, TypeOK, LockHeld
<1>10. FirstBuild'
  BY <1>1, <1>3, <1>5, <1>6, ThreadAssumption DEF IInv, TypeOK, FirstBuild
<1>11. Held'
  BY <1>1, <1>3, <1>5, <1>6, ThreadAssumption DEF IInv, TypeOK, Held, Holding
<1>12. OneAtWork'
  BY <1>1, <1>3, <1>5, <1>6, ThreadAssumption DEF IInv, OneAtWork
<1>13. Answers'
  BY <1>1, <1>3, <1>5, <1>6, ThreadAssumption DEF IInv, TypeOK, Answers
<1>14. Stages'
  BY <1>1, <1>3, <1>5, <1>6, ThreadAssumption DEF IInv, TypeOK, Stages
<1>15. Active(t)' =>
        /\ Active(t) /\ req'[t].alone = req[t].alone /\ req'[t].batch = req[t].batch
        /\ req'[t].at = req[t].at /\ (pc'[t] = "send" => pc[t] = "send")
  BY <1>1, <1>3, <1>5 DEF IInv, TypeOK, Stages, Active
<1>16. Alone' /\ Reach' /\ Calm'
  BY <1>1, <1>3, <1>15, Moves
<1> QED BY <1>8, <1>9, <1>10, <1>11, <1>12, <1>13, <1>14, <1>16 DEF IInv

\* A new request has no answer yet and knows of those at work.
LEMMA ReceiveKeeps ==
  ASSUME IInv, NEW t \in Threads, Receive(t)
  PROVE  IInv'
<1>1. /\ pc[t] = "idle"
      /\ requests' = requests + 1
      /\ replies' = [replies EXCEPT ![t] = << >>]
      /\ UNCHANGED <<backends, credentials, backendsLock, calm, faults>>
  BY DEF Receive
<1>2. PICK kind \in Kinds, target \in Asked :
        /\ req'[t] = Received(kind, target, requests + 1)
        /\ pc'[t] = IF kind \in Posts THEN "received" ELSE "lookup"
  BY DEF Receive, Goto, IInv, TypeOK
<1>3. \A u \in Threads \ {t} : req'[u] = req[u] /\ pc'[u] = pc[u]
  BY DEF Receive, Goto, IInv, TypeOK
<1>4. /\ req'[t] \in Requests
      /\ req'[t].at = 1
      /\ req'[t].kind = "configure" => pc'[t] = "received"
      /\ pc'[t] \in {"received", "lookup"}
  <2>1. Received(kind, target, requests + 1) \in Requests
    BY NewRequest, TargetAssumption DEF IInv, TypeOK
  <2> QED BY <1>2, <2>1 DEF Received, Posts
<1>5. req' \in [Threads -> Requests] /\ pc' \in [Threads -> Locations]
  BY <1>1, <1>2, <1>3, <1>4 DEF Receive, Goto, IInv, TypeOK, Locations
<1>6. TypeOK'
  <2>1. \A u \in Threads : req'[u].at \in 1..Len(SortedTargets)
    <3>1. Len(SortedTargets) \in Nat \ {0}
          /\ \A u \in Threads : req[u].at \in 1..Len(SortedTargets)
      BY KeyFacts DEF IInv, TypeOK
    <3> QED BY <1>3, <1>4, <3>1
  <2>2. replies' \in [Threads -> Seq(Codes)]
    BY <1>1 DEF IInv, TypeOK
  <2> QED BY <1>1, <1>5, <2>1, <2>2 DEF IInv, TypeOK
<1>7. LockHeld'
  BY <1>1, <1>3, <1>4 DEF IInv, LockHeld
<1>8. \A u \in Threads \ {t} : Key(u)' = Key(u)
  BY <1>3 DEF Key, Wanted
<1>9. FirstBuild'
  BY <1>1, <1>3, <1>4, <1>8 DEF IInv, FirstBuild
<1>10. Held'
  BY <1>1, <1>3, <1>4, <1>8 DEF IInv, Held, Holding
<1>11. OneAtWork'
  BY <1>1, <1>3, <1>4 DEF IInv, OneAtWork
<1>12. Answers'
  BY <1>1, <1>3, <1>4 DEF IInv, TypeOK, Answers
<1>13. Stages'
  BY <1>1, <1>3, <1>4 DEF IInv, Stages
<1>14. ~Active(t)'
  BY <1>4 DEF Active
<1>15. Alone' /\ Reach' /\ Calm'
  BY <1>1, <1>3, <1>14, Moves
<1> QED BY <1>6, <1>7, <1>9, <1>10, <1>11, <1>12, <1>13, <1>15 DEF IInv

\* The flags "alone" are the only thing that changes in the other requests.
LEMMA ReadPayloadKeeps ==
  ASSUME IInv, NEW t \in Threads, ReadPayload(t)
  PROVE  IInv'
<1>1. /\ pc[t] = "read"
      /\ UNCHANGED <<backends, credentials, backendsLock, replies, requests, faults>>
  BY DEF ReadPayload
<1>2. pc' \in [Threads -> Locations] /\ pc'[t] = "lookup"
  BY DEF ReadPayload, Goto, IInv, TypeOK, Locations
<1>3. \A u \in Threads \ {t} : pc'[u] = pc[u]
  BY DEF ReadPayload, Goto, IInv, TypeOK
<1>4. \/ req[t].kind # "configure" /\ req' = req /\ calm' = calm
      \/ /\ req[t].kind = "configure" /\ calm' = 0
         /\ req' \in [Threads -> Requests]
         /\ req'[t].alone => \A v \in Threads : ~Configuring(v)
         /\ \A u \in Threads \ {t} : req'[u].alone => req[u].alone /\ ~Configuring(u)
         /\ \A u \in Threads :
              /\ req'[u].kind = req[u].kind /\ req'[u].target = req[u].target
              /\ req'[u].batch = req[u].batch /\ req'[u].at = req[u].at
              /\ req'[u].backend = req[u].backend /\ req'[u].code = req[u].code
              /\ req'[u].gone = req[u].gone /\ req'[u].faulty = req[u].faulty
  <2>1. CASE req[t].kind # "configure"
    BY <2>1 DEF ReadPayload
  <2>2. CASE req[t].kind = "configure"
    <3> DEFINE flag(u) == IF u = t THEN \A v \in Threads : ~Configuring(v)
                                   ELSE req[u].alone /\ ~Configuring(u)
    <3>1. calm' = 0 /\ req' = [u \in Threads |-> [req[u] EXCEPT !.alone = flag(u)]]
      BY <2>2 DEF ReadPayload
    <3>2. \A u \in Threads : req[u] \in Requests /\ flag(u) \in BOOLEAN
      <4>1. \A u \in Threads : req[u] \in Requests
        BY DEF IInv, TypeOK
      <4>2. \A u \in Threads : req[u].alone \in BOOLEAN
        BY <4>1 DEF Requests
      <4> QED BY <4>1, <4>2
    <3> HIDE DEF flag
    <3>3. \A u \in Threads : req'[u] = [req[u] EXCEPT !.alone = flag(u)]
      BY <3>1
    <3>4. \A u \in Threads :
            /\ req'[u] \in Requests
            /\ req'[u].alone = flag(u)
            /\ req'[u].kind = req[u].kind /\ req'[u].target = req[u].target
            /\ req'[u].batch = req[u].batch /\ req'[u].at = req[u].at
            /\ req'[u].backend = req[u].backend /\ req'[u].code = req[u].code
            /\ req'[u].gone = req[u].gone /\ req'[u].faulty = req[u].faulty
      <4> TAKE u \in Threads
      <4>1. req[u] \in Requests /\ flag(u) \in BOOLEAN
            /\ req'[u] = [req[u] EXCEPT !.alone = flag(u)]
        BY <3>2, <3>3
      <4>2. req'[u] \in Requests
        BY <4>1 DEF Requests
      <4> QED BY <4>1, <4>2 DEF Requests
    <3>5. req' \in [Threads -> Requests]
      BY <3>1, <3>4
    <3>6. req'[t].alone => \A v \in Threads : ~Configuring(v)
      BY <3>4 DEF flag
    <3>7. \A u \in Threads \ {t} : req'[u].alone => req[u].alone /\ ~Configuring(u)
      BY <3>4 DEF flag
    <3> QED BY <2>2, <3>1, <3>4, <3>5, <3>6, <3>7
  <2> QED BY <2>1, <2>2
<1>5. /\ req' \in [Threads -> Requests]
      /\ \A u \in Threads :
           /\ req'[u].kind = req[u].kind /\ req'[u].target = req[u].target
           /\ req'[u].batch = req[u].batch /\ req'[u].at = req[u].at
           /\ req'[u].backend = req[u].backend /\ req'[u].code = req[u].code
           /\ req'[u].gone = req[u].gone /\ req'[u].faulty = req[u].faulty
           /\ Key(u)' = Key(u)
  BY <1>4 DEF IInv, TypeOK, Key, Wanted
<1>6. TypeOK'
  BY <1>1, <1>2, <1>4, <1>5 DEF IInv, TypeOK
<1>7. LockHeld' /\ FirstBuild'
  BY <1>1, <1>2, <1>3, <1>5 DEF IInv, LockHeld, FirstBuild
<1>8. Held'
  BY <1>1, <1>2, <1>3, <1>5 DEF IInv, Held, Holding
<1>9. OneAtWork' /\ Stages'
  BY <1>1, <1>2, <1>3, <1>5 DEF IInv, OneAtWork, Stages
<1>10. Answers'
  BY <1>1, <1>2, <1>3, <1>5 DEF IInv, TypeOK, Answers
<1>11. CASE req[t].kind # "configure"
  <2>1. ~Active(t)'
    BY <1>5, <1>11 DEF Active
  <2>2. \A u \in Threads \ {t} : req'[u] = req[u] /\ pc'[u] = pc[u]
    BY <1>3, <1>4, <1>11
  <2>3. Alone' /\ Reach' /\ Calm'
    BY <1>1, <1>4, <1>11, <2>1, <2>2, Moves
  <2> QED BY <1>6, <1>7, <1>8, <1>9, <1>10, <2>3 DEF IInv
<1>12. CASE req[t].kind = "configure"
  <2>1. \A u \in Threads \ {t} : Active(u)' => Active(u) /\ Configuring(u)
    BY <1>3, <1>5 DEF Active, Configuring
  <2>2. \A u \in Threads \ {t} : ~(Active(u)' /\ req'[u].alone)
    BY <1>4, <1>12, <2>1
  <2>3. Alone'
    BY <1>4, <1>12, <2>1, <2>2 DEF Alone
  <2>4. req'[t].at = 1 /\ pc'[t] # "send"
    BY <1>1, <1>2, <1>5 DEF IInv, Stages
  <2>5. Reach'
    BY <2>2, <2>4 DEF Reach
  <2>6. Calm'
    BY <1>4, <1>12 DEF Calm
  <2> QED BY <1>6, <1>7, <1>8, <1>9, <1>10, <2>3, <2>5, <2>6 DEF IInv
<1> QED BY <1>11, <1>12

\* The entry is new, and a configure request that has passed its target knows it.
LEMMA BuildKeeps ==
  ASSUME IInv, NEW t \in Threads, Build(t)
  PROVE  IInv'
<1>1. /\ pc[t] = "building"
      /\ credentials' = Append(credentials, 0)
      /\ backends' = [backends EXCEPT ![Key(t)] = Len(credentials) + 1]
      /\ backendsLock' = NoThread
      /\ UNCHANGED <<replies, calm, requests, faults>>
  BY DEF Build, Goto
<1>2. /\ req'[t] = [req[t] EXCEPT !.backend = Len(credentials) + 1]
      /\ pc'[t] = "use"
  BY DEF Build, Goto, IInv, TypeOK
<1>3. \A u \in Threads \ {t} : req'[u] = req[u] /\ pc'[u] = pc[u]
  BY DEF Build, Goto, IInv, TypeOK
<1>4. /\ req[t] \in Requests /\ credentials \in Seq(Nat) /\ Len(credentials) \in Nat
      /\ backends \in [Keys -> 0..Len(credentials)] /\ Key(t) \in Keys
  BY KeyFacts DEF IInv, TypeOK
<1>5. /\ credentials' \in Seq(Nat) /\ Len(credentials') = Len(credentials) + 1
      /\ \A n \in 1..Len(credentials) : credentials'[n] = credentials[n]
  BY <1>1, <1>4, AppendProperties
<1>6. /\ req'[t] \in Requests
      /\ req'[t].backend = Len(credentials) + 1
      /\ req'[t].kind = req[t].kind /\ req'[t].target = req[t].target
      /\ req'[t].batch = req[t].batch /\ req'[t].at = req[t].at
      /\ req'[t].code = req[t].code /\ req'[t].alone = req[t].alone
      /\ req'[t].gone = req[t].gone /\ req'[t].faulty = req[t].faulty
  <2>1. req[t] \in Requests /\ Len(credentials) + 1 \in Nat
    BY <1>4
  <2>2. req'[t] \in Requests
    BY <1>2, <2>1 DEF Requests
  <2> QED BY <1>2, <2>1, <2>2 DEF Requests
<1>7. \A u \in Threads : Key(u)' = Key(u)
  BY <1>3, <1>6 DEF Key, Wanted
<1>8. req' \in [Threads -> Requests] /\ pc' \in [Threads -> Locations]
  BY <1>2, <1>3, <1>6 DEF Build, Goto, IInv, TypeOK, Locations
<1>9. /\ backends' \in [Keys -> 0..Len(credentials)']
      /\ backends'[Key(t)] = Len(credentials) + 1
      /\ \A k \in Keys : backends[k] # 0 => k # Key(t) /\ backends'[k] = backends[k]
  <2>1. backends[Key(t)] = 0
    BY <1>1 DEF IInv, FirstBuild
  <2> QED BY <1>1, <1>4, <1>5, <2>1
<1>10. TypeOK'
  <2>1. \A u \in Threads : req'[u].at \in 1..Len(SortedTargets)
    BY <1>3, <1>6 DEF IInv, TypeOK
  <2> QED BY <1>1, <1>5, <1>8, <1>9, <2>1 DEF IInv, TypeOK
<1>11. \A u \in Threads \ {t} : pc[u] # "building"
  BY <1>1 DEF IInv, LockHeld
<1>12. LockHeld' /\ FirstBuild'
  BY <1>1, <1>2, <1>3, <1>11, ThreadAssumption DEF LockHeld, FirstBuild
<1>13. Held'
  <2>1. ASSUME NEW u \in Threads, pc'[u] \in Holding
        PROVE  req'[u].backend = backends'[Key(u)'] /\ backends'[Key(u)'] # 0
    <3>1. CASE u = t
      BY <1>4, <1>6, <1>7, <1>9, <3>1
    <3>2. CASE u # t
      <4>1. req[u].backend = backends[Key(u)] /\ backends[Key(u)] # 0
        BY <1>3, <2>1, <3>2 DEF IInv, Held
      <4>2. Key(u) \in Keys
        BY KeyFacts
      <4> QED BY <1>3, <1>7, <1>9, <3>2, <4>1, <4>2
    <3> QED BY <3>1, <3>2
  <2> QED BY <2>1 DEF Held
<1>14. OneAtWork' /\ Stages'
  BY <1>1, <1>2, <1>3, <1>6 DEF IInv, OneAtWork, Stages
<1>15. Answers'
  BY <1>1, <1>2, <1>3, <1>6 DEF IInv, TypeOK, Answers
<1>16. \A i \in 1..Len(SortedTargets) : \A b : Entered(i, b) => Entered(i, b)'
  <2>1. ASSUME NEW k \in Keys, backends[k] # 0
        PROVE  backends'[k] = backends[k]
        /\ credentials'[backends[k]] = credentials[backends[k]]
    BY <1>4, <1>5, <1>9, <2>1
  <2> QED BY <1>9, <2>1, KeyFacts DEF Entered
<1>17. \A u \in Threads : Active(u)' =>
         /\ Active(u) /\ req'[u].alone = req[u].alone /\ req'[u].batch = req[u].batch
         /\ req'[u].at = req[u].at /\ (pc'[u] = "send" => pc[u] = "send")
  BY <1>1, <1>2, <1>3, <1>6 DEF Active
<1>18. Alone'
  BY <1>17 DEF IInv, Alone
<1>19. Reach'
  BY <1>16, <1>17 DEF IInv, Reach
<1>20. Calm'
  BY <1>1, <1>16, <1>17 DEF IInv, Calm
<1> QED BY <1>10, <1>12, <1>13, <1>14, <1>15, <1>18, <1>19, <1>20 DEF IInv

\* One more target has the batch, and so has every target of its backend.
LEMMA ConfigureKeeps ==
  ASSUME IInv, NEW t \in Threads, Configure(t)
  PROVE  IInv'
<1>1. /\ pc[t] = "use"
      /\ req[t].kind = "configure"
      /\ credentials' = [credentials EXCEPT ![req[t].backend] = req[t].batch]
      /\ UNCHANGED <<backends, backendsLock, replies, calm, requests, faults>>
  BY DEF Configure, NextTarget, Goto, Answer
<1>2. \/ req[t].at < Len(SortedTargets) /\ req'[t] = [req[t] EXCEPT !.at = @ + 1]
         /\ pc'[t] = "lookup"
      \/ ~(req[t].at < Len(SortedTargets)) /\ req'[t] = [req[t] EXCEPT !.code = "ok"]
         /\ pc'[t] = "send"
  BY DEF Configure, NextTarget, Goto, Answer, IInv, TypeOK
<1>3. \A u \in Threads \ {t} : req'[u] = req[u] /\ pc'[u] = pc[u]
  BY DEF Configure, NextTarget, Goto, Answer, IInv, TypeOK
<1>4. /\ req[t] \in Requests /\ req[t].at \in 1..Len(SortedTargets)
         /\ Len(SortedTargets) \in Nat
      /\ credentials \in Seq(Nat) /\ Len(credentials) \in Nat
      /\ backends \in [Keys -> 0..Len(credentials)] /\ Key(t) \in Keys
  BY KeyFacts DEF IInv, TypeOK
<1>5. /\ req'[t] \in Requests /\ req'[t].at \in 1..Len(SortedTargets)
      /\ req'[t].kind = req[t].kind /\ req'[t].batch = req[t].batch
      /\ req'[t].alone = req[t].alone
      /\ req'[t].gone = req[t].gone /\ req'[t].faulty = req[t].faulty
      /\ pc'[t] = "send" => req'[t].code = "ok"
      /\ \A i \in 1..Len(SortedTargets) :
           i < req'[t].at \/ pc'[t] = "send" => i < req[t].at \/ i = req[t].at
  <2> DEFINE r == req[t]
  <2>0. r \in Requests /\ r.at \in 1..Len(SortedTargets) /\ Len(SortedTargets) \in Nat
    BY <1>4
  <2>1. CASE r.at < Len(SortedTargets) /\ req'[t] = [r EXCEPT !.at = @ + 1] /\ pc'[t] = "lookup"
    <3>1. /\ req'[t] \in Requests /\ req'[t].at = r.at + 1
          /\ req'[t].kind = r.kind /\ req'[t].batch = r.batch /\ req'[t].alone = r.alone
          /\ req'[t].gone = r.gone /\ req'[t].faulty = r.faulty
      BY <2>0, <2>1 DEF Requests
    <3> QED BY <2>0, <2>1, <3>1
  <2>2. CASE ~(r.at < Len(SortedTargets)) /\ req'[t] = [r EXCEPT !.code = "ok"]
             /\ pc'[t] = "send"
    <3>1. /\ req'[t] \in Requests /\ req'[t].at = r.at /\ req'[t].code = "ok"
          /\ req'[t].kind = r.kind /\ req'[t].batch = r.batch /\ req'[t].alone = r.alone
          /\ req'[t].gone = r.gone /\ req'[t].faulty = r.faulty
      BY <2>0, <2>2 DEF Requests, Codes
    <3> QED BY <2>0, <2>2, <3>1
  <2> QED BY <1>2, <2>1, <2>2
<1>6. pc'[t] \in {"lookup", "send"}
  BY <1>2
<1>7. req' \in [Threads -> Requests] /\ pc' \in [Threads -> Locations]
  BY <1>3, <1>5, <1>6 DEF Configure, NextTarget, Goto, Answer, IInv, TypeOK, Locations
<1>8. req[t].backend = backends[Key(t)] /\ req[t].backend \in 1..Len(credentials)
  BY <1>1, <1>4 DEF IInv, Held, Holding
<1>9. /\ credentials' \in Seq(Nat) /\ Len(credentials') = Len(credentials)
      /\ \A n \in 1..Len(credentials) :
           credentials'[n] = IF n = req[t].backend THEN req[t].batch ELSE credentials[n]
  <2>1. req[t].batch \in Nat
    BY <1>4 DEF Requests
  <2> QED BY <1>1, <1>4, <1>8, <2>1, ExceptSeq
<1>10. TypeOK'
  <2>1. \A u \in Threads : req'[u].at \in 1..Len(SortedTargets)
    BY <1>3, <1>5 DEF IInv, TypeOK
  <2> QED BY <1>1, <1>7, <1>9, <2>1 DEF IInv, TypeOK
<1>11. LockHeld'
  BY <1>1, <1>3, <1>6 DEF IInv, LockHeld
<1>12. \A u \in Threads \ {t} : Key(u)' = Key(u)
  BY <1>3 DEF Key, Wanted
<1>13. FirstBuild'
  BY <1>1, <1>3, <1>6, <1>12 DEF IInv, FirstBuild
<1>14. Held'
  BY <1>1, <1>3, <1>6, <1>12 DEF IInv, Held, Holding
<1>15. OneAtWork'
  BY <1>1, <1>3, <1>6 DEF IInv, OneAtWork
<1>16. Answers'
  BY <1>1, <1>3, <1>5, <1>6 DEF IInv, TypeOK, Answers
<1>17. Stages'
  BY <1>1, <1>3, <1>5, <1>6 DEF IInv, Stages
<1>18. Active(t) /\ \A u \in Threads : Active(u)' => Active(u)
  BY <1>1, <1>3 DEF Active
<1>19. Alone'
  BY <1>3, <1>5, <1>18 DEF IInv, Alone
<1>20. Reach'
  <2> SUFFICES ASSUME NEW b, b = req[t].batch PROVE Reach'
    OBVIOUS
  <2>1. \A i \in 1..Len(SortedTargets) : Entered(i, b) => Entered(i, b)'
    <3>1. \A k \in Keys : backends[k] # 0 => backends[k] \in 1..Len(credentials)
      BY <1>4
    <3>2. \A k \in Keys : backends[k] # 0 /\ credentials[backends[k]] = b
                            => credentials'[backends[k]] = b
      BY <1>9, <3>1
    <3>3. \A i \in 1..Len(SortedTargets) : CacheKey(SortedTargets[i]) \in Keys
      BY KeyFacts
    <3> QED BY <1>1, <3>2, <3>3 DEF Entered
  <2>2. \A i : i = req[t].at => Entered(i, b)'
    <3>1. Key(t) = CacheKey(SortedTargets[req[t].at])
      BY <1>1 DEF Key, Wanted, Loops
    <3>2. backends[Key(t)] # 0 /\ credentials'[backends[Key(t)]] = b
      BY <1>4, <1>8, <1>9
    <3> QED BY <1>1, <3>1, <3>2 DEF Entered
  <2>3. ASSUME NEW u \in Threads, Active(u)', req'[u].alone,
               NEW i \in 1..Len(SortedTargets), i < req'[u].at \/ pc'[u] = "send"
        PROVE  req'[u].batch = b /\ Entered(i, b)'
    <3>1. u = t /\ req[t].alone
      BY <1>3, <1>5, <1>18, <2>3 DEF IInv, Alone
    <3>2. i < req[t].at => Entered(i, b)
      BY <1>18, <3>1 DEF IInv, Reach
    <3>3. i < req[t].at \/ i = req[t].at
      BY <1>5, <2>3, <3>1
    <3> QED BY <1>5, <2>1, <2>2, <3>1, <3>2, <3>3
  <2>4. \A u \in Threads : Active(u)' /\ req'[u].alone =>
          \A i \in 1..Len(SortedTargets) :
            i < req'[u].at \/ pc'[u] = "send" => req'[u].batch = b /\ Entered(i, b)'
    BY <2>3
  <2> QED BY <2>4 DEF Reach, Entered
<1>21. Calm'
  BY <1>1, <1>18 DEF IInv, Calm
<1> QED BY <1>10, <1>11, <1>13, <1>14, <1>15, <1>16, <1>17, <1>19, <1>20, <1>21 DEF IInv

\* The answer is the only one, and makes the batch of a calm configure the last.
LEMMA DeliverKeeps ==
  ASSUME IInv, NEW t \in Threads, Deliver(t)
  PROVE  IInv'
<1>1. /\ pc[t] = "send"
      /\ replies' = [replies EXCEPT ![t] = Append(@, req[t].code)]
      /\ UNCHANGED <<backends, credentials, backendsLock, req, requests, faults>>
  BY DEF Deliver, Goto
<1>2. /\ pc' \in [Threads -> Locations] /\ pc'[t] = "idle"
      /\ \A u \in Threads \ {t} : pc'[u] = pc[u]
  BY DEF Deliver, Goto, IInv, TypeOK, Locations
<1>3. replies'[t] = <<req[t].code>> /\ \A u \in Threads \ {t} : replies'[u] = replies[u]
  <2>1. replies[t] = << >>
    BY <1>1 DEF IInv, Answers
  <2> QED BY <1>1, <2>1 DEF IInv, TypeOK
<1>4. req[t] \in Requests /\ req[t].code \in Codes /\ req[t].batch \in Nat
  BY DEF IInv, TypeOK, Requests
<1>5. calm' \in {calm, req[t].batch}
  BY DEF Deliver
<1>6. TypeOK'
  <2>1. replies' \in [Threads -> Seq(Codes)]
    BY <1>1, <1>3, <1>4 DEF IInv, TypeOK
  <2> QED BY <1>1, <1>2, <1>4, <1>5, <2>1 DEF IInv, TypeOK
<1>7. LockHeld'
  BY <1>1, <1>2 DEF IInv, LockHeld
<1>8. \A u \in Threads : Key(u)' = Key(u)
  BY <1>1 DEF Key, Wanted
<1>9. FirstBuild' /\ Held'
  BY <1>1, <1>2, <1>8 DEF IInv, FirstBuild, Held, Holding
<1>10. OneAtWork' /\ Stages'
  BY <1>1, <1>2 DEF IInv, OneAtWork, Stages
<1>11. Answers'
  BY <1>1, <1>2, <1>3 DEF IInv, Answers
<1>12. \A u \in Threads : Active(u)' => u # t /\ Active(u)
  BY <1>1, <1>2 DEF Active
<1>13. \A i, b : Entered(i, b)' <=> Entered(i, b)
  BY <1>1 DEF Entered
<1>14. Alone'
  BY <1>1, <1>12 DEF IInv, Alone
<1>15. Reach'
  BY <1>1, <1>2, <1>12, <1>13 DEF IInv, Reach
<1>16. Calm'
  <2>1. CASE req[t].kind = "configure" /\ req[t].code = "ok" /\ req[t].alone
    <3>1. calm' = req[t].batch /\ Active(t)
      BY <1>1, <2>1 DEF Deliver, Active
    <3>2. \A u \in Threads : ~Active(u)'
      BY <1>12, <2>1, <3>1 DEF IInv, Alone
    <3>3. \A i \in 1..Len(SortedTargets) : Entered(i, req[t].batch)
      BY <1>1, <2>1, <3>1 DEF IInv, Reach
    <3> QED BY <1>13, <3>1, <3>2, <3>3 DEF Calm
  <2>2. CASE ~(req[t].kind = "configure" /\ req[t].code = "ok" /\ req[t].alone)
    <3>1. calm' = calm
      BY <2>2 DEF Deliver
    <3> QED BY <1>12, <1>13, <3>1 DEF IInv, Calm
  <2> QED BY <2>1, <2>2
<1> QED BY <1>6, <1>7, <1>9, <1>10, <1>11, <1>14, <1>15, <1>16 DEF IInv

\* A stutter changes nothing.
LEMMA StutterKeeps ==
  ASSUME IInv, UNCHANGED vars
  PROVE  IInv'
<1>1. UNCHANGED <<backends, credentials, backendsLock, pc, req, replies, calm, requests, faults>>
  BY DEF vars
<1>2. \A t \in Threads : (Key(t)' = Key(t)) /\ (Active(t)' <=> Active(t))
  BY <1>1 DEF Key, Wanted, Active
<1>3. \A i, b : Entered(i, b)' <=> Entered(i, b)
  BY <1>1 DEF Entered
<1>4. TypeOK' /\ LockHeld' /\ OneAtWork' /\ Answers' /\ Stages'
  BY <1>1 DEF IInv, TypeOK, LockHeld, OneAtWork, Answers, Stages
<1>5. FirstBuild' /\ Held'
  BY <1>1, <1>2 DEF IInv, FirstBuild, Held
<1>6. Alone' /\ Reach' /\ Calm'
  BY <1>1, <1>2, <1>3 DEF IInv, Alone, Reach, Calm
<1> QED BY <1>4, <1>5, <1>6 DEF IInv

\* Every step keeps the invariant.
LEMMA NextKeeps ==
  ASSUME IInv, [Next]_vars
  PROVE  IInv'
<1>1. ASSUME NEW t \in Threads, Receive(t) \/ Serve(t) \/ ActionReturns(t) \/ ActionRaises(t)
      PROVE  IInv'
  BY <1>1, ReceiveKeeps, RefuseKeeps, AdmitKeeps, ReadPayloadKeeps, ReadFailsKeeps,
     LookupKeeps, BuildKeeps, BuildFailsKeeps, ReadStateKeeps, ReadStateFailsKeeps,
     AskStatusKeeps, ConfigureKeeps, DispatchKeeps, StartActionKeeps, ActionReturnsKeeps,
     ActionRaisesKeeps, DeliverKeeps, ClientGoneKeeps
     DEF Serve
<1> QED BY <1>1, StutterKeeps DEF Next, Quiet

-----------------------------------------------------------------------------
(* What follows.                                                           *)

\* The invariant the theorems below rest on holds in every reachable state.
THEOREM Invariance == Spec => []IInv
BY InitEstablishes, NextKeeps, PTL DEF Spec

\* The variables keep their types, a loop never leaves the list of targets and
\* a cached backend is one that was built (get_active_backend, the loops of
\* _handle_auth_configure and _handle_auth_matrix).
THEOREM TypeCorrect == Spec => []TypeOK
BY Invariance, PTL DEF IInv

\* One document never has two action locks: the look-up and the construction
\* under backends_lock give every request for one key the same instance.
THEOREM Serialised == Spec => []ActionsSerialised
<1>1. IInv => ActionsSerialised
  BY DEF IInv, Held, Holding, OneAtWork, ActionsSerialised
<1> QED BY <1>1, Invariance, PTL

\* A configure request on its own leaves no backend behind, neither one that
\* existed nor one that is built later (_handle_auth_configure).
THEOREM ConfigureComplete == Spec => []ConfigureReachesAll
<1>1. ASSUME IInv, calm # 0, NEW k \in Keys
      PROVE  backends[k] # 0 => credentials[backends[k]] = calm
  <2>1. PICK i \in 1..Len(SortedTargets) : CacheKey(SortedTargets[i]) = k
    <3>1. DOMAIN SortedTargets = 1..Len(SortedTargets)
      BY TargetAssumption, LenProperties
    <3>2. "local-lab" \in Range(SortedTargets)
      BY TargetAssumption
    <3>3. k \in Range(SortedTargets) /\ CacheKey(k) = k
      BY <3>2 DEF Keys, CacheKey
    <3> QED BY <3>1, <3>3 DEF Range
  <2> QED BY <1>1, <2>1 DEF IInv, Calm, Entered
<1>2. IInv => ConfigureReachesAll
  BY <1>1 DEF ConfigureReachesAll
<1> QED BY <1>2, Invariance, PTL

\* No path through the handlers and their except branches answers a request
\* twice or loses the answer of a connected client (_handle_action,
\* _handle_auth_configure, _dispatch_action).
THEOREM Answered == Spec => []AnsweredOnce
<1>1. IInv => AnsweredOnce
  BY DEF IInv, Answers, AnsweredOnce
<1> QED BY <1>1, Invariance, PTL
=============================================================================
