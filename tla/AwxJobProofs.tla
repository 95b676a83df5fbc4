------------------------------ MODULE AwxJobProofs ------------------------------
(***************************************************************************)
(* Theorems about AwxJob, for any number of threads, requests, playbooks,  *)
(* polls and crashes.                                                      *)
(***************************************************************************)
EXTENDS AwxJob, TLAPS

-----------------------------------------------------------------------------
(* The inductive invariant.                                                *)

\* The lock is held by exactly the thread inside an action.
LockHeld == \A t \in Threads : pc[t] \in Working <=> lock = t

\* Every job that still goes on and was not deserted is being polled.
Watched ==
  \A i \in Unfinished \ deserted : \E t \in Threads : pc[t] = "poll" /\ job[t] = i

\* An action that has not failed has lost none of its jobs, and all but the one
\* it polls were successful.
OnCourse(t) == pc[t] \in {"find", "launch", "poll", "return"} \/ outcome[t] = "succeeded"
Sound ==
  \A t \in Threads :
    /\ pc[t] # "idle" => outcome[t] = "none"
    /\ pc[t] = "waiting" => mine[t] = {}
    /\ OnCourse(t) => \A i \in mine[t] :
         i \notin deserted /\ (jobs[i] = "successful" \/ (pc[t] = "poll" /\ i = job[t]))

\* An action at work has a playbook left.
PlaybookLeft ==
  \A t \in Threads :
    pc[t] \in {"waiting", "find", "launch", "poll"} => playbooks[t] > 0

IInv == TypeOK /\ LockHeld /\ Watched /\ Sound /\ PlaybookLeft

\* At the start there are no jobs and nobody holds the lock.
LEMMA InitEstablishes == Init => IInv
<1> SUFFICES ASSUME Init PROVE IInv
  OBVIOUS
<1> USE DEF Init
<1>1. jobs \in Seq(Statuses) /\ Jobs = {}
  BY DEF Jobs
<1>2. TypeOK
  <2>1. pc \in [Threads -> Locations] /\ \A t \in Threads : pc[t] # "poll"
    BY DEF Locations
  <2>2. playbooks \in [Threads -> 0..MaxPlaybooks] /\ polls \in [Threads -> 0..MaxPolls]
    BY BoundAssumption
  <2> QED BY <1>1, <2>1, <2>2 DEF TypeOK
<1>3. LockHeld
  BY ThreadAssumption DEF LockHeld, Working
<1>4. Watched
  BY <1>1 DEF Watched, Unfinished
<1>5. Sound
  BY DEF Sound
<1>6. PlaybookLeft
  BY DEF PlaybookLeft
<1> QED BY <1>2, <1>3, <1>4, <1>5, <1>6 DEF IInv

-----------------------------------------------------------------------------
(* Every step preserves it.                                                *)

\* AWX starts one more job.
LEMMA JobStarted ==
  ASSUME TypeOK, jobs' = Append(jobs, "going")
  PROVE  /\ jobs' \in Seq(Statuses)
         /\ Len(jobs) + 1 \in Nat
         /\ Len(jobs) + 1 \notin Jobs
         /\ Jobs' = Jobs \cup {Len(jobs) + 1}
         /\ \A i \in Jobs : jobs'[i] = jobs[i]
         /\ jobs'[Len(jobs) + 1] = "going"
BY DEF TypeOK, Jobs, Statuses

\* A request that comes in has no job yet.
LEMMA SubmitKeeps ==
  ASSUME IInv, NEW t \in Threads, Submit(t)
  PROVE  IInv'
<1> USE DEF IInv, Submit, Goto
<1>1. TypeOK'
  BY BoundAssumption DEF TypeOK, Locations, Jobs
<1>2. LockHeld'
  BY ThreadAssumption DEF TypeOK, LockHeld, Working, Locations
<1>3. Watched'
  BY DEF TypeOK, Watched, Unfinished, Jobs
<1>4. Sound'
  BY DEF TypeOK, Sound, OnCourse, Locations, Jobs
<1>5. PlaybookLeft'
  BY DEF TypeOK, PlaybookLeft
<1> QED BY <1>1, <1>2, <1>3, <1>4, <1>5

\* The lock goes to a thread that waits for it, outside of an action until then.
LEMMA AcquireKeeps ==
  ASSUME IInv, NEW t \in Threads, Acquire(t)
  PROVE  IInv'
<1> USE DEF IInv, Acquire, Goto
<1>1. TypeOK'
  BY BoundAssumption DEF TypeOK, Locations, Jobs
<1>2. LockHeld'
  BY ThreadAssumption DEF TypeOK, LockHeld, Working, Locations
<1>3. Watched'
  BY DEF TypeOK, Watched, Unfinished, Jobs
<1>4. Sound'
  BY DEF TypeOK, Sound, OnCourse, Locations, Jobs
<1>5. PlaybookLeft'
  BY DEF TypeOK, PlaybookLeft
<1> QED BY <1>1, <1>2, <1>3, <1>4, <1>5

\* Whoever answers has no job left to poll.
LEMMA RespondKeeps ==
  ASSUME IInv, NEW t \in Threads, Respond(t)
  PROVE  IInv'
<1> USE DEF IInv, Respond, Goto
<1>1. TypeOK'
  BY BoundAssumption DEF TypeOK, Locations, Jobs
<1>2. LockHeld'
  BY ThreadAssumption DEF TypeOK, LockHeld, Working, Locations
<1>3. Watched'
  BY DEF TypeOK, Watched, Unfinished, Jobs
<1>4. Sound'
  BY DEF TypeOK, Sound, OnCourse, Locations, Jobs
<1>5. PlaybookLeft'
  BY DEF TypeOK, PlaybookLeft
<1> QED BY <1>1, <1>2, <1>3, <1>4, <1>5

\* Looking for the template launches nothing.
LEMMA FindTemplateKeeps ==
  ASSUME IInv, NEW t \in Threads, FindTemplate(t)
  PROVE  IInv'
<1> USE DEF IInv, FindTemplate, Goto
<1>1. TypeOK'
  BY BoundAssumption DEF TypeOK, Locations, Jobs
<1>2. LockHeld'
  BY ThreadAssumption DEF TypeOK, LockHeld, Working, Locations
<1>3. Watched'
  BY DEF TypeOK, Watched, Unfinished, Jobs
<1>4. Sound'
  BY DEF TypeOK, Sound, OnCourse, Locations, Jobs
<1>5. PlaybookLeft'
  BY DEF TypeOK, PlaybookLeft
<1> QED BY <1>1, <1>2, <1>3, <1>4, <1>5

\* The launched job is polled by the thread that launched it.
LEMMA LaunchKeeps ==
  ASSUME IInv, NEW t \in Threads, Launch(t)
  PROVE  IInv'
<1> USE DEF IInv, Launch, Goto
<1> DEFINE new == Len(jobs) + 1
<1>0. /\ jobs' \in Seq(Statuses) /\ new \in Nat /\ new \notin Jobs
      /\ Jobs' = Jobs \cup {new}
      /\ \A i \in Jobs : jobs'[i] = jobs[i]
  BY JobStarted
<1> HIDE DEF new
<1>a. /\ job' = [job EXCEPT ![t] = new]
      /\ mine' = [mine EXCEPT ![t] = @ \cup {new}]
  BY DEF new
<1>1. TypeOK'
  BY BoundAssumption, <1>0, <1>a DEF TypeOK, Locations
<1>2. LockHeld'
  BY ThreadAssumption DEF TypeOK, LockHeld, Working, Locations
<1>3. Watched'
  <2> SUFFICES ASSUME NEW i \in Unfinished' \ deserted'
               PROVE  \E u \in Threads : pc'[u] = "poll" /\ job'[u] = i
    BY DEF Watched
  <2>1. CASE i = new
    BY <1>a, <2>1 DEF TypeOK
  <2>2. CASE i # new
    <3>1. i \in Unfinished \ deserted
      BY <1>0, <2>2 DEF Unfinished
    <3>2. PICK u \in Threads : pc[u] = "poll" /\ job[u] = i
      BY <3>1 DEF Watched
    <3> QED BY <1>a, <3>2 DEF TypeOK
  <2> QED BY <2>1, <2>2
<1>4. Sound'
  <2>1. ASSUME NEW u \in Threads, OnCourse(u)', NEW i \in mine'[u]
        PROVE  /\ i \notin deserted'
               /\ jobs'[i] = "successful" \/ (pc'[u] = "poll" /\ i = job'[u])
    <3>1. CASE u = t /\ i = new
      <4>1. pc'[t] = "poll" /\ job'[t] = new
        BY <1>a DEF TypeOK
      <4>2. new \notin deserted'
        BY <1>0 DEF TypeOK
      <4> QED BY <3>1, <4>1, <4>2
    <3>2. CASE u = t /\ i # new
      <4>1. OnCourse(t) /\ pc[t] # "poll" /\ i \in mine[t] /\ i \in Jobs
        BY <1>a, <2>1, <3>2 DEF TypeOK, OnCourse
      <4> QED BY <1>0, <3>2, <4>1 DEF Sound
    <3>3. CASE u # t
      <4>1. OnCourse(u) /\ i \in mine[u] /\ i \in Jobs /\ i # new
        BY <1>0, <1>a, <2>1, <3>3 DEF TypeOK, OnCourse
      <4>2. pc'[u] = pc[u] /\ job'[u] = job[u] /\ deserted' = deserted
        BY <1>a, <3>3 DEF TypeOK
      <4>3. i \notin deserted /\ (jobs[i] = "successful" \/ (pc[u] = "poll" /\ i = job[u]))
        BY <4>1 DEF Sound
      <4> QED BY <1>0, <4>1, <4>2, <4>3
    <3> QED BY <3>1, <3>2, <3>3
  <2>2. \A u \in Threads : pc'[u] # "idle" => outcome'[u] = "none"
    BY DEF TypeOK, Sound
  <2>3. \A u \in Threads : pc'[u] = "waiting" => mine'[u] = {}
    BY <1>a DEF TypeOK, Sound
  <2> QED BY <2>1, <2>2, <2>3 DEF Sound
<1>5. PlaybookLeft'
  BY DEF TypeOK, PlaybookLeft
<1> QED BY <1>1, <1>2, <1>3, <1>4, <1>5

\* A refused launch fails the action and leaves no job.
LEMMA LaunchFailsKeeps ==
  ASSUME IInv, NEW t \in Threads, LaunchFails(t)
  PROVE  IInv'
<1> USE DEF IInv, LaunchFails, Goto
<1>1. TypeOK'
  BY BoundAssumption DEF TypeOK, Locations, Jobs
<1>2. LockHeld'
  BY ThreadAssumption DEF TypeOK, LockHeld, Working, Locations
<1>3. Watched'
  BY DEF TypeOK, Watched, Unfinished, Jobs
<1>4. Sound'
  BY DEF TypeOK, Sound, OnCourse, Locations, Jobs
<1>5. PlaybookLeft'
  BY DEF TypeOK, PlaybookLeft
<1> QED BY <1>1, <1>2, <1>3, <1>4, <1>5

\* A launch whose answer is lost leaves a job nobody polls, so the job counts as
\* given up.
LEMMA LaunchUnansweredKeeps ==
  ASSUME IInv, NEW t \in Threads, LaunchUnanswered(t)
  PROVE  IInv'
<1> USE DEF IInv, LaunchUnanswered, Goto
<1> DEFINE new == Len(jobs) + 1
<1>0. /\ jobs' \in Seq(Statuses) /\ new \in Nat /\ new \notin Jobs
      /\ Jobs' = Jobs \cup {new}
      /\ \A i \in Jobs : jobs'[i] = jobs[i]
  BY JobStarted
<1> HIDE DEF new
<1>a. /\ deserted' = deserted \cup {new}
      /\ mine' = [mine EXCEPT ![t] = @ \cup {new}]
  BY DEF new
<1>1. TypeOK'
  BY BoundAssumption, <1>0, <1>a DEF TypeOK, Locations
<1>2. LockHeld'
  BY ThreadAssumption DEF TypeOK, LockHeld, Working, Locations
<1>3. Watched'
  BY <1>0, <1>a DEF TypeOK, Watched, Unfinished
<1>4. Sound'
  <2>1. ASSUME NEW u \in Threads, OnCourse(u)', NEW i \in mine'[u]
        PROVE  /\ i \notin deserted'
               /\ jobs'[i] = "successful" \/ (pc'[u] = "poll" /\ i = job'[u])
    <3>1. u # t
      BY <2>1 DEF TypeOK, OnCourse, Sound
    <3>2. OnCourse(u) /\ i \in mine[u] /\ i \in Jobs /\ i # new
      BY <1>0, <1>a, <2>1, <3>1 DEF TypeOK, OnCourse
    <3>3. pc'[u] = pc[u] /\ job'[u] = job[u]
      BY <3>1 DEF TypeOK
    <3>4. i \notin deserted /\ (jobs[i] = "successful" \/ (pc[u] = "poll" /\ i = job[u]))
      BY <3>2 DEF Sound
    <3> QED BY <1>0, <1>a, <3>2, <3>3, <3>4
  <2>2. \A u \in Threads : pc'[u] # "idle" => outcome'[u] = "none"
    BY DEF TypeOK, Sound
  <2>3. \A u \in Threads : pc'[u] = "waiting" => mine'[u] = {}
    BY <1>a DEF TypeOK, Sound
  <2> QED BY <2>1, <2>2, <2>3 DEF Sound
<1>5. PlaybookLeft'
  BY DEF TypeOK, PlaybookLeft
<1> QED BY <1>1, <1>2, <1>3, <1>4, <1>5

\* A job that goes on stays polled.
LEMMA PollAgainKeeps ==
  ASSUME IInv, NEW t \in Threads, PollAgain(t)
  PROVE  IInv'
<1> USE DEF IInv, PollAgain, Goto
<1>1. TypeOK'
  BY BoundAssumption DEF TypeOK, Locations, Jobs
<1>2. LockHeld'
  BY ThreadAssumption DEF TypeOK, LockHeld, Working, Locations
<1>3. Watched'
  BY DEF TypeOK, Watched, Unfinished, Jobs
<1>4. Sound'
  BY DEF TypeOK, Sound, OnCourse, Locations, Jobs
<1>5. PlaybookLeft'
  BY DEF TypeOK, PlaybookLeft
<1> QED BY <1>1, <1>2, <1>3, <1>4, <1>5

\* Only a job that has ended well lets the action go on.
LEMMA PollSucceedsKeeps ==
  ASSUME IInv, NEW t \in Threads, PollSucceeds(t)
  PROVE  IInv'
<1> USE DEF IInv, PollSucceeds, Goto
<1>1. TypeOK'
  <2>1. playbooks[t] \in 0..MaxPlaybooks /\ playbooks[t] > 0
    BY DEF TypeOK, PlaybookLeft
  <2>2. playbooks[t] - 1 \in 0..MaxPlaybooks
    BY <2>1, BoundAssumption
  <2> QED BY <2>2 DEF TypeOK, Locations, Jobs
<1>2. LockHeld'
  BY ThreadAssumption DEF TypeOK, LockHeld, Working, Locations
<1>3. Watched'
  <2> SUFFICES ASSUME NEW i \in Unfinished' \ deserted'
               PROVE  \E u \in Threads : pc'[u] = "poll" /\ job'[u] = i
    BY DEF Watched
  <2>1. PICK u \in Threads : pc[u] = "poll" /\ job[u] = i
    BY DEF Watched, Unfinished, Jobs
  <2>2. u # t
    BY <2>1 DEF Unfinished, Jobs, Ended
  <2> QED BY <2>1, <2>2 DEF TypeOK
<1>4. Sound'
  BY DEF TypeOK, Sound, OnCourse, Locations, Jobs
<1>5. PlaybookLeft'
  BY DEF TypeOK, PlaybookLeft
<1> QED BY <1>1, <1>2, <1>3, <1>4, <1>5

\* A job that has ended otherwise fails the action.
LEMMA PollFindsFailureKeeps ==
  ASSUME IInv, NEW t \in Threads, PollFindsFailure(t)
  PROVE  IInv'
<1> USE DEF IInv, PollFindsFailure, Goto
<1>1. TypeOK'
  BY BoundAssumption DEF TypeOK, Locations, Jobs
<1>2. LockHeld'
  BY ThreadAssumption DEF TypeOK, LockHeld, Working, Locations
<1>3. Watched'
  <2> SUFFICES ASSUME NEW i \in Unfinished' \ deserted'
               PROVE  \E u \in Threads : pc'[u] = "poll" /\ job'[u] = i
    BY DEF Watched
  <2>1. PICK u \in Threads : pc[u] = "poll" /\ job[u] = i
    BY DEF Watched, Unfinished, Jobs
  <2>2. u # t
    BY <2>1 DEF Unfinished, Jobs, Ended
  <2> QED BY <2>1, <2>2 DEF TypeOK
<1>4. Sound'
  BY DEF TypeOK, Sound, OnCourse, Locations, Jobs
<1>5. PlaybookLeft'
  BY DEF TypeOK, PlaybookLeft
<1> QED BY <1>1, <1>2, <1>3, <1>4, <1>5

\* A poll that fails gives the job up, and the action fails.
LEMMA PollFailsKeeps ==
  ASSUME IInv, NEW t \in Threads, PollFails(t)
  PROVE  IInv'
<1> USE DEF IInv, PollFails, Goto
<1>1. TypeOK'
  BY BoundAssumption DEF TypeOK, Locations, Jobs, Unfinished
<1>2. LockHeld'
  BY ThreadAssumption DEF TypeOK, LockHeld, Working, Locations
<1>3. Watched'
  BY DEF TypeOK, Watched, Unfinished, Jobs
<1>4. Sound'
  <2>1. ASSUME NEW u \in Threads, OnCourse(u)', NEW i \in mine'[u]
        PROVE  /\ i \notin deserted'
               /\ jobs'[i] = "successful" \/ (pc'[u] = "poll" /\ i = job'[u])
    <3>1. u # t /\ OnCourse(u) /\ pc'[u] = pc[u] /\ i \in mine[u]
      BY <2>1 DEF TypeOK, OnCourse, Sound
    <3>2. pc[u] # "poll"
      BY <3>1 DEF LockHeld, Working, Locations
    <3>3. i \notin deserted /\ jobs[i] = "successful"
      BY <3>1, <3>2 DEF Sound
    <3>4. i # job[t] \/ job[t] \notin Unfinished
      BY <3>3 DEF Unfinished, Ended
    <3> QED BY <3>3, <3>4
  <2> QED BY <2>1 DEF TypeOK, Sound
<1>5. PlaybookLeft'
  BY DEF TypeOK, PlaybookLeft
<1> QED BY <1>1, <1>2, <1>3, <1>4, <1>5

\* So does the last poll of a job that has not ended.
LEMMA TimeOutKeeps ==
  ASSUME IInv, NEW t \in Threads, TimeOut(t)
  PROVE  IInv'
<1> USE DEF IInv, TimeOut, Goto
<1>1. TypeOK'
  BY BoundAssumption DEF TypeOK, Locations, Jobs, Unfinished
<1>2. LockHeld'
  BY ThreadAssumption DEF TypeOK, LockHeld, Working, Locations
<1>3. Watched'
  BY DEF TypeOK, Watched, Unfinished, Jobs
<1>4. Sound'
  <2>1. ASSUME NEW u \in Threads, OnCourse(u)', NEW i \in mine'[u]
        PROVE  /\ i \notin deserted'
               /\ jobs'[i] = "successful" \/ (pc'[u] = "poll" /\ i = job'[u])
    <3>1. u # t /\ OnCourse(u) /\ pc'[u] = pc[u] /\ i \in mine[u]
      BY <2>1 DEF TypeOK, OnCourse, Sound
    <3>2. pc[u] # "poll"
      BY <3>1 DEF LockHeld, Working, Locations
    <3>3. i \notin deserted /\ jobs[i] = "successful"
      BY <3>1, <3>2 DEF Sound
    <3>4. i # job[t] \/ job[t] \notin Unfinished
      BY <3>3 DEF Unfinished, Ended
    <3> QED BY <3>3, <3>4
  <2> QED BY <2>1 DEF TypeOK, Sound
<1>5. PlaybookLeft'
  BY DEF TypeOK, PlaybookLeft
<1> QED BY <1>1, <1>2, <1>3, <1>4, <1>5

\* A crash leaves jobs behind, all of them given up.
LEMMA CrashKeeps ==
  ASSUME IInv, Crash
  PROVE  IInv'
<1> USE DEF IInv, Crash
<1>1. TypeOK'
  <2>1. deserted' \subseteq Jobs'
    BY DEF TypeOK, Unfinished, Jobs
  <2>2. /\ playbooks' \in [Threads -> 0..MaxPlaybooks]
        /\ polls' \in [Threads -> 0..MaxPolls]
    BY BoundAssumption
  <2>3. pc' \in [Threads -> Locations] /\ \A t \in Threads : pc'[t] # "poll"
    BY DEF Locations
  <2> QED BY <2>1, <2>2, <2>3 DEF TypeOK, Jobs
<1>2. LockHeld'
  BY ThreadAssumption DEF TypeOK, LockHeld, Working, Locations
<1>3. Watched'
  BY DEF TypeOK, Watched, Unfinished, Jobs
<1>4. Sound'
  BY DEF TypeOK, Sound, OnCourse, Locations, Jobs
<1>5. PlaybookLeft'
  BY DEF TypeOK, PlaybookLeft
<1> QED BY <1>1, <1>2, <1>3, <1>4, <1>5

\* A job that ends keeps its place, and whoever polls it finds out.
LEMMA EndKeeps ==
  ASSUME IInv, NEW i \in Jobs, End(i)
  PROVE  IInv'
<1> USE DEF IInv, End
<1>0. PICK status \in Ended : jobs' = [jobs EXCEPT ![i] = status]
  OBVIOUS
<1>a. /\ jobs' \in Seq(Statuses) /\ Len(jobs') = Len(jobs) /\ Jobs' = Jobs
      /\ jobs[i] \notin Ended
      /\ jobs'[i] \in Ended
      /\ \A j \in Jobs : j # i => jobs'[j] = jobs[j]
  BY <1>0 DEF TypeOK, Jobs, Statuses, Unfinished
<1>1. TypeOK'
  BY BoundAssumption, <1>a DEF TypeOK
<1>2. LockHeld'
  BY ThreadAssumption DEF TypeOK, LockHeld, Working, Locations
<1>3. Watched'
  BY <1>a DEF TypeOK, Watched, Unfinished
<1>4. Sound'
  BY <1>a DEF TypeOK, Sound, OnCourse, Ended
<1>5. PlaybookLeft'
  BY DEF TypeOK, PlaybookLeft
<1> QED BY <1>1, <1>2, <1>3, <1>4, <1>5

\* Every step keeps the invariant.
LEMMA NextKeeps == IInv /\ [Next]_vars => IInv'
<1> SUFFICES ASSUME IInv, [Next]_vars PROVE IInv'
  OBVIOUS
<1>1. ASSUME UNCHANGED vars PROVE IInv'
  BY <1>1 DEF vars, IInv, TypeOK, LockHeld, Watched, Sound, OnCourse, PlaybookLeft,
     Jobs, Unfinished
<1>2. ASSUME NEW t \in Threads, Submit(t) \/ Step(t) PROVE IInv'
  BY <1>2, SubmitKeeps, AcquireKeeps, RespondKeeps, FindTemplateKeeps, LaunchKeeps,
     LaunchFailsKeeps, LaunchUnansweredKeeps, PollAgainKeeps, PollSucceedsKeeps,
     PollFindsFailureKeeps, PollFailsKeeps, TimeOutKeeps DEF Step
<1>3. ASSUME NEW i \in Jobs, End(i) PROVE IInv'
  BY <1>3, EndKeeps
<1>4. ASSUME Crash PROVE IInv'
  BY <1>4, CrashKeeps
<1> QED BY <1>1, <1>2, <1>3, <1>4 DEF Next, Quiet

-----------------------------------------------------------------------------
(* Theorems.                                                               *)

\* Types, lock, watched jobs and sound actions hold in every reachable state.
THEOREM Invariant == Spec => []IInv
BY InitEstablishes, NextKeeps, PTL DEF Spec

\* Every variable of AwxJob keeps its type: no job is polled more than MaxPolls
\* times.
THEOREM TypeCorrect == Spec => []TypeOK
<1>1. IInv => TypeOK
  BY DEF IInv
<1> QED BY <1>1, Invariant, PTL

\* A live action runs one job at a time, and no other action of the backend
\* runs one meanwhile, but for jobs that _run_awx_job_template gave up on.
THEOREM JobsDoNotOverlap == Spec => []OneJobAtATime
<1>1. IInv => OneJobAtATime
  <2> SUFFICES ASSUME IInv, NEW i \in Unfinished \ deserted, NEW j \in Unfinished \ deserted
               PROVE  i = j
    BY DEF OneJobAtATime
  <2>1. PICK t \in Threads : pc[t] = "poll" /\ job[t] = i
    BY DEF IInv, Watched
  <2>2. PICK u \in Threads : pc[u] = "poll" /\ job[u] = j
    BY DEF IInv, Watched
  <2>3. t = u
    BY <2>1, <2>2 DEF IInv, LockHeld, Working, Locations
  <2> QED BY <2>1, <2>2, <2>3
<1> QED BY <1>1, Invariant, PTL

\* An action answered "succeeded" has run all its jobs to a successful end.
THEOREM SuccessIsReal == Spec => []SuccessMeansDone
<1>1. IInv => SuccessMeansDone
  BY DEF IInv, SuccessMeansDone, Sound, OnCourse
<1> QED BY <1>1, Invariant, PTL
=============================================================================
