--------------------------------- MODULE AwxJob ---------------------------------
(***************************************************************************)
(* Live actions in the AWX execution mode.                                 *)
(*                                                                         *)
(* An action runs its playbooks as jobs of an AWX server, one after the    *)
(* other: it looks up the template, launches a job and polls the job's     *)
(* status, once a second and at most MaxPolls times.  The server goes its  *)
(* own way: requests and answers get lost, and a job goes on whether or    *)
(* not anybody still polls it.  The request threads of a backend share its *)
(* action_lock.                                                            *)
(***************************************************************************)
EXTENDS Naturals, Sequences, FiniteSets

CONSTANTS
  Threads,      \* request threads of one backend
  NoThread,
  MaxPolls,     \* max_polls
  MaxPlaybooks, \* playbooks an action may consist of
  MaxRequests,  \* bound: requests ever made
  MaxCrashes    \* bound: restarts of the process

ASSUME ThreadAssumption == NoThread \notin Threads
ASSUME BoundAssumption  == {MaxPolls, MaxPlaybooks, MaxRequests, MaxCrashes} \subseteq Nat

VARIABLES
  jobs,      \* the AWX server: status of every job it ever started; ids count up
  lock,      \* owner of action_lock
  pc,        \* per thread: where its action is
  playbooks, \* per thread: playbooks still to run, the present one included
  job,       \* per thread: the job it polls
  polls,     \* per thread: polls of it so far
  mine,      \* history: per thread, the jobs its action has launched
  outcome,   \* per thread: the answer to its last request
  deserted,  \* history: jobs left unfinished by an action that failed, or by a crash
  requests, crashes

vars == <<jobs, lock, pc, playbooks, job, polls, mine, outcome, deserted,
          requests, crashes>>

\* "unsuccessful" stands for failed, error and canceled, "going" for any status
\* but these and successful.
Ended    == {"successful", "unsuccessful"}
Statuses == {"going"} \cup Ended
Jobs     == 1..Len(jobs)

Locations == {"idle", "waiting", "find", "launch", "poll", "raise", "return"}
Working   == Locations \ {"idle", "waiting"}

Goto(t, there) == pc' = [pc EXCEPT ![t] = there]

Init ==
  /\ jobs = << >>
  /\ lock = NoThread
  /\ pc = [t \in Threads |-> "idle"]
  /\ playbooks = [t \in Threads |-> 0]
  /\ job = [t \in Threads |-> 0]
  /\ polls = [t \in Threads |-> 0]
  /\ mine = [t \in Threads |-> {}]
  /\ outcome = [t \in Threads |-> "none"]
  /\ deserted = {}
  /\ requests = 0
  /\ crashes = 0

-----------------------------------------------------------------------------
(* Requests and action_lock.                                               *)

Submit(t) ==
  /\ pc[t] = "idle"
  /\ requests < MaxRequests
  /\ requests' = requests + 1
  /\ \E n \in 1..MaxPlaybooks : playbooks' = [playbooks EXCEPT ![t] = n]
  /\ outcome' = [outcome EXCEPT ![t] = "none"]
  /\ mine' = [mine EXCEPT ![t] = {}]
  /\ Goto(t, "waiting")
  /\ UNCHANGED <<jobs, lock, job, polls, deserted, crashes>>

\* Mutated form: the action does not wait for the lock.
AcquireUnserialised(t) ==
  /\ pc[t] = "waiting"
  /\ lock' = t
  /\ Goto(t, "find")
  /\ UNCHANGED <<jobs, playbooks, job, polls, mine, outcome, deserted, requests, crashes>>

Acquire(t) ==
  /\ pc[t] = "waiting"
  /\ lock = NoThread
  /\ lock' = t
  /\ Goto(t, "find")
  /\ UNCHANGED <<jobs, playbooks, job, polls, mine, outcome, deserted, requests, crashes>>

\* The exception of a playbook is raised through the action; _handle_action
\* answers "failed".
Respond(t) ==
  /\ pc[t] \in {"raise", "return"}
  /\ lock' = NoThread
  /\ outcome' = [outcome EXCEPT ![t] = IF pc[t] = "return" THEN "succeeded" ELSE "failed"]
  /\ Goto(t, "idle")
  /\ UNCHANGED <<jobs, playbooks, job, polls, mine, deserted, requests, crashes>>

-----------------------------------------------------------------------------
(* _run_awx_job_template.                                                  *)

\* The request for the template is answered with an id, or it fails, or AWX
\* knows no such template.
FindTemplate(t) ==
  /\ pc[t] = "find"
  /\ \/ Goto(t, "launch")
     \/ Goto(t, "raise")
  /\ UNCHANGED <<jobs, lock, playbooks, job, polls, mine, outcome, deserted, requests, crashes>>

Launch(t) ==
  /\ pc[t] = "launch"
  /\ jobs' = Append(jobs, "going")
  /\ job' = [job EXCEPT ![t] = Len(jobs) + 1]
  /\ polls' = [polls EXCEPT ![t] = 0]
  /\ mine' = [mine EXCEPT ![t] = @ \cup {Len(jobs) + 1}]
  /\ Goto(t, "poll")
  /\ UNCHANGED <<lock, playbooks, outcome, deserted, requests, crashes>>

\* The launch does not reach AWX, or AWX refuses it.
LaunchFails(t) ==
  /\ pc[t] = "launch"
  /\ Goto(t, "raise")
  /\ UNCHANGED <<jobs, lock, playbooks, job, polls, mine, outcome, deserted, requests, crashes>>

\* AWX starts the job, but its answer is late, cannot be read or names no job.
LaunchUnanswered(t) ==
  /\ pc[t] = "launch"
  /\ jobs' = Append(jobs, "going")
  /\ mine' = [mine EXCEPT ![t] = @ \cup {Len(jobs) + 1}]
  /\ deserted' = deserted \cup {Len(jobs) + 1}
  /\ Goto(t, "raise")
  /\ UNCHANGED <<lock, playbooks, job, polls, outcome, requests, crashes>>

\* Mutated form: one poll too many.
PollAgainTooOften(t) ==
  /\ pc[t] = "poll"
  /\ polls[t] <= MaxPolls
  /\ jobs[job[t]] \notin Ended
  /\ polls' = [polls EXCEPT ![t] = @ + 1]
  /\ UNCHANGED <<jobs, lock, pc, playbooks, job, mine, outcome, deserted, requests, crashes>>

\* The job goes on while the action sleeps.
PollAgain(t) ==
  /\ pc[t] = "poll"
  /\ polls[t] < MaxPolls
  /\ jobs[job[t]] \notin Ended
  /\ polls' = [polls EXCEPT ![t] = @ + 1]
  /\ UNCHANGED <<jobs, lock, pc, playbooks, job, mine, outcome, deserted, requests, crashes>>

\* Mutated form: every job that has ended counts as successful.
PollSucceedsEnded(t) ==
  /\ pc[t] = "poll"
  /\ polls[t] < MaxPolls
  /\ jobs[job[t]] \in Ended
  /\ playbooks' = [playbooks EXCEPT ![t] = @ - 1]
  /\ Goto(t, IF playbooks[t] > 1 THEN "find" ELSE "return")
  /\ UNCHANGED <<jobs, lock, job, polls, mine, outcome, deserted, requests, crashes>>

\* The playbook returns; the action runs its next one, if any.
PollSucceeds(t) ==
  /\ pc[t] = "poll"
  /\ polls[t] < MaxPolls
  /\ jobs[job[t]] = "successful"
  /\ playbooks' = [playbooks EXCEPT ![t] = @ - 1]
  /\ Goto(t, IF playbooks[t] > 1 THEN "find" ELSE "return")
  /\ UNCHANGED <<jobs, lock, job, polls, mine, outcome, deserted, requests, crashes>>

PollFindsFailure(t) ==
  /\ pc[t] = "poll"
  /\ polls[t] < MaxPolls
  /\ jobs[job[t]] = "unsuccessful"
  /\ Goto(t, "raise")
  /\ UNCHANGED <<jobs, lock, playbooks, job, polls, mine, outcome, deserted, requests, crashes>>

Unfinished == {i \in Jobs : jobs[i] \notin Ended}

\* A single failed request for the status makes the action give up.
PollFails(t) ==
  /\ pc[t] = "poll"
  /\ polls[t] < MaxPolls
  /\ deserted' = deserted \cup ({job[t]} \cap Unfinished)
  /\ Goto(t, "raise")
  /\ UNCHANGED <<jobs, lock, playbooks, job, polls, mine, outcome, requests, crashes>>

\* Mutated form: polling without a limit.
TimeOutNever(t) ==
  /\ pc[t] = "poll"
  /\ polls[t] = MaxPolls
  /\ polls' = [polls EXCEPT ![t] = 0]
  /\ UNCHANGED <<jobs, lock, pc, playbooks, job, mine, outcome, deserted, requests, crashes>>

TimeOut(t) ==
  /\ pc[t] = "poll"
  /\ polls[t] = MaxPolls
  /\ deserted' = deserted \cup ({job[t]} \cap Unfinished)
  /\ Goto(t, "raise")
  /\ UNCHANGED <<jobs, lock, playbooks, job, polls, mine, outcome, requests, crashes>>

-----------------------------------------------------------------------------
(* The AWX server, and the process.                                        *)

\* A job ends or is canceled, polled or not.
End(i) ==
  /\ i \in Unfinished
  /\ \E status \in Ended : jobs' = [jobs EXCEPT ![i] = status]
  /\ UNCHANGED <<lock, pc, playbooks, job, polls, mine, outcome, deserted, requests, crashes>>

\* The process dies and is started again; its jobs go on.
Crash ==
  /\ crashes < MaxCrashes
  /\ crashes' = crashes + 1
  /\ deserted' = deserted \cup Unfinished
  /\ lock' = NoThread
  /\ pc' = [t \in Threads |-> "idle"]
  /\ playbooks' = [t \in Threads |-> 0]
  /\ job' = [t \in Threads |-> 0]
  /\ polls' = [t \in Threads |-> 0]
  /\ mine' = [t \in Threads |-> {}]
  /\ outcome' = [t \in Threads |-> "none"]
  /\ UNCHANGED <<jobs, requests>>

\* Every request has been answered and every job has ended.
Quiet ==
  /\ \A t \in Threads : pc[t] = "idle"
  /\ UNCHANGED vars

Step(t) ==
  \/ Acquire(t) \/ Respond(t) \/ FindTemplate(t)
  \/ Launch(t) \/ LaunchFails(t) \/ LaunchUnanswered(t)
  \/ PollAgain(t) \/ PollSucceeds(t) \/ PollFindsFailure(t) \/ PollFails(t) \/ TimeOut(t)

Next ==
  \/ \E t \in Threads : Submit(t) \/ Step(t)
  \/ \E i \in Jobs : End(i)
  \/ Crash \/ Quiet

Spec == Init /\ [][Next]_vars

\* Threads are scheduled and every HTTP request returns within its timeout;
\* nothing is assumed of the jobs.
FairSpec == Spec /\ \A t \in Threads : WF_vars(Step(t))

-----------------------------------------------------------------------------
(* Properties.                                                             *)

\* Every variable has its type; a polled job exists and has been polled within
\* the limit.
TypeOK ==
  /\ jobs \in Seq(Statuses)
  /\ lock \in Threads \cup {NoThread}
  /\ pc \in [Threads -> Locations]
  /\ playbooks \in [Threads -> 0..MaxPlaybooks]
  /\ job \in [Threads -> Nat]
  /\ \A t \in Threads : pc[t] = "poll" => job[t] \in Jobs
  /\ polls \in [Threads -> 0..MaxPolls]
  /\ mine \in [Threads -> SUBSET Jobs]
  /\ outcome \in [Threads -> {"none", "succeeded", "failed"}]
  /\ deserted \subseteq Jobs
  /\ {requests, crashes} \subseteq Nat

\* No two jobs of a backend are at work together, whatever requests come in,
\* except for jobs that some action or a crash left unfinished: the lock is
\* held for as long as a job is polled.
OneJobAtATime == \A i, j \in Unfinished \ deserted : i = j

\* An action is answered "succeeded" only if every job it launched has ended
\* and was successful, and it has deserted none.
SuccessMeansDone ==
  \A t \in Threads : outcome[t] = "succeeded" =>
    \A i \in mine[t] : jobs[i] = "successful" /\ i \notin deserted

\* Every action is answered in the end even if its job never ends: the lock is
\* released by the poll limit at the latest.
EveryRequestAnswered == \A t \in Threads : pc[t] = "waiting" ~> pc[t] = "idle"
=============================================================================
