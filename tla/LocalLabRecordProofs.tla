------------------------- MODULE LocalLabRecordProofs -------------------------
(***************************************************************************)
(* More theorems about LocalLab: what its document, its evidence, its jobs *)
(* and its events say is what happened.  They rest on the invariant of     *)
(* LocalLabProofs, by which only the holder of action_lock has anything    *)
(* under way, and on what that thread knows at each place of its method.   *)
(***************************************************************************)
EXTENDS LocalLabProofs, FiniteSetTheorems, FunctionTheorems

-----------------------------------------------------------------------------
(* What a thread knows at each place of its method.                        *)

CreateLocations ==
  {"mock_directory", "tf_running", "tf_apply", "tf_failed", "tf_applied",
   "load_created", "save_created"}

\* Each place belongs to certain actions and, some of them, to one mode.
Placed(t) ==
  /\ pc[t] \in CreateLocations => call[t].action = "create_environment"
  /\ pc[t] \in {"playbook", "job_succeeded", "job_failed"} => call[t].action \in PlaybookActions
  /\ pc[t] \in {"load_scan", "save_scan"} => call[t].action = "run_compliance_scan"
  /\ pc[t] = "save_drift" => call[t].action \in Drifts
  /\ pc[t] = "event" => call[t].action \in Drifts \cup
       {"run_compliance_scan", "run_remediation", "inject_synthetic_incident"}
  /\ pc[t] \in {"tf_running", "tf_apply", "tf_failed", "tf_applied",
                "playbook", "job_succeeded", "job_failed", "load_scan"} => ~mock
  /\ pc[t] \in {"mock_directory", "save_drift"} => mock

\* A create knows the Terraform status it has written last.
StatusKnown(t) ==
  /\ pc[t] \in {"tf_apply", "tf_failed", "tf_applied"} =>
       doc.terraform = [run |-> call[t].env, status |-> "running"]
  /\ pc[t] \in {"mock_directory", "load_created", "save_created"} =>
       doc.terraform = [run |-> call[t].env, status |-> "applied"]

\* A live action that has run its playbooks to the end sees its job first
\* among the jobs, until a read of the files raises.
JobKnown(t) ==
  /\ ~mock
  /\ call[t].action \in PlaybookActions
  /\ \/ pc[t] \in {"load_scan", "save_scan", "record", "event"}
     \/ pc[t] = "respond" /\ call[t].outcome = "succeeded"
  => /\ doc.jobs # << >>
     /\ Head(doc.jobs) = [action |-> call[t].action, status |-> "succeeded"]

\* An action sees its verdict first in the evidence once it has recorded it.
EvidenceKnown(t) ==
  \/ pc[t] = "event" /\ call[t].action # "inject_synthetic_incident"
  \/ pc[t] = "respond" /\ call[t].outcome = "succeeded"
  => /\ doc.evidence # << >>
     /\ Head(doc.evidence) = [action |-> call[t].action, status |-> call[t].outcome]

\* What a scan has loaded still says whether EDA is enabled; an incident that
\* was announced is the newest event, and so is what must be announced by the
\* time of the answer.
EventKnown(t) ==
  /\ pc[t] \in {"record", "event"} /\ call[t].action = "run_compliance_scan" =>
       call[t].snap.edaEnabled = doc.edaEnabled
  /\ pc[t] = "record" /\ call[t].action = "inject_synthetic_incident" /\ doc.edaEnabled =>
       doc.edaLog # << >> /\ Head(doc.edaLog) = "inject_synthetic_incident"
  /\ /\ pc[t] = "respond"
     /\ doc.edaEnabled
     /\ \/ /\ call[t].action \in Drifts \cup {"run_remediation", "inject_synthetic_incident"}
           /\ call[t].outcome = "succeeded"
        \/ /\ call[t].action = "run_compliance_scan"
           /\ call[t].outcome = "failed"
           /\ mock \/ (Head(doc.jobs).status = "succeeded" /\ call[t].env \notin unread)
     => doc.edaLog # << >> /\ Head(doc.edaLog) = call[t].action

\* EDA is enabled only along with a current environment.
EdaNeedsEnvironment == doc.edaEnabled => doc.current # NoEnv

Known(t) == Placed(t) /\ StatusKnown(t) /\ JobKnown(t) /\ EvidenceKnown(t) /\ EventKnown(t)

Story == (\A t \in Threads : Known(t)) /\ EdaNeedsEnvironment /\ RunningIsInFlight

RecordInv == IInv /\ Story

-----------------------------------------------------------------------------
(* What the live actions know of the files, as long as no operator meddles. *)

\* The reports are those of the tasks that have run, and the maps found are
\* those of the files.
ScanKnown(t) ==
  manual = 0 /\ ~mock /\ call[t].action = "run_compliance_scan" =>
    LET dir == files[call[t].env]
    IN  /\ pc[t] = "playbook" =>
             \/ call[t].todo = <<"scan_root", "scan_service">>
             \/ call[t].todo = <<"scan_service">> /\ dir.sshScan = Report(dir.root)
             \/ /\ call[t].todo = << >>
                /\ dir.sshScan = Report(dir.root)
                /\ dir.serviceScan = Report(dir.service)
        /\ pc[t] \in {"job_succeeded", "load_scan", "save_scan", "record", "event"} =>
             call[t].found.controls = ReadControls(dir)
        /\ pc[t] = "save_scan" => call[t].found.compliance = ReadCompliance(dir)
        /\ pc[t] \in {"record", "event"} =>
             (call[t].outcome = "succeeded" <=> dir.root /\ dir.password /\ dir.service)

\* A baseline that has run its tasks has hardened both controls.
BaselineKnown(t) ==
  manual = 0 /\ ~mock /\ call[t].action = "apply_baseline" =>
    LET dir == files[call[t].env]
    IN  /\ pc[t] = "playbook" =>
             \/ call[t].todo = Playbook("apply_baseline")
             \/ call[t].todo = <<"deny_password", "start_service">> /\ dir.root
             \/ call[t].todo = <<"start_service">> /\ dir.root
             \/ call[t].todo = << >> /\ dir.root /\ dir.service
        /\ pc[t] \in {"job_succeeded", "record"} => dir.root /\ dir.service

\* The tasks still to run are tasks of the action's playbooks.
TodoKnown(t) ==
  pc[t] = "playbook" =>
    \A k \in 1..Len(call[t].todo) : \E j \in 1..Len(Playbook(call[t].action)) :
      call[t].todo[k] = Playbook(call[t].action)[j]

\* A live action works in the current environment.
InCurrent(t) ==
  /\ ~mock
  /\ call[t].action \in PlaybookActions
  /\ pc[t] \in {"playbook", "job_succeeded", "job_failed", "load_scan", "save_scan", "record"}
  => doc.current = call[t].env

FilesKnown(t) == ScanKnown(t) /\ BaselineKnown(t) /\ TodoKnown(t) /\ InCurrent(t)

\* The playbooks have all run, and the action has yet to save what they did.
Settling(t) ==
  \/ pc[t] \in {"job_succeeded", "load_scan", "save_scan"}
  \/ pc[t] = "record" /\ call[t].action \in PlaybookActions

\* Everything ControlsReflectFiles asks for but a free lock.
Trusted ==
  /\ crashes = 0 /\ manual = 0
  /\ ~mock
  /\ doc.current \notin unread \cup {NoEnv}

Shown == {"root", "service"}

\* The thread is about to make up for a difference: its create has reset the
\* files and will record a status or read them, or its playbooks have set the
\* control and a job will tell.
Underway(t, c) ==
  \/ /\ pc[t] \in {"tf_running", "load_created", "save_created"}
     /\ ~files[doc.current][c]
  \/ /\ pc[t] \in {"playbook", "job_failed"}
     /\ Sets(call[t].action, c, files[doc.current][c])

Agreed(c) == doc.controls[c] = files[doc.current][c] \/ LeftByJob(c) \/ LeftByCreate(c)

Reflected ==
  Trusted /\ (\A t \in Threads : ~Settling(t)) =>
    \A c \in Shown : Agreed(c) \/ \E t \in Threads : Underway(t, c)

FilesInv == (\A t \in Threads : FilesKnown(t)) /\ Reflected

-----------------------------------------------------------------------------
(* What the evidence says of the trend and, in mock mode, of the controls. *)

\* A scan that has saved its point and not yet its evidence.
Ahead == \E t \in Threads : pc[t] = "record" /\ call[t].action = "run_compliance_scan"

Agree(point, status) == point.pct = 100 <=> status = "succeeded"

TrendAgrees ==
  /\ crashes = 0 =>
       \A i \in 1..Len(doc.evidence) :
         LET n == ScansUpTo(i) + (IF Ahead THEN 1 ELSE 0)
         IN  doc.evidence[i].action = "run_compliance_scan" /\ n <= Len(doc.trend)
               => Agree(doc.trend[n], doc.evidence[i].status)
  /\ \A t \in Threads :
       pc[t] = "record" /\ call[t].action = "run_compliance_scan" =>
         doc.trend # << >> /\ Agree(doc.trend[1], call[t].outcome)

Passes == doc.controls.root /\ doc.controls.service

\* A create or a drift whose effect is saved and not yet in the evidence.
Unrecorded(t) == pc[t] = "record" /\ call[t].action \in Drifts \cup {"create_environment"}

\* In mock mode the newest entry that decides says whether the controls pass,
\* and so does the one about to be recorded; a create or remediation on record
\* has let the password control pass, and nothing undoes that.
MockSays ==
  mock /\ crashes = 0 =>
    /\ (\A t \in Threads : ~Unrecorded(t)) =>
         \A newest \in Decisive(0) :
           (\A j \in Decisive(0) : newest <= j) =>
             (doc.evidence[newest].action \in Drifts <=> ~Passes)
    /\ \A t \in Threads : Unrecorded(t) => (call[t].action \in Drifts <=> ~Passes)
    /\ \/ \E i \in 1..Len(doc.evidence) :
            doc.evidence[i].action \in {"create_environment", "run_remediation"}
       \/ \E t \in Threads : pc[t] = "record" /\ call[t].action = "create_environment"
       => doc.compliance.password

\* An action of the mock mode has found what the document says, or will say
\* once it has recorded its evidence.
MockKnown(t) ==
  mock =>
    /\ pc[t] = "save_scan" =>
         /\ call[t].found.controls = doc.controls
         /\ call[t].found.compliance = [root     |-> doc.controls.root,
                                        password |-> doc.compliance.password]
    /\ pc[t] = "save_drift" =>
         call[t].found.controls = DriftedControls(doc.controls, call[t].action)
    /\ pc[t] = "record" /\ call[t].action \in Drifts => call[t].found.controls = doc.controls
    /\ pc[t] = "record" /\ call[t].action = "run_compliance_scan" =>
         /\ call[t].found = [controls |-> doc.controls, compliance |-> doc.compliance]
         /\ call[t].outcome = "succeeded" <=> Passes /\ doc.compliance.password
    /\ pc[t] = "record" /\ call[t].action \in {"apply_baseline", "run_remediation"} =>
         call[t].found = Approved

MockInv == MockSays /\ MockVerdictsFollowDrifts /\ \A t \in Threads : MockKnown(t)

-----------------------------------------------------------------------------
(* Steps and edits, in general.                                            *)

Outside == {"idle", "waiting"}

\* While one thread is inside an action, the others are outside.
LEMMA OthersOutside ==
  ASSUME IInv, NEW t \in Threads, pc[t] \in Working, NEW u \in Threads, u # t
  PROVE  pc[u] \in Outside
BY DEF IInv, TypeOK, LockHeld, Working, Outside

\* A thread's own step leaves the other threads and most of the world alone.
LEMMA StepFrame ==
  ASSUME IInv, NEW t \in Threads, Step(t), ~Acquire(t)
  PROVE  /\ pc[t] \in Working
         /\ \A u \in Threads : u # t => pc'[u] = pc[u] /\ pc[u] \in Outside /\ call'[u] = call[u]
         /\ UNCHANGED <<mock, clock, requests, crashes, manual>>
<1>1. pc \in [Threads -> Locations] /\ call \in [Threads -> Calls]
  BY DEF IInv, TypeOK
<1>2. CASE Create(t)
  BY <1>1, <1>2, WorkingLocations, OthersOutside
     DEF Create, MockApplied, MockDirectory, CreateBlocked, CreateDirectory, MarkRunning,
         TerraformApply, MarkFailed, MarkApplied, LoadForCreate, SaveCreated, DirectoryFails,
         CreatedReadFails, Leave, Goto, Rest, Bounds, counters
<1>3. CASE RunPlaybook(t)
  BY <1>1, <1>3, WorkingLocations, OthersOutside
     DEF RunPlaybook, NoEnvironment, StartPlaybook, RunTask, PlaybookSucceeds, PlaybookFails,
         JobSucceeded, JobFailed, LoadForScan, SaveScan, ReadFails, BaselineReadFails,
         Leave, Goto, Rest, Bounds, counters
<1>4. CASE RunMock(t)
  BY <1>1, <1>4, WorkingLocations, OthersOutside
     DEF RunMock, MockRestore, LoadForMock, SaveMockDrift, Goto, Rest, Bounds, counters
<1>5. CASE AddIncident(t) \/ RecordAction(t) \/ EmitEvent(t) \/ Respond(t)
  BY <1>1, <1>5, WorkingLocations, OthersOutside
     DEF AddIncident, RecordAction, EmitEvent, Respond, Goto, Rest, Bounds, counters
<1> QED BY <1>2, <1>3, <1>4, <1>5 DEF Step

\* An insert puts its entry first.
LEMMA InsertHead ==
  ASSUME NEW S, NEW log \in Seq(S), NEW entry \in S, Len(log) <= LogLimit
  PROVE  Insert(log, entry, LogLimit) # << >> /\ Head(Insert(log, entry, LogLimit)) = entry
<1> DEFINE after == Insert(log, entry, LogLimit)
<1>1. after \in Seq(S) /\ after # << >> /\ after[1] = entry
  BY LimitAssumption, InsertProperties
<1> HIDE DEF after
<1>2. Head(after) = after[1]
  BY <1>1
<1> QED BY <1>1, <1>2 DEF after

-----------------------------------------------------------------------------
(* What each step of an action does, field by field.                       *)

SameSetup == doc'.current = doc.current /\ doc'.edaEnabled = doc.edaEnabled
SameMaps  == doc'.controls = doc.controls /\ doc'.compliance = doc.compliance
SameLogs  == /\ doc'.jobs = doc.jobs /\ doc'.evidence = doc.evidence
             /\ doc'.edaLog = doc.edaLog /\ doc'.trend = doc.trend

\* The locals other than the one or two a step sets.
SameCall(t) == /\ call'[t].action = call[t].action /\ call'[t].env = call[t].env
               /\ call'[t].eda = call[t].eda /\ call'[t].outcome = call[t].outcome

\* The method is left as the files of environment e could not be accessed.
HasLeft(t, e) == /\ pc'[t] = "respond" /\ doc' = doc /\ unread' = unread \cup {e}
                 /\ call'[t].action = call[t].action /\ call'[t].env = call[t].env
                 /\ call'[t].outcome = "failed"

\* What each step of create_environment leaves in the state.
LEMMA CreateEffects ==
  ASSUME IInv, NEW t \in Threads
  PROVE  /\ MockApplied(t) =>
              /\ pc'[t] = "mock_directory" /\ files' = files
              /\ call'[t].action = call[t].action /\ call'[t].env = clock
              /\ doc'.terraform = [run |-> clock, status |-> "applied"]
              /\ SameSetup /\ SameMaps /\ SameLogs
         /\ MockDirectory(t) =>
              /\ pc'[t] = "load_created" /\ call'[t] = call[t] /\ doc' = doc
         /\ CreateBlocked(t) =>
              /\ pc'[t] = "record" /\ doc' = doc /\ files' = files
              /\ call'[t].action = call[t].action /\ call'[t].outcome = "failed"
         /\ CreateDirectory(t) =>
              /\ pc'[t] = "tf_running" /\ doc' = doc
              /\ call'[t].action = call[t].action /\ call'[t].env = clock
         /\ MarkRunning(t) =>
              /\ pc'[t] = "tf_apply" /\ call'[t] = call[t] /\ files' = files
              /\ doc'.terraform = [run |-> call[t].env, status |-> "running"]
              /\ SameSetup /\ SameMaps /\ SameLogs
         /\ TerraformApply(t) =>
              /\ pc'[t] \in {"tf_applied", "tf_failed"} /\ call'[t] = call[t]
              /\ doc' = doc /\ files' = files
         /\ MarkFailed(t) =>
              /\ pc'[t] = "record" /\ files' = files
              /\ call'[t].action = call[t].action /\ call'[t].outcome = "failed"
              /\ doc'.terraform = [run |-> call[t].env, status |-> "failed"]
              /\ SameSetup /\ SameMaps /\ SameLogs
         /\ MarkApplied(t) =>
              /\ pc'[t] = "load_created" /\ call'[t] = call[t] /\ files' = files
              /\ doc'.terraform = [run |-> call[t].env, status |-> "applied"]
              /\ SameSetup /\ SameMaps /\ SameLogs
         /\ LoadForCreate(t) =>
              /\ pc'[t] = "save_created" /\ doc' = doc /\ files' = files /\ SameCall(t)
         /\ SaveCreated(t) =>
              /\ pc'[t] = "record" /\ files' = files
              /\ call'[t].action = call[t].action /\ call'[t].env = call[t].env
              /\ call'[t].outcome = "succeeded"
              /\ doc'.current = call[t].env /\ doc'.edaEnabled = call[t].eda
              /\ doc'.controls = NewMaps(t).controls /\ doc'.compliance = NewMaps(t).compliance
              /\ doc'.terraform = doc.terraform
              /\ SameLogs
         /\ DirectoryFails(t) => HasLeft(t, IF mock THEN call[t].env ELSE clock)
         /\ CreatedReadFails(t) => HasLeft(t, call[t].env) /\ files' = files
<1> USE DEF SameSetup, SameMaps, SameLogs, SameCall, Goto
<1>1. /\ pc \in [Threads -> Locations] /\ call \in [Threads -> Calls] /\ doc \in Documents
      /\ pc[t] = "save_created" => call[t].snap = doc
  BY DEF IInv, TypeOK, SnapshotCurrent, Holding
<1>2. MockApplied(t) \/ MarkRunning(t) \/ MarkFailed(t) \/ MarkApplied(t) =>
        SameSetup /\ SameMaps /\ SameLogs
  BY <1>1 DEF MockApplied, MarkRunning, MarkFailed, MarkApplied, Terraform, Documents
<1>3. SaveCreated(t) => /\ doc'.current = call[t].env /\ doc'.edaEnabled = call[t].eda
                        /\ doc'.controls = NewMaps(t).controls
                        /\ doc'.compliance = NewMaps(t).compliance
                        /\ doc'.terraform = doc.terraform
                        /\ SameLogs
  BY <1>1 DEF SaveCreated, Created, Documents
<1>4. /\ MockApplied(t) =>
           doc'.terraform = [run |-> clock, status |-> "applied"]
      /\ MarkRunning(t) =>
           doc'.terraform = [run |-> call[t].env, status |-> "running"]
      /\ MarkFailed(t) =>
           doc'.terraform = [run |-> call[t].env, status |-> "failed"]
      /\ MarkApplied(t) =>
           doc'.terraform = [run |-> call[t].env, status |-> "applied"]
  BY <1>1 DEF MockApplied, MarkRunning, MarkFailed, MarkApplied, Terraform, Documents
<1>5. /\ MockApplied(t) => /\ pc'[t] = "mock_directory" /\ files' = files
                           /\ call'[t].action = call[t].action /\ call'[t].env = clock
      /\ MockDirectory(t) => pc'[t] = "load_created" /\ call'[t] = call[t] /\ doc' = doc
      /\ CreateBlocked(t) => /\ pc'[t] = "record" /\ doc' = doc /\ files' = files
                             /\ call'[t].action = call[t].action /\ call'[t].outcome = "failed"
      /\ CreateDirectory(t) => /\ pc'[t] = "tf_running" /\ doc' = doc
                               /\ call'[t].action = call[t].action /\ call'[t].env = clock
      /\ MarkRunning(t) => pc'[t] = "tf_apply" /\ call'[t] = call[t] /\ files' = files
  BY <1>1 DEF Calls, MockApplied, MockDirectory, CreateBlocked, CreateDirectory, MarkRunning
<1>6. /\ TerraformApply(t) => /\ pc'[t] \in {"tf_applied", "tf_failed"} /\ call'[t] = call[t]
                              /\ doc' = doc /\ files' = files
      /\ MarkFailed(t) => /\ pc'[t] = "record" /\ files' = files
                          /\ call'[t].action = call[t].action /\ call'[t].outcome = "failed"
      /\ MarkApplied(t) => pc'[t] = "load_created" /\ call'[t] = call[t] /\ files' = files
      /\ LoadForCreate(t) =>
           pc'[t] = "save_created" /\ doc' = doc /\ files' = files /\ SameCall(t)
      /\ SaveCreated(t) => /\ pc'[t] = "record" /\ files' = files
                           /\ call'[t].action = call[t].action /\ call'[t].env = call[t].env
                           /\ call'[t].outcome = "succeeded"
  BY <1>1 DEF Calls, TerraformApply, MarkFailed, MarkApplied, LoadForCreate, SaveCreated
<1>7. /\ DirectoryFails(t) => HasLeft(t, IF mock THEN call[t].env ELSE clock)
      /\ CreatedReadFails(t) => HasLeft(t, call[t].env) /\ files' = files
  BY <1>1 DEF Calls, DirectoryFails, CreatedReadFails, Leave, HasLeft
<1> QED BY <1>2, <1>3, <1>4, <1>5, <1>6, <1>7

\* What each step of a playbook's action leaves in the state.
LEMMA PlaybookEffects ==
  ASSUME IInv, NEW t \in Threads
  PROVE  /\ NoEnvironment(t) =>
              /\ pc'[t] = "respond" /\ doc' = doc /\ files' = files
              /\ call'[t].action = call[t].action /\ call'[t].outcome = "failed"
         /\ StartPlaybook(t) =>
              /\ pc'[t] = "playbook" /\ doc' = doc /\ files' = files
              /\ call'[t].action = call[t].action /\ call'[t].env = doc.current
              /\ call'[t].todo = Playbook(call[t].action)
         /\ RunTask(t) =>
              /\ pc'[t] = "playbook" /\ doc' = doc /\ SameCall(t)
              /\ call'[t].todo = Tail(call[t].todo)
         /\ PlaybookSucceeds(t) =>
              /\ pc'[t] = "job_succeeded" /\ doc' = doc /\ files' = files /\ SameCall(t)
              /\ call[t].action = "run_compliance_scan" =>
                   call'[t].found.controls =
                     [root    |-> files[call[t].env].sshScan = "pass",
                      service |-> files[call[t].env].serviceScan = "pass"]
         /\ PlaybookFails(t) =>
              /\ pc'[t] = "job_failed" /\ call'[t] = call[t] /\ doc' = doc /\ files' = files
         /\ JobSucceeded(t) =>
              /\ pc'[t] = IF call[t].action = "run_compliance_scan" THEN "load_scan" ELSE "record"
              /\ files' = files
              /\ call'[t].action = call[t].action /\ call'[t].env = call[t].env
              /\ call'[t].found = call[t].found /\ call'[t].outcome = "succeeded"
              /\ doc'.jobs # << >>
              /\ Head(doc'.jobs) = [action |-> call[t].action, status |-> "succeeded"]
              /\ SameSetup /\ SameMaps /\ doc'.terraform = doc.terraform
              /\ doc'.evidence = doc.evidence /\ doc'.edaLog = doc.edaLog /\ doc'.trend = doc.trend
         /\ JobFailed(t) =>
              /\ pc'[t] = "respond" /\ files' = files
              /\ call'[t].action = call[t].action /\ call'[t].outcome = "failed"
              /\ doc'.jobs # << >>
              /\ Head(doc'.jobs) = [action |-> call[t].action, status |-> "failed"]
              /\ SameSetup /\ SameMaps /\ doc'.terraform = doc.terraform
              /\ doc'.evidence = doc.evidence /\ doc'.edaLog = doc.edaLog /\ doc'.trend = doc.trend
         /\ LoadForScan(t) =>
              /\ pc'[t] = "save_scan" /\ doc' = doc /\ files' = files /\ SameCall(t)
              /\ call'[t].snap = doc
              /\ call'[t].found = [controls   |-> call[t].found.controls,
                                   compliance |-> ReadCompliance(files[call[t].env])]
         /\ SaveScan(t) =>
              LET found == call[t].found
              IN  /\ pc'[t] = "record" /\ files' = files
                  /\ call'[t].action = call[t].action /\ call'[t].env = call[t].env
                  /\ call'[t].found = found /\ call'[t].snap = doc
                  /\ call'[t].outcome = IF Compliant(found.controls, found.compliance)
                                        THEN "succeeded" ELSE "failed"
                  /\ doc'.controls = found.controls /\ doc'.compliance = found.compliance
                  /\ doc'.trend = Insert(doc.trend,
                       [pct   |-> Score(Passing(found.controls, found.compliance)),
                        label |-> doc.scanCount + 1], TrendLimit)
                  /\ SameSetup /\ doc'.terraform = doc.terraform
                  /\ doc'.jobs = doc.jobs /\ doc'.evidence = doc.evidence /\ doc'.edaLog = doc.edaLog
         /\ ReadFails(t) => HasLeft(t, call[t].env) /\ files' = files
         /\ BaselineReadFails(t) =>
              /\ pc'[t] = "job_failed" /\ doc' = doc /\ files' = files
              /\ call'[t].action = call[t].action /\ call'[t].env = call[t].env
<1> USE DEF SameSetup, SameMaps, SameCall, Goto
<1>1. /\ pc \in [Threads -> Locations] /\ call \in [Threads -> Calls] /\ doc \in Documents
      /\ LogsBounded(doc)
      /\ pc[t] = "save_scan" => call[t].snap = doc
      /\ call[t] \in Calls /\ call[t].action \in Actions
  BY DEF IInv, TypeOK, SnapshotCurrent, Holding, Calls
<1>2. /\ NoEnvironment(t) =>
           /\ pc'[t] = "respond" /\ doc' = doc /\ files' = files
           /\ call'[t].action = call[t].action /\ call'[t].outcome = "failed"
      /\ StartPlaybook(t) =>
           /\ pc'[t] = "playbook" /\ doc' = doc /\ files' = files
           /\ call'[t].action = call[t].action /\ call'[t].env = doc.current
           /\ call'[t].todo = Playbook(call[t].action)
      /\ RunTask(t) =>
           /\ pc'[t] = "playbook" /\ doc' = doc /\ SameCall(t)
           /\ call'[t].todo = Tail(call[t].todo)
      /\ PlaybookFails(t) =>
           /\ pc'[t] = "job_failed" /\ call'[t] = call[t] /\ doc' = doc /\ files' = files
  BY <1>1 DEF Calls, NoEnvironment, StartPlaybook, RunTask, PlaybookFails
<1>3. PlaybookSucceeds(t) =>
        /\ pc'[t] = "job_succeeded" /\ doc' = doc /\ files' = files /\ SameCall(t)
        /\ call[t].action = "run_compliance_scan" =>
             call'[t].found.controls =
               [root    |-> files[call[t].env].sshScan = "pass",
                service |-> files[call[t].env].serviceScan = "pass"]
  BY <1>1 DEF Calls, PlaybookSucceeds
<1>4. ASSUME NEW v \in Verdicts, doc' = Job(doc, call[t].action, v)
      PROVE  /\ doc'.jobs # << >> /\ Head(doc'.jobs) = [action |-> call[t].action, status |-> v]
             /\ SameSetup /\ SameMaps /\ doc'.terraform = doc.terraform
             /\ doc'.evidence = doc.evidence /\ doc'.edaLog = doc.edaLog /\ doc'.trend = doc.trend
  <2>1. /\ doc'.jobs = Insert(doc.jobs, [action |-> call[t].action, status |-> v], LogLimit)
        /\ SameSetup /\ SameMaps /\ doc'.terraform = doc.terraform
        /\ doc'.evidence = doc.evidence /\ doc'.edaLog = doc.edaLog /\ doc'.trend = doc.trend
    BY <1>1, <1>4 DEF Job, Documents
  <2>2. [action |-> call[t].action, status |-> v] \in Entries /\ doc.jobs \in Seq(Entries)
        /\ Len(doc.jobs) <= LogLimit
    BY <1>1 DEF Entries, Documents, LogsBounded
  <2> QED BY <2>1, <2>2, InsertHead
<1>5. JobSucceeded(t) =>
        /\ pc'[t] = IF call[t].action = "run_compliance_scan" THEN "load_scan" ELSE "record"
        /\ files' = files
        /\ call'[t].action = call[t].action /\ call'[t].env = call[t].env
        /\ call'[t].found = call[t].found /\ call'[t].outcome = "succeeded"
        /\ doc' = Job(doc, call[t].action, "succeeded")
  BY <1>1 DEF Calls, JobSucceeded
<1>6. JobFailed(t) =>
        /\ pc'[t] = "respond" /\ files' = files
        /\ call'[t].action = call[t].action /\ call'[t].outcome = "failed"
        /\ doc' = Job(doc, call[t].action, "failed")
  BY <1>1 DEF Calls, JobFailed
<1>7. LoadForScan(t) =>
        /\ pc'[t] = "save_scan" /\ doc' = doc /\ files' = files /\ SameCall(t)
        /\ call'[t].snap = doc
        /\ call'[t].found = [controls   |-> call[t].found.controls,
                             compliance |-> ReadCompliance(files[call[t].env])]
  BY <1>1 DEF Calls, LoadForScan
<1>8. SaveScan(t) =>
        LET found == call[t].found
        IN  /\ pc'[t] = "record" /\ files' = files
            /\ call'[t].action = call[t].action /\ call'[t].env = call[t].env
            /\ call'[t].found = found /\ call'[t].snap = doc
            /\ call'[t].outcome = IF Compliant(found.controls, found.compliance)
                                  THEN "succeeded" ELSE "failed"
            /\ doc' = Scanned(doc, found.controls, found.compliance)
  BY <1>1 DEF Calls, SaveScan
<1>9. ASSUME NEW c, NEW k, doc' = Scanned(doc, c, k)
      PROVE  /\ doc'.controls = c /\ doc'.compliance = k
             /\ doc'.trend = Insert(doc.trend, [pct |-> Score(Passing(c, k)),
                                                label |-> doc.scanCount + 1], TrendLimit)
             /\ SameSetup /\ doc'.terraform = doc.terraform
             /\ doc'.jobs = doc.jobs /\ doc'.evidence = doc.evidence /\ doc'.edaLog = doc.edaLog
  BY <1>1, <1>9 DEF Scanned, Documents
<1>10. /\ ReadFails(t) => HasLeft(t, call[t].env) /\ files' = files
       /\ BaselineReadFails(t) =>
            /\ pc'[t] = "job_failed" /\ doc' = doc /\ files' = files
            /\ call'[t].action = call[t].action /\ call'[t].env = call[t].env
  BY <1>1 DEF Calls, ReadFails, BaselineReadFails, Leave, HasLeft
<1>11. "succeeded" \in Verdicts /\ "failed" \in Verdicts
  BY DEF Verdicts
<1> QED BY <1>2, <1>3, <1>4, <1>5, <1>6, <1>7, <1>8, <1>9, <1>10, <1>11

\* What each step of the mock's actions leaves in the state.
LEMMA MockEffects ==
  ASSUME IInv, NEW t \in Threads
  PROVE  /\ MockRestore(t) =>
              /\ pc'[t] = "record" /\ doc' = doc /\ files' = files
              /\ call'[t].action = call[t].action
              /\ call'[t].found = Approved /\ call'[t].outcome = "succeeded"
         /\ LoadForMock(t) =>
              /\ pc'[t] = IF call[t].action \in Drifts THEN "save_drift" ELSE "save_scan"
              /\ doc' = doc /\ files' = files /\ SameCall(t)
              /\ call'[t].snap = doc /\ call'[t].found = MockFound(call[t].action)
         /\ SaveMockDrift(t) =>
              /\ pc'[t] = "record" /\ files' = files
              /\ call'[t].action = call[t].action /\ call'[t].outcome = "succeeded"
              /\ call'[t].found = call[t].found
              /\ doc'.controls = call[t].found.controls /\ doc'.compliance = doc.compliance
              /\ SameSetup /\ SameLogs /\ doc'.terraform = doc.terraform
<1> USE DEF SameSetup, SameLogs, SameCall, Goto
<1>1. /\ pc \in [Threads -> Locations] /\ call \in [Threads -> Calls] /\ doc \in Documents
      /\ pc[t] = "save_drift" => call[t].snap = doc
  BY DEF IInv, TypeOK, SnapshotCurrent, Holding
<1>2. MockRestore(t) => /\ pc'[t] = "record" /\ doc' = doc /\ files' = files
                        /\ call'[t].action = call[t].action
                        /\ call'[t].found = Approved /\ call'[t].outcome = "succeeded"
  BY <1>1 DEF Calls, MockRestore
<1>3. LoadForMock(t) =>
        /\ pc'[t] = IF call[t].action \in Drifts THEN "save_drift" ELSE "save_scan"
        /\ doc' = doc /\ files' = files /\ SameCall(t)
        /\ call'[t].snap = doc /\ call'[t].found = MockFound(call[t].action)
  BY <1>1 DEF Calls, LoadForMock
<1>4. SaveMockDrift(t) =>
        /\ pc'[t] = "record" /\ files' = files
        /\ call'[t].action = call[t].action /\ call'[t].outcome = "succeeded"
        /\ call'[t].found = call[t].found
        /\ doc' = Drifted(doc, call[t].found.controls)
  BY <1>1 DEF Calls, SaveMockDrift
<1>5. ASSUME NEW c, doc' = Drifted(doc, c)
      PROVE  /\ doc'.controls = c /\ doc'.compliance = doc.compliance
             /\ SameSetup /\ SameLogs /\ doc'.terraform = doc.terraform
  BY <1>1, <1>5 DEF Drifted, Documents
<1> QED BY <1>2, <1>3, <1>4, <1>5

\* What the steps that log an action and its event leave in the state.
LEMMA RecordingEffects ==
  ASSUME IInv, NEW t \in Threads
  PROVE  /\ AddIncident(t) =>
              /\ pc'[t] = "event" /\ files' = files
              /\ call'[t].action = call[t].action /\ call'[t].outcome = "succeeded"
              /\ SameSetup /\ SameMaps /\ SameLogs /\ doc'.terraform = doc.terraform
         /\ RecordAction(t) =>
              LET entry == [action |-> call[t].action, status |-> call[t].outcome]
              IN  /\ pc'[t] = IF call[t].action \in Drifts \cup
                                   {"run_compliance_scan", "run_remediation"}
                              THEN "event" ELSE "respond"
                  /\ files' = files /\ call'[t] = call[t]
                  /\ entry \in Entries
                  /\ doc'.evidence = Insert(doc.evidence, entry, LogLimit)
                  /\ doc'.evidence # << >> /\ Head(doc'.evidence) = entry
                  /\ doc'.controls = RecordedControls(t)
                  /\ doc'.compliance = RecordedCompliance(t)
                  /\ SameSetup /\ doc'.terraform = doc.terraform
                  /\ doc'.jobs = doc.jobs /\ doc'.edaLog = doc.edaLog /\ doc'.trend = doc.trend
         /\ EmitEvent(t) =>
              /\ pc'[t] = IF call[t].action = "inject_synthetic_incident"
                          THEN "record" ELSE "respond"
              /\ files' = files /\ call'[t] = call[t]
              /\ SameSetup /\ SameMaps /\ doc'.terraform = doc.terraform
              /\ doc'.jobs = doc.jobs /\ doc'.evidence = doc.evidence /\ doc'.trend = doc.trend
              /\ IF EventDue(t) THEN doc'.edaLog # << >> /\ Head(doc'.edaLog) = call[t].action
                                ELSE doc'.edaLog = doc.edaLog
         /\ Respond(t) =>
              pc'[t] = "idle" /\ doc' = doc /\ files' = files
<1> USE DEF SameSetup, SameMaps, SameLogs, Goto
<1>1. /\ pc \in [Threads -> Locations] /\ call \in [Threads -> Calls] /\ doc \in Documents
      /\ LogsBounded(doc)
      /\ call[t] \in Calls /\ call[t].action \in Actions /\ call[t].outcome \in Verdicts
  BY DEF IInv, TypeOK, Calls
<1>2. AddIncident(t) =>
        /\ pc'[t] = "event" /\ files' = files
        /\ call'[t].action = call[t].action /\ call'[t].outcome = "succeeded"
  BY <1>1 DEF Calls, AddIncident
<1>3. AddIncident(t) => SameSetup /\ SameMaps /\ SameLogs /\ doc'.terraform = doc.terraform
  BY <1>1 DEF AddIncident, Incident, Documents
<1>4. ASSUME RecordAction(t)
      PROVE  LET entry == [action |-> call[t].action, status |-> call[t].outcome]
             IN  /\ pc'[t] = IF call[t].action \in Drifts \cup
                                  {"run_compliance_scan", "run_remediation"}
                             THEN "event" ELSE "respond"
                 /\ files' = files /\ call'[t] = call[t]
                 /\ entry \in Entries
                 /\ doc'.evidence = Insert(doc.evidence, entry, LogLimit)
                 /\ doc'.evidence # << >> /\ Head(doc'.evidence) = entry
                 /\ doc'.controls = RecordedControls(t)
                 /\ doc'.compliance = RecordedCompliance(t)
                 /\ SameSetup /\ doc'.terraform = doc.terraform
                 /\ doc'.jobs = doc.jobs /\ doc'.edaLog = doc.edaLog /\ doc'.trend = doc.trend
  <2> DEFINE entry == [action |-> call[t].action, status |-> call[t].outcome]
  <2>1. entry \in Entries /\ doc.evidence \in Seq(Entries) /\ Len(doc.evidence) <= LogLimit
    BY <1>1 DEF Entries, Documents, LogsBounded
  <2>2. /\ doc'.evidence = Insert(doc.evidence, entry, LogLimit)
        /\ doc'.controls = RecordedControls(t)
        /\ doc'.compliance = RecordedCompliance(t)
        /\ SameSetup /\ doc'.terraform = doc.terraform
        /\ doc'.jobs = doc.jobs /\ doc'.edaLog = doc.edaLog /\ doc'.trend = doc.trend
    BY <1>1, <1>4 DEF RecordAction, Recorded, Documents
  <2>3. doc'.evidence # << >> /\ Head(doc'.evidence) = entry
    <3> HIDE DEF entry
    <3> QED BY <2>1, <2>2, InsertHead
  <2>4. /\ pc'[t] = IF call[t].action \in Drifts \cup {"run_compliance_scan", "run_remediation"}
                    THEN "event" ELSE "respond"
        /\ files' = files /\ call'[t] = call[t]
    BY <1>1, <1>4 DEF RecordAction
  <2> QED BY <2>1, <2>2, <2>3, <2>4
<1>5. ASSUME EmitEvent(t)
      PROVE  /\ SameSetup /\ SameMaps /\ doc'.terraform = doc.terraform
             /\ doc'.jobs = doc.jobs /\ doc'.evidence = doc.evidence /\ doc'.trend = doc.trend
             /\ IF EventDue(t) THEN doc'.edaLog # << >> /\ Head(doc'.edaLog) = call[t].action
                               ELSE doc'.edaLog = doc.edaLog
  <2>1. CASE EventDue(t)
    <3>1. /\ doc'.edaLog = Insert(doc.edaLog, call[t].action, LogLimit)
          /\ SameSetup /\ SameMaps /\ doc'.terraform = doc.terraform
          /\ doc'.jobs = doc.jobs /\ doc'.evidence = doc.evidence /\ doc'.trend = doc.trend
      BY <1>1, <1>5, <2>1 DEF EmitEvent, Event, Documents
    <3>2. doc.edaLog \in Seq(Actions) /\ Len(doc.edaLog) <= LogLimit
      BY <1>1 DEF Documents, LogsBounded
    <3> QED BY <1>1, <2>1, <3>1, <3>2, InsertHead
  <2>2. CASE ~EventDue(t)
    BY <1>5, <2>2 DEF EmitEvent
  <2> QED BY <2>1, <2>2
<1>6. EmitEvent(t) => /\ pc'[t] = IF call[t].action = "inject_synthetic_incident"
                                  THEN "record" ELSE "respond"
                      /\ files' = files /\ call'[t] = call[t]
  BY <1>1 DEF EmitEvent
<1>7. Respond(t) => pc'[t] = "idle" /\ doc' = doc /\ files' = files
  BY <1>1 DEF Respond
<1> QED BY <1>2, <1>3, <1>4, <1>5, <1>6, <1>7

-----------------------------------------------------------------------------
(* RecordInv is inductive.                                                 *)

\* Nothing is known of a thread outside an action.
LEMMA OutsideKnown ==
  ASSUME NEW t \in Threads, pc'[t] \in Outside
  PROVE  Known(t)'
BY DEF Outside, Known, CreateLocations, Placed, StatusKnown, JobKnown, EvidenceKnown, EventKnown

TerraformPlaces == {"tf_apply", "tf_failed", "tf_applied"}

\* Without a crash Terraform is shown as running only from those places.
LEMMA NotRunning ==
  ASSUME IInv, RunningIsInFlight, crashes = 0,
         NEW t \in Threads, pc[t] \in Working, pc[t] \notin TerraformPlaces
  PROVE  doc.terraform.status # "running"
BY OthersOutside DEF RunningIsInFlight, TerraformPlaces, Outside

\* A create is known by its place and the Terraform status it has written.
LEMMA CreatingKnown ==
  ASSUME NEW t \in Threads, call'[t].action = "create_environment",
         pc'[t] \in CreateLocations \cup {"record"},
         pc'[t] = "tf_running" \/ pc'[t] \in TerraformPlaces => ~mock',
         pc'[t] = "mock_directory" => mock',
         StatusKnown(t)'
  PROVE  Known(t)'
<1> USE DEF CreateLocations, TerraformPlaces, PlaybookActions, Actions, Drifts
<1>1. Placed(t)'
  BY DEF Placed
<1>2. JobKnown(t)' /\ EvidenceKnown(t)' /\ EventKnown(t)'
  BY DEF JobKnown, EvidenceKnown, EventKnown
<1> QED BY <1>1, <1>2 DEF Known

\* create_environment keeps what its thread knows, and a run that is said to be
\* running in flight.
LEMMA CreateStory ==
  ASSUME RecordInv, NEW t \in Threads, Create(t)
  PROVE  Known(t)' /\ EdaNeedsEnvironment' /\ RunningIsInFlight'
<1> USE DEF SameSetup
<1>1. IInv /\ Placed(t) /\ StatusKnown(t) /\ EdaNeedsEnvironment /\ RunningIsInFlight
  BY DEF RecordInv, Story, Known
<1>2. /\ UNCHANGED <<mock, crashes>>
      /\ pc[t] \in Working
      /\ crashes = 0 /\ pc[t] \notin TerraformPlaces => doc.terraform.status # "running"
      /\ call[t].env # NoEnv
  <2>1. Step(t) /\ ~Acquire(t)
    BY WorkingLocations
       DEF Step, Create, Acquire, MockApplied, MockDirectory, CreateBlocked, CreateDirectory,
           MarkRunning, TerraformApply, MarkFailed, MarkApplied, LoadForCreate, SaveCreated,
           DirectoryFails, CreatedReadFails
  <2>2. call[t].env # NoEnv
    BY <1>1, NoEnvAssumption DEF IInv, TypeOK, Calls
  <2> QED BY <1>1, <2>1, <2>2, StepFrame, NotRunning
<1>3. ASSUME StatusKnown(t)',
             \/ doc'.terraform = doc.terraform /\ pc[t] \notin TerraformPlaces
             \/ doc'.terraform.status # "running"
             \/ pc'[t] \in TerraformPlaces
      PROVE  RunningIsInFlight'
  <2>1. CASE pc'[t] \in TerraformPlaces
    BY <1>3, <2>1 DEF StatusKnown, RunningIsInFlight, TerraformPlaces
  <2>2. CASE pc'[t] \notin TerraformPlaces
    BY <1>2, <1>3, <2>2 DEF RunningIsInFlight
  <2> QED BY <2>1, <2>2
<1>4. CASE MockApplied(t)
  <2>1. call'[t].action = "create_environment" /\ mock' /\ StatusKnown(t)'
    BY <1>1, <1>2, <1>4, CreateEffects DEF MockApplied, StatusKnown
  <2>2. /\ doc'.terraform = [run |-> clock, status |-> "applied"]
        /\ pc'[t] = "mock_directory" /\ EdaNeedsEnvironment'
    BY <1>1, <1>4, CreateEffects DEF EdaNeedsEnvironment
  <2>3. doc'.terraform.status = "applied"
    BY <2>2
  <2> QED BY <1>3, <2>1, <2>2, <2>3, CreatingKnown DEF CreateLocations, TerraformPlaces
<1>5. CASE MockDirectory(t)
  <2>1. call'[t].action = "create_environment" /\ StatusKnown(t)'
    BY <1>1, <1>5, CreateEffects DEF MockDirectory, Placed, StatusKnown, CreateLocations
  <2>2. pc'[t] = "load_created" /\ pc[t] \notin TerraformPlaces /\ doc' = doc
    BY <1>1, <1>5, CreateEffects DEF MockDirectory, TerraformPlaces
  <2> QED BY <1>1, <1>3, <2>1, <2>2, CreatingKnown
          DEF CreateLocations, TerraformPlaces, EdaNeedsEnvironment
<1>6. CASE CreateBlocked(t)
  <2>1. call'[t].action = "create_environment" /\ StatusKnown(t)'
    BY <1>1, <1>6, CreateEffects DEF CreateBlocked, StatusKnown
  <2>2. pc'[t] = "record" /\ pc[t] \notin TerraformPlaces /\ doc' = doc
    BY <1>1, <1>6, CreateEffects DEF CreateBlocked, TerraformPlaces
  <2> QED BY <1>1, <1>3, <2>1, <2>2, CreatingKnown DEF TerraformPlaces, EdaNeedsEnvironment
<1>7. CASE CreateDirectory(t)
  <2>1. call'[t].action = "create_environment" /\ ~mock' /\ StatusKnown(t)'
    BY <1>1, <1>2, <1>7, CreateEffects DEF CreateDirectory, StatusKnown
  <2>2. pc'[t] = "tf_running" /\ pc[t] \notin TerraformPlaces /\ doc' = doc
    BY <1>1, <1>7, CreateEffects DEF CreateDirectory, TerraformPlaces
  <2> QED BY <1>1, <1>3, <2>1, <2>2, CreatingKnown DEF CreateLocations, EdaNeedsEnvironment
<1>8. CASE MarkRunning(t)
  <2>1. call'[t].action = "create_environment" /\ ~mock' /\ StatusKnown(t)'
    BY <1>1, <1>2, <1>8, CreateEffects DEF MarkRunning, Placed, StatusKnown, CreateLocations
  <2>2. pc'[t] = "tf_apply" /\ EdaNeedsEnvironment'
    BY <1>1, <1>8, CreateEffects DEF EdaNeedsEnvironment
  <2> QED BY <1>3, <2>1, <2>2, CreatingKnown DEF CreateLocations, TerraformPlaces
<1>9. CASE TerraformApply(t)
  <2>1. call'[t].action = "create_environment" /\ ~mock' /\ StatusKnown(t)'
    BY <1>1, <1>2, <1>9, CreateEffects DEF TerraformApply, Placed, StatusKnown, CreateLocations
  <2>2. pc'[t] \in TerraformPlaces /\ EdaNeedsEnvironment'
    BY <1>1, <1>9, CreateEffects DEF EdaNeedsEnvironment, TerraformPlaces
  <2> QED BY <1>3, <2>1, <2>2, CreatingKnown DEF CreateLocations, TerraformPlaces
<1>10. CASE MarkFailed(t)
  <2>1. call'[t].action = "create_environment" /\ StatusKnown(t)'
    BY <1>1, <1>10, CreateEffects DEF MarkFailed, Placed, StatusKnown, CreateLocations
  <2>2. /\ doc'.terraform = [run |-> call[t].env, status |-> "failed"]
        /\ pc'[t] = "record" /\ EdaNeedsEnvironment'
    BY <1>1, <1>10, CreateEffects DEF EdaNeedsEnvironment
  <2>3. doc'.terraform.status = "failed"
    BY <2>2
  <2> QED BY <1>3, <2>1, <2>2, <2>3, CreatingKnown DEF TerraformPlaces
<1>11. CASE MarkApplied(t)
  <2>1. call'[t].action = "create_environment" /\ StatusKnown(t)'
    BY <1>1, <1>11, CreateEffects DEF MarkApplied, Placed, StatusKnown, CreateLocations
  <2>2. /\ doc'.terraform = [run |-> call[t].env, status |-> "applied"]
        /\ pc'[t] = "load_created" /\ EdaNeedsEnvironment'
    BY <1>1, <1>11, CreateEffects DEF EdaNeedsEnvironment
  <2>3. doc'.terraform.status = "applied"
    BY <2>2
  <2> QED BY <1>3, <2>1, <2>2, <2>3, CreatingKnown DEF CreateLocations, TerraformPlaces
<1>12. CASE LoadForCreate(t)
  <2>1. call'[t].action = "create_environment" /\ StatusKnown(t)'
    BY <1>1, <1>12, CreateEffects
       DEF LoadForCreate, Placed, StatusKnown, CreateLocations, SameCall
  <2>2. pc'[t] = "save_created" /\ pc[t] \notin TerraformPlaces /\ doc' = doc
    BY <1>1, <1>12, CreateEffects DEF LoadForCreate, TerraformPlaces
  <2> QED BY <1>1, <1>3, <2>1, <2>2, CreatingKnown
          DEF CreateLocations, TerraformPlaces, EdaNeedsEnvironment
<1>13. CASE SaveCreated(t)
  <2>1. call'[t].action = "create_environment" /\ StatusKnown(t)'
    BY <1>1, <1>13, CreateEffects DEF SaveCreated, Placed, StatusKnown, CreateLocations
  <2>2. /\ pc'[t] = "record" /\ pc[t] \notin TerraformPlaces
        /\ doc'.terraform = doc.terraform /\ EdaNeedsEnvironment'
    BY <1>1, <1>2, <1>13, CreateEffects DEF SaveCreated, EdaNeedsEnvironment, TerraformPlaces
  <2> QED BY <1>3, <2>1, <2>2, CreatingKnown DEF TerraformPlaces
<1>14. CASE DirectoryFails(t) \/ CreatedReadFails(t)
  <2>1. /\ pc'[t] = "respond" /\ doc' = doc /\ call'[t].outcome = "failed"
        /\ call'[t].action = "create_environment" /\ pc[t] \notin TerraformPlaces
    BY <1>1, <1>14, CreateEffects
       DEF DirectoryFails, CreatedReadFails, HasLeft, Placed, CreateLocations, TerraformPlaces
  <2>2. Placed(t)' /\ StatusKnown(t)' /\ JobKnown(t)' /\ EvidenceKnown(t)' /\ EventKnown(t)'
    BY <2>1 DEF Placed, CreateLocations, StatusKnown, JobKnown, EvidenceKnown, EventKnown,
                PlaybookActions, Actions, Drifts
  <2> QED BY <1>1, <1>3, <2>1, <2>2 DEF Known, EdaNeedsEnvironment
<1> QED BY <1>4, <1>5, <1>6, <1>7, <1>8, <1>9, <1>10, <1>11, <1>12, <1>13, <1>14 DEF Create

\* An action that is no create leaves Terraform and the environment alone.
LEMMA SetupKept ==
  ASSUME RecordInv, NEW t \in Threads, pc[t] \in Working, pc[t] \notin TerraformPlaces,
         SameSetup, doc'.terraform = doc.terraform, crashes' = crashes
  PROVE  EdaNeedsEnvironment' /\ RunningIsInFlight'
<1>1. crashes = 0 => doc.terraform.status # "running"
  BY NotRunning DEF RecordInv, Story
<1> QED BY <1>1 DEF RecordInv, Story, SameSetup, EdaNeedsEnvironment, RunningIsInFlight

\* So do the actions that run playbooks.
LEMMA PlaybookStory ==
  ASSUME RecordInv, NEW t \in Threads, RunPlaybook(t)
  PROVE  Known(t)' /\ EdaNeedsEnvironment' /\ RunningIsInFlight'
<1> USE DEF SameSetup, SameCall
<1>1. IInv /\ Placed(t) /\ JobKnown(t) /\ EvidenceKnown(t) /\ EventKnown(t)
  BY DEF RecordInv, Story, Known
<1>2. /\ UNCHANGED <<mock, crashes>>
      /\ pc[t] \in Working /\ pc[t] \notin TerraformPlaces
  <2>1. Step(t) /\ ~Acquire(t) /\ pc[t] \notin TerraformPlaces
    BY DEF Step, RunPlaybook, Acquire, NoEnvironment, StartPlaybook, RunTask, PlaybookSucceeds,
           PlaybookFails, JobSucceeded, JobFailed, LoadForScan, SaveScan, ReadFails,
           BaselineReadFails, TerraformPlaces
  <2> QED BY <1>1, <2>1, StepFrame
<1> USE DEF PlaybookActions, Actions, Drifts
<1>3. CASE NoEnvironment(t)
  <2>1. /\ pc'[t] = "respond" /\ doc' = doc /\ call'[t].outcome = "failed"
        /\ call'[t].action = call[t].action /\ call[t].action \in PlaybookActions
        /\ ~mock' /\ doc.current = NoEnv
    BY <1>1, <1>2, <1>3, PlaybookEffects DEF NoEnvironment
  <2>2. EdaNeedsEnvironment' /\ RunningIsInFlight' /\ ~doc'.edaEnabled
    BY <1>2, <2>1, SetupKept DEF EdaNeedsEnvironment
  <2>3. Placed(t)' /\ StatusKnown(t)' /\ JobKnown(t)' /\ EvidenceKnown(t)' /\ EventKnown(t)'
    BY <2>1, <2>2
       DEF Placed, CreateLocations, StatusKnown, JobKnown, EvidenceKnown, EventKnown
  <2> QED BY <2>2, <2>3 DEF Known
<1>4. CASE StartPlaybook(t) \/ RunTask(t) \/ PlaybookSucceeds(t) \/ PlaybookFails(t)
  <2>1. /\ pc'[t] \in {"playbook", "job_succeeded", "job_failed"} /\ doc' = doc
        /\ call'[t].action = call[t].action /\ call[t].action \in PlaybookActions /\ ~mock'
    BY <1>1, <1>2, <1>4, PlaybookEffects
       DEF Placed, StartPlaybook, RunTask, PlaybookSucceeds, PlaybookFails
  <2>2. EdaNeedsEnvironment' /\ RunningIsInFlight'
    BY <1>2, <2>1, SetupKept
  <2>3. Placed(t)' /\ StatusKnown(t)' /\ JobKnown(t)' /\ EvidenceKnown(t)' /\ EventKnown(t)'
    BY <2>1
       DEF Placed, CreateLocations, StatusKnown, JobKnown, EvidenceKnown, EventKnown
  <2> QED BY <2>2, <2>3 DEF Known
<1>5. CASE JobSucceeded(t)
  <2>1. /\ pc'[t] = (IF call[t].action = "run_compliance_scan" THEN "load_scan" ELSE "record")
        /\ call'[t].action = call[t].action /\ call[t].action \in PlaybookActions /\ ~mock'
        /\ doc'.jobs # << >>
        /\ Head(doc'.jobs) = [action |-> call[t].action, status |-> "succeeded"]
        /\ SameSetup /\ doc'.terraform = doc.terraform
    BY <1>1, <1>2, <1>5, PlaybookEffects DEF Placed, JobSucceeded
  <2>2. EdaNeedsEnvironment' /\ RunningIsInFlight'
    BY <1>2, <2>1, SetupKept
  <2>3. Placed(t)' /\ StatusKnown(t)' /\ JobKnown(t)' /\ EvidenceKnown(t)' /\ EventKnown(t)'
    BY <2>1
       DEF Placed, CreateLocations, StatusKnown, JobKnown, EvidenceKnown, EventKnown
  <2> QED BY <2>2, <2>3 DEF Known
<1>6. CASE JobFailed(t)
  <2>1. /\ pc'[t] = "respond" /\ call'[t].outcome = "failed"
        /\ call'[t].action = call[t].action /\ call[t].action \in PlaybookActions /\ ~mock'
        /\ Head(doc'.jobs) = [action |-> call[t].action, status |-> "failed"]
        /\ SameSetup /\ doc'.terraform = doc.terraform
    BY <1>1, <1>2, <1>6, PlaybookEffects DEF Placed, JobFailed
  <2>2. EdaNeedsEnvironment' /\ RunningIsInFlight' /\ Head(doc'.jobs).status # "succeeded"
    BY <1>2, <2>1, SetupKept
  <2>3. Placed(t)' /\ StatusKnown(t)' /\ JobKnown(t)' /\ EvidenceKnown(t)' /\ EventKnown(t)'
    BY <2>1, <2>2
       DEF Placed, CreateLocations, StatusKnown, JobKnown, EvidenceKnown, EventKnown
  <2> QED BY <2>2, <2>3 DEF Known
<1>7. CASE LoadForScan(t)
  <2>1. /\ pc'[t] = "save_scan" /\ doc' = doc
        /\ pc[t] = "load_scan"
        /\ call'[t].action = call[t].action /\ call[t].action = "run_compliance_scan" /\ ~mock'
    BY <1>1, <1>2, <1>7, PlaybookEffects DEF Placed, LoadForScan
  <2>2. EdaNeedsEnvironment' /\ RunningIsInFlight'
    BY <1>2, <2>1, SetupKept
  <2>3. Placed(t)' /\ StatusKnown(t)' /\ JobKnown(t)' /\ EvidenceKnown(t)' /\ EventKnown(t)'
    BY <1>1, <1>2, <2>1
       DEF Placed, CreateLocations, StatusKnown, JobKnown, EvidenceKnown, EventKnown
  <2> QED BY <2>2, <2>3 DEF Known
<1>8. CASE SaveScan(t)
  <2>1. /\ pc'[t] = "record" /\ call'[t].snap = doc
        /\ pc[t] = "save_scan"
        /\ call'[t].action = call[t].action /\ call[t].action = "run_compliance_scan"
        /\ SameSetup /\ doc'.terraform = doc.terraform /\ doc'.jobs = doc.jobs
    BY <1>1, <1>2, <1>8, PlaybookEffects DEF Placed, SaveScan
  <2>2. EdaNeedsEnvironment' /\ RunningIsInFlight'
    BY <1>2, <2>1, SetupKept
  <2>3. Placed(t)' /\ StatusKnown(t)' /\ JobKnown(t)' /\ EvidenceKnown(t)' /\ EventKnown(t)'
    BY <1>1, <1>2, <2>1
       DEF Placed, CreateLocations, StatusKnown, JobKnown, EvidenceKnown, EventKnown
  <2> QED BY <2>2, <2>3 DEF Known
<1>9. CASE ReadFails(t) \/ BaselineReadFails(t)
  <2>0. call[t].action \in PlaybookActions /\ ~mock'
    BY <1>1, <1>2, <1>9 DEF Placed, ReadFails, BaselineReadFails
  <2>1. /\ doc' = doc /\ call'[t].action = call[t].action
        /\ \/ pc'[t] = "job_failed"
           \/ pc'[t] = "respond" /\ call'[t].outcome = "failed" /\ call'[t].env \in unread'
    BY <1>1, <1>9, PlaybookEffects DEF HasLeft
  <2>2. EdaNeedsEnvironment' /\ RunningIsInFlight'
    BY <1>2, <2>1, SetupKept
  <2>3. Placed(t)' /\ StatusKnown(t)' /\ JobKnown(t)' /\ EvidenceKnown(t)' /\ EventKnown(t)'
    BY <2>0, <2>1
       DEF Placed, CreateLocations, StatusKnown, JobKnown, EvidenceKnown, EventKnown
  <2> QED BY <2>2, <2>3 DEF Known
<1> QED BY <1>3, <1>4, <1>5, <1>6, <1>7, <1>8, <1>9 DEF RunPlaybook

\* So do the actions that a mock answers.
LEMMA MockStory ==
  ASSUME RecordInv, NEW t \in Threads, RunMock(t)
  PROVE  Known(t)' /\ EdaNeedsEnvironment' /\ RunningIsInFlight'
<1>1. IInv /\ Placed(t)
  BY DEF RecordInv, Story, Known
<1>2. UNCHANGED <<mock, crashes>> /\ pc[t] \in Working /\ pc[t] \notin TerraformPlaces
  <2>1. Step(t) /\ ~Acquire(t) /\ pc[t] \notin TerraformPlaces
    BY DEF Step, RunMock, Acquire, MockRestore, LoadForMock, SaveMockDrift, TerraformPlaces
  <2> QED BY <1>1, <2>1, StepFrame
<1> USE DEF PlaybookActions, Actions, Drifts
<1>3. CASE MockRestore(t)
  <2>1. /\ pc'[t] = "record" /\ doc' = doc /\ mock'
        /\ call'[t].action \in {"apply_baseline", "run_remediation"}
    BY <1>1, <1>2, <1>3, MockEffects DEF MockRestore
  <2>2. Placed(t)' /\ StatusKnown(t)' /\ JobKnown(t)' /\ EvidenceKnown(t)' /\ EventKnown(t)'
    BY <2>1 DEF Placed, CreateLocations, StatusKnown, JobKnown, EvidenceKnown, EventKnown
  <2> QED BY <1>2, <2>1, <2>2, SetupKept DEF Known, SameSetup
<1>4. CASE LoadForMock(t)
  <2>1. /\ pc'[t] = (IF call[t].action \in Drifts THEN "save_drift" ELSE "save_scan")
        /\ doc' = doc /\ mock' /\ call'[t].action = call[t].action
        /\ call[t].action \in Drifts \cup {"run_compliance_scan"}
    BY <1>1, <1>2, <1>4, MockEffects DEF LoadForMock, SameCall
  <2>2. Placed(t)' /\ StatusKnown(t)' /\ JobKnown(t)' /\ EvidenceKnown(t)' /\ EventKnown(t)'
    BY <2>1 DEF Placed, CreateLocations, StatusKnown, JobKnown, EvidenceKnown, EventKnown
  <2> QED BY <1>2, <2>1, <2>2, SetupKept DEF Known, SameSetup
<1>5. CASE SaveMockDrift(t)
  <2>1. /\ pc'[t] = "record" /\ mock' /\ call'[t].action = call[t].action
        /\ call[t].action \in Drifts
        /\ SameSetup /\ doc'.terraform = doc.terraform
    BY <1>1, <1>2, <1>5, MockEffects DEF SaveMockDrift, Placed
  <2>2. Placed(t)' /\ StatusKnown(t)' /\ JobKnown(t)' /\ EvidenceKnown(t)' /\ EventKnown(t)'
    BY <2>1 DEF Placed, CreateLocations, StatusKnown, JobKnown, EvidenceKnown, EventKnown
  <2> QED BY <1>2, <2>1, <2>2, SetupKept DEF Known
<1> QED BY <1>3, <1>4, <1>5 DEF RunMock

\* So do the steps that log an action and its event.
LEMMA RecordingStory ==
  ASSUME RecordInv, NEW t \in Threads,
         AddIncident(t) \/ RecordAction(t) \/ EmitEvent(t) \/ Respond(t)
  PROVE  Known(t)' /\ EdaNeedsEnvironment' /\ RunningIsInFlight'
<1>1. IInv /\ Placed(t) /\ JobKnown(t) /\ EvidenceKnown(t) /\ EventKnown(t)
  BY DEF RecordInv, Story, Known
<1>2. UNCHANGED <<mock, crashes>> /\ pc[t] \in Working /\ pc[t] \notin TerraformPlaces
  <2>1. Step(t) /\ ~Acquire(t) /\ pc[t] \notin TerraformPlaces
    BY DEF Step, Acquire, AddIncident, RecordAction, EmitEvent, Respond, TerraformPlaces
  <2> QED BY <1>1, <2>1, StepFrame
<1>3. call[t].action \in Actions /\ doc.edaEnabled \in BOOLEAN
  BY <1>1 DEF IInv, TypeOK, Calls, Documents
<1> USE DEF PlaybookActions, Actions, Drifts
<1>4. CASE AddIncident(t)
  <2>1. /\ pc'[t] = "event" /\ call'[t].action = "inject_synthetic_incident"
        /\ SameSetup /\ doc'.terraform = doc.terraform
    BY <1>1, <1>4, RecordingEffects DEF AddIncident
  <2>2. Placed(t)' /\ StatusKnown(t)' /\ JobKnown(t)' /\ EvidenceKnown(t)' /\ EventKnown(t)'
    BY <2>1 DEF Placed, CreateLocations, StatusKnown, JobKnown, EvidenceKnown, EventKnown
  <2> QED BY <1>2, <2>1, <2>2, SetupKept DEF Known
<1>5. CASE RecordAction(t)
  <2>1. /\ pc[t] = "record" /\ call'[t] = call[t]
        /\ pc'[t] = (IF call[t].action \in Drifts \cup {"run_compliance_scan", "run_remediation"}
                     THEN "event" ELSE "respond")
        /\ doc'.evidence # << >>
        /\ Head(doc'.evidence) = [action |-> call[t].action, status |-> call[t].outcome]
        /\ SameSetup /\ doc'.terraform = doc.terraform
        /\ doc'.jobs = doc.jobs /\ doc'.edaLog = doc.edaLog
    BY <1>1, <1>5, RecordingEffects DEF RecordAction
  <2>2. Placed(t)' /\ StatusKnown(t)'
    BY <1>1, <1>2, <2>1 DEF Placed, CreateLocations, StatusKnown
  <2>3. JobKnown(t)'
    BY <1>1, <1>2, <1>3, <2>1 DEF JobKnown
  <2>4. EvidenceKnown(t)'
    BY <2>1 DEF EvidenceKnown
  <2>5. EventKnown(t)'
    BY <1>1, <1>2, <1>3, <2>1 DEF EventKnown, SameSetup
  <2> QED BY <1>2, <2>1, <2>2, <2>3, <2>4, <2>5, SetupKept DEF Known
<1>6. CASE EmitEvent(t)
  <2>1. /\ pc[t] = "event" /\ call'[t] = call[t]
        /\ pc'[t] = (IF call[t].action = "inject_synthetic_incident" THEN "record" ELSE "respond")
        /\ SameSetup /\ doc'.terraform = doc.terraform
        /\ doc'.jobs = doc.jobs /\ doc'.evidence = doc.evidence
        /\ IF EventDue(t) THEN doc'.edaLog # << >> /\ Head(doc'.edaLog) = call[t].action
                          ELSE doc'.edaLog = doc.edaLog
    BY <1>1, <1>6, RecordingEffects DEF EmitEvent
  <2>2. Placed(t)' /\ StatusKnown(t)'
    BY <1>1, <1>2, <2>1 DEF Placed, CreateLocations, StatusKnown
  <2>3. JobKnown(t)'
    BY <1>1, <1>2, <1>3, <2>1 DEF JobKnown
  <2>4. EvidenceKnown(t)'
    BY <1>1, <2>1 DEF EvidenceKnown
  <2>5. EventKnown(t)'
    BY <1>1, <1>2, <1>3, <2>1 DEF EventKnown, EventDue, SameSetup, Placed
  <2> QED BY <1>2, <2>1, <2>2, <2>3, <2>4, <2>5, SetupKept DEF Known
<1>7. CASE Respond(t)
  <2>1. pc'[t] \in Outside /\ doc' = doc
    BY <1>1, <1>7, RecordingEffects DEF Outside
  <2> QED BY <1>2, <2>1, OutsideKnown, SetupKept DEF SameSetup
<1> QED BY <1>4, <1>5, <1>6, <1>7

\* The invariant holds initially and is kept by every step.
LEMMA InitialRecord == Init => RecordInv
<1> SUFFICES ASSUME Init PROVE RecordInv
  OBVIOUS
<1>1. \A t \in Threads : pc[t] = "idle"
  BY DEF Init
<1>2. \A t \in Threads : Known(t)
  BY <1>1 DEF Known, CreateLocations, Placed, StatusKnown, JobKnown, EvidenceKnown, EventKnown
<1>3. ~doc.edaEnabled /\ doc.terraform.status = "idle"
  BY DEF Init, DefaultDocument
<1> QED BY <1>2, <1>3, InitialInvariant DEF RecordInv, Story, EdaNeedsEnvironment, RunningIsInFlight

\* Every step keeps RecordInv: the lock leaves the other threads outside of an
\* action, where they know nothing that could be disturbed.
LEMMA NextRecord == RecordInv /\ [Next]_vars => RecordInv'
<1> SUFFICES ASSUME RecordInv, [Next]_vars PROVE Story'
  BY NextInvariant DEF RecordInv
<1>1. /\ IInv /\ (\A t \in Threads : Known(t)) /\ EdaNeedsEnvironment /\ RunningIsInFlight
      /\ pc \in [Threads -> Locations] /\ call \in [Threads -> Calls] /\ crashes \in Nat
  BY DEF RecordInv, Story, IInv, TypeOK
<1>2. ASSUME NEW t \in Threads, Step(t), ~Acquire(t) PROVE Story'
  <2>1. Known(t)' /\ EdaNeedsEnvironment' /\ RunningIsInFlight'
    BY <1>2, CreateStory, PlaybookStory, MockStory, RecordingStory DEF Step
  <2>2. \A u \in Threads : Known(u)'
    BY <1>1, <1>2, <2>1, StepFrame, OutsideKnown
  <2> QED BY <2>1, <2>2 DEF Story
<1>3. ASSUME NEW t \in Threads, Submit(t) \/ Acquire(t) PROVE Story'
  <2>1. /\ doc' = doc /\ UNCHANGED <<mock, unread, crashes>>
        /\ \A u \in Threads : u # t => pc'[u] = pc[u] /\ call'[u] = call[u]
        /\ pc[t] \in Outside
        /\ pc'[t] \in {"waiting", "begin"}
    BY <1>1, <1>3 DEF Submit, Acquire, Goto, Rest, Bounds, counters, Outside
  <2>2. Known(t)'
    BY <2>1 DEF Known, CreateLocations, Placed, StatusKnown, JobKnown, EvidenceKnown, EventKnown
  <2>3. ASSUME NEW u \in Threads, u # t PROVE Known(u)'
    <3>1. Known(u) /\ pc'[u] = pc[u] /\ call'[u] = call[u]
      BY <1>1, <2>1, <2>3
    <3> QED BY <2>1, <3>1
            DEF Known, CreateLocations, Placed, StatusKnown, JobKnown, EvidenceKnown, EventKnown
  <2>4. EdaNeedsEnvironment' /\ RunningIsInFlight'
    BY <1>1, <2>1 DEF EdaNeedsEnvironment, RunningIsInFlight, Outside
  <2> QED BY <2>2, <2>3, <2>4 DEF Story
<1>4. CASE UNCHANGED <<mock, doc, pc, call, unread, crashes>>
  BY <1>1, <1>4
     DEF Story, Known, CreateLocations, Placed, StatusKnown, JobKnown, EvidenceKnown, EventKnown,
         EdaNeedsEnvironment, RunningIsInFlight
<1>5. CASE Crash
  <2>1. (\A t \in Threads : pc'[t] \in Outside) /\ doc' = doc /\ crashes' # 0
    BY <1>1, <1>5 DEF Crash, Outside
  <2> QED BY <1>1, <2>1, OutsideKnown DEF Story, EdaNeedsEnvironment, RunningIsInFlight
<1>6. Tick \/ ManualRemediation \/ UNCHANGED vars =>
        UNCHANGED <<mock, doc, pc, call, unread, crashes>>
  BY DEF Tick, ManualRemediation, vars, counters
<1> QED BY <1>2, <1>3, <1>4, <1>5, <1>6 DEF Next, Quiet

\* Every reachable state is one the story of the actions under way explains.
THEOREM RecordInvariant == Spec => []RecordInv
  BY InitialRecord, NextRecord, PTL DEF Spec

\* As long as the server has not crashed, "running" means a create_environment
\* is at work on that very run.
THEOREM RunningStaysInFlight == Spec => []RunningIsInFlight
<1>1. RecordInv => RunningIsInFlight
  BY DEF RecordInv, Story
<1> QED BY <1>1, RecordInvariant, PTL

\* Nobody is told "succeeded" without the evidence and the job to show for it.
THEOREM AnswersStayRecorded == Spec => []AnswersAreRecorded
<1>1. ASSUME RecordInv PROVE AnswersAreRecorded
  <2> SUFFICES ASSUME NEW t \in Threads, pc[t] = "respond", call[t].outcome = "succeeded"
               PROVE  LET entry == [action |-> call[t].action, status |-> "succeeded"]
                      IN  /\ doc.evidence # << >> /\ Head(doc.evidence) = entry
                          /\ call[t].action \in PlaybookActions /\ ~mock =>
                               doc.jobs # << >> /\ Head(doc.jobs) = entry
    BY DEF AnswersAreRecorded
  <2>1. EvidenceKnown(t) /\ JobKnown(t)
    BY <1>1 DEF RecordInv, Story, Known
  <2> QED BY <2>1 DEF EvidenceKnown, JobKnown
<1> QED BY <1>1, RecordInvariant, PTL

\* What EDA must hear of an action is its newest event when the client is answered.
THEOREM DriftsAnnounced == Spec => []DriftIsAnnounced
<1>1. RecordInv => DriftIsAnnounced
  BY DEF RecordInv, Story, Known, EventKnown, DriftIsAnnounced
<1> QED BY <1>1, RecordInvariant, PTL

\* No step moves to an environment Terraform has not just applied.
THEOREM CurrentIsApplied == Spec => CurrentFollowsApply
<1> DEFINE Follows == doc'.current # doc.current =>
                        doc.terraform = [run |-> doc'.current, status |-> "applied"]
<1>1. ASSUME RecordInv, [Next]_vars PROVE [Follows]_vars
  <2> SUFFICES ASSUME doc'.current # doc.current
               PROVE  doc.terraform = [run |-> doc'.current, status |-> "applied"]
    OBVIOUS
  <2>1. IInv /\ \A t \in Threads : StatusKnown(t)
    BY <1>1 DEF RecordInv, Story, Known
  <2>2. doc' # doc
    OBVIOUS
  <2>3. PICK t \in Threads : Step(t)
    BY <1>1, <2>2 DEF Next, Submit, Tick, ManualRemediation, Crash, Quiet, vars
  <2>4. ~Acquire(t) /\ ~Respond(t)
    BY <2>2 DEF Acquire, Respond
  <2>5. CASE Create(t)
    <3>1. CASE SaveCreated(t)
      <4>1. doc'.current = call[t].env /\ pc[t] = "save_created"
        BY <2>1, <3>1, CreateEffects DEF SaveCreated
      <4> QED BY <2>1, <4>1 DEF StatusKnown
    <3>2. CASE ~SaveCreated(t)
      BY <2>1, <2>5, <3>2, CreateEffects DEF Create, SameSetup, HasLeft
    <3> QED BY <3>1, <3>2
  <2>6. CASE RunPlaybook(t)
    BY <2>1, <2>6, PlaybookEffects DEF RunPlaybook, SameSetup, HasLeft
  <2>7. CASE RunMock(t)
    BY <2>1, <2>7, MockEffects DEF RunMock, SameSetup
  <2>8. CASE AddIncident(t) \/ RecordAction(t) \/ EmitEvent(t)
    BY <2>1, <2>8, RecordingEffects DEF SameSetup
  <2> QED BY <2>3, <2>4, <2>5, <2>6, <2>7, <2>8 DEF Step
<1> QED BY <1>1, RecordInvariant, PTL DEF Spec, CurrentFollowsApply

\* No event is recorded while EDA is disabled, not even by a scan that decides
\* on the document it loaded before saving.
THEOREM EventsNeedEda == Spec => EventsOnlyWhenEnabled
<1> DEFINE Enabled == doc'.edaLog # doc.edaLog => doc.edaEnabled
<1>1. ASSUME RecordInv, [Next]_vars PROVE [Enabled]_vars
  <2> SUFFICES ASSUME doc'.edaLog # doc.edaLog PROVE doc.edaEnabled
    OBVIOUS
  <2>1. IInv /\ \A t \in Threads : EventKnown(t)
    BY <1>1 DEF RecordInv, Story, Known
  <2>2. doc' # doc
    OBVIOUS
  <2>3. PICK t \in Threads : Step(t)
    BY <1>1, <2>2 DEF Next, Submit, Tick, ManualRemediation, Crash, Quiet, vars
  <2>4. ~Acquire(t) /\ ~Respond(t)
    BY <2>2 DEF Acquire, Respond
  <2>5. ~Create(t)
    BY <2>1, CreateEffects DEF Create, SameLogs, HasLeft
  <2>6. ~RunPlaybook(t)
    BY <2>1, PlaybookEffects DEF RunPlaybook, HasLeft
  <2>7. ~RunMock(t)
    BY <2>1, MockEffects DEF RunMock, SameLogs
  <2>8. ~AddIncident(t) /\ ~RecordAction(t)
    BY <2>1, RecordingEffects DEF SameLogs
  <2>9. EmitEvent(t)
    BY <2>3, <2>4, <2>5, <2>6, <2>7, <2>8 DEF Step
  <2> QED BY <2>1, <2>9, RecordingEffects DEF EmitEvent, EventDue, EventKnown
<1> QED BY <1>1, RecordInvariant, PTL DEF Spec, EventsOnlyWhenEnabled

-----------------------------------------------------------------------------
(* FilesInv is inductive.                                                  *)

\* Outside an action a thread knows nothing of the files and owes nothing.
LEMMA OutsideFiles ==
  ASSUME NEW t \in Threads, pc'[t] \in Outside
  PROVE  FilesKnown(t)' /\ ~Settling(t)' /\ \A c \in Shown : ~Underway(t, c)'
BY DEF Outside, FilesKnown, ScanKnown, BaselineKnown, TodoKnown, InCurrent, Settling, Underway

\* Among the threads only the one inside an action can owe anything.
LEMMA HolderReflects ==
  ASSUME RecordInv, FilesInv, NEW t \in Threads, pc[t] \in Working, Trusted, ~Settling(t),
         NEW c \in Shown
  PROVE  Agreed(c) \/ Underway(t, c)
<1>1. \A u \in Threads : u # t => ~Settling(u) /\ ~Underway(u, c)
  BY OthersOutside DEF RecordInv, Settling, Underway, Outside
<1> QED BY <1>1 DEF FilesInv, Reflected

\* A step that touches neither the control nor what explains it.
LEMMA AccountKept ==
  ASSUME RecordInv, FilesInv, NEW t \in Threads, pc[t] \in Working,
         UNCHANGED <<mock, crashes, manual>>,
         Trusted', ~Settling(t), unread' = unread, NEW c \in Shown,
         doc'.current = doc.current, doc'.controls = doc.controls,
         doc'.jobs = doc.jobs, doc'.terraform = doc.terraform,
         files'[doc.current][c] = files[doc.current][c],
         Underway(t, c) => Underway(t, c)'
  PROVE  Agreed(c)' \/ Underway(t, c)'
<1>1. Trusted
  BY DEF Trusted
<1>2. Agreed(c) \/ Underway(t, c)
  BY <1>1, HolderReflects
<1>3. Agreed(c) => Agreed(c)'
  BY DEF Agreed, LeftByJob, LeftByCreate, AllFailed
<1> QED BY <1>2, <1>3

\* create_environment resets files of the current environment only where its
\* status, its reading them or the mark that it has not will tell.
LEMMA CreateFiles ==
  ASSUME RecordInv, FilesInv, NEW t \in Threads, Create(t),
         UNCHANGED <<mock, crashes, manual>>, pc[t] \in Working
  PROVE  /\ FilesKnown(t)'
         /\ Trusted' /\ ~Settling(t)' => \A c \in Shown : Agreed(c)' \/ Underway(t, c)'
<1>1. /\ IInv /\ Placed(t) /\ StatusKnown(t)
      /\ files \in [Seconds -> Directories] /\ clock \in Seconds
  BY DEF RecordInv, Story, Known, IInv, TypeOK
<1> USE DEF SameSetup, SameMaps, SameLogs, SameCall, HasLeft
<1>2. /\ call'[t].action = "create_environment"
      /\ pc'[t] # "playbook"
  BY <1>1, CreateEffects
     DEF Create, Placed, CreateLocations, MockApplied, MockDirectory, CreateBlocked,
         CreateDirectory, MarkRunning, TerraformApply, MarkFailed, MarkApplied,
         LoadForCreate, SaveCreated, DirectoryFails, CreatedReadFails
<1>3. FilesKnown(t)'
  BY <1>2 DEF FilesKnown, ScanKnown, BaselineKnown, TodoKnown, InCurrent, PlaybookActions
<1>4. ASSUME Trusted', NEW c \in Shown PROVE Agreed(c)' \/ Underway(t, c)'
  <2>1. /\ ~mock /\ crashes = 0 /\ manual = 0
        /\ doc'.current # NoEnv /\ doc'.current \notin unread'
    BY <1>4 DEF Trusted
  <2>2. CASE MockApplied(t) \/ MockDirectory(t)
    BY <1>1, <2>1, <2>2 DEF MockApplied, MockDirectory, Placed
  <2>3. CASE CreateBlocked(t) \/ TerraformApply(t)
    <3>1. /\ doc' = doc /\ files' = files /\ unread' = unread
          /\ pc[t] \in {"begin", "tf_apply"}
      BY <1>1, <2>3, CreateEffects DEF CreateBlocked, TerraformApply, Rest
    <3> QED BY <1>4, <3>1, AccountKept DEF Settling, Underway
  <2>4. CASE CreateDirectory(t)
    <3>1. /\ doc' = doc /\ pc[t] = "begin" /\ pc'[t] = "tf_running" /\ unread' = unread
          /\ files' = [files EXCEPT ![clock] = Reset(files[clock])]
      BY <1>1, <2>4, CreateEffects DEF CreateDirectory, Rest
    <3>2. CASE doc.current = clock
      <4>1. ~files'[doc'.current][c]
        BY <1>1, <3>1, <3>2 DEF Reset, Directories, Shown
      <4> QED BY <3>1, <4>1 DEF Underway
    <3>3. CASE doc.current # clock
      <4>1. files'[doc.current] = files[doc.current]
        <5>1. doc.current \in Seconds
          BY <1>1, <2>1, <3>1 DEF IInv, TypeOK, Documents
        <5> QED BY <1>1, <3>1, <3>3, <5>1
      <4> QED BY <1>4, <3>1, <4>1, AccountKept DEF Settling, Underway
    <3> QED BY <3>2, <3>3
  <2>5. CASE MarkRunning(t) \/ MarkFailed(t)
    <3>1. /\ doc'.terraform.status # "applied" /\ files' = files /\ unread' = unread
          /\ doc'.current = doc.current /\ doc'.controls = doc.controls /\ doc'.jobs = doc.jobs
          /\ pc[t] \in {"tf_running", "tf_failed"}
      <4>1. \/ doc'.terraform = [run |-> call[t].env, status |-> "running"]
            \/ doc'.terraform = [run |-> call[t].env, status |-> "failed"]
        BY <1>1, <2>5, CreateEffects
      <4>2. doc'.terraform.status # "applied"
        BY <4>1
      <4> QED BY <1>1, <2>5, <4>2, CreateEffects DEF MarkRunning, MarkFailed, Rest
    <3>2. Agreed(c) \/ Underway(t, c)
      BY <1>4, <3>1, HolderReflects DEF Trusted, Settling
    <3>3. ~files'[doc'.current][c] => Agreed(c)'
      BY <3>1 DEF Agreed, LeftByCreate
    <3>4. Agreed(c) => Agreed(c)'
      BY <3>1 DEF Agreed, LeftByJob, LeftByCreate, AllFailed
    <3> QED BY <3>1, <3>2, <3>3, <3>4 DEF Underway
  <2>6. CASE MarkApplied(t) \/ LoadForCreate(t)
    <3>1. /\ files' = files /\ unread' = unread /\ doc'.current = doc.current
          /\ doc'.controls = doc.controls /\ doc'.jobs = doc.jobs
          /\ pc[t] \in {"tf_applied", "load_created"}
          /\ pc'[t] \in {"load_created", "save_created"}
      BY <1>1, <2>6, CreateEffects DEF MarkApplied, LoadForCreate, Rest
    <3>2. Agreed(c) \/ Underway(t, c)
      BY <1>4, <3>1, HolderReflects DEF Trusted, Settling
    <3>3. ~files'[doc'.current][c] => Underway(t, c)'
      BY <3>1 DEF Underway
    <3>4. Agreed(c) => Agreed(c)' \/ ~files'[doc'.current][c]
      BY <3>1 DEF Agreed, LeftByJob, LeftByCreate, AllFailed
    <3> QED BY <3>1, <3>2, <3>3, <3>4 DEF Underway
  <2>7. CASE SaveCreated(t)
    <3>1. doc'.controls = ReadControls(files'[doc'.current])
      BY <1>1, <2>1, <2>7, CreateEffects DEF NewMaps
    <3> QED BY <3>1 DEF Agreed, ReadControls, Shown
  <2>8. CASE DirectoryFails(t)
    <3>1. doc' = doc /\ unread' = unread \cup {clock} /\ pc[t] = "begin"
      <4>1. doc' = doc /\ unread' = unread \cup {clock}
        BY <1>1, <2>1, <2>8, CreateEffects
      <4>2. pc[t] # "mock_directory"
        BY <1>1, <2>1 DEF Placed
      <4> QED BY <2>8, <4>1, <4>2 DEF DirectoryFails
    <3>2. doc.current # clock /\ doc.current \in Seconds
      BY <1>1, <2>1, <3>1 DEF IInv, TypeOK, Documents
    <3>3. files'[doc.current] = files[doc.current]
      BY <1>1, <2>1, <2>8, <3>2 DEF DirectoryFails
    <3>4. Agreed(c)
      BY <1>4, <3>1, HolderReflects DEF Trusted, Settling, Underway
    <3> QED BY <3>1, <3>3, <3>4 DEF Agreed, LeftByJob, LeftByCreate, AllFailed
  <2>9. CASE CreatedReadFails(t)
    <3>1. /\ doc' = doc /\ unread' = unread \cup {call[t].env} /\ files' = files
          /\ pc[t] = "save_created" /\ doc.terraform.run = call[t].env
      <4>1. doc' = doc /\ unread' = unread \cup {call[t].env} /\ files' = files
        BY <1>1, <2>9, CreateEffects
      <4>2. pc[t] = "save_created"
        BY <2>9 DEF CreatedReadFails
      <4>3. doc.terraform = [run |-> call[t].env, status |-> "applied"]
        BY <1>1, <4>2 DEF StatusKnown
      <4> QED BY <4>1, <4>2, <4>3
    <3>2. Agreed(c) \/ Underway(t, c)
      BY <1>4, <3>1, HolderReflects DEF Trusted, Settling
    <3>3. ~files'[doc'.current][c] => Agreed(c)'
      BY <3>1 DEF Agreed, LeftByCreate
    <3>4. Agreed(c) => Agreed(c)'
      BY <3>1 DEF Agreed, LeftByJob, LeftByCreate, AllFailed
    <3> QED BY <3>1, <3>2, <3>3, <3>4 DEF Underway
  <2> QED BY <2>2, <2>3, <2>4, <2>5, <2>6, <2>7, <2>8, <2>9 DEF Create
<1> QED BY <1>3, <1>4

\* What Effect does to the two reports and the settings they are about.
LEMMA ScanEffects ==
  ASSUME NEW dir \in Directories
  PROVE  /\ LET after == Effect("scan_root", dir)
            IN  /\ after.sshScan = Report(dir.root) /\ after.root = dir.root
                /\ after.service = dir.service
         /\ LET after == Effect("scan_service", dir)
            IN  /\ after.serviceScan = Report(dir.service) /\ after.service = dir.service
                /\ after.sshScan = dir.sshScan /\ after.root = dir.root
<1>1. Effect("scan_root", dir) = ScanRoot(dir) /\ Effect("scan_service", dir) = ScanService(dir)
  BY DEF Effect
<1> QED BY <1>1 DEF ScanRoot, ScanService, Directories

\* A task leaves a control alone or sets it to a value of its own.
LEMMA ControlEffects ==
  ASSUME NEW task \in Tasks, NEW c \in Shown
  PROVE  \/ \A dir \in Directories : Effect(task, dir)[c] = dir[c]
         \/ \A dir, other \in Directories : Effect(task, dir)[c] = Effect(task, other)[c]
<1>1. \A dir \in Directories :
        /\ Effect("deny_root", dir) = DenyRoot(dir)
        /\ Effect("allow_root", dir) = AllowRoot(dir)
        /\ Effect("deny_password", dir) = DenyPassword(dir)
        /\ Effect("start_service", dir) = StartService(dir)
        /\ Effect("stop_service", dir) = StopService(dir)
        /\ Effect("scan_root", dir) = ScanRoot(dir)
        /\ Effect("scan_service", dir) = ScanService(dir)
  BY DEF Effect
<1>2. CASE c = "root"
  <2>1. \A dir \in Directories :
          /\ DenyRoot(dir)[c] = TRUE
          /\ AllowRoot(dir)[c] = FALSE
          /\ DenyPassword(dir)[c] = dir[c]
          /\ StartService(dir)[c] = dir[c]
          /\ StopService(dir)[c] = dir[c]
          /\ ScanRoot(dir)[c] = dir[c]
          /\ ScanService(dir)[c] = dir[c]
    BY <1>2 DEF Directories, DenyRoot, AllowRoot, DenyPassword, StartService, StopService,
                ScanRoot, ScanService
  <2>2. CASE task \in {"deny_password", "start_service", "stop_service", "scan_root", "scan_service"}
    BY <1>1, <2>1, <2>2
  <2>3. CASE task = "deny_root"
    <3>1. \A dir \in Directories : Effect(task, dir)[c] = TRUE
      BY <1>1, <2>1, <2>3
    <3> QED BY <3>1
  <2>4. CASE task = "allow_root"
    <3>1. \A dir \in Directories : Effect(task, dir)[c] = FALSE
      BY <1>1, <2>1, <2>4
    <3> QED BY <3>1
  <2> QED BY <2>2, <2>3, <2>4 DEF Tasks
<1>3. CASE c = "service"
  <2>1. \A dir \in Directories :
          /\ DenyRoot(dir)[c] = dir[c]
          /\ AllowRoot(dir)[c] = dir[c]
          /\ DenyPassword(dir)[c] = dir[c]
          /\ StartService(dir)[c] = TRUE
          /\ StopService(dir)[c] = FALSE
          /\ ScanRoot(dir)[c] = dir[c]
          /\ ScanService(dir)[c] = dir[c]
    BY <1>3 DEF Directories, DenyRoot, AllowRoot, DenyPassword, StartService, StopService,
                ScanRoot, ScanService
  <2>2. CASE task \in {"deny_root", "allow_root", "deny_password", "scan_root", "scan_service"}
    BY <1>1, <2>1, <2>2
  <2>3. CASE task = "start_service"
    <3>1. \A dir \in Directories : Effect(task, dir)[c] = TRUE
      BY <1>1, <2>1, <2>3
    <3> QED BY <3>1
  <2>4. CASE task = "stop_service"
    <3>1. \A dir \in Directories : Effect(task, dir)[c] = FALSE
      BY <1>1, <2>1, <2>4
    <3> QED BY <3>1
  <2> QED BY <2>2, <2>3, <2>4 DEF Tasks
<1> QED BY <1>2, <1>3 DEF Shown

\* What the tasks of the baseline leave of the two controls.
LEMMA BaselineEffects ==
  /\ Playbook("apply_baseline") = <<"deny_root", "deny_password", "start_service">>
  /\ \A dir \in Directories :
       /\ Effect("deny_root", dir).root
       /\ Effect("deny_password", dir).root = dir.root
       /\ Effect("start_service", dir).root = dir.root
       /\ Effect("start_service", dir).service
<1>1. Playbook("apply_baseline") = <<"deny_root", "deny_password", "start_service">>
  BY DEF Playbook
<1>2. \A dir \in Directories :
        /\ Effect("deny_root", dir) = DenyRoot(dir)
        /\ Effect("deny_password", dir) = DenyPassword(dir)
        /\ Effect("start_service", dir) = StartService(dir)
  BY DEF Effect
<1> QED BY <1>1, <1>2 DEF DenyRoot, DenyPassword, StartService, Directories

\* The baseline sets both controls.
LEMMA BaselineSets == \A c \in Shown : Sets("apply_baseline", c, TRUE)
<1>1. Playbook("apply_baseline") = <<"deny_root", "deny_password", "start_service">>
  BY BaselineEffects
<1>2. \A dir \in Directories : /\ Effect("deny_root", dir) = DenyRoot(dir)
                               /\ Effect("start_service", dir) = StartService(dir)
  BY DEF Effect
<1>3. \A dir \in Directories : DenyRoot(dir).root = TRUE /\ StartService(dir).service = TRUE
  BY DEF DenyRoot, StartService, Directories
<1>4. Sets("apply_baseline", "root", TRUE)
  <2>1. 1 \in 1..Len(Playbook("apply_baseline")) /\ Playbook("apply_baseline")[1] = "deny_root"
    BY <1>1
  <2> QED BY <1>2, <1>3, <2>1 DEF Sets
<1>5. Sets("apply_baseline", "service", TRUE)
  <2>1. 3 \in 1..Len(Playbook("apply_baseline")) /\ Playbook("apply_baseline")[3] = "start_service"
    BY <1>1
  <2> QED BY <1>2, <1>3, <2>1 DEF Sets
<1> QED BY <1>4, <1>5 DEF Shown

\* What the actions that run playbooks know of the files stays true.
LEMMA PlaybookKnows ==
  ASSUME RecordInv, FilesInv, NEW t \in Threads, RunPlaybook(t),
         UNCHANGED <<mock, crashes, manual>>, pc[t] \in Working
  PROVE  FilesKnown(t)'
<1>1. /\ IInv /\ Placed(t)
      /\ ScanKnown(t) /\ BaselineKnown(t) /\ TodoKnown(t) /\ InCurrent(t)
  BY DEF RecordInv, Story, Known, FilesInv, FilesKnown
<1>2. /\ files \in [Seconds -> Directories] /\ call[t].env \in Seconds
      /\ call[t].todo \in Seq(Tasks)
  BY <1>1 DEF IInv, TypeOK, Calls
<1> USE DEF SameSetup, SameMaps, SameCall, HasLeft, FilesKnown
<1>3. CASE \/ NoEnvironment(t) \/ JobFailed(t) \/ ReadFails(t)
           \/ PlaybookFails(t) \/ BaselineReadFails(t)
  <2>1. /\ pc'[t] \in {"respond", "job_failed"}
        /\ pc'[t] = "job_failed" =>
             /\ doc' = doc /\ call'[t].env = call[t].env /\ call'[t].action = call[t].action
             /\ pc[t] \in {"playbook", "record"}
    BY <1>1, <1>3, PlaybookEffects DEF PlaybookFails, BaselineReadFails
  <2> QED BY <1>1, <2>1 DEF ScanKnown, BaselineKnown, TodoKnown, InCurrent
<1>4. CASE StartPlaybook(t)
  <2>1. /\ pc'[t] = "playbook" /\ doc' = doc /\ call'[t].env = doc.current
        /\ call'[t].action = call[t].action /\ call'[t].todo = Playbook(call[t].action)
    BY <1>1, <1>4, PlaybookEffects
  <2>2. call[t].action = "run_compliance_scan" => call'[t].todo = <<"scan_root", "scan_service">>
    BY <2>1 DEF Playbook
  <2> QED BY <2>1, <2>2 DEF ScanKnown, BaselineKnown, TodoKnown, InCurrent
<1>5. CASE RunTask(t)
  <2>1. /\ pc[t] = "playbook" /\ pc'[t] = "playbook" /\ doc' = doc
        /\ call'[t].env = call[t].env /\ call'[t].action = call[t].action
        /\ call'[t].todo = Tail(call[t].todo) /\ call[t].todo # << >>
        /\ files'[call[t].env] = Effect(Head(call[t].todo), files[call[t].env])
    BY <1>1, <1>2, <1>5, PlaybookEffects DEF RunTask
  <2>2. InCurrent(t)'
    BY <1>1, <2>1 DEF InCurrent
  <2>3. TodoKnown(t)'
    <3>1. \A k \in 1..Len(call'[t].todo) :
            k + 1 \in 1..Len(call[t].todo) /\ call'[t].todo[k] = call[t].todo[k + 1]
      BY <1>2, <2>1
    <3> QED BY <1>1, <2>1, <3>1 DEF TodoKnown
  <2>4. ASSUME manual = 0, ~mock, call[t].action = "run_compliance_scan"
        PROVE  LET dir == files'[call[t].env]
               IN  \/ call'[t].todo = <<"scan_service">> /\ dir.sshScan = Report(dir.root)
                   \/ /\ call'[t].todo = << >>
                      /\ dir.sshScan = Report(dir.root)
                      /\ dir.serviceScan = Report(dir.service)
    <3>1. CASE call[t].todo = <<"scan_root", "scan_service">>
      <4>1. Head(call[t].todo) = "scan_root" /\ Tail(call[t].todo) = <<"scan_service">>
        BY <3>1
      <4> QED BY <1>2, <2>1, <4>1, ScanEffects
    <3>2. CASE call[t].todo = <<"scan_service">>
      <4>1. Head(call[t].todo) = "scan_service" /\ Tail(call[t].todo) = << >>
        BY <3>2
      <4>2. files[call[t].env].sshScan = Report(files[call[t].env].root)
        BY <1>1, <2>1, <2>4, <3>2 DEF ScanKnown
      <4> QED BY <1>2, <2>1, <4>1, <4>2, ScanEffects
    <3> QED BY <1>1, <2>1, <2>4, <3>1, <3>2 DEF ScanKnown
  <2>5. ScanKnown(t)'
    BY <2>1, <2>4 DEF ScanKnown
  <2>6. ASSUME manual = 0, ~mock, call[t].action = "apply_baseline"
        PROVE  LET dir == files'[call[t].env]
               IN  \/ call'[t].todo = <<"deny_password", "start_service">> /\ dir.root
                   \/ call'[t].todo = <<"start_service">> /\ dir.root
                   \/ call'[t].todo = << >> /\ dir.root /\ dir.service
    <3>1. CASE call[t].todo = <<"deny_root", "deny_password", "start_service">>
      <4>1. /\ Head(call[t].todo) = "deny_root"
            /\ Tail(call[t].todo) = <<"deny_password", "start_service">>
        BY <3>1
      <4> QED BY <1>2, <2>1, <4>1, BaselineEffects
    <3>2. CASE call[t].todo = <<"deny_password", "start_service">> /\ files[call[t].env].root
      <4>1. Head(call[t].todo) = "deny_password" /\ Tail(call[t].todo) = <<"start_service">>
        BY <3>2
      <4> QED BY <1>2, <2>1, <3>2, <4>1, BaselineEffects
    <3>3. CASE call[t].todo = <<"start_service">> /\ files[call[t].env].root
      <4>1. Head(call[t].todo) = "start_service" /\ Tail(call[t].todo) = << >>
        BY <3>3
      <4> QED BY <1>2, <2>1, <3>3, <4>1, BaselineEffects
    <3> QED BY <1>1, <2>1, <2>6, <3>1, <3>2, <3>3, BaselineEffects DEF BaselineKnown
  <2>7. BaselineKnown(t)'
    BY <2>1, <2>6 DEF BaselineKnown
  <2> QED BY <2>2, <2>3, <2>5, <2>7
<1>6. CASE PlaybookSucceeds(t)
  <2>1. /\ pc[t] = "playbook" /\ pc'[t] = "job_succeeded" /\ doc' = doc /\ files' = files
        /\ call'[t].env = call[t].env /\ call'[t].action = call[t].action
        /\ call[t].todo = << >>
        /\ call[t].action = "run_compliance_scan" =>
             call'[t].found.controls =
               [root    |-> files[call[t].env].sshScan = "pass",
                service |-> files[call[t].env].serviceScan = "pass"]
    BY <1>1, <1>6, PlaybookEffects DEF PlaybookSucceeds
  <2>2. InCurrent(t)' /\ TodoKnown(t)'
    BY <1>1, <2>1 DEF InCurrent, TodoKnown
  <2>3. ASSUME manual = 0, ~mock, call[t].action = "run_compliance_scan"
        PROVE  call'[t].found.controls = ReadControls(files[call[t].env])
    <3>1. LET dir == files[call[t].env]
          IN  dir.sshScan = Report(dir.root) /\ dir.serviceScan = Report(dir.service)
      BY <1>1, <2>1, <2>3 DEF ScanKnown
    <3>2. files[call[t].env].root \in BOOLEAN /\ files[call[t].env].service \in BOOLEAN
      BY <1>2 DEF Directories
    <3> QED BY <2>1, <2>3, <3>1, <3>2 DEF Report, ReadControls
  <2>4. ScanKnown(t)'
    BY <2>1, <2>3 DEF ScanKnown
  <2>5. BaselineKnown(t)'
    BY <1>1, <2>1, BaselineEffects DEF BaselineKnown
  <2> QED BY <2>2, <2>4, <2>5
<1>7. CASE JobSucceeded(t)
  <2>1. /\ pc[t] = "job_succeeded" /\ pc'[t] \in {"load_scan", "record"} /\ files' = files
        /\ call[t].action \in PlaybookActions
        /\ call'[t].env = call[t].env /\ call'[t].action = call[t].action
        /\ call'[t].found = call[t].found
        /\ call[t].action = "run_compliance_scan" => pc'[t] = "load_scan"
        /\ doc'.current = doc.current
    BY <1>1, <1>7, PlaybookEffects DEF JobSucceeded, Placed
  <2> QED BY <1>1, <2>1 DEF ScanKnown, BaselineKnown, TodoKnown, InCurrent
<1>8. CASE LoadForScan(t)
  <2>1. /\ pc[t] = "load_scan" /\ pc'[t] = "save_scan" /\ doc' = doc /\ files' = files
        /\ call'[t].env = call[t].env /\ call'[t].action = call[t].action
        /\ call'[t].found = [controls   |-> call[t].found.controls,
                             compliance |-> ReadCompliance(files[call[t].env])]
    BY <1>1, <1>8, PlaybookEffects DEF LoadForScan
  <2>2. /\ call'[t].found.controls = call[t].found.controls
        /\ call'[t].found.compliance = ReadCompliance(files[call[t].env])
    BY <2>1
  <2> QED BY <1>1, <2>1, <2>2 DEF ScanKnown, BaselineKnown, TodoKnown, InCurrent
<1>9. CASE SaveScan(t)
  <2>1. /\ pc[t] = "save_scan" /\ pc'[t] = "record" /\ files' = files
        /\ call[t].action = "run_compliance_scan"
        /\ call'[t].env = call[t].env /\ call'[t].action = call[t].action
        /\ call'[t].found = call[t].found
        /\ call'[t].outcome = IF Compliant(call[t].found.controls, call[t].found.compliance)
                              THEN "succeeded" ELSE "failed"
        /\ doc'.current = doc.current
    BY <1>1, <1>9, PlaybookEffects DEF SaveScan, Placed
  <2>2. InCurrent(t)' /\ TodoKnown(t)' /\ BaselineKnown(t)'
    BY <1>1, <2>1 DEF InCurrent, TodoKnown, BaselineKnown
  <2>3. ASSUME manual = 0, ~mock
        PROVE  /\ call'[t].found.controls = ReadControls(files[call[t].env])
               /\ LET dir == files[call[t].env]
                  IN  call'[t].outcome = "succeeded" <=> dir.root /\ dir.password /\ dir.service
    <3>1. /\ call[t].found.controls = ReadControls(files[call[t].env])
          /\ call[t].found.compliance = ReadCompliance(files[call[t].env])
      BY <1>1, <2>1, <2>3 DEF ScanKnown
    <3> QED BY <2>1, <3>1 DEF Compliant, ReadControls, ReadCompliance
  <2>4. ScanKnown(t)'
    BY <2>1, <2>3 DEF ScanKnown
  <2> QED BY <2>2, <2>4
<1> QED BY <1>3, <1>4, <1>5, <1>6, <1>7, <1>8, <1>9 DEF RunPlaybook

\* A failed job tells of what its tasks did, and leaves it to the next failed
\* jobs, or to a log of nothing else, what those before it told.
LEMMA FailedJobTells ==
  ASSUME IInv, NEW t \in Threads, JobFailed(t), NEW c \in Shown,
         LeftByJob(c) \/ Sets(call[t].action, c, files[doc.current][c])
  PROVE  LeftByJob(c)'
<1> DEFINE entry == [action |-> call[t].action, status |-> "failed"]
           after == Insert(doc.jobs, entry, LogLimit)
<1>1. /\ doc.jobs \in Seq(Entries) /\ Len(doc.jobs) <= LogLimit /\ entry \in Entries
      /\ LogLimit \in Nat \ {0}
  BY LimitAssumption DEF IInv, TypeOK, Documents, LogsBounded, Calls, Entries, Verdicts
<1>2. doc'.jobs = after /\ files' = files /\ doc'.current = doc.current
  BY DEF IInv, TypeOK, JobFailed, Job, Documents
<1>3. entry.action = call[t].action /\ entry.status = "failed"
  OBVIOUS
<1> HIDE DEF entry
<1>4. /\ Len(after) = (IF Len(doc.jobs) < LogLimit THEN Len(doc.jobs) + 1 ELSE LogLimit)
      /\ after[1] = entry
      /\ \A i \in 2..Len(after) : after[i] = doc.jobs[i - 1]
  <2>1. Len(after) = (IF Len(doc.jobs) < LogLimit THEN Len(doc.jobs) + 1 ELSE LogLimit)
    BY <1>1, InsertProperties
  <2>2. after[1] = entry
    BY <1>1, InsertProperties
  <2>3. \A i \in 2..Len(after) : after[i] = doc.jobs[i - 1]
    BY <1>1, InsertProperties
  <2> QED BY <2>1, <2>2, <2>3
<1> HIDE DEF after
<1>5. ASSUME NEW i \in 0..Len(doc.jobs), AllFailed(i), NEW n \in 1..Len(after), n <= i + 1
      PROVE  AllFailed(n)'
  <2>1. \A k \in 2..n : k - 1 \in 1..i /\ doc'.jobs[k] = doc.jobs[k - 1]
    BY <1>1, <1>2, <1>4, <1>5
  <2>2. \A k \in 2..n : doc'.jobs[k].status = "failed"
    BY <1>5, <2>1 DEF AllFailed
  <2>3. doc'.jobs[1].status = "failed"
    BY <1>2, <1>3, <1>4
  <2> QED BY <1>1, <1>4, <2>2, <2>3 DEF AllFailed
<1>6. CASE Sets(call[t].action, c, files[doc.current][c])
  <2>1. 1 \in 1..Len(doc'.jobs) /\ 1 \in 1..Len(after) /\ Len(doc.jobs) \in Nat
    BY <1>1, <1>2, <1>4
  <2>2. AllFailed(1)'
    <3>1. AllFailed(0) /\ 0 \in 0..Len(doc.jobs) /\ 1 <= 0 + 1
      BY <2>1 DEF AllFailed
    <3> QED BY <1>5, <2>1, <3>1
  <2>3. doc'.jobs[1].action = call[t].action
    BY <1>2, <1>3, <1>4
  <2> QED BY <1>2, <1>6, <2>1, <2>2, <2>3 DEF LeftByJob
<1>7. CASE Len(doc.jobs) = LogLimit /\ AllFailed(LogLimit)
  <2>1. /\ Len(after) = LogLimit /\ LogLimit \in 0..Len(doc.jobs)
        /\ LogLimit \in 1..Len(after) /\ LogLimit <= LogLimit + 1
    BY <1>1, <1>4, <1>7
  <2>2. AllFailed(LogLimit)'
    BY <1>5, <1>7, <2>1
  <2> QED BY <1>2, <2>1, <2>2 DEF LeftByJob
<1>8. ASSUME NEW i \in 1..Len(doc.jobs), AllFailed(i),
             Sets(doc.jobs[i].action, c, files[doc.current][c])
      PROVE  LeftByJob(c)'
  <2>1. CASE i + 1 <= Len(after)
    <3>1. /\ i + 1 \in 1..Len(after) /\ i + 1 \in 2..Len(after) /\ i \in 0..Len(doc.jobs)
          /\ (i + 1) - 1 = i /\ i + 1 <= i + 1
      BY <1>1, <1>4, <2>1
    <3>2. AllFailed(i + 1)' /\ doc'.jobs[i + 1] = doc.jobs[i]
      BY <1>2, <1>4, <1>5, <1>8, <3>1
    <3> QED BY <1>2, <1>8, <3>1, <3>2 DEF LeftByJob
  <2>2. CASE ~(i + 1 <= Len(after))
    <3>1. i = LogLimit /\ Len(after) = LogLimit /\ i \in 0..Len(doc.jobs) /\ i \in 1..Len(after)
          /\ i <= i + 1
      BY <1>1, <1>4, <2>2
    <3>2. AllFailed(LogLimit)'
      BY <1>5, <1>8, <3>1
    <3> QED BY <1>2, <3>1, <3>2 DEF LeftByJob
  <2> QED BY <2>1, <2>2
<1> QED BY <1>6, <1>7, <1>8 DEF LeftByJob

\* A playbook sets a control only to a value its job will tell of if it fails.
LEMMA PlaybookReflects ==
  ASSUME RecordInv, FilesInv, NEW t \in Threads, RunPlaybook(t),
         UNCHANGED <<mock, crashes, manual>>, pc[t] \in Working,
         Trusted', ~Settling(t)', NEW c \in Shown
  PROVE  Agreed(c)' \/ Underway(t, c)'
<1>1. /\ IInv /\ Placed(t) /\ BaselineKnown(t) /\ TodoKnown(t) /\ InCurrent(t)
  BY DEF RecordInv, Story, Known, FilesInv, FilesKnown
<1>2. /\ files \in [Seconds -> Directories] /\ call[t].env \in Seconds
      /\ call[t].todo \in Seq(Tasks) /\ call[t].action \in Actions
  BY <1>1 DEF IInv, TypeOK, Calls
<1>3. ~mock /\ manual = 0 /\ doc'.current # NoEnv /\ doc'.current \notin unread'
  BY DEF Trusted
<1> USE DEF SameSetup, SameMaps, SameCall, HasLeft
<1>4. CASE NoEnvironment(t)
  BY <1>1, <1>3, <1>4, PlaybookEffects DEF NoEnvironment
<1>5. CASE StartPlaybook(t)
  <2>1. /\ pc[t] = "begin" /\ doc' = doc /\ files' = files /\ unread' = unread
    BY <1>1, <1>5, PlaybookEffects DEF StartPlaybook, Rest
  <2> QED BY <2>1, AccountKept DEF Settling, Underway
<1>6. CASE RunTask(t)
  <2>1. /\ pc[t] = "playbook" /\ pc'[t] = "playbook" /\ doc' = doc
        /\ call'[t].action = call[t].action /\ unread' = unread
        /\ call[t].todo # << >>
        /\ files'[call[t].env] = Effect(Head(call[t].todo), files[call[t].env])
    BY <1>1, <1>2, <1>6, PlaybookEffects DEF RunTask, Rest
  <2>2. doc.current = call[t].env
    BY <1>1, <1>3, <2>1 DEF InCurrent, Placed
  <2> DEFINE task == Head(call[t].todo)
  <2>3. task \in Tasks /\ \E j \in 1..Len(Playbook(call[t].action)) :
                            task = Playbook(call[t].action)[j]
    <3>1. 1 \in 1..Len(call[t].todo) /\ task = call[t].todo[1] /\ call[t].todo[1] \in Tasks
      BY <1>2, <2>1
    <3> QED BY <1>1, <2>1, <3>1 DEF TodoKnown
  <2>4. files[call[t].env] \in Directories /\ files'[doc.current] = Effect(task, files[call[t].env])
    BY <1>2, <2>1, <2>2
  <2> HIDE DEF task
  <2>5. CASE \A dir \in Directories : Effect(task, dir)[c] = dir[c]
    <3>1. files'[doc.current][c] = files[doc.current][c]
      BY <2>2, <2>4, <2>5
    <3> QED BY <2>1, <3>1, AccountKept DEF Settling, Underway
  <2>6. CASE \A dir, other \in Directories : Effect(task, dir)[c] = Effect(task, other)[c]
    <3>1. \A dir \in Directories : Effect(task, dir)[c] = files'[doc.current][c]
      BY <2>4, <2>6
    <3>2. Sets(call[t].action, c, files'[doc.current][c])
      BY <2>3, <3>1 DEF Sets
    <3> QED BY <2>1, <3>2 DEF Underway
  <2> QED BY <2>3, <2>5, <2>6, ControlEffects
<1>7. CASE PlaybookFails(t)
  <2>1. /\ pc[t] = "playbook" /\ pc'[t] = "job_failed" /\ doc' = doc /\ files' = files
        /\ call'[t] = call[t] /\ unread' = unread
    BY <1>1, <1>7, PlaybookEffects DEF PlaybookFails, Rest
  <2> QED BY <2>1, AccountKept DEF Settling, Underway
<1>8. CASE JobFailed(t)
  <2>1. /\ pc[t] = "job_failed" /\ files' = files /\ unread' = unread
        /\ doc'.current = doc.current /\ doc'.controls = doc.controls
        /\ doc'.terraform = doc.terraform
    BY <1>1, <1>8, PlaybookEffects DEF JobFailed, Rest
  <2>2. Agreed(c) \/ Underway(t, c)
    BY <2>1, HolderReflects DEF Trusted, Settling
  <2>3. LeftByJob(c) \/ Underway(t, c) => LeftByJob(c)'
    BY <1>1, <1>8, <2>1, FailedJobTells DEF Underway
  <2>4. LeftByCreate(c) => LeftByCreate(c)'
    BY <2>1 DEF LeftByCreate
  <2> QED BY <2>1, <2>2, <2>3, <2>4 DEF Agreed
<1>9. CASE PlaybookSucceeds(t) \/ JobSucceeded(t) \/ LoadForScan(t) \/ SaveScan(t)
  <2>1. Settling(t)'
    BY <1>1, <1>9, PlaybookEffects
       DEF Settling, Placed, JobSucceeded, SaveScan, PlaybookActions, Actions, Drifts
  <2> QED BY <2>1
<1>10. CASE ReadFails(t)
  <2>1. /\ pc[t] \in {"load_scan", "record"} /\ call[t].action \in PlaybookActions
        /\ doc' = doc /\ call[t].env \in unread'
    BY <1>1, <1>10, PlaybookEffects DEF ReadFails, Placed, PlaybookActions, Actions, Drifts
  <2>2. doc.current = call[t].env
    BY <1>1, <1>3, <2>1 DEF InCurrent
  <2> QED BY <1>3, <2>1, <2>2
<1>11. CASE BaselineReadFails(t)
  <2>1. /\ pc[t] = "record" /\ call[t].action = "apply_baseline" /\ pc'[t] = "job_failed"
        /\ doc' = doc /\ files' = files /\ call'[t].action = call[t].action
    BY <1>1, <1>11, PlaybookEffects DEF BaselineReadFails
  <2>2. doc.current = call[t].env
    BY <1>1, <1>3, <2>1 DEF InCurrent, PlaybookActions, Actions
  <2>3. files[doc.current].root /\ files[doc.current].service
    BY <1>1, <1>3, <2>1, <2>2 DEF BaselineKnown
  <2>4. files'[doc'.current][c] = TRUE
    BY <1>2, <2>1, <2>2, <2>3 DEF Directories, Shown
  <2> QED BY <2>1, <2>4, BaselineSets DEF Underway
<1> QED BY <1>4, <1>5, <1>6, <1>7, <1>8, <1>9, <1>10, <1>11 DEF RunPlaybook

\* The steps that log an action and its event write the controls as read.
LEMMA RecordingFiles ==
  ASSUME RecordInv, FilesInv, NEW t \in Threads,
         AddIncident(t) \/ RecordAction(t) \/ EmitEvent(t) \/ Respond(t),
         UNCHANGED <<mock, crashes, manual>>, pc[t] \in Working
  PROVE  /\ FilesKnown(t)'
         /\ Trusted' /\ ~Settling(t)' => \A c \in Shown : Agreed(c)' \/ Underway(t, c)'
<1>1. /\ IInv /\ Placed(t)
      /\ ScanKnown(t) /\ BaselineKnown(t) /\ TodoKnown(t) /\ InCurrent(t)
  BY DEF RecordInv, Story, Known, FilesInv, FilesKnown
<1> USE DEF SameSetup, SameMaps, SameLogs, FilesKnown
<1>2. CASE AddIncident(t)
  <2>1. /\ pc[t] = "begin" /\ pc'[t] = "event" /\ files' = files /\ unread' = unread
        /\ call'[t].action = "inject_synthetic_incident"
        /\ doc'.current = doc.current /\ doc'.controls = doc.controls /\ doc'.jobs = doc.jobs
        /\ doc'.terraform = doc.terraform
    BY <1>1, <1>2, RecordingEffects DEF AddIncident, Rest
  <2>2. FilesKnown(t)'
    BY <2>1 DEF ScanKnown, BaselineKnown, TodoKnown, InCurrent, PlaybookActions
  <2> QED BY <2>1, <2>2, AccountKept DEF Settling, Underway
<1>3. CASE RecordAction(t)
  <2>1. /\ pc[t] = "record" /\ pc'[t] \in {"event", "respond"} /\ files' = files
        /\ call'[t] = call[t]
        /\ doc'.current = doc.current /\ doc'.controls = RecordedControls(t)
        /\ doc'.jobs = doc.jobs /\ doc'.terraform = doc.terraform
        /\ call[t].action \notin PlaybookActions => unread' = unread
    BY <1>1, <1>3, RecordingEffects DEF RecordAction
  <2>2. FilesKnown(t)'
    BY <1>1, <2>1 DEF ScanKnown, BaselineKnown, TodoKnown, InCurrent
  <2>3. ASSUME Trusted', NEW c \in Shown PROVE Agreed(c)' \/ Underway(t, c)'
    <3>1. ~mock /\ manual = 0
      BY <2>3 DEF Trusted
    <3>2. CASE call[t].action \notin PlaybookActions
      <4>1. ~Settling(t) /\ doc'.controls = doc.controls /\ ~Underway(t, c)
        BY <2>1, <3>2 DEF Settling, Underway, RecordedControls
      <4> QED BY <2>1, <2>3, <3>2, <4>1, AccountKept
    <3>3. CASE call[t].action \in PlaybookActions
      <4>1. doc.current = call[t].env
        BY <1>1, <2>1, <3>1, <3>3 DEF InCurrent
      <4>2. RecordedControls(t) = ReadControls(files[call[t].env])
        BY <1>1, <2>1, <3>1, <3>3 DEF RecordedControls, ScanKnown
      <4>3. doc'.controls = ReadControls(files'[doc'.current])
        BY <2>1, <4>1, <4>2
      <4> QED BY <4>3 DEF Agreed, ReadControls, Shown
    <3> QED BY <3>2, <3>3
  <2> QED BY <2>2, <2>3
<1>4. CASE EmitEvent(t)
  <2>1. /\ pc[t] = "event" /\ files' = files /\ call'[t] = call[t] /\ unread' = unread
        /\ pc'[t] = (IF call[t].action = "inject_synthetic_incident" THEN "record" ELSE "respond")
        /\ doc'.current = doc.current /\ doc'.controls = doc.controls /\ doc'.jobs = doc.jobs
        /\ doc'.terraform = doc.terraform
    BY <1>1, <1>4, RecordingEffects DEF EmitEvent, Rest
  <2>2. FilesKnown(t)'
    BY <1>1, <2>1 DEF ScanKnown, BaselineKnown, TodoKnown, InCurrent, PlaybookActions
  <2> QED BY <2>1, <2>2, AccountKept DEF Settling, Underway
<1>5. CASE Respond(t)
  <2>1. /\ pc[t] = "respond" /\ pc'[t] \in Outside /\ doc' = doc /\ files' = files
        /\ unread' = unread
    BY <1>1, <1>5, RecordingEffects DEF Respond, Outside, Rest
  <2> QED BY <2>1, OutsideFiles, AccountKept DEF Settling, Underway
<1> QED BY <1>2, <1>3, <1>4, <1>5

\* Every step keeps FilesInv.
LEMMA NextFiles == RecordInv /\ FilesInv /\ [Next]_vars => FilesInv'
<1> SUFFICES ASSUME RecordInv, FilesInv, [Next]_vars PROVE FilesInv'
  OBVIOUS
<1>1. /\ IInv /\ (\A t \in Threads : FilesKnown(t) /\ Placed(t)) /\ Reflected
      /\ pc \in [Threads -> Locations] /\ call \in [Threads -> Calls]
      /\ crashes \in Nat /\ manual \in Nat
  BY DEF RecordInv, FilesInv, Story, Known, IInv, TypeOK
<1>2. ASSUME NEW t \in Threads, Step(t), ~Acquire(t) PROVE FilesInv'
  <2>1. UNCHANGED <<mock, crashes, manual>> /\ pc[t] \in Working
    BY <1>1, <1>2, StepFrame
  <2>2. /\ FilesKnown(t)'
        /\ Trusted' /\ ~Settling(t)' => \A c \in Shown : Agreed(c)' \/ Underway(t, c)'
    <3>1. CASE Create(t)
      BY <2>1, <3>1, CreateFiles
    <3>2. CASE RunPlaybook(t)
      BY <2>1, <3>2, PlaybookKnows, PlaybookReflects
    <3>3. CASE RunMock(t)
      <4>1. mock /\ pc'[t] # "playbook"
        BY <1>1, <3>3 DEF RunMock, MockRestore, LoadForMock, SaveMockDrift, Placed, Goto
      <4> QED BY <2>1, <4>1
              DEF FilesKnown, ScanKnown, BaselineKnown, TodoKnown, InCurrent, Trusted
    <3>4. CASE AddIncident(t) \/ RecordAction(t) \/ EmitEvent(t) \/ Respond(t)
      BY <2>1, <3>4, RecordingFiles
    <3> QED BY <1>2, <3>1, <3>2, <3>3, <3>4 DEF Step
  <2>3. \A u \in Threads : u # t => FilesKnown(u)' /\ ~Settling(u)'
    BY <1>1, <1>2, StepFrame, OutsideFiles
  <2> QED BY <2>2, <2>3 DEF FilesInv, Reflected
<1>3. ASSUME NEW t \in Threads, Submit(t) \/ Acquire(t) PROVE FilesInv'
  <2>1. /\ UNCHANGED <<mock, doc, files, unread, crashes, manual>>
        /\ \A u \in Threads : u # t => pc'[u] = pc[u] /\ call'[u] = call[u]
        /\ pc[t] \in Outside /\ pc'[t] \in {"waiting", "begin"}
    BY <1>1, <1>3 DEF Submit, Acquire, Goto, Rest, Bounds, counters, Outside
  <2>2. FilesKnown(t)' /\ ~Settling(t)' /\ ~Settling(t) /\ \A c \in Shown : ~Underway(t, c)
    BY <2>1 DEF FilesKnown, ScanKnown, BaselineKnown, TodoKnown, InCurrent, Settling, Underway,
                Outside
  <2>3. ASSUME NEW u \in Threads, u # t
        PROVE  /\ FilesKnown(u)' /\ (Settling(u)' <=> Settling(u))
               /\ \A c \in Shown : Underway(u, c) => Underway(u, c)'
    <3>1. FilesKnown(u) /\ pc'[u] = pc[u] /\ call'[u] = call[u]
      BY <1>1, <2>1, <2>3
    <3> QED BY <2>1, <3>1 DEF FilesKnown, ScanKnown, BaselineKnown, TodoKnown, InCurrent,
                              Settling, Underway
  <2>4. (Trusted' <=> Trusted) /\ \A c \in Shown : Agreed(c) => Agreed(c)'
    BY <2>1 DEF Trusted, Agreed, LeftByJob, LeftByCreate, AllFailed
  <2>5. Reflected'
    BY <1>1, <2>2, <2>3, <2>4 DEF Reflected
  <2> QED BY <2>2, <2>3, <2>5 DEF FilesInv
<1>4. CASE UNCHANGED <<mock, doc, files, pc, call, unread, crashes, manual>>
  BY <1>1, <1>4 DEF FilesInv, FilesKnown, ScanKnown, BaselineKnown, TodoKnown, InCurrent,
                    Reflected, Settling, Trusted, Underway, Agreed, LeftByJob, LeftByCreate,
                    AllFailed
<1>5. CASE ManualRemediation
  <2>1. manual' # 0 /\ UNCHANGED <<mock, doc, pc, call>>
    BY <1>1, <1>5 DEF ManualRemediation
  <2> QED BY <1>1, <2>1 DEF FilesInv, FilesKnown, ScanKnown, BaselineKnown, TodoKnown, InCurrent,
                            Reflected, Trusted
<1>6. CASE Crash
  <2>1. (\A t \in Threads : pc'[t] \in Outside) /\ crashes' # 0
    BY <1>1, <1>6 DEF Crash, Outside
  <2> QED BY <2>1, OutsideFiles DEF FilesInv, Reflected, Trusted
<1>7. Tick \/ UNCHANGED vars => UNCHANGED <<mock, doc, files, pc, call, unread, crashes, manual>>
  BY DEF Tick, vars, counters
<1> QED BY <1>2, <1>3, <1>4, <1>5, <1>6, <1>7 DEF Next, Quiet

\* What live scans and baselines know of the files is true, and where the
\* controls on record differ from the files, a job, a Terraform status, a mark
\* of unread files or an action under way explains it.
THEOREM FilesInvariant == Spec => []FilesInv
<1>1. Init => FilesInv
  BY DEF Init, FilesInv, FilesKnown, ScanKnown, BaselineKnown, TodoKnown, InCurrent, Reflected,
         Trusted, DefaultDocument
<1> QED BY <1>1, NextFiles, RecordInvariant, PTL DEF Spec

\* A live scan's verdict is that of the files, never that of an older report.
THEOREM ScanVerdictsTrue == Spec => []ScanVerdictIsTrue
<1>1. FilesInv => ScanVerdictIsTrue
  BY DEF FilesInv, FilesKnown, ScanKnown, ScanVerdictIsTrue
<1> QED BY <1>1, FilesInvariant, PTL

\* Between actions a recorded control is that of the current environment, or
\* the records show which failed job or create has left it different.
THEOREM ControlsStayFaithful == Spec => []ControlsReflectFiles
<1>1. ASSUME RecordInv, FilesInv PROVE ControlsReflectFiles
  <2>1. ASSUME lock = NoThread, NEW t \in Threads
        PROVE  ~Settling(t) /\ \A c \in Shown : ~Underway(t, c)
    <3>1. pc[t] \in Outside
      BY <1>1, <2>1, NoThreadAssumption DEF RecordInv, IInv, TypeOK, LockHeld, Working, Outside
    <3> QED BY <3>1 DEF Settling, Underway, Outside
  <2> QED BY <1>1, <2>1
          DEF FilesInv, Reflected, ControlsReflectFiles, Settled, Trusted, Agreed, Shown
<1> QED BY <1>1, RecordInvariant, FilesInvariant, PTL

-----------------------------------------------------------------------------
(* Counting the scans of a log.                                            *)

Scans(log, i) == Cardinality({k \in 1..i : log[k].action = "run_compliance_scan"})

\* Numbers shifted by one are as many as before.
LEMMA ShiftedCount ==
  ASSUME NEW S \in SUBSET Nat, IsFiniteSet(S)
  PROVE  /\ IsFiniteSet({k + 1 : k \in S})
         /\ Cardinality({k + 1 : k \in S}) = Cardinality(S)
<1> DEFINE T == {k + 1 : k \in S}
           f == [k \in S |-> k + 1]
<1>1. f \in Bijection(S, T)
  <2>1. f \in [S -> T]
    OBVIOUS
  <2>2. \A a, b \in S : f[a] = f[b] => a = b
    OBVIOUS
  <2>3. \A n \in T : \E k \in S : f[k] = n
    OBVIOUS
  <2> HIDE DEF f, T
  <2> QED BY <2>1, <2>2, <2>3, Fun_IsBij
<1>2. ExistsBijection(S, T)
  BY <1>1 DEF ExistsBijection
<1> QED BY <1>2, FS_Bijection

\* An insert shifts the scans of a log by one and may add one in front.
LEMMA InsertCounts ==
  ASSUME NEW log \in Seq(Entries), NEW entry \in Entries, Len(log) <= LogLimit,
         NEW i \in 1..Len(Insert(log, entry, LogLimit))
  PROVE  Scans(Insert(log, entry, LogLimit), i) =
           Scans(log, i - 1) + (IF entry.action = "run_compliance_scan" THEN 1 ELSE 0)
<1> DEFINE after == Insert(log, entry, LogLimit)
           old == {k \in 1 .. i - 1 : log[k].action = "run_compliance_scan"}
           new == {k \in 1..i : after[k].action = "run_compliance_scan"}
           shifted == {k + 1 : k \in old}
<1>1. /\ after[1] = entry
      /\ \A k \in 2..Len(after) : after[k] = log[k - 1]
      /\ Len(after) \in Nat /\ i \in 1..Len(after)
  BY LimitAssumption, InsertProperties
<1>2. IsFiniteSet(old) /\ old \in SUBSET Nat /\ Cardinality(old) \in Nat
  <2>1. old \in SUBSET (1 .. i - 1) /\ IsFiniteSet(1 .. i - 1) /\ old \in SUBSET Nat
    BY FS_Interval
  <2> HIDE DEF old
  <2> QED BY <2>1, FS_Subset, FS_CardinalityType
<1>3. IsFiniteSet(shifted) /\ Cardinality(shifted) = Cardinality(old)
  BY <1>2, ShiftedCount
<1> HIDE DEF after
<1>4. \A k \in Nat : k + 1 \in new <=> (k \in old \/ (k = 0 /\ entry.action = "run_compliance_scan"))
  BY <1>1
<1>5. new = IF entry.action = "run_compliance_scan" THEN shifted \cup {1} ELSE shifted
  <2>1. \A n \in new : n - 1 \in Nat /\ (n - 1) + 1 = n
    BY <1>1
  <2>2. \A n \in shifted : n - 1 \in old /\ (n - 1) + 1 = n /\ n # 1
    OBVIOUS
  <2>3. \A k \in old : k \in Nat /\ k # 0 /\ k + 1 \in shifted
    OBVIOUS
  <2> HIDE DEF old, new, shifted
  <2>4. \A n \in shifted : n \in new
    BY <1>2, <1>4, <2>2
  <2>5. 1 \in new <=> 0 \in old \/ entry.action = "run_compliance_scan"
    <3>1. 0 \in Nat /\ 0 + 1 = 1
      OBVIOUS
    <3>2. 0 + 1 \in new <=> (0 \in old \/ (0 = 0 /\ entry.action = "run_compliance_scan"))
      BY <1>4, <3>1, Zenon
    <3> QED BY <3>1, <3>2, Zenon
  <2>6. 1 \in new <=> entry.action = "run_compliance_scan"
    BY <2>3, <2>5
  <2>7. \A n \in new : n \in shifted \/ n = 1
    <3> TAKE n \in new
    <3>1. n - 1 \in old \/ n - 1 = 0
      BY <1>4, <2>1
    <3>2. CASE n - 1 \in old
      BY <2>1, <2>3, <3>2
    <3>3. CASE n - 1 = 0
      BY <2>1, <3>3
    <3> QED BY <3>1, <3>2, <3>3
  <2>8. CASE entry.action = "run_compliance_scan"
    BY <2>4, <2>6, <2>7, <2>8
  <2>9. CASE entry.action # "run_compliance_scan"
    BY <2>4, <2>6, <2>7, <2>9
  <2> QED BY <2>8, <2>9
<1>6. 1 \notin shifted
  OBVIOUS
<1>7. Cardinality(new) =
        Cardinality(old) + (IF entry.action = "run_compliance_scan" THEN 1 ELSE 0)
  <2> HIDE DEF old, new, shifted
  <2>1. CASE entry.action = "run_compliance_scan"
    <3>1. new = shifted \cup {1} /\ Cardinality(new) = Cardinality(shifted) + 1
      BY <1>3, <1>5, <1>6, <2>1, FS_AddElement
    <3> QED BY <1>3, <2>1, <3>1
  <2>2. CASE entry.action # "run_compliance_scan"
    BY <1>2, <1>3, <1>5, <2>2
  <2> QED BY <2>1, <2>2
<1> QED BY <1>7 DEF Scans, after

\* A log's scans are counted by a number, and a scan at i is among those up to i.
LEMMA ScansType ==
  ASSUME NEW log, NEW i \in Nat
  PROVE  /\ Scans(log, i) \in Nat
         /\ i > 0 /\ log[i].action = "run_compliance_scan" => Scans(log, i) > 0
         /\ i = 0 => Scans(log, i) = 0
<1> DEFINE scans == {k \in 1..i : log[k].action = "run_compliance_scan"}
<1>1. IsFiniteSet(scans) /\ Cardinality(scans) \in Nat
  <2>1. scans \in SUBSET (1..i) /\ IsFiniteSet(1..i)
    BY FS_Interval
  <2> HIDE DEF scans
  <2> QED BY <2>1, FS_Subset, FS_CardinalityType
<1>2. i > 0 /\ log[i].action = "run_compliance_scan" => i \in scans
  OBVIOUS
<1>3. i = 0 => scans = {}
  OBVIOUS
<1> HIDE DEF scans
<1> QED BY <1>1, <1>2, <1>3, FS_EmptySet DEF Scans, scans

\* A score is full exactly if all three controls pass.
LEMMA FullScore ==
  ASSUME NEW c \in Controls, NEW k \in Compliance
  PROVE  Score(Passing(c, k)) = 100 <=> Compliant(c, k)
<1>1. /\ Passing(c, k)[1] = (c.root /\ k.root) /\ Passing(c, k)[2] = c.service
      /\ Passing(c, k)[3] = k.password
  BY DEF Passing
<1>2. /\ c.root \in BOOLEAN /\ c.service \in BOOLEAN
      /\ k.root \in BOOLEAN /\ k.password \in BOOLEAN
  BY DEF Controls, Compliance
<1> QED BY <1>1, <1>2 DEF Score, Compliant

-----------------------------------------------------------------------------
(* The trend agrees with the evidence.                                     *)

AheadOf(t) == pc[t] = "record" /\ call[t].action = "run_compliance_scan"

\* InsertProperties for the two logs whose entries the proofs look up.
LEMMA LogInserts ==
  ASSUME NEW S \in {Entries, Points}, NEW log \in Seq(S), NEW entry \in S,
         NEW limit \in Nat \ {0}, Len(log) <= limit
  PROVE  LET after == Insert(log, entry, limit)
         IN  /\ after \in Seq(S) /\ after # << >> /\ after[1] = entry
             /\ \A i \in 2..Len(after) : after[i] = log[i - 1]
             /\ Len(after) \in Nat /\ Len(after) <= Len(log) + 1
<1> DEFINE after == Insert(log, entry, limit)
<1>1. after \in Seq(S) /\ after # << >> /\ after[1] = entry
  BY InsertProperties
<1>2. Len(after) = (IF Len(log) < limit THEN Len(log) + 1 ELSE limit)
  BY InsertProperties
<1>3. \A i \in 2..Len(after) : after[i] = log[i - 1]
  BY InsertProperties
<1> HIDE DEF after
<1>4. Len(after) \in Nat /\ Len(after) <= Len(log) + 1
  BY <1>2
<1> QED BY <1>1, <1>3, <1>4 DEF after

\* The document's logs are well typed and within their limits.
LEMMA LogTypes ==
  ASSUME IInv
  PROVE  /\ doc.evidence \in Seq(Entries) /\ Len(doc.evidence) <= LogLimit
         /\ doc.trend \in Seq(Points) /\ Len(doc.trend) <= TrendLimit
         /\ Len(doc.evidence) \in Nat /\ Len(doc.trend) \in Nat
         /\ doc.scanCount \in Nat
  BY DEF IInv, TypeOK, Documents, LogsBounded

\* Only the thread inside an action can be ahead.
LEMMA HolderAhead ==
  ASSUME IInv, NEW t \in Threads, pc[t] \in Working
  PROVE  Ahead <=> AheadOf(t)
BY OthersOutside DEF Ahead, AheadOf, Outside

\* A scan saves its point: the trend shifts, and the scan is ahead.
LEMMA SaveScanAgrees ==
  ASSUME RecordInv, TrendAgrees, NEW t \in Threads, SaveScan(t), crashes' = crashes,
         \A u \in Threads : u # t => pc'[u] = pc[u] /\ pc[u] \in Outside
  PROVE  TrendAgrees'
<1>1. IInv /\ Placed(t)
  BY DEF RecordInv, Story, Known
<1> DEFINE found == call[t].found
           point == [pct   |-> Score(Passing(found.controls, found.compliance)),
                     label |-> doc.scanCount + 1]
<1>2. found.controls \in Controls /\ found.compliance \in Compliance
  BY <1>1 DEF IInv, TypeOK, Calls
<1>3. point \in Points
  <2>1. Passing(found.controls, found.compliance) \in [1..3 -> BOOLEAN]
    BY <1>2 DEF Passing, Controls, Compliance
  <2>2. Score(Passing(found.controls, found.compliance)) \in 0..100 /\ doc.scanCount + 1 \in Nat
    BY <1>1, <2>1, ScoreType, LogTypes
  <2> QED BY <2>2 DEF Points
<1>4. /\ pc[t] = "save_scan" /\ pc'[t] = "record"
      /\ call'[t].action = "run_compliance_scan"
      /\ call'[t].outcome = IF Compliant(found.controls, found.compliance)
                            THEN "succeeded" ELSE "failed"
      /\ doc'.trend = Insert(doc.trend, point, TrendLimit)
      /\ doc'.evidence = doc.evidence
  BY <1>1, PlaybookEffects DEF SaveScan, Placed
<1>5. Agree(point, call'[t].outcome)
  <2>1. Score(Passing(found.controls, found.compliance)) = 100
          <=> Compliant(found.controls, found.compliance)
    BY <1>2, FullScore
  <2>2. point.pct = Score(Passing(found.controls, found.compliance))
    OBVIOUS
  <2> QED BY <1>4, <2>1, <2>2 DEF Agree
<1> HIDE DEF found, point
<1>6. /\ doc'.trend # << >> /\ doc'.trend[1] = point
      /\ \A n \in 2..Len(doc'.trend) : doc'.trend[n] = doc.trend[n - 1]
      /\ Len(doc'.trend) \in Nat /\ Len(doc'.trend) <= Len(doc.trend) + 1
  <2>1. doc.trend \in Seq(Points) /\ Len(doc.trend) <= TrendLimit /\ Len(doc.trend) \in Nat
    BY <1>1, LogTypes
  <2> DEFINE after == Insert(doc.trend, point, TrendLimit)
  <2>2. /\ after # << >> /\ after[1] = point
        /\ \A n \in 2..Len(after) : after[n] = doc.trend[n - 1]
        /\ Len(after) \in Nat /\ Len(after) <= Len(doc.trend) + 1
    BY <1>3, <2>1, LogInserts, LimitAssumption
  <2> HIDE DEF after
  <2> QED BY <1>4, <2>2 DEF after
<1>7. ~Ahead /\ Ahead'
  <2>1. pc[t] \in Working
    BY <1>4, WorkingLocations
  <2> QED BY <1>1, <1>4, <2>1, HolderAhead DEF AheadOf, Ahead
<1>8. ASSUME crashes = 0, NEW i \in 1..Len(doc.evidence),
             doc.evidence[i].action = "run_compliance_scan",
             ScansUpTo(i) + 1 <= Len(doc'.trend)
      PROVE  Agree(doc'.trend[ScansUpTo(i) + 1], doc.evidence[i].status)
  <2>1. ScansUpTo(i) \in Nat /\ ScansUpTo(i) > 0
    BY <1>1, <1>8, ScansType, LogTypes DEF Scans, ScansUpTo
  <2>2. doc'.trend[ScansUpTo(i) + 1] = doc.trend[ScansUpTo(i)]
    BY <1>6, <1>8, <2>1
  <2>3. ScansUpTo(i) <= Len(doc.trend)
    BY <1>1, <1>6, <1>8, <2>1, LogTypes
  <2>4. ScansUpTo(i) + 0 = ScansUpTo(i)
    BY <2>1
  <2> QED BY <1>7, <1>8, <2>2, <2>3, <2>4 DEF TrendAgrees
<1>9. \A i : ScansUpTo(i)' = ScansUpTo(i)
  BY <1>4 DEF ScansUpTo
<1>10. \A u \in Threads : AheadOf(u)' => u = t
  BY DEF AheadOf, Outside
<1> QED BY <1>4, <1>5, <1>6, <1>7, <1>8, <1>9, <1>10 DEF TrendAgrees, AheadOf

\* A record shifts the evidence; that of a scan catches up with the trend.
LEMMA RecordAgrees ==
  ASSUME RecordInv, TrendAgrees, NEW t \in Threads, RecordAction(t), crashes' = crashes,
         \A u \in Threads : u # t => pc'[u] = pc[u] /\ pc[u] \in Outside
  PROVE  TrendAgrees'
<1>1. IInv
  BY DEF RecordInv
<1> DEFINE entry == [action |-> call[t].action, status |-> call[t].outcome]
           one == IF call[t].action = "run_compliance_scan" THEN 1 ELSE 0
<1>2. /\ pc[t] = "record" /\ pc'[t] # "record" /\ entry \in Entries
      /\ doc'.evidence = Insert(doc.evidence, entry, LogLimit)
      /\ doc'.trend = doc.trend
  BY <1>1, RecordingEffects DEF RecordAction
<1>3. /\ doc'.evidence[1] = entry
      /\ \A i \in 2..Len(doc'.evidence) : doc'.evidence[i] = doc.evidence[i - 1]
      /\ Len(doc'.evidence) \in Nat /\ Len(doc'.evidence) <= Len(doc.evidence) + 1
      /\ \A i \in 1..Len(doc'.evidence) :
           Scans(doc'.evidence, i) = Scans(doc.evidence, i - 1) + one
  <2>1. doc.evidence \in Seq(Entries) /\ Len(doc.evidence) <= LogLimit /\ Len(doc.evidence) \in Nat
    BY <1>1, LogTypes
  <2>2. (IF entry.action = "run_compliance_scan" THEN 1 ELSE 0) = one
    OBVIOUS
  <2> HIDE DEF entry, one
  <2>3. \A i \in 1..Len(doc'.evidence) :
           Scans(doc'.evidence, i) = Scans(doc.evidence, i - 1) + one
    BY <1>2, <2>1, <2>2, InsertCounts
  <2> DEFINE after == Insert(doc.evidence, entry, LogLimit)
  <2>4. /\ after # << >> /\ after[1] = entry
        /\ \A i \in 2..Len(after) : after[i] = doc.evidence[i - 1]
        /\ Len(after) \in Nat /\ Len(after) <= Len(doc.evidence) + 1
    BY <1>2, <2>1, LogInserts, LimitAssumption
  <2> HIDE DEF after
  <2> QED BY <1>2, <2>3, <2>4 DEF after
<1>4. /\ Ahead <=> call[t].action = "run_compliance_scan"
      /\ ~Ahead' /\ \A u \in Threads : ~AheadOf(u)'
  <2>1. pc[t] \in Working
    BY <1>2, WorkingLocations
  <2> QED BY <1>1, <1>2, <2>1, HolderAhead DEF AheadOf, Ahead, Outside
<1>5. ASSUME crashes = 0, NEW i \in 1..Len(doc'.evidence),
             doc'.evidence[i].action = "run_compliance_scan",
             Scans(doc'.evidence, i) <= Len(doc'.trend)
      PROVE  Agree(doc'.trend[Scans(doc'.evidence, i)], doc'.evidence[i].status)
  <2>1. CASE i = 1
    <3>1. doc'.evidence[1].action = call[t].action /\ doc'.evidence[1].status = call[t].outcome
      BY <1>3
    <3>2. Agree(doc.trend[1], call[t].outcome)
      BY <1>2, <1>5, <2>1, <3>1 DEF TrendAgrees
    <3>3. Scans(doc'.evidence, 1) = Scans(doc.evidence, 0) + one /\ one = 1
      <4>1. 1 - 1 = 0
        OBVIOUS
      <4> QED BY <1>3, <1>5, <2>1, <3>1, <4>1
    <3>4. Scans(doc'.evidence, 1) = 1
      BY <3>3, ScansType
    <3> QED BY <1>2, <2>1, <3>1, <3>2, <3>4
  <2>2. CASE i # 1
    <3>1. i \in 2..Len(doc'.evidence) /\ i - 1 \in 1..Len(doc.evidence)
      BY <1>1, <1>3, <2>2, LogTypes
    <3>2. doc'.evidence[i] = doc.evidence[i - 1]
      BY <1>3, <3>1
    <3>3. Scans(doc'.evidence, i) = ScansUpTo(i - 1) + (IF Ahead THEN 1 ELSE 0)
      BY <1>3, <1>4 DEF Scans, ScansUpTo
    <3> QED BY <1>2, <1>5, <3>1, <3>2, <3>3 DEF TrendAgrees
  <2> QED BY <2>1, <2>2
<1>6. ASSUME NEW i \in 1..Len(doc'.evidence) PROVE ScansUpTo(i)' + 0 = Scans(doc'.evidence, i)
  <2>1. ScansUpTo(i)' = Scans(doc'.evidence, i)
    BY DEF Scans, ScansUpTo
  <2>2. Scans(doc'.evidence, i) \in Nat
    BY ScansType
  <2> QED BY <2>1, <2>2
<1> HIDE DEF entry, one
<1>7. ASSUME crashes' = 0, NEW i \in 1..Len(doc'.evidence),
             doc'.evidence[i].action = "run_compliance_scan",
             ScansUpTo(i)' + 0 <= Len(doc'.trend)
      PROVE  Agree(doc'.trend[ScansUpTo(i)' + 0], doc'.evidence[i].status)
  BY <1>5, <1>6, <1>7
<1> QED BY <1>4, <1>7 DEF TrendAgrees, AheadOf

\* Every other step leaves evidence and trend alone, and no scan ahead.
LEMMA OtherAgrees ==
  ASSUME RecordInv, TrendAgrees, NEW t \in Threads, Step(t), ~Acquire(t),
         ~SaveScan(t), ~RecordAction(t), crashes' = crashes,
         \A u \in Threads : u # t => pc'[u] = pc[u] /\ pc[u] \in Outside,
         pc[t] \in Working
  PROVE  TrendAgrees'
<1>1. IInv /\ Placed(t)
  BY DEF RecordInv, Story, Known
<1>2. doc'.evidence = doc.evidence /\ doc'.trend = doc.trend
  <2>1. CASE Create(t)
    BY <1>1, <2>1, CreateEffects DEF Create, SameLogs, HasLeft
  <2>2. CASE RunPlaybook(t)
    BY <1>1, <2>2, PlaybookEffects DEF RunPlaybook, HasLeft
  <2>3. CASE RunMock(t)
    BY <1>1, <2>3, MockEffects DEF RunMock, SameLogs
  <2>4. CASE AddIncident(t) \/ EmitEvent(t) \/ Respond(t)
    BY <1>1, <2>4, RecordingEffects DEF SameLogs
  <2> QED BY <2>1, <2>2, <2>3, <2>4 DEF Step
<1>3. ~AheadOf(t)
  <2>1. CASE pc[t] = "record"
    <3>1. ReadFails(t) \/ BaselineReadFails(t)
      BY <2>1 DEF Step, Create, RunPlaybook, RunMock, Acquire, AddIncident, EmitEvent, Respond,
           MockApplied, MockDirectory, CreateBlocked, CreateDirectory, MarkRunning,
           TerraformApply, MarkFailed, MarkApplied, LoadForCreate, SaveCreated,
           DirectoryFails, CreatedReadFails, NoEnvironment, StartPlaybook, RunTask, PlaybookSucceeds, PlaybookFails,
           JobSucceeded, JobFailed, LoadForScan, MockRestore, LoadForMock, SaveMockDrift
    <3> QED BY <2>1, <3>1 DEF ReadFails, BaselineReadFails, AheadOf, PlaybookActions
  <2>2. CASE pc[t] # "record"
    BY <2>2 DEF AheadOf
  <2> QED BY <2>1, <2>2
<1>4. ~AheadOf(t)'
  <2>1. CASE Create(t)
    BY <1>1, <2>1, CreateEffects
       DEF Create, Placed, CreateLocations, AheadOf, SameCall, HasLeft,
           MockApplied, MockDirectory, CreateBlocked, CreateDirectory, MarkRunning,
           TerraformApply, MarkFailed, MarkApplied, LoadForCreate, SaveCreated
  <2>2. CASE RunPlaybook(t)
    BY <1>1, <2>2, PlaybookEffects DEF RunPlaybook, AheadOf, SameCall, HasLeft
  <2>3. CASE RunMock(t)
    BY <1>1, <2>3, MockEffects
       DEF RunMock, MockRestore, LoadForMock, SaveMockDrift, Placed, Drifts, AheadOf
  <2>4. CASE AddIncident(t) \/ EmitEvent(t) \/ Respond(t)
    BY <1>1, <2>4, RecordingEffects DEF AheadOf
  <2> QED BY <2>1, <2>2, <2>3, <2>4 DEF Step
<1>5. \A u \in Threads : ~AheadOf(u)'
  BY <1>4 DEF AheadOf, Outside
<1>6. ~Ahead /\ ~Ahead'
  BY <1>1, <1>3, <1>5, HolderAhead DEF Ahead, AheadOf
<1> QED BY <1>2, <1>5, <1>6 DEF TrendAgrees, AheadOf, ScansUpTo

\* Every step keeps the agreement of the trend and the evidence.
LEMMA NextAgrees == RecordInv /\ TrendAgrees /\ [Next]_vars => TrendAgrees'
<1> SUFFICES ASSUME RecordInv, TrendAgrees, [Next]_vars PROVE TrendAgrees'
  OBVIOUS
<1>1. /\ IInv /\ pc \in [Threads -> Locations] /\ call \in [Threads -> Calls] /\ crashes \in Nat
  BY DEF RecordInv, IInv, TypeOK
<1>2. ASSUME NEW t \in Threads, Step(t), ~Acquire(t) PROVE TrendAgrees'
  <2>1. /\ pc[t] \in Working /\ crashes' = crashes
        /\ \A u \in Threads : u # t => pc'[u] = pc[u] /\ pc[u] \in Outside
    BY <1>1, <1>2, StepFrame
  <2> QED BY <1>2, <2>1, SaveScanAgrees, RecordAgrees, OtherAgrees
<1>3. ASSUME NEW t \in Threads, Submit(t) \/ Acquire(t) PROVE TrendAgrees'
  <2>1. /\ doc' = doc /\ crashes' = crashes
        /\ \A u \in Threads : u # t => pc'[u] = pc[u] /\ call'[u] = call[u]
        /\ pc[t] # "record" /\ pc'[t] # "record"
    BY <1>1, <1>3 DEF Submit, Acquire, Goto, Rest, Bounds, counters
  <2>2. \A u \in Threads : AheadOf(u)' => AheadOf(u) /\ call'[u] = call[u]
    BY <2>1 DEF AheadOf
  <2>3. Ahead' <=> Ahead
    BY <2>1 DEF Ahead
  <2> QED BY <2>1, <2>2, <2>3 DEF TrendAgrees, AheadOf, ScansUpTo
<1>4. CASE UNCHANGED <<doc, pc, call, crashes>>
  BY <1>4 DEF TrendAgrees, Ahead, ScansUpTo
<1>5. CASE Crash
  BY <1>1, <1>5 DEF Crash, TrendAgrees
<1>6. Tick \/ ManualRemediation \/ UNCHANGED vars => UNCHANGED <<doc, pc, call, crashes>>
  BY DEF Tick, ManualRemediation, vars, counters
<1> QED BY <1>2, <1>3, <1>4, <1>5, <1>6 DEF Next, Quiet

\* The trend and the evidence agree up to the one scan that is ahead.
THEOREM TrendAgreement == Spec => []TrendAgrees
<1>1. Init => TrendAgrees
  BY DEF Init, TrendAgrees, DefaultDocument
<1> QED BY <1>1, NextAgrees, RecordInvariant, PTL DEF Spec

\* Between actions the n-th newest scan on record scored 100 percent exactly
\* if its verdict is "succeeded".
THEOREM TrendBacked == Spec => []TrendBacksEvidence
<1>1. ASSUME RecordInv, TrendAgrees PROVE TrendBacksEvidence
  <2> SUFFICES ASSUME Settled, NEW i \in 1..Len(doc.evidence),
                      doc.evidence[i].action = "run_compliance_scan",
                      ScansUpTo(i) <= Len(doc.trend)
               PROVE  doc.trend[ScansUpTo(i)].pct = 100 <=> doc.evidence[i].status = "succeeded"
    BY DEF TrendBacksEvidence
  <2>1. ~Ahead
    BY <1>1, NoThreadAssumption DEF RecordInv, IInv, LockHeld, Settled, Working, Locations, Ahead
  <2>2. ScansUpTo(i) + 0 = ScansUpTo(i)
    BY ScansType DEF Scans, ScansUpTo
  <2> QED BY <1>1, <2>1, <2>2 DEF TrendAgrees, Settled, Agree
<1> QED BY <1>1, RecordInvariant, TrendAgreement, PTL

-----------------------------------------------------------------------------
(* In mock mode the evidence tells one story.                              *)

Deciding(log, i) ==
  {j \in i+1 .. Len(log) : log[j].action \notin {"run_compliance_scan", "inject_synthetic_incident"}}

\* The newest entry older than the i-th that decides.
Newest(log, i, n) == n \in Deciding(log, i) /\ \A j \in Deciding(log, i) : n <= j

\* An insert shifts the entries that decide by one, and may be one itself.
LEMMA InsertDecides ==
  ASSUME NEW log \in Seq(Entries), NEW entry \in Entries, Len(log) <= LogLimit
  PROVE  LET after == Insert(log, entry, LogLimit)
             decides == entry.action \notin {"run_compliance_scan", "inject_synthetic_incident"}
         IN  /\ \A i \in 1..Len(after) : \A j \in Deciding(after, i) :
                  j - 1 \in Deciding(log, i - 1) /\ after[j] = log[j - 1]
             /\ \A i \in 1..Len(after) : \A n :
                  Newest(after, i, n) => Newest(log, i - 1, n - 1)
             /\ \A n : Newest(after, 0, n) =>
                  IF decides THEN n = 1
                  ELSE Newest(log, 0, n - 1) /\ after[n] = log[n - 1]
<1> DEFINE after == Insert(log, entry, LogLimit)
           decides == entry.action \notin {"run_compliance_scan", "inject_synthetic_incident"}
<1>1. /\ after # << >> /\ after[1] = entry
      /\ \A k \in 2..Len(after) : after[k] = log[k - 1]
      /\ Len(after) \in Nat /\ Len(after) <= Len(log) + 1 /\ Len(log) \in Nat
  BY LimitAssumption, LogInserts
<1>2. Len(after) >= 1
  <2>1. after \in Seq(Entries) /\ after # << >>
    BY LimitAssumption, LogInserts
  <2> HIDE DEF after
  <2> QED BY <2>1
<1> HIDE DEF after
<1>3. ASSUME NEW i \in 1..Len(after), NEW j \in Deciding(after, i)
      PROVE  j - 1 \in Deciding(log, i - 1) /\ after[j] = log[j - 1] /\ j \in 2..Len(after)
  <2>1. j \in 2..Len(after) /\ j - 1 \in (i - 1) + 1 .. Len(log)
    BY <1>1 DEF Deciding
  <2> QED BY <1>1, <2>1 DEF Deciding
<1>4. ASSUME NEW i \in Nat, NEW j \in Deciding(log, i), j + 1 <= Len(after)
      PROVE  j + 1 \in Deciding(after, i + 1) /\ j + 1 \in Deciding(after, 0)
  <2>0. j \in i+1 .. Len(log)
    BY DEF Deciding
  <2>1. j + 1 \in 2..Len(after) /\ (j + 1) - 1 = j /\ j + 1 \in (i + 1) + 1 .. Len(after)
    BY <1>1, <1>4, <2>0
  <2>2. after[j + 1] = log[j]
    BY <1>1, <2>1
  <2> QED BY <2>1, <2>2 DEF Deciding
<1>5. ASSUME NEW i \in 1..Len(after), NEW n, Newest(after, i, n)
      PROVE  Newest(log, i - 1, n - 1)
  <2>1. n - 1 \in Deciding(log, i - 1) /\ n \in 2..Len(after) /\ i - 1 \in Nat /\ (i - 1) + 1 = i
    BY <1>3, <1>5 DEF Newest
  <2>2. ASSUME NEW j \in Deciding(log, i - 1) PROVE n - 1 <= j
    <3>1. j \in Nat
      BY <2>1 DEF Deciding
    <3>2. CASE j + 1 <= Len(after)
      <4>1. j + 1 \in Deciding(after, i)
        BY <1>4, <2>1, <3>2
      <4> QED BY <1>5, <2>1, <3>1, <4>1 DEF Newest
    <3>3. CASE ~(j + 1 <= Len(after))
      BY <1>1, <2>1, <3>1, <3>3
    <3> QED BY <3>2, <3>3
  <2> QED BY <2>1, <2>2 DEF Newest
<1>6. ASSUME NEW n, Newest(after, 0, n), decides PROVE n = 1
  <2>1. 1 \in Deciding(after, 0)
    BY <1>1, <1>2, <1>6 DEF Deciding
  <2> QED BY <1>1, <1>6, <2>1 DEF Newest, Deciding
<1>7. ASSUME NEW n, Newest(after, 0, n), ~decides
      PROVE  Newest(log, 0, n - 1) /\ after[n] = log[n - 1]
  <2>1. n \in 1..Len(after) /\ n # 1
    BY <1>1, <1>7 DEF Newest, Deciding
  <2>2. n \in Deciding(after, 1) /\ 1 \in 1..Len(after) /\ 1 - 1 = 0
    BY <1>1, <1>2, <1>7, <2>1 DEF Newest, Deciding
  <2>3. \A j \in Deciding(after, 1) : j \in Deciding(after, 0)
    BY <1>1 DEF Deciding
  <2>4. Newest(after, 1, n)
    BY <1>7, <2>2, <2>3 DEF Newest
  <2> QED BY <1>3, <1>5, <2>2, <2>4
<1> HIDE DEF decides
<1> QED BY <1>3, <1>5, <1>6, <1>7 DEF after, decides

\* Outside an action nothing is about to be recorded.
LEMMA OutsideMock ==
  ASSUME NEW t \in Threads, pc'[t] \in Outside
  PROVE  MockKnown(t)' /\ ~Unrecorded(t)' /\ pc'[t] # "record"
BY DEF Outside, MockKnown, Unrecorded

\* A step that neither records nor lets a control change keeps the story.
LEMMA StoryKept ==
  ASSUME MockSays, MockVerdictsFollowDrifts, NEW t \in Threads,
         UNCHANGED <<mock, crashes>>, doc'.evidence = doc.evidence,
         Passes' <=> Passes, doc'.compliance.password = doc.compliance.password,
         ~Unrecorded(t), ~Unrecorded(t)',
         \A u \in Threads : u # t => pc'[u] = pc[u] /\ pc[u] \in Outside
  PROVE  MockSays' /\ MockVerdictsFollowDrifts'
<1>1. \A u \in Threads : ~Unrecorded(u) /\ ~Unrecorded(u)'
  BY DEF Unrecorded, Outside
<1>2. \A u \in Threads : ~(pc'[u] = "record" /\ call'[u].action = "create_environment")
  BY <1>1 DEF Unrecorded
<1>3. Decisive(0)' = Decisive(0)
  BY DEF Decisive
<1>4. MockSays'
  BY <1>1, <1>2, <1>3 DEF MockSays
<1>5. MockVerdictsFollowDrifts'
  BY DEF MockVerdictsFollowDrifts, Decisive
<1> QED BY <1>4, <1>5

\* A create or drift of the mock mode saves its effect.
LEMMA EffectSaved ==
  ASSUME MockSays, MockVerdictsFollowDrifts, NEW t \in Threads,
         UNCHANGED <<mock, crashes>>, doc'.evidence = doc.evidence,
         Unrecorded(t)', call'[t].action \in Drifts <=> ~Passes',
         \/ doc'.compliance.password
         \/ /\ doc'.compliance.password = doc.compliance.password
            /\ call'[t].action # "create_environment",
         \A u \in Threads : u # t => pc'[u] = pc[u] /\ pc[u] \in Outside
  PROVE  MockSays' /\ MockVerdictsFollowDrifts'
<1>1. \A u \in Threads : pc'[u] = "record" => u = t
  BY DEF Outside
<1>2. \A u \in Threads : Unrecorded(u)' => u = t
  BY <1>1 DEF Unrecorded
<1>3. MockSays'
  BY <1>1, <1>2 DEF MockSays
<1>4. MockVerdictsFollowDrifts'
  BY DEF MockVerdictsFollowDrifts, Decisive
<1> QED BY <1>3, <1>4

\* An action of the mock mode records its verdict.
LEMMA VerdictRecorded ==
  ASSUME RecordInv, MockInv, mock, crashes = 0, NEW t \in Threads, RecordAction(t),
         UNCHANGED <<mock, crashes>>,
         \A u \in Threads : u # t => pc'[u] = pc[u] /\ pc[u] \in Outside
  PROVE  MockSays' /\ MockVerdictsFollowDrifts'
<1> DEFINE entry == [action |-> call[t].action, status |-> call[t].outcome]
           log   == doc.evidence
           after == Insert(log, entry, LogLimit)
           decides == call[t].action \notin {"run_compliance_scan", "inject_synthetic_incident"}
<1>1. IInv /\ MockKnown(t) /\ MockSays /\ MockVerdictsFollowDrifts
  BY DEF RecordInv, MockInv
<1>2. /\ call[t].action \in Actions /\ call[t].outcome \in Verdicts
      /\ doc.controls \in Controls /\ doc.compliance \in Compliance
      /\ log \in Seq(Entries) /\ Len(log) <= LogLimit
  BY <1>1 DEF IInv, TypeOK, Calls, Documents, LogsBounded
<1>3. /\ pc[t] = "record" /\ pc'[t] # "record" /\ entry \in Entries
      /\ doc'.evidence = after
      /\ doc'.controls = RecordedControls(t) /\ doc'.compliance = RecordedCompliance(t)
  BY <1>1, RecordingEffects DEF RecordAction
<1>4. /\ \A i \in 1..Len(after) : \A j \in Deciding(after, i) :
           j - 1 \in Deciding(log, i - 1) /\ after[j] = log[j - 1]
      /\ \A i \in 1..Len(after) : \A n : Newest(after, i, n) => Newest(log, i - 1, n - 1)
      /\ \A n : Newest(after, 0, n) =>
           IF decides THEN n = 1 ELSE Newest(log, 0, n - 1) /\ after[n] = log[n - 1]
  <2>1. entry.action = call[t].action
    OBVIOUS
  <2> HIDE DEF entry
  <2> QED BY <1>2, <1>3, <2>1, InsertDecides
<1>5. /\ after[1].action = call[t].action /\ after[1].status = call[t].outcome
      /\ \A i \in 2..Len(after) : after[i] = log[i - 1] /\ i - 1 \in 1..Len(log)
      /\ Len(after) \in Nat
  <2>1. entry.action = call[t].action /\ entry.status = call[t].outcome
    OBVIOUS
  <2> HIDE DEF entry
  <2>2. /\ after[1] = entry /\ Len(after) \in Nat /\ Len(after) <= Len(log) + 1
        /\ \A i \in 2..Len(after) : after[i] = log[i - 1]
    <3>1. LogLimit \in Nat \ {0}
      BY LimitAssumption
    <3> QED BY <1>2, <1>3, <3>1, LogInserts
  <2> HIDE DEF after
  <2> QED BY <1>2, <2>1, <2>2
<1> HIDE DEF after, entry
<1>6. /\ \A i : \A n : (n \in Decisive(i) /\ \A j \in Decisive(i) : n <= j) <=> Newest(log, i, n)
      /\ \A i : \A n : (n \in Decisive(i)' /\ \A j \in Decisive(i)' : n <= j) <=> Newest(after, i, n)
      /\ \A i : Decisive(i) = Deciding(log, i) /\ Decisive(i)' = Deciding(after, i)
  BY <1>3 DEF Decisive, Deciding, Newest
\* What the document says of the controls afterwards.
<1>7. /\ decides => (call[t].action \in Drifts <=> ~Passes')
      /\ ~decides => (Passes' <=> Passes)
  <2>1. CASE call[t].action \in Drifts \cup {"create_environment"}
    <3>1. Unrecorded(t) /\ doc'.controls = doc.controls
      BY <1>1, <1>3, <2>1
         DEF Unrecorded, MockKnown, RecordedControls, PlaybookActions, Actions, Drifts
    <3> QED BY <1>1, <2>1, <3>1 DEF MockSays, Passes, Drifts
  <2>2. CASE call[t].action \in {"apply_baseline", "run_remediation"}
    <3>1. doc'.controls = Approved.controls
      BY <1>1, <1>3, <2>2 DEF MockKnown, RecordedControls, PlaybookActions, Actions, Drifts
    <3> QED BY <2>2, <3>1 DEF Approved, Passes, Drifts
  <2>3. CASE call[t].action \in {"run_compliance_scan", "inject_synthetic_incident"}
    <3>1. doc'.controls = doc.controls
      BY <1>1, <1>3, <2>3 DEF MockKnown, RecordedControls, PlaybookActions, Actions, Drifts
    <3> QED BY <2>3, <3>1 DEF Passes
  <2> QED BY <1>2, <2>1, <2>2, <2>3 DEF Actions
<1>8. /\ call[t].action = "run_remediation" => doc'.compliance.password
      /\ doc.compliance.password => doc'.compliance.password
  <2>1. CASE call[t].action = "run_remediation"
    BY <1>1, <1>3, <2>1 DEF MockKnown, RecordedCompliance, Approved
  <2>2. CASE call[t].action # "run_remediation"
    <3>1. doc'.compliance = doc.compliance
      BY <1>1, <1>3, <2>2 DEF MockKnown, RecordedCompliance
    <3> QED BY <2>2, <3>1
  <2> QED BY <2>1, <2>2
\* MockSays.
<1>9. \A u \in Threads : pc'[u] # "record" /\ ~Unrecorded(u)'
  BY <1>3 DEF Unrecorded, Outside
<1>10. \A u \in Threads : u # t => ~Unrecorded(u)
  BY DEF Unrecorded, Outside
<1>11. ASSUME NEW n, Newest(after, 0, n) PROVE after[n].action \in Drifts <=> ~Passes'
  <2>1. CASE decides
    BY <1>4, <1>5, <1>7, <1>11, <2>1
  <2>2. CASE ~decides
    <3>1. Newest(log, 0, n - 1) /\ after[n] = log[n - 1]
      BY <1>4, <1>11, <2>2
    <3>2. \A u \in Threads : ~Unrecorded(u)
      BY <1>10, <2>2 DEF Unrecorded, Drifts
    <3>3. log[n - 1].action \in Drifts <=> ~Passes
      BY <1>1, <1>6, <3>1, <3>2 DEF MockSays
    <3> QED BY <1>7, <2>2, <3>1, <3>3
  <2> QED BY <2>1, <2>2
<1>12. ASSUME NEW i \in 1..Len(after),
              after[i].action \in {"create_environment", "run_remediation"}
       PROVE  doc'.compliance.password
  <2>1. CASE i = 1
    BY <1>1, <1>3, <1>5, <1>8, <1>12, <2>1 DEF MockSays
  <2>2. CASE i # 1
    <3>1. i - 1 \in 1..Len(log) /\ after[i] = log[i - 1]
      BY <1>5, <2>2
    <3> QED BY <1>1, <1>8, <1>12, <3>1 DEF MockSays
  <2> QED BY <2>1, <2>2
<1>13. MockSays'
  BY <1>3, <1>6, <1>9, <1>11, <1>12 DEF MockSays
\* MockVerdictsFollowDrifts.
<1>14. ASSUME NEW i \in 1..Len(after), NEW n, Newest(after, i, n),
              after[i].action = "run_compliance_scan",
              NEW j \in Deciding(after, i),
              after[j].action \in {"create_environment", "run_remediation"}
       PROVE  after[i].status = "failed" <=> after[n].action \in Drifts
  <2>1. /\ Newest(log, i - 1, n - 1) /\ after[n] = log[n - 1]
        /\ j - 1 \in Deciding(log, i - 1) /\ after[j] = log[j - 1]
    BY <1>4, <1>14 DEF Newest
  <2>2. CASE i = 1
    <3>1. /\ Newest(log, 0, n - 1) /\ j - 1 \in Deciding(log, 0)
          /\ log[j - 1].action \in {"create_environment", "run_remediation"}
      <4>1. 1 - 1 = 0
        OBVIOUS
      <4> QED BY <1>14, <2>1, <2>2, <4>1
    <3>2. j - 1 \in 1..Len(log)
      BY <3>1 DEF Deciding
    <3>3. doc.compliance.password
      BY <1>1, <3>1, <3>2 DEF MockSays
    <3>4. call[t].action = "run_compliance_scan"
      BY <1>5, <1>14, <2>2
    <3>5. \A u \in Threads : ~Unrecorded(u)
      BY <1>10, <3>4 DEF Unrecorded, Drifts
    <3>6. log[n - 1].action \in Drifts <=> ~Passes
      BY <1>1, <1>6, <3>1, <3>5 DEF MockSays
    <3>7. call[t].outcome = "failed" <=> ~Passes
      BY <1>1, <1>2, <1>3, <3>3, <3>4 DEF MockKnown, Verdicts
    <3> QED BY <1>5, <2>1, <2>2, <3>6, <3>7
  <2>3. CASE i # 1
    <3>1. i - 1 \in 1..Len(log) /\ after[i] = log[i - 1]
      BY <1>5, <2>3
    <3>2. /\ n - 1 \in Decisive(i - 1) /\ (\A m \in Decisive(i - 1) : n - 1 <= m)
          /\ j - 1 \in Decisive(i - 1)
      BY <1>6, <2>1
    <3>3. log[i - 1].status = "failed" <=> log[n - 1].action \in Drifts
      BY <1>1, <1>14, <2>1, <3>1, <3>2 DEF MockVerdictsFollowDrifts
    <3> QED BY <2>1, <3>1, <3>3
  <2> QED BY <2>2, <2>3
<1>15. MockVerdictsFollowDrifts'
  BY <1>3, <1>6, <1>14 DEF MockVerdictsFollowDrifts
<1> QED BY <1>13, <1>15

\* The steps of the mock mode.
LEMMA MockStep ==
  ASSUME RecordInv, MockInv, mock, NEW t \in Threads, Step(t), ~Acquire(t),
         UNCHANGED <<mock, crashes>>,
         \A u \in Threads : u # t => pc'[u] = pc[u] /\ pc[u] \in Outside
  PROVE  MockSays' /\ MockVerdictsFollowDrifts' /\ MockKnown(t)'
<1>1. IInv /\ Placed(t) /\ MockKnown(t) /\ MockSays /\ MockVerdictsFollowDrifts
  BY DEF RecordInv, MockInv, Story, Known
<1>2. doc.controls \in Controls /\ doc.compliance \in Compliance
  BY <1>1 DEF IInv, TypeOK, Documents
<1> USE DEF SameMaps, SameLogs, SameCall
<1>3. CASE \/ MockApplied(t) \/ MockDirectory(t) \/ LoadForCreate(t) \/ MockRestore(t)
           \/ AddIncident(t) \/ EmitEvent(t) \/ Respond(t) \/ DirectoryFails(t)
  <2>1. /\ doc'.evidence = doc.evidence /\ SameMaps
        /\ pc[t] # "record" /\ pc'[t] \notin {"save_scan", "save_drift"}
        /\ pc'[t] = "record" =>
             \/ call'[t].action = "inject_synthetic_incident"
             \/ /\ call'[t].action \in {"apply_baseline", "run_remediation"}
                /\ call'[t].found = Approved
    BY <1>1, <1>3, CreateEffects, MockEffects, RecordingEffects
       DEF MockApplied, MockDirectory, LoadForCreate, MockRestore, AddIncident, EmitEvent,
           Respond, DirectoryFails, HasLeft
  <2>2. ~Unrecorded(t) /\ ~Unrecorded(t)' /\ (Passes' <=> Passes)
    BY <2>1 DEF Unrecorded, Drifts, Passes
  <2>3. MockKnown(t)'
    BY <2>1 DEF MockKnown, Drifts
  <2> QED BY <1>1, <2>1, <2>2, <2>3, StoryKept
<1>4. CASE LoadForMock(t)
  <2>1. /\ doc' = doc /\ pc[t] = "begin"
        /\ pc'[t] = (IF call[t].action \in Drifts THEN "save_drift" ELSE "save_scan")
        /\ call'[t].action = call[t].action
        /\ call[t].action \in Drifts \cup {"run_compliance_scan"}
        /\ call'[t].found = MockFound(call[t].action)
    BY <1>1, <1>4, MockEffects DEF LoadForMock
  <2>2. ~Unrecorded(t) /\ ~Unrecorded(t)' /\ (Passes' <=> Passes)
    BY <2>1 DEF Unrecorded, Passes
  <2>3. /\ call[t].action \in Drifts =>
             call'[t].found.controls = DriftedControls(doc.controls, call[t].action)
        /\ call[t].action \notin Drifts =>
             /\ call'[t].found.controls = doc.controls
             /\ call'[t].found.compliance = [root     |-> doc.controls.root,
                                             password |-> doc.compliance.password]
    BY <1>2, <2>1 DEF MockFound, Compliance
  <2>4. MockKnown(t)'
    BY <2>1, <2>3 DEF MockKnown
  <2> QED BY <1>1, <2>1, <2>2, <2>4, StoryKept
<1>5. CASE SaveCreated(t)
  <2>1. /\ pc'[t] = "record" /\ call'[t].action = "create_environment"
        /\ doc'.controls = Approved.controls /\ doc'.compliance = Approved.compliance
        /\ doc'.evidence = doc.evidence
    BY <1>1, <1>5, CreateEffects DEF SaveCreated, Placed, CreateLocations, NewMaps
  <2>2. Passes' /\ doc'.compliance.password
    BY <2>1 DEF Approved, Passes
  <2>3. Unrecorded(t)' /\ call'[t].action \notin Drifts
    BY <2>1 DEF Unrecorded, Drifts
  <2>4. MockKnown(t)'
    BY <2>1 DEF MockKnown, Drifts
  <2> QED BY <1>1, <2>1, <2>2, <2>3, <2>4, EffectSaved
<1>6. CASE SaveMockDrift(t)
  <2>1. /\ pc[t] = "save_drift" /\ pc'[t] = "record" /\ call'[t].action = call[t].action
        /\ call[t].action \in Drifts /\ call'[t].found = call[t].found
        /\ doc'.controls = call[t].found.controls /\ doc'.compliance = doc.compliance
        /\ doc'.evidence = doc.evidence
    BY <1>1, <1>6, MockEffects DEF SaveMockDrift, Placed
  <2>2. doc'.controls = DriftedControls(doc.controls, call[t].action)
    BY <1>1, <2>1 DEF MockKnown
  <2>3. ~Passes'
    BY <1>2, <2>2 DEF DriftedControls, Passes, Controls
  <2>4. Unrecorded(t)' /\ call'[t].action # "create_environment"
    BY <2>1 DEF Unrecorded, Drifts
  <2>5. MockKnown(t)'
    BY <2>1 DEF MockKnown, Drifts
  <2> QED BY <1>1, <2>1, <2>3, <2>4, <2>5, EffectSaved
<1>7. CASE SaveScan(t)
  <2>1. /\ pc[t] = "save_scan" /\ pc'[t] = "record" /\ call'[t].action = "run_compliance_scan"
        /\ call'[t].found = call[t].found
        /\ call'[t].outcome = (IF Compliant(call[t].found.controls, call[t].found.compliance)
                               THEN "succeeded" ELSE "failed")
        /\ doc'.controls = call[t].found.controls
        /\ doc'.compliance = call[t].found.compliance
        /\ doc'.evidence = doc.evidence
    BY <1>1, <1>7, PlaybookEffects DEF SaveScan, Placed
  <2>2. /\ doc'.controls = doc.controls
        /\ doc'.compliance = [root |-> doc.controls.root, password |-> doc.compliance.password]
    BY <1>1, <2>1 DEF MockKnown
  <2>3. /\ Passes' <=> Passes
        /\ doc'.compliance.password = doc.compliance.password
        /\ doc'.compliance.root = doc'.controls.root
    BY <2>2 DEF Passes
  <2>4. ~Unrecorded(t) /\ ~Unrecorded(t)'
    BY <2>1 DEF Unrecorded, Drifts
  <2>5. call[t].found \in [controls: Controls, compliance: Compliance]
    BY <1>1 DEF IInv, TypeOK, Calls
  <2>6. call'[t].found = [controls |-> doc'.controls, compliance |-> doc'.compliance]
    BY <2>1, <2>5
  <2>7. call'[t].outcome = "succeeded" <=> Passes' /\ doc'.compliance.password
    BY <2>1, <2>3 DEF Compliant, Passes
  <2>8. MockKnown(t)'
    BY <2>1, <2>6, <2>7 DEF MockKnown, Drifts
  <2> QED BY <1>1, <2>1, <2>3, <2>4, <2>8, StoryKept
<1>8. CASE RecordAction(t)
  <2>1. pc'[t] \in {"event", "respond"}
    BY <1>1, <1>8, RecordingEffects
  <2>2. MockKnown(t)'
    BY <2>1 DEF MockKnown
  <2>3. crashes # 0 => MockSays' /\ MockVerdictsFollowDrifts'
    BY DEF MockSays, MockVerdictsFollowDrifts
  <2> QED BY <1>8, <2>2, <2>3, VerdictRecorded
\* The other steps are those of the live mode.
<1>9. \/ MockApplied(t) \/ MockDirectory(t) \/ LoadForCreate(t) \/ MockRestore(t)
      \/ AddIncident(t) \/ EmitEvent(t) \/ Respond(t) \/ DirectoryFails(t)
      \/ LoadForMock(t) \/ SaveCreated(t) \/ SaveMockDrift(t) \/ SaveScan(t) \/ RecordAction(t)
  <2>1. ~(\/ CreateBlocked(t) \/ CreateDirectory(t) \/ MarkRunning(t) \/ TerraformApply(t)
          \/ MarkFailed(t) \/ MarkApplied(t) \/ CreatedReadFails(t))
    BY <1>1 DEF Placed, CreateBlocked, CreateDirectory, MarkRunning, TerraformApply,
                MarkFailed, MarkApplied, CreatedReadFails
  <2>2. ~(\/ NoEnvironment(t) \/ StartPlaybook(t) \/ RunTask(t) \/ PlaybookSucceeds(t)
          \/ PlaybookFails(t) \/ JobSucceeded(t) \/ JobFailed(t) \/ LoadForScan(t)
          \/ ReadFails(t) \/ BaselineReadFails(t))
    BY <1>1 DEF Placed, NoEnvironment, StartPlaybook, RunTask, PlaybookSucceeds, PlaybookFails,
                JobSucceeded, JobFailed, LoadForScan, ReadFails, BaselineReadFails
  <2> QED BY <2>1, <2>2 DEF Step, Create, RunPlaybook, RunMock
<1> QED BY <1>3, <1>4, <1>5, <1>6, <1>7, <1>8, <1>9

\* Every step keeps MockInv.
LEMMA NextMock == RecordInv /\ MockInv /\ [Next]_vars => MockInv'
<1> SUFFICES ASSUME RecordInv, MockInv, [Next]_vars PROVE MockInv'
  OBVIOUS
<1>1. /\ IInv /\ pc \in [Threads -> Locations] /\ call \in [Threads -> Calls] /\ crashes \in Nat
      /\ MockSays /\ MockVerdictsFollowDrifts /\ \A t \in Threads : MockKnown(t)
  BY DEF RecordInv, MockInv, IInv, TypeOK
<1>2. ASSUME NEW t \in Threads, Step(t), ~Acquire(t) PROVE MockInv'
  <2>1. /\ UNCHANGED <<mock, crashes>>
        /\ \A u \in Threads : u # t => pc'[u] = pc[u] /\ pc[u] \in Outside
    BY <1>1, <1>2, StepFrame
  <2>2. \A u \in Threads : u # t => MockKnown(u)'
    BY <2>1, OutsideMock
  <2>3. CASE ~mock
    BY <2>1, <2>3 DEF MockInv, MockSays, MockVerdictsFollowDrifts, MockKnown
  <2>4. CASE mock
    <3>1. MockSays' /\ MockVerdictsFollowDrifts' /\ MockKnown(t)'
      BY <1>2, <2>1, <2>4, MockStep
    <3> QED BY <2>2, <3>1 DEF MockInv
  <2> QED BY <2>3, <2>4
<1>3. ASSUME NEW t \in Threads, Submit(t) \/ Acquire(t) PROVE MockInv'
  <2>1. /\ doc' = doc /\ UNCHANGED <<mock, crashes>>
        /\ \A u \in Threads : u # t => pc'[u] = pc[u] /\ call'[u] = call[u]
        /\ pc[t] \in Outside /\ pc'[t] \in {"waiting", "begin"}
    BY <1>1, <1>3 DEF Submit, Acquire, Goto, Rest, Bounds, counters, Outside
  <2>2. MockKnown(t)' /\ ~Unrecorded(t)' /\ ~Unrecorded(t) /\ pc'[t] # "record"
    BY <2>1 DEF MockKnown, Unrecorded, Outside
  <2>3. ASSUME NEW u \in Threads, u # t
        PROVE  MockKnown(u)' /\ (Unrecorded(u)' <=> Unrecorded(u))
    <3>1. MockKnown(u) /\ pc'[u] = pc[u] /\ call'[u] = call[u]
      BY <1>1, <2>1, <2>3
    <3>2. Unrecorded(u)' <=> Unrecorded(u)
      BY <3>1 DEF Unrecorded
    <3>3. MockKnown(u)'
      BY <2>1, <3>1, Zenon DEF MockKnown, Passes
    <3> QED BY <3>2, <3>3
  <2>4. MockSays'
    BY <1>1, <2>1, <2>2, <2>3 DEF MockSays, Passes, Decisive
  <2>5. MockVerdictsFollowDrifts'
    BY <1>1, <2>1 DEF MockVerdictsFollowDrifts, Decisive
  <2> QED BY <2>2, <2>3, <2>4, <2>5 DEF MockInv
<1>4. CASE UNCHANGED <<mock, doc, pc, call, crashes>>
  BY <1>1, <1>4
     DEF MockInv, MockSays, MockVerdictsFollowDrifts, MockKnown, Decisive, Passes, Unrecorded
<1>5. CASE Crash
  <2>1. (\A t \in Threads : pc'[t] \in Outside) /\ crashes' # 0
    BY <1>1, <1>5 DEF Crash, Outside
  <2> QED BY <2>1, OutsideMock DEF MockInv, MockSays, MockVerdictsFollowDrifts
<1>6. Tick \/ ManualRemediation \/ UNCHANGED vars => UNCHANGED <<mock, doc, pc, call, crashes>>
  BY DEF Tick, ManualRemediation, vars, counters
<1> QED BY <1>2, <1>3, <1>4, <1>5, <1>6 DEF Next, Quiet

\* In mock mode documents, evidence and locals tell one story until a crash.
THEOREM MockInvariant == Spec => []MockInv
<1>1. ASSUME Init PROVE MockInv
  <2>1. Len(doc.evidence) = 0 /\ \A t \in Threads : pc[t] = "idle"
    BY <1>1 DEF Init, DefaultDocument
  <2>2. Decisive(0) = {} /\ \A t \in Threads : ~Unrecorded(t) /\ MockKnown(t)
    BY <2>1 DEF Decisive, Unrecorded, MockKnown
  <2> QED BY <2>1, <2>2 DEF MockInv, MockSays, MockVerdictsFollowDrifts
<1> QED BY <1>1, NextMock, RecordInvariant, PTL DEF Spec

\* A scan of the mock mode fails exactly if a drift was the last to decide.
THEOREM MockVerdictsExplained == Spec => []MockVerdictsFollowDrifts
<1>1. MockInv => MockVerdictsFollowDrifts
  BY DEF MockInv
<1> QED BY <1>1, MockInvariant, PTL
=============================================================================
