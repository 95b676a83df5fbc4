------------------------------- MODULE LocalLab -------------------------------
(***************************************************************************)
(* LocalLabBackend: the request threads of the API server call its seven   *)
(* actions, each decorated with _serialize_action, against one state       *)
(* document, the directories of the created environments, and Terraform    *)
(* and Ansible subprocesses that may fail at any point.  In mock mode the  *)
(* same actions edit the document alone.                                   *)
(*                                                                         *)
(* A step is one write of the document, one subprocess task, or the reads  *)
(* between them.  A single document write is atomic: module StateFile      *)
(* shows that _load_state, _save_state and _mutate_state implement that.   *)
(* A _load_state ... _save_state pair is two steps, as in the code.        *)
(***************************************************************************)
EXTENDS LabDocument, FiniteSets

CONSTANTS
  Modes,        \* the values self._mock_mode may have
  Threads,      \* request threads of the API server
  Offered,      \* the actions clients ask for
  NoThread,     \* action_lock is free
  MaxRequests,  \* bound: requests ever submitted
  MaxCrashes,   \* bound: crashes of the API server process
  MaxManual,    \* bound: remediation playbooks an operator runs by hand
  MaxFailures   \* bound: accesses to the environment's files that raise

ASSUME ModeAssumption     == Modes \in (SUBSET BOOLEAN) \ {{}}
ASSUME OfferedAssumption  == Offered \subseteq Actions
ASSUME NoThreadAssumption == NoThread \notin Threads
ASSUME BoundAssumption    == {MaxRequests, MaxCrashes, MaxManual, MaxFailures} \subseteq Nat

VARIABLES
  mock,      \* self._mock_mode, fixed when the backend is built
  doc,       \* the document in state.json
  files,     \* per environment, the files of its runtime directory
  clock,     \* int(self._clock())
  lock,      \* the thread holding action_lock
  pc,        \* per thread, the point its action has reached
  call,      \* per thread, the locals of that action
  unread,    \* environments whose files an exception kept from being read or
             \* written, no failed job showing it, and none has read since
  requests, crashes, manual, failures   \* counters for the bounds

\* What happens to the backend rather than in it.
counters == <<requests, crashes, manual, failures>>
vars  == <<mock, doc, files, clock, lock, pc, call, unread, counters>>

-----------------------------------------------------------------------------
(* The files of an environment directory.  sshd_config and the service     *)
(* state file are kept as what _read_controls looks for in them; the two   *)
(* scan reports as their "status".                                         *)

Reports     == {"missing", "pass", "fail"}
Directories == [root: BOOLEAN, password: BOOLEAN, service: BOOLEAN,
                sshScan: Reports, serviceScan: Reports]

\* _ensure_environment (re)writes both configuration files and no report.
Reset(dir) == [dir EXCEPT !.root = FALSE, !.password = FALSE, !.service = FALSE]

ReadControls(dir)   == [root |-> dir.root, service |-> dir.service]
ReadCompliance(dir) == [root |-> dir.root, password |-> dir.password]

Report(passes) == IF passes THEN "pass" ELSE "fail"

\* What each Ansible task does to the directory in lab mode.
DenyRoot(dir)     == [dir EXCEPT !.root = TRUE]
AllowRoot(dir)    == [dir EXCEPT !.root = FALSE]
DenyPassword(dir) == [dir EXCEPT !.password = TRUE]
StartService(dir) == [dir EXCEPT !.service = TRUE]
StopService(dir)  == [dir EXCEPT !.service = FALSE]
ScanRoot(dir)     == [dir EXCEPT !.sshScan = Report(dir.root)]
ScanService(dir)  == [dir EXCEPT !.serviceScan = Report(dir.service)]

Tasks == {"deny_root", "allow_root", "deny_password", "start_service",
          "stop_service", "scan_root", "scan_service"}

Effect(task, dir) ==
  CASE task = "deny_root"     -> DenyRoot(dir)
    [] task = "allow_root"    -> AllowRoot(dir)
    [] task = "deny_password" -> DenyPassword(dir)
    [] task = "start_service" -> StartService(dir)
    [] task = "stop_service"  -> StopService(dir)
    [] task = "scan_root"     -> ScanRoot(dir)
    [] task = "scan_service"  -> ScanService(dir)

\* Mutated form: the scan no longer runs the service playbook.
PlaybookNoServiceScan(act) ==
  CASE act = "apply_baseline"       -> <<"deny_root", "deny_password", "start_service">>
    [] act = "run_compliance_scan"  -> <<"scan_root">>
    [] act = "inject_ssh_drift"     -> <<"allow_root">>
    [] act = "inject_service_drift" -> <<"stop_service">>
    [] act = "run_remediation"      -> <<"deny_root", "start_service">>

\* The tasks of the playbooks an action runs, one playbook after the other.
Playbook(act) ==
  CASE act = "apply_baseline"       -> <<"deny_root", "deny_password", "start_service">>
    [] act = "run_compliance_scan"  -> <<"scan_root", "scan_service">>
    [] act = "inject_ssh_drift"     -> <<"allow_root">>
    [] act = "inject_service_drift" -> <<"stop_service">>
    [] act = "run_remediation"      -> <<"deny_root", "start_service">>

-----------------------------------------------------------------------------
Locations ==
  {"idle", "waiting", "begin", "mock_directory", "tf_running", "tf_apply",
   "tf_failed", "tf_applied", "load_created", "save_created", "playbook",
   "job_succeeded", "job_failed", "load_scan", "save_scan", "save_drift",
   "record", "event", "respond"}

\* Inside the body of a _serialize_action method.
Working == Locations \ {"idle", "waiting"}

\* Between a _load_state and the _save_state of the same document.
Holding == {"save_created", "save_scan", "save_drift"}

\* The locals of an action: the action and create_environment's
\* eda == "enabled", env_dir, the playbook tasks still to run, the document
\* returned by the last _load_state, the controls a scan found (or an action
\* of the mock mode makes up), and the status to record and answer with.
Calls == [action: Actions, eda: BOOLEAN, env: Seconds, todo: Seq(Tasks),
          snap: Documents,
          found: [controls: Controls, compliance: Compliance],
          outcome: Verdicts]

\* A thread that serves no request; nothing reads these values.
NoCall ==
  [action |-> "create_environment", eda |-> FALSE, env |-> 0, todo |-> << >>,
   snap |-> DefaultDocument,
   found |-> [controls   |-> DefaultDocument.controls,
              compliance |-> DefaultDocument.compliance],
   outcome |-> "succeeded"]

Init ==
  /\ mock \in Modes
  /\ doc = DefaultDocument
  /\ files = [e \in Seconds |-> [root |-> FALSE, password |-> FALSE, service |-> FALSE,
                                 sshScan |-> "missing", serviceScan |-> "missing"]]
  /\ clock = 0
  /\ lock = NoThread
  /\ pc = [t \in Threads |-> "idle"]
  /\ call = [t \in Threads |-> NoCall]
  /\ unread = {}
  /\ requests = 0
  /\ crashes = 0
  /\ manual = 0
  /\ failures = 0

Goto(t, there) == pc' = [pc EXCEPT ![t] = there]

\* The parts of the state most steps leave alone.
Bounds == <<mock, clock, counters>>
Rest   == <<Bounds, unread>>

-----------------------------------------------------------------------------
(* Requests and action_lock.                                               *)

Submit(t) ==
  /\ pc[t] = "idle"
  /\ requests < MaxRequests
  /\ \E a \in Offered, enabled \in BOOLEAN :
       /\ a # "create_environment" => ~enabled
       /\ call' = [call EXCEPT ![t].action = a, ![t].eda = enabled]
  /\ Goto(t, "waiting")
  /\ requests' = requests + 1
  /\ UNCHANGED <<mock, doc, files, clock, lock, unread, crashes, manual, failures>>

\* Mutated form: inject_synthetic_incident is not decorated.
AcquireUnserialised(t) ==
  /\ pc[t] = "waiting"
  /\ lock = NoThread \/ call[t].action = "inject_synthetic_incident"
  /\ lock' = t
  /\ Goto(t, "begin")
  /\ UNCHANGED <<doc, files, call, Rest>>

Acquire(t) ==
  /\ pc[t] = "waiting"
  /\ lock = NoThread
  /\ lock' = t
  /\ Goto(t, "begin")
  /\ UNCHANGED <<doc, files, call, Rest>>

\* Mutated form: a failing method does not release the lock.
RespondKeepsLock(t) ==
  /\ pc[t] = "respond"
  /\ lock' = IF call[t].outcome = "failed" THEN lock ELSE NoThread
  /\ Goto(t, "idle")
  /\ call' = [call EXCEPT ![t] = NoCall]
  /\ UNCHANGED <<doc, files, Rest>>

\* The method returns or raises: its locals are gone, the lock is released
\* and the API answers.
Respond(t) ==
  /\ pc[t] = "respond"
  /\ lock' = NoThread
  /\ Goto(t, "idle")
  /\ call' = [call EXCEPT ![t] = NoCall]
  /\ UNCHANGED <<doc, files, Rest>>

-----------------------------------------------------------------------------
(* create_environment.                                                     *)

\* In mock mode Terraform counts as applied at once.
MockApplied(t) ==
  /\ pc[t] = "begin"
  /\ mock
  /\ call[t].action = "create_environment"
  /\ doc' = Terraform(doc, clock, "applied")
  /\ call' = [call EXCEPT ![t].env = clock]
  /\ Goto(t, "mock_directory")
  /\ UNCHANGED <<files, lock, Rest>>

MockDirectory(t) ==
  /\ pc[t] = "mock_directory"
  /\ files' = [files EXCEPT ![call[t].env] = Reset(@)]
  /\ Goto(t, "load_created")
  /\ UNCHANGED <<doc, lock, call, Rest>>

\* The target has no live Terraform configuration, or its credentials or
\* binaries are not ready.
CreateBlocked(t) ==
  /\ pc[t] = "begin"
  /\ ~mock
  /\ call[t].action = "create_environment"
  /\ call' = [call EXCEPT ![t].outcome = "failed"]
  /\ Goto(t, "record")
  /\ UNCHANGED <<doc, files, lock, Rest>>

CreateDirectory(t) ==
  /\ pc[t] = "begin"
  /\ ~mock
  /\ call[t].action = "create_environment"
  /\ call' = [call EXCEPT ![t].env = clock]
  /\ files' = [files EXCEPT ![clock] = Reset(@)]
  /\ Goto(t, "tf_running")
  /\ UNCHANGED <<doc, lock, Rest>>

MarkRunning(t) ==
  /\ pc[t] = "tf_running"
  /\ doc' = Terraform(doc, call[t].env, "running")
  /\ Goto(t, "tf_apply")
  /\ UNCHANGED <<files, lock, call, Rest>>

\* Mutated form: an exception of Terraform leaves the method at once.
TerraformApplyRaises(t) ==
  /\ pc[t] = "tf_apply"
  /\ \/ Goto(t, "tf_applied")
     \/ Goto(t, "respond")
  /\ UNCHANGED <<doc, files, lock, call, Rest>>

\* terraform init, apply and output, and build_handoff_payload.
TerraformApply(t) ==
  /\ pc[t] = "tf_apply"
  /\ \/ Goto(t, "tf_applied")
     \/ Goto(t, "tf_failed")
  /\ UNCHANGED <<doc, files, lock, call, Rest>>

\* Mutated form: the except branch does not return.
MarkFailedFallsThrough(t) ==
  /\ pc[t] = "tf_failed"
  /\ doc' = Terraform(doc, call[t].env, "failed")
  /\ Goto(t, "load_created")
  /\ UNCHANGED <<files, lock, call, Rest>>

MarkFailed(t) ==
  /\ pc[t] = "tf_failed"
  /\ doc' = Terraform(doc, call[t].env, "failed")
  /\ call' = [call EXCEPT ![t].outcome = "failed"]
  /\ Goto(t, "record")
  /\ UNCHANGED <<files, lock, Rest>>

MarkApplied(t) ==
  /\ pc[t] = "tf_applied"
  /\ doc' = Terraform(doc, call[t].env, "applied")
  /\ Goto(t, "load_created")
  /\ UNCHANGED <<files, lock, call, Rest>>

LoadForCreate(t) ==
  /\ pc[t] = "load_created"
  /\ call' = [call EXCEPT ![t].snap = doc]
  /\ Goto(t, "save_created")
  /\ UNCHANGED <<doc, files, lock, Rest>>

\* The maps a new environment starts with: read from its files, or, in mock
\* mode, with everything passing.
NewMaps(t) ==
  IF mock THEN Approved
  ELSE [controls   |-> ReadControls(files[call[t].env]),
        compliance |-> ReadCompliance(files[call[t].env])]

SaveCreated(t) ==
  /\ pc[t] = "save_created"
  /\ doc' = Created(call[t].snap, call[t].env, call[t].eda,
                    NewMaps(t).controls, NewMaps(t).compliance)
  /\ call' = [call EXCEPT ![t].outcome = "succeeded"]
  /\ unread' = unread \ {call[t].env}
  /\ Goto(t, "record")
  /\ UNCHANGED <<files, lock, Bounds>>

\* An access to the files of an environment raises where no job will show it:
\* the method is left at once, and the document stays as it is.
Leave(t, environment) ==
  /\ failures < MaxFailures
  /\ failures' = failures + 1
  /\ unread' = unread \cup {environment}
  /\ call' = [call EXCEPT ![t].outcome = "failed"]
  /\ Goto(t, "respond")
  /\ UNCHANGED <<mock, doc, lock, clock, requests, crashes, manual>>

\* _ensure_environment writes an inventory, sshd_config and the service file;
\* any of its calls may raise, with none, the first or both of the last two
\* emptied or rewritten (an empty one lets its controls fail, too).
DirectoryFails(t) ==
  LET environment == IF mock THEN call[t].env ELSE clock
  IN  /\ \/ pc[t] = "begin" /\ ~mock /\ call[t].action = "create_environment"
         \/ pc[t] = "mock_directory"
      /\ files' \in {files,
                     [files EXCEPT ![environment].root = FALSE, ![environment].password = FALSE],
                     [files EXCEPT ![environment] = Reset(@)]}
      /\ Leave(t, environment)

\* A live create reads the new files after "applied" has been recorded and
\* outside its try block.
CreatedReadFails(t) ==
  /\ pc[t] = "save_created"
  /\ ~mock
  /\ Leave(t, call[t].env)
  /\ UNCHANGED files

-----------------------------------------------------------------------------
(* The five actions that run playbooks in the current environment.         *)

\* _current_environment raises before anything is written.
NoEnvironment(t) ==
  /\ pc[t] = "begin"
  /\ ~mock
  /\ call[t].action \in PlaybookActions
  /\ doc.current = NoEnv
  /\ call' = [call EXCEPT ![t].outcome = "failed"]
  /\ Goto(t, "respond")
  /\ UNCHANGED <<doc, files, lock, Rest>>

StartPlaybook(t) ==
  /\ pc[t] = "begin"
  /\ ~mock
  /\ call[t].action \in PlaybookActions
  /\ doc.current # NoEnv
  /\ call' = [call EXCEPT ![t].env = doc.current, ![t].todo = Playbook(call[t].action)]
  /\ Goto(t, "playbook")
  /\ UNCHANGED <<doc, files, lock, Rest>>

RunTask(t) ==
  /\ pc[t] = "playbook"
  /\ call[t].todo # << >>
  /\ files' = [files EXCEPT ![call[t].env] = Effect(Head(call[t].todo), @)]
  /\ call' = [call EXCEPT ![t].todo = Tail(@)]
  /\ UNCHANGED <<doc, lock, pc, Rest>>

\* A scan reads both reports before its job is recorded.
PlaybookSucceeds(t) ==
  /\ pc[t] = "playbook"
  /\ call[t].todo = << >>
  /\ call' = IF call[t].action = "run_compliance_scan"
             THEN [call EXCEPT ![t].found.controls =
                     [root    |-> files[call[t].env].sshScan = "pass",
                      service |-> files[call[t].env].serviceScan = "pass"]]
             ELSE call
  /\ Goto(t, "job_succeeded")
  /\ UNCHANGED <<doc, files, lock, Rest>>

\* The process cannot be started, a task fails, or the connection is lost:
\* the tasks already run keep their effect.
PlaybookFails(t) ==
  /\ pc[t] = "playbook"
  /\ Goto(t, "job_failed")
  /\ UNCHANGED <<doc, files, lock, call, Rest>>

JobSucceeded(t) ==
  /\ pc[t] = "job_succeeded"
  /\ doc' = Job(doc, call[t].action, "succeeded")
  /\ call' = [call EXCEPT ![t].outcome = "succeeded"]
  /\ Goto(t, IF call[t].action = "run_compliance_scan" THEN "load_scan" ELSE "record")
  /\ UNCHANGED <<files, lock, Rest>>

\* Mutated form: the exception is swallowed after the job is recorded.
JobFailedSwallowed(t) ==
  /\ pc[t] = "job_failed"
  /\ doc' = Job(doc, call[t].action, "failed")
  /\ Goto(t, "record")
  /\ UNCHANGED <<files, lock, call, Rest>>

\* The except branch: the failed job is recorded and the exception re-raised.
JobFailed(t) ==
  /\ pc[t] = "job_failed"
  /\ doc' = Job(doc, call[t].action, "failed")
  /\ call' = [call EXCEPT ![t].outcome = "failed"]
  /\ Goto(t, "respond")
  /\ UNCHANGED <<files, lock, Rest>>

LoadForScan(t) ==
  /\ pc[t] = "load_scan"
  /\ call' = [call EXCEPT ![t].found.compliance = ReadCompliance(files[call[t].env]),
                          ![t].snap = doc]
  /\ Goto(t, "save_scan")
  /\ UNCHANGED <<doc, files, lock, Rest>>

\* (The mock mode leaves the controls alone: there found.controls repeats them.)
SaveScan(t) ==
  /\ pc[t] = "save_scan"
  /\ doc' = Scanned(call[t].snap, call[t].found.controls, call[t].found.compliance)
  /\ call' = [call EXCEPT ![t].outcome =
       IF Compliant(call[t].found.controls, call[t].found.compliance) THEN "succeeded" ELSE "failed"]
  /\ Goto(t, "record")
  /\ UNCHANGED <<files, lock, Rest>>

\* After its workflow an action reads the files again, and that raises.
ReadFails(t) ==
  /\ ~mock
  /\ \/ pc[t] = "record" /\ call[t].action \in PlaybookActions \ {"apply_baseline", "run_compliance_scan"}
     \/ pc[t] = "load_scan"
  /\ Leave(t, call[t].env)
  /\ UNCHANGED files

\* Only apply_baseline does so inside its try block: its except branch then
\* records a second, failed job.
BaselineReadFails(t) ==
  /\ ~mock
  /\ pc[t] = "record"
  /\ call[t].action = "apply_baseline"
  /\ failures < MaxFailures
  /\ failures' = failures + 1
  /\ call' = [call EXCEPT ![t].outcome = "failed"]
  /\ Goto(t, "job_failed")
  /\ UNCHANGED <<mock, doc, files, lock, clock, unread, requests, crashes, manual>>

-----------------------------------------------------------------------------
(* The same five actions in mock mode: no environment is asked for and no  *)
(* job is recorded.                                                        *)

MockRestore(t) ==
  /\ pc[t] = "begin"
  /\ mock
  /\ call[t].action \in {"apply_baseline", "run_remediation"}
  /\ call' = [call EXCEPT ![t].found = Approved, ![t].outcome = "succeeded"]
  /\ Goto(t, "record")
  /\ UNCHANGED <<doc, files, lock, Rest>>

\* Mutated form: the copied control must also have passed before.
MockFoundSticky(action) ==
  [controls   |-> IF action \in Drifts THEN DriftedControls(doc.controls, action)
                                       ELSE doc.controls,
   compliance |-> [doc.compliance EXCEPT !.root = @ /\ doc.controls.root]]

\* The maps computed from the loaded document: a drift lets one control fail,
\* a scan repeats the controls and copies their ssh_root_login into the
\* compliance map.
MockFound(action) ==
  [controls   |-> IF action \in Drifts THEN DriftedControls(doc.controls, action)
                                       ELSE doc.controls,
   compliance |-> [doc.compliance EXCEPT !.root = doc.controls.root]]

LoadForMock(t) ==
  /\ pc[t] = "begin"
  /\ mock
  /\ call[t].action \in Drifts \cup {"run_compliance_scan"}
  /\ call' = [call EXCEPT ![t].snap = doc, ![t].found = MockFound(call[t].action)]
  /\ Goto(t, IF call[t].action \in Drifts THEN "save_drift" ELSE "save_scan")
  /\ UNCHANGED <<doc, files, lock, Rest>>

SaveMockDrift(t) ==
  /\ pc[t] = "save_drift"
  /\ doc' = Drifted(call[t].snap, call[t].found.controls)
  /\ call' = [call EXCEPT ![t].outcome = "succeeded"]
  /\ Goto(t, "record")
  /\ UNCHANGED <<files, lock, Rest>>

-----------------------------------------------------------------------------
(* Evidence and events.                                                    *)

\* Mutated form: a drift takes its effect for granted and does not read the
\* files again.
RecordedControlsAssumed(t) ==
  CASE call[t].action \notin PlaybookActions -> doc.controls
    [] call[t].action \in PlaybookActions /\ (mock \/ call[t].action = "run_compliance_scan") ->
         call[t].found.controls
    [] call[t].action \in Drifts /\ ~mock -> DriftedControls(doc.controls, call[t].action)
    [] OTHER -> ReadControls(files[call[t].env])

\* The control maps handed to _record_action: none by a create or an
\* incident, the ones found by a scan and by the actions of the mock mode, and
\* those read back from the files by the others.  The drifts hand over no
\* compliance controls, nor does the baseline of the mock mode.
RecordedControls(t) ==
  CASE call[t].action \notin PlaybookActions -> doc.controls
    [] call[t].action \in PlaybookActions /\ (mock \/ call[t].action = "run_compliance_scan") ->
         call[t].found.controls
    [] OTHER -> ReadControls(files[call[t].env])

RecordedCompliance(t) ==
  CASE \/ call[t].action = "run_compliance_scan"
       \/ call[t].action = "run_remediation" /\ mock -> call[t].found.compliance
    [] call[t].action \in {"apply_baseline", "run_remediation"} /\ ~mock ->
         ReadCompliance(files[call[t].env])
    [] OTHER -> doc.compliance

RecordAction(t) ==
  /\ pc[t] = "record"
  /\ doc' = [Recorded(doc, call[t].action, call[t].outcome) EXCEPT
               !.controls = RecordedControls(t), !.compliance = RecordedCompliance(t)]
  /\ Goto(t, IF call[t].action \in Drifts \cup {"run_compliance_scan", "run_remediation"}
             THEN "event" ELSE "respond")
  /\ unread' = IF ~mock /\ call[t].action \in PlaybookActions
               THEN unread \ {call[t].env} ELSE unread
  /\ UNCHANGED <<files, lock, call, Bounds>>

\* Mutated form: every action decides on the last document it loaded itself.
EventDueFromSnapshot(t) == call[t].outcome = "failed" /\ call[t].snap.edaEnabled

\* A scan decides on the document it loaded before saving, and only if
\* something fails; the others on the document as it is now.
EventDue(t) ==
  IF call[t].action = "run_compliance_scan"
  THEN call[t].outcome = "failed" /\ call[t].snap.edaEnabled
  ELSE doc.edaEnabled

\* Mutated form: the event is emitted whether or not EDA is enabled.
EmitEventAlways(t) ==
  /\ pc[t] = "event"
  /\ doc' = Event(doc, call[t].action)
  /\ Goto(t, IF call[t].action = "inject_synthetic_incident" THEN "record" ELSE "respond")
  /\ UNCHANGED <<files, lock, call, Rest>>

\* An incident emits its event before it records its evidence, all others after.
EmitEvent(t) ==
  /\ pc[t] = "event"
  /\ doc' = IF EventDue(t) THEN Event(doc, call[t].action) ELSE doc
  /\ Goto(t, IF call[t].action = "inject_synthetic_incident" THEN "record" ELSE "respond")
  /\ UNCHANGED <<files, lock, call, Rest>>

AddIncident(t) ==
  /\ pc[t] = "begin"
  /\ call[t].action = "inject_synthetic_incident"
  /\ doc' = Incident(doc, clock)
  /\ call' = [call EXCEPT ![t].outcome = "succeeded"]
  /\ Goto(t, "event")
  /\ UNCHANGED <<files, lock, Rest>>

-----------------------------------------------------------------------------
(* The world around the backend.                                           *)

Tick ==
  /\ clock < MaxSecond
  /\ clock' = clock + 1
  /\ UNCHANGED <<mock, doc, files, lock, pc, call, unread, counters>>

\* The runbook's recovery: when a remediation has failed in live mode, an
\* operator runs a task of its playbooks by hand against the current
\* environment, outside the API.
ManualRemediation ==
  /\ ~mock
  /\ manual < MaxManual
  /\ \E i \in 1..Len(doc.jobs) :
       doc.jobs[i] = [action |-> "run_remediation", status |-> "failed"]
  /\ doc.current # NoEnv
  /\ \E task \in {"deny_root", "start_service"} :
       files' = [files EXCEPT ![doc.current] = Effect(task, @)]
  /\ manual' = manual + 1
  /\ UNCHANGED <<mock, doc, clock, lock, pc, call, unread, requests, crashes, failures>>

\* The server process dies and is started again: the document and the
\* directories survive, the threads, their requests and the lock do not, and
\* the mode is read from the environment anew.  Changing it takes an operator
\* more than a second, so no environment is named twice, once in either mode.
Crash ==
  /\ crashes < MaxCrashes
  /\ crashes' = crashes + 1
  /\ pc' = [t \in Threads |-> "idle"]
  /\ call' = [t \in Threads |-> NoCall]
  /\ lock' = NoThread
  /\ \/ UNCHANGED <<mock, clock>>
     \/ /\ clock < MaxSecond
        /\ mock' \in Modes \ {mock}
        /\ clock' = clock + 1
  /\ UNCHANGED <<doc, files, unread, requests, manual, failures>>

\* Every request has been answered; clients may send no more.
Quiet ==
  /\ \A t \in Threads : pc[t] = "idle"
  /\ UNCHANGED vars

-----------------------------------------------------------------------------
Create(t) ==
  \/ MockApplied(t) \/ MockDirectory(t)
  \/ CreateBlocked(t) \/ CreateDirectory(t) \/ MarkRunning(t) \/ TerraformApply(t)
  \/ MarkFailed(t) \/ MarkApplied(t) \/ LoadForCreate(t) \/ SaveCreated(t)
  \/ DirectoryFails(t) \/ CreatedReadFails(t)

RunPlaybook(t) ==
  \/ NoEnvironment(t) \/ StartPlaybook(t) \/ RunTask(t) \/ PlaybookSucceeds(t)
  \/ PlaybookFails(t) \/ JobSucceeded(t) \/ JobFailed(t) \/ LoadForScan(t) \/ SaveScan(t)
  \/ ReadFails(t) \/ BaselineReadFails(t)

RunMock(t) == MockRestore(t) \/ LoadForMock(t) \/ SaveMockDrift(t)

\* What a thread does by itself once its request has been submitted.
Step(t) ==
  \/ Acquire(t) \/ Create(t) \/ RunPlaybook(t) \/ RunMock(t) \/ AddIncident(t)
  \/ RecordAction(t) \/ EmitEvent(t) \/ Respond(t)

Next ==
  \/ \E t \in Threads : Submit(t) \/ Step(t)
  \/ Tick \/ ManualRemediation \/ Crash \/ Quiet

Spec == Init /\ [][Next]_vars

\* Threads are scheduled, and Terraform and Ansible processes end (the code
\* sets no timeout on them); clients, the clock and failures owe nothing.
FairSpec == Spec /\ \A t \in Threads : WF_vars(Step(t))

-----------------------------------------------------------------------------
(* Properties.                                                             *)

LogsBounded(d) ==
  /\ Len(d.jobs) <= LogLimit
  /\ Len(d.evidence) <= LogLimit
  /\ Len(d.edaLog) <= LogLimit
  /\ Len(d.incidents) <= LogLimit
  /\ Len(d.trend) <= TrendLimit

\* Every variable has its type, and no log of the document outgrows its limit.
TypeOK ==
  /\ mock \in BOOLEAN
  /\ doc \in Documents /\ LogsBounded(doc)
  /\ files \in [Seconds -> Directories]
  /\ clock \in Seconds
  /\ lock \in Threads \cup {NoThread}
  /\ pc \in [Threads -> Locations]
  /\ call \in [Threads -> Calls]
  /\ unread \subseteq Seconds
  /\ {requests, crashes, manual, failures} \subseteq Nat

\* Exactly the thread inside a _serialize_action method holds action_lock,
\* however methods end: no two run at once, and none leaves the lock behind.
LockHeld == \A t \in Threads : pc[t] \in Working <=> lock = t

\* Between create_environment's or a scan's _load_state and its _save_state
\* nobody else writes the document: what is saved is built on the newest one.
SnapshotCurrent == \A t \in Threads : pc[t] \in Holding => call[t].snap = doc

\* Each log stays or gets one entry in front, and no scan is undone.
KeepsRecords ==
  /\ \/ doc'.evidence = doc.evidence
     \/ \E e \in Entries : doc'.evidence = Insert(doc.evidence, e, LogLimit)
  /\ \/ doc'.jobs = doc.jobs
     \/ \E e \in Entries : doc'.jobs = Insert(doc.jobs, e, LogLimit)
  /\ \/ doc'.edaLog = doc.edaLog
     \/ \E a \in Actions : doc'.edaLog = Insert(doc.edaLog, a, LogLimit)
  /\ \/ doc'.incidents = doc.incidents
     \/ \E s \in Seconds : doc'.incidents = Insert(doc.incidents, s, LogLimit)
  /\ \/ doc'.trend = doc.trend /\ doc'.scanCount = doc.scanCount
     \/ /\ doc'.scanCount = doc.scanCount + 1
        /\ \E p \in 0..100 :
             doc'.trend = Insert(doc.trend, [pct |-> p, label |-> doc'.scanCount], TrendLimit)

\* A step of any thread leaves each log as it is or puts one entry in front
\* of it, dropping the oldest only at the limit, and never undoes a scan: no
\* action overwrites what a concurrent one recorded.
NoLostUpdate == [][KeepsRecords]_vars

TrendNumbered(d) ==
  /\ Len(d.trend) = (IF d.scanCount < TrendLimit THEN d.scanCount ELSE TrendLimit)
  /\ \A i \in 1..Len(d.trend) : d.trend[i].label = d.scanCount + 1 - i

\* The trend shows the newest scans, numbered without gap or repetition up to
\* scan_count, however scans of several requests, failures and crashes mix.
TrendLabelsConsecutive == TrendNumbered(doc)

\* The current environment changes only to one whose Terraform apply is, at
\* that moment, the one recorded as applied.
CurrentFollowsApply ==
  [][doc'.current # doc.current =>
       doc.terraform = [run |-> doc'.current, status |-> "applied"]]_vars

\* Nobody is inside an action, and nothing happened behind the backend's back.
Settled == lock = NoThread /\ crashes = 0 /\ manual = 0

\* The evidence holds this many scans up to its i-th newest entry.
ScansUpTo(i) == Cardinality({k \in 1..i : doc.evidence[k].action = "run_compliance_scan"})

\* Between actions the trend agrees with the verdicts the evidence shows: the
\* n-th newest scan scored 100 percent exactly if it was recorded as succeeded.
TrendBacksEvidence ==
  Settled =>
    \A i \in 1..Len(doc.evidence) :
      /\ doc.evidence[i].action = "run_compliance_scan"
      /\ ScansUpTo(i) <= Len(doc.trend)
      => (doc.trend[ScansUpTo(i)].pct = 100 <=> doc.evidence[i].status = "succeeded")

\* The newest jobs, down to the i-th, all failed.
AllFailed(i) == \A k \in 1..i : doc.jobs[k].status = "failed"

\* A task of the action's playbooks sets control c to this value.
Sets(act, c, value) ==
  \E k \in 1..Len(Playbook(act)) :
    \A dir \in Directories : Effect(Playbook(act)[k], dir)[c] = value

\* A failed job with no other than failed ones since may have set control c to
\* what the files say of it (or the log is too short to tell).
LeftByJob(c) ==
  \/ \E i \in 1..Len(doc.jobs) :
       AllFailed(i) /\ Sets(doc.jobs[i].action, c, files[doc.current][c])
  \/ Len(doc.jobs) = LogLimit /\ AllFailed(LogLimit)

\* A create in the second of the current environment may have reset control c,
\* as the newest Terraform run failed or left its environment unread.
LeftByCreate(c) ==
  /\ ~files[doc.current][c]
  /\ doc.terraform.status # "applied" \/ doc.terraform.run \in unread

\* Between actions of the live mode a recorded control is what the files of the
\* current environment say, or the records show why not: only failed jobs since
\* a task that sets it to what the files say, or a create that came to no end
\* after the files had been reset.  (A create matters even though it leaves the
\* current environment alone: within one second it has the same directory.)
\* Only where an exception of a drift, a remediation, a scan or a create kept
\* the files from being read is there nothing on record; the next of these
\* that succeeds makes up for it.
ControlsReflectFiles ==
  Settled /\ ~mock /\ doc.current \notin unread \cup {NoEnv} =>
    \A c \in {"root", "service"} :
      doc.controls[c] = files[doc.current][c] \/ LeftByJob(c) \/ LeftByCreate(c)

\* A live scan that completes says "succeeded" exactly if, at that moment, root
\* login and passwords are denied and the service runs: it never judges on a
\* report left behind by an earlier scan.
ScanVerdictIsTrue ==
  \A t \in Threads :
    /\ pc[t] \in {"record", "event"}
    /\ call[t].action = "run_compliance_scan"
    /\ manual = 0 /\ ~mock
    => LET dir == files[call[t].env]
       IN  call[t].outcome = "succeeded" <=> dir.root /\ dir.password /\ dir.service

\* The entries of the evidence older than the i-th that decide what a scan finds.
Decisive(i) ==
  {j \in i+1 .. Len(doc.evidence) :
     doc.evidence[j].action \notin {"run_compliance_scan", "inject_synthetic_incident"}}

\* In mock mode the evidence tells one consistent story: once an environment
\* was created or remediated, a scan fails exactly if the newest create, drift,
\* baseline or remediation before it is a drift.  (A crash may lose the
\* evidence of a drift already saved.)
MockVerdictsFollowDrifts ==
  mock /\ crashes = 0 =>
    \A i \in 1..Len(doc.evidence) : \A newest \in Decisive(i) :
      /\ doc.evidence[i].action = "run_compliance_scan"
      /\ \E j \in Decisive(i) :
           doc.evidence[j].action \in {"create_environment", "run_remediation"}
      /\ \A j \in Decisive(i) : newest <= j
      => (doc.evidence[i].status = "failed" <=> doc.evidence[newest].action \in Drifts)

\* An event reaches the EDA history only while EDA is enabled.
EventsOnlyWhenEnabled == [][doc'.edaLog # doc.edaLog => doc.edaEnabled]_vars

\* When EDA is enabled, a drift, remediation or incident answered "succeeded"
\* and a scan answered "failed" after its workflow completed are the newest
\* entry of the EDA history by the time the client is answered, unless the
\* scan's own read of the files raised.
DriftIsAnnounced ==
  \A t \in Threads :
    /\ pc[t] = "respond"
    /\ doc.edaEnabled
    /\ \/ /\ call[t].action \in Drifts \cup {"run_remediation", "inject_synthetic_incident"}
          /\ call[t].outcome = "succeeded"
       \/ /\ call[t].action = "run_compliance_scan"
          /\ call[t].outcome = "failed"
          /\ mock \/ (Head(doc.jobs).status = "succeeded" /\ call[t].env \notin unread)
    => doc.edaLog # << >> /\ Head(doc.edaLog) = call[t].action

\* A client is told "succeeded" only for an action whose newest evidence
\* entry says so and, if it ran playbooks, whose newest job did succeed.
\* (The mock mode runs none.)
AnswersAreRecorded ==
  \A t \in Threads :
    /\ pc[t] = "respond"
    /\ call[t].outcome = "succeeded"
    => LET entry == [action |-> call[t].action, status |-> "succeeded"]
       IN  /\ doc.evidence # << >> /\ Head(doc.evidence) = entry
           /\ call[t].action \in PlaybookActions /\ ~mock => doc.jobs # << >> /\ Head(doc.jobs) = entry

\* As long as the server has not crashed, a Terraform status of "running"
\* means a create_environment is still at work on that very run.
RunningIsInFlight ==
  crashes = 0 /\ doc.terraform.status = "running" =>
    \E t \in Threads : /\ pc[t] \in {"tf_apply", "tf_failed", "tf_applied"}
                       /\ doc.terraform.run = call[t].env

\* Every request is answered (or dropped by a crash): action_lock is never
\* left behind and nobody waits for ever.
EveryRequestAnswered == \A t \in Threads : pc[t] = "waiting" ~> pc[t] = "idle"

\* Without crashes a Terraform run shown as running is resolved.
TerraformResolves ==
  doc.terraform.status = "running" ~> (doc.terraform.status # "running" \/ crashes > 0)

-----------------------------------------------------------------------------
(* Claims of the repository that the code does not keep.                   *)

\* "Evidence panel reflects every action with status and detail."
\* (docs/mvp-demo-runbook.md)
EvidenceReflectsEveryAction ==
  \A t \in Threads : pc[t] = "respond" /\ doc.current # NoEnv =>
    /\ doc.evidence # << >>
    /\ Head(doc.evidence) = [action |-> call[t].action, status |-> call[t].outcome]

\* "Restore the approved state for all local-lab controls." (the docstring
\* of run_remediation)
RemediationRestoresAllControls ==
  \A t \in Threads :
    pc[t] = "respond" /\ call[t].action = "run_remediation" /\ call[t].outcome = "succeeded"
      => Compliant(doc.controls, doc.compliance)
=============================================================================
