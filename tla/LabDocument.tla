----------------------------- MODULE LabDocument -----------------------------
(***************************************************************************)
(* The JSON document a LocalLabBackend keeps in state.json, and the pure   *)
(* edits the backend makes to it (the mutators passed to _mutate_state and *)
(* the assignments between _load_state and _save_state).                   *)
(*                                                                         *)
(* Abstractions: an environment is named by the second it was created in   *)
(* ("<target>-<second>" in the code); a log entry keeps the action and its *)
(* status and drops the wording; the last_* fields of "jobs" always repeat *)
(* the newest history entry, so only the history is kept.                  *)
(***************************************************************************)
EXTENDS Naturals, Sequences

CONSTANTS
  MaxSecond,    \* bound: the last second of the clock
  NoEnv,        \* "current": null, "run_id": null
  LogLimit,     \* STATE_LOG_LIMIT
  TrendLimit    \* the 8 of "del trend[8:]"

ASSUME SecondAssumption == MaxSecond \in Nat
ASSUME LimitAssumption  == LogLimit \in Nat \ {0} /\ TrendLimit \in Nat \ {0}

\* The values int(clock()) takes, which name the environments.
Seconds == 0..MaxSecond

ASSUME NoEnvAssumption == NoEnv \notin Seconds

Drifts  == {"inject_ssh_drift", "inject_service_drift"}
Actions == Drifts \cup {"create_environment", "apply_baseline",
                        "run_compliance_scan", "run_remediation",
                        "inject_synthetic_incident"}
\* The actions that run a playbook in the current environment.
PlaybookActions == Actions \ {"create_environment", "inject_synthetic_incident"}

Verdicts          == {"succeeded", "failed"}
TerraformStatuses == {"idle", "running", "applied", "failed"}

\* The two maps of named booleans: "root" is ssh_root_login, "service" is
\* portal_service_health, "password" is ssh_password_authentication.
Controls   == [root: BOOLEAN, service: BOOLEAN]
Compliance == [root: BOOLEAN, password: BOOLEAN]

Entries == [action: Actions, status: Verdicts]
Points  == [pct: 0..100, label: Nat]

Documents ==
  [current:    Seconds \cup {NoEnv},
   edaEnabled: BOOLEAN,
   controls:   Controls,
   compliance: Compliance,
   terraform:  [run: Seconds \cup {NoEnv}, status: TerraformStatuses],
   jobs:       Seq(Entries),
   evidence:   Seq(Entries),
   edaLog:     Seq(Actions),
   incidents:  Seq(Seconds),
   trend:      Seq(Points),
   scanCount:  Nat]

DefaultDocument ==
  [current    |-> NoEnv,
   edaEnabled |-> FALSE,
   controls   |-> [root |-> FALSE, service |-> FALSE],
   compliance |-> [root |-> FALSE, password |-> FALSE],
   terraform  |-> [run |-> NoEnv, status |-> "idle"],
   jobs       |-> << >>,
   evidence   |-> << >>,
   edaLog     |-> << >>,
   incidents  |-> << >>,
   trend      |-> << >>,
   scanCount  |-> 0]

-----------------------------------------------------------------------------
(* A definition whose comment begins with "Mutated form" is a plausible    *)
(* slip in the definition that follows it.  No specification uses it: TLC  *)
(* runs with it in place of the real one show that a property can fail.    *)

\* Mutated form: the log is never trimmed.
InsertUntrimmed(log, entry, limit) == <<entry>> \o log

\* log.insert(0, entry); del log[limit:]
Insert(log, entry, limit) ==
  SubSeq(<<entry>> \o log, 1,
         IF Len(log) < limit THEN Len(log) + 1 ELSE limit)

\* Recorded, Job, Event and Terraform are the mutators of _record_action,
\* _set_job_status, _append_eda_event and _set_terraform_status.
Recorded(doc, action, status) ==
  [doc EXCEPT !.evidence =
     Insert(@, [action |-> action, status |-> status], LogLimit)]

Job(doc, action, status) ==
  [doc EXCEPT !.jobs =
     Insert(@, [action |-> action, status |-> status], LogLimit)]

Event(doc, action) == [doc EXCEPT !.edaLog = Insert(@, action, LogLimit)]

Terraform(doc, run, status) ==
  [doc EXCEPT !.terraform = [run |-> run, status |-> status]]

Incident(doc, second) ==
  [doc EXCEPT !.incidents = Insert(@, second, LogLimit)]

\* Mutated form: the compliance controls are left out of the score.
PassingControlsOnly(controls, compliance) ==
  <<controls.root, controls.service, TRUE>>

\* The union of both maps that a scan is scored on: ssh_root_login is in both
\* and passes only if it passes in both.
Passing(controls, compliance) ==
  <<controls.root /\ compliance.root, controls.service, compliance.password>>

\* _score_pct: the share of passing controls, rounded to the nearest percent.
Score(flags) ==
  LET one(b) == IF b THEN 1 ELSE 0
      passed == one(flags[1]) + one(flags[2]) + one(flags[3])
  IN  (200 * passed + 3) \div 6

\* Mutated form: the new trend point repeats the label of the scan before.
ScannedUnnumbered(doc, controls, compliance) ==
  [doc EXCEPT
     !.controls   = controls,
     !.compliance = compliance,
     !.scanCount  = @ + 1,
     !.trend      = Insert(@, [pct   |-> Score(Passing(controls, compliance)),
                               label |-> doc.scanCount], TrendLimit)]

\* What a scan writes before it records its verdict.
Scanned(doc, controls, compliance) ==
  [doc EXCEPT
     !.controls   = controls,
     !.compliance = compliance,
     !.scanCount  = @ + 1,
     !.trend      = Insert(@, [pct   |-> Score(Passing(controls, compliance)),
                               label |-> doc.scanCount + 1], TrendLimit)]

\* "not all_failing": every control of both maps passes.
Compliant(controls, compliance) ==
  /\ controls.root /\ controls.service
  /\ compliance.root /\ compliance.password

\* The maps of an environment in which nothing fails.
Approved ==
  [controls   |-> [root |-> TRUE, service |-> TRUE],
   compliance |-> [root |-> TRUE, password |-> TRUE]]

\* What a drift of the mock mode does to the controls.
DriftedControls(controls, action) ==
  IF action = "inject_ssh_drift" THEN [controls EXCEPT !.root = FALSE]
                                 ELSE [controls EXCEPT !.service = FALSE]

\* What a drift of the mock mode saves.
Drifted(doc, controls) == [doc EXCEPT !.controls = controls]

\* What create_environment saves once Terraform has applied.
Created(doc, environment, eda, controls, compliance) ==
  [doc EXCEPT !.current    = environment,
              !.edaEnabled = eda,
              !.controls   = controls,
              !.compliance = compliance]
=============================================================================
