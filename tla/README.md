# Formal models of Terraable

TLA+ models of the Terraable control plane (`src/terraable`, with the Ansible
and UI code it drives), checked with TLC and, where noted, proved with TLAPS.

Paths below are relative to the repository; `local_lab.py` is
`src/terraable/local_lab.py`, and so on.

## 1. Inventory

| Component | State | Operations | Interaction |
|---|---|---|---|
| `LocalLabBackend`, live mode (`local_lab.py:289-1240`) | the document in `state.json`; a directory of files per environment; `action_lock` | `create_environment`, `apply_baseline`, `run_compliance_scan`, `inject_ssh_drift`, `inject_service_drift`, `run_remediation`, `inject_synthetic_incident`, all `@_serialize_action` | called by request threads; runs Terraform and Ansible subprocesses that change the directory |
| State file store (`local_lab.py:1372-1400`) | `state.json`, temporary files, `_state_lock` | `_load_state`, `_save_state`, `_mutate_state` | called by every action and by every state poll |
| `LocalLabBackend`, mock mode | the same document and directories | the offline branch of the same seven methods | no subprocess; the mode is chosen by the environment when the process starts |
| Credentials (`local_lab.py:207-287, 1419-1543`) | `_credentials` under `_credentials_lock` | `configure_credentials`, `get_auth_status` | gate `create_environment`; shared by all requests |
| AWX execution (`local_lab.py:1000-1105`) | a job on the AWX server | find template, launch, poll up to 300 times | replaces the Ansible subprocess of a live action |
| Observability (`local_lab.py:1279-1370`) | none | a summary computed from the document | part of every state response |
| API server (`api_server.py`) | the class-level backend cache and its lock | GET routes, POST guard, action dispatch and its error answer, credential configuration, demo requests | one thread per request, shared backends |
| Demo configuration (`demo_config.py`) | the global configuration object and start times, no lock | `apply_profile`, custom merge, `start_service`, readiness checks | called from request threads |
| AWS, Azure, OKD backends (`aws_backend.py`, ...) | as `LocalLabBackend`, each with a `state.json`, locks and credentials of its own; what Terraform has provisioned | inherited, with a `create_environment`, `_terraform_apply_<platform>` and `get_auth_status` of their own | chosen by the API server per target; run the Terraform of `src/terraform` with the environment of the server |
| Handoff contract (`contract.py`) | none | validation of a payload | used by `create_environment` |
| HCP client, target detection, orchestrator | none of their own | parsing, probing, protocols | helpers |
| Control panel (`ui/index.html`, `targetAvailability.mjs`) | the last state and the selected target in the browser | selecting a target, polling, action buttons | HTTP to the API server |
| Ansible playbooks and roles | the configuration files of the environment | harden, deploy, drift, remediate, scan | run by a live action |
| EDA rulebook, Terraform modules, scripts, containers | - | - | run by external tools |

What is hard here: request threads share one backend, and an action is a long
chain of document writes, file reads and subprocesses that may stop anywhere;
documents are loaded, edited and saved in separate critical sections; the
process may die between any two writes; subprocesses have no timeout and hold
the action lock; logs are trimmed at limits; files of environments outlive the
actions that wrote them. `PROJECT.json` lists the places under "hazards".

What makes each part correct, in a sentence:

- *Live lifecycle*: no request overwrites what another recorded; the document
  agrees with the environment's files; answers, evidence, jobs and events agree
  with each other; every request is answered.
- *State file store*: each of its methods is atomic and a crash never costs
  the document.
- *Mock lifecycle*: the scan verdict follows the injected drifts and repairs.
- *Credentials*: a value removed in the UI uncovers the one the process started
  with; all backends are given the same values, and a request that fails half way
  is made up for by the next; a readiness check is explained
  by the credentials that were there.
- *AWX execution*: no two jobs that are still watched work at the same time;
  an action succeeds only if all its jobs did; a job that never ends holds
  nobody up for ever.
- *API server*: one backend (and so one lock) per state file; credentials reach
  every backend, whenever it is built; every request gets exactly one answer;
  only actions wait for actions.
- *Demo configuration*: a configuration named after a preset is that preset;
  readiness speaks about the configuration in force; a request fails only for a
  reason of its own.
- *Cloud backends*: each is a `LocalLabBackend`; what it calls applied was
  provisioned.
- *Control panel*: a button is enabled only for the state it acts on.

## 2. Modules

| Module | Models |
|---|---|
| `LabDocument` | the document and the pure edits made to it: what each mutator and each load-edit-save does |
| `LocalLab` | the seven actions on top of it, live and offline, one step per document access, playbook task or subprocess |
| `LocalLabProofs` | theorems about `LocalLab`: its types, lock, snapshots, updates and trend labels |
| `LocalLabRecordProofs` | further ones: that its records agree with each other, with the answers and with the files |
| `MCLocalLab` | its instances for TLC |
| `CloudBackend` | the three cloud backends: `LocalLab` with their `create_environment`, command by command, their inputs, their credentials and what Terraform provisions |
| `CloudBackendProofs` | theorems about `CloudBackend`, among them that it implements `LocalLab` |
| `MCCloudBackend` | its instances for TLC |
| `ApiServer` | request threads, the POST guard, the backend cache and its lock, the handlers with their except branches, answers |
| `ApiServerProofs` | theorems about `ApiServer` |
| `MCApiServer` | its instance for TLC |
| `AtomicDocument` | what callers expect of the three file methods: an atomic register whose writes may fail |
| `StateFile` | the three methods file operation by file operation |
| `StateFileProofs` | theorems about `StateFile`, among them that it implements `AtomicDocument` |
| `MCStateFile` | its instance for TLC |
| `LayeredCredentials` | what a user expects of the credentials of each backend: a layer of typed values above those of the environment |
| `Credentials` | the credential entries with their fallbacks, configure requests that visit the backends in turn, and readiness checks that read one credential at a time |
| `CredentialsProofs` | theorems about `Credentials`, among them that it implements `LayeredCredentials` |
| `MCCredentials` | its instance for TLC |
| `AwxJob` | the action lock around actions that run as AWX jobs: template, launch, polling, giving up; and the AWX server, whose jobs go their own way |
| `AwxJobProofs` | theorems about `AwxJob` |
| `MCAwxJob` | its instance for TLC |
| `DemoConfig` | the unlocked demo configuration, its start times, and the requests that read and change them statement by statement |
| `DemoConfigProofs` | theorems about `DemoConfig` |
| `MCDemoConfig` | its instance for TLC |

`LocalLab` treats one `_mutate_state`, `_load_state` or `_save_state` call as
one step. `StateFile` is the justification: it refines `AtomicDocument`.
`CloudBackend` extends `LocalLab` and refines it. `ApiServer` says which backend
a request works on and that no document is served by two; what an action does
inside its lock is left to `LocalLab` and `CloudBackend`, the demo requests to
`DemoConfig`, and the entries behind `configure_credentials` to `Credentials`.

### LocalLab and the code

`doc` is the parsed `state.json`, `files` the directories below
`.terraable/local-lab`, `lock` the `action_lock`. `pc` and `call` stand for a
request thread inside a method: `pc` is the place and `call` the local
variables that live across steps (`env_dir`, the document `state` returned by
`_load_state`, the scan results). The lock is re-entrant in the code; no action
calls another, so ownership is all that matters.

| Actions | Code |
|---|---|
| `Submit`, `Acquire`, `Respond` | a POST to `/api/actions/...`; entering and leaving `_serialize_action`; `_handle_action` answers, also when the method raised |
| `CreateBlocked`, `CreateDirectory`, `MarkRunning`, `TerraformApply`, `MarkFailed`, `MarkApplied`, `LoadForCreate`, `SaveCreated` | `create_environment`, in order |
| `NoEnvironment`, `StartPlaybook`, `RunTask`, `PlaybookSucceeds`, `PlaybookFails`, `JobSucceeded`, `JobFailed` | the five methods that run playbooks; a failure may come before the first task, between any two, or after the last |
| `DirectoryFails` | `_ensure_environment` raises, with none, some or all of the directory's files reset |
| `CreatedReadFails` | `_read_controls` or `_read_compliance_controls` raises in a live create, after "applied" was recorded and outside the `try` |
| `ReadFails`, `BaselineReadFails` | `_read_controls` or the report files raise after the workflow: the method ends by the exception, except that of `apply_baseline`, whose `except` branch records a second, failed job |
| `LoadForScan`, `SaveScan` | the load-edit-save of a scan |
| `MockApplied`, `MockDirectory` | the offline branch of `create_environment` up to its load, which shares `LoadForCreate` and `SaveCreated` |
| `LoadForMock`, `SaveMockDrift`, `MockRestore` | the offline branches of a drift (load, edit, save), of a scan (which shares `SaveScan`), and of baseline and remediation |
| `RecordAction`, `EmitEvent` | `_record_action`, and the read of `eda_enabled` with `_append_eda_event` |
| `AddIncident` | the feed entry of `inject_synthetic_incident` |
| `Tick`, `ManualRemediation`, `Crash` | the clock, the runbook's manual recovery, the death and restart of the server |

`unread` is history: the environments of which an exception left the records
behind the files with no failed job to show for it (`Leave`). The next create or
action that reads the files of such an environment and records what it finds
takes it out again.

`mock` is the mode, read by the process when it starts; a restart may change
it, on the same document and directories. Every environment is of one target,
so that its name is given by the second in which it was made.
`ManualRemediation` is external: the runbook's advice to run the remediation
playbook by hand when a remediation has failed.

Data are reduced to what the properties distinguish. An environment is the
second in its name; a log entry is the action and its status; a file is the
answer to the question `_read_controls` asks of it. The tasks of the playbooks
are reduced to their effect on those files in lab mode: tasks without one
(facts, debug output, SSH settings nothing reads) are left out, and the
validating task of the baseline with them.

### CloudBackend and the code

`AWSBackend`, `AzureBackend` and `OKDBackend` repeat each other's code around
their own inputs and readiness check, so one module stands for them, with
`platform` fixed by the initial state. `Inherited` are the steps of `LocalLab`
that they do not override. `CreateEnvironment` takes the steps of `LocalLab`'s
create under the platform's readiness (`AwsReady`, `AzureReady`, `OkdReady`),
those included in which the directory cannot be set up or the new files cannot
be read (`aws_backend.py:218-219`, `azure_backend.py:218-219`,
`okd_backend.py:232-233`);
`TerraformModule` is `_terraform_apply_<platform>` with its own steps:
`ReadInputs` (the `TF_VAR_*` inputs, checked only after Terraform was recorded
as running), `TerraformInit`, `TerraformProvisions`, `HandOff` (the output and
the payload built from it) and `CommandFails` in any of the three commands. To
`LocalLab` a `HandOff`, an input that is not usable and a command that fails are
its one step `TerraformApply`; the others are stutters.

`usable` are the inputs the server was started with that a module would accept,
`credentials` the places where the platform's credentials have been provided;
`TypeCredential` is the Authentication panel. `infra` is external: what
Terraform has really provisioned for an environment. A failed `terraform apply`
leaves nothing new or a part; when the server dies during one, the process it
started may come to any end. The further credentials of a platform are taken
together. The overriding `get_state` only sets a label and is left out.

### ApiServer and the code

A backend instance is a number, and `backends` the class-level cache of
`get_active_backend`; `credentials[i]` is the batch typed into instance `i`
last, 0 if it was built and nobody has typed anything into it since. One
request thread is `pc`, `req` (the request with the handler's locals) and
`replies` (what a connected client has got).

| Actions | Code |
|---|---|
| `Receive` | `do_GET`, `do_POST` find the route |
| `Refuse`, `Admit`, `ReadPayload`, `ReadFails` | `_require_safe_post_request`, whose verdict is left open, and `_read_json_payload` |
| `Lookup`, `Build`, `BuildFails` | `get_active_backend`, with the lock held while the constructor runs; five targets share the backend of `local-lab` |
| `ReadState`, `ReadStateFails` | `get_state`, `get_auth_status` of one target, also as the state an except branch answers with |
| `AskStatus`, `Configure` | one round of the loop over the supported targets in the matrix and in `_handle_auth_configure` |
| `Dispatch`, `StartAction`, `ActionReturns`, `ActionRaises` | `_dispatch_action` with the 404 of an unknown name, the action lock, the two ends of an action |
| `Raise` | which except branch catches an exception: that of a configure request answers 400, that of an action asks for the backend and its state once more, in a GET and in that second attempt there is none |
| `Deliver`, `ClientGone` | `_send_json`; the two handlers that send inside their `try` run into their own except branch when the client has gone |

`calm` and `alone` are history: the batch of the newest configure request that
was answered "ok" and overlapped no other. Static files, the session token and
`healthz` touch no state and are left out; a status of `Credentials` reads the
entries at several moments, which does not matter for where they come from.

### StateFile and the code

`file` is `state.json`: missing, torn (written in part) or a document. The
steps are the existence test, the read, opening and filling the temporary file,
the rename, and taking and releasing `_state_lock`. A write that raises leaves
through the `with` statement. Thread identity and nanoseconds make temporary
names unique, so temporary files of other calls need not be kept. `read_text`
is not allowed to raise; a document that is valid JSON but no object falls
under `Torn`.

### Credentials and the code

`entries[b]` is `_credentials` of backend `b`; `origin` is what
`_bootstrap_credentials` finds in the environment and the `.env` file, both
assumed to stay as they are, so that it does not matter when a backend is
created. The batch of one `configure_credentials` is applied under
`_credentials_lock` and is one step (`Configure`); `get_auth_status` takes the
lock once per required credential (`LookUp`) and once more for the sources
(`CollectSources`), and other threads may come in between. `AskConfigure` is
`_handle_auth_configure`: it configures one backend after the other, the
shared backend of `local-lab` and its companions several times. `built` is the
cache of `get_active_backend`, `Prebuilt` the backend `make_handler` puts there;
the constructor of any other may raise (`BuildFails`), which ends the request
half way (`api_server.py:348, 359-360`) and leaves the backends before it
configured. `torn` and `sure` are history. A credential is torn from the moment a
configure request names it until one that alone was at work on it has gone
through all backends; `sure[t]` are the credentials the request of `t` alone is
at work on so far. What is left
of a status - blockers for target, portal, runtime and AWX - depends on
constants of the process. The keys are the accepted ones and the Terraform
token of the configured host, which the UI cannot set; its alias
`HCP_TERRAFORM_TOKEN` meets the same requirement.

`LayeredCredentials` knows no fallbacks: per backend it has a layer of typed
values, and what a check sees is the typed value or else the origin. `Layered`
in `Credentials` maps the entries to it.

### AwxJob and the code

In the AWX execution mode `_run_playbook` hands a playbook to
`_run_awx_job_template`; everything around it - the lock, the failed answer of
`_handle_action` - is as in `LocalLab`, and what the playbooks do to the files
is said there. `jobs` are the jobs the server ever started, `job` and `polls`
the loop of the code, `playbooks` how many an action has still to run
(remediation, for one, runs two). Each `_awx_request` is one step with the
outcomes the code tells apart: `FindTemplate`, `Launch`, `LaunchFails`,
`LaunchUnanswered` (AWX started the job, but the answer is late, unreadable or
names no job), `PollAgain`, `PollSucceeds`, `PollFindsFailure`, `PollFails`
(one failed poll makes the action give up) and `TimeOut`. `End` is the server's
own: a job ends whether or not somebody polls it. `deserted` remembers the jobs
given up before they ended; nothing in the code cancels them, so one of them
can overlap with the job of a retry. `OneJobAtATime` excepts these, and only
these. Missing AWX settings and unknown playbooks, constants of the process,
raise before the first request and are left out.

### DemoConfig and the code

Configurations are objects on a heap: `label[o]` and `settings[o]`, numbered by
the request that made them, with `current` the one `_demo_config` refers to.
`config` is the handler's reference to an object, `checked` that of a readiness
check. The interpreter may switch threads at calls and jumps, so a step is what
lies between two of these: clearing the start times, installing or marking,
taking the reference, each assignment of the merge, installing the result,
taking the reference for the answer; and in a check taking the reference,
reading the mode, looking for a start time, reading it, and the probe.
Rendering the answer (`to_dict`) is one step with sending it.

Of the fields those are kept that decide readiness: the backend (the CLI, or
something remote), the mode, and what a probe needs first (the Terraform token,
the Ansible host). The remaining ones are assigned in the same way and read only
for display. A start time is `recent` until the estimated wait has passed.
Whether orchestration is enabled and a Docker socket exists is left open
(`StartNot`), and so is the outcome of `docker compose` and of a probe. Requests
that name no known service, or carry no readable payload, are answered without
touching the state and are left out. The state is not persistent: a restart is
the initial state.

`rivals` and `strayed` are history. `rivals[t]` holds the kinds of requests that
overlapped with that of `t`, since answers are predictable only without them;
`strayed` holds the objects which a custom request took for its merge though it
had marked another, because a configure request came in between.

## 3. Runs

Each property is preceded by a comment saying what it is about. `PROJECT.json`
gives for each one a mutated form of the code (a definition commented "Mutated
form") under which TLC finds it violated.

| Run | Question | Bounds |
|---|---|---|
| `state_file` | do the file methods implement the atomic document, also through crashes and failing writes, and always return? | 2 threads, 4 calls, 4 documents (sets of 2 entries), 1 crash |
| `lab_safety` | do two request threads with any of the seven actions, in either mode, keep the lock, the records and the agreement of files, controls, evidence, jobs and events, and is every request answered? | 2 threads, 3 requests, 1 crash (which may change the mode), 1 access to the files that raises, 1 manual task, 2 seconds, log limits of 2 |
| `lab_history` | do score, verdict and trend agree over several scans, and do mock verdicts follow the drifts and repairs that were recorded? | 2 threads, 5 requests of five actions, both modes, 1 access to the files that raises, 2 seconds, trend limit 2, other logs long enough for all records |
| `lab_evidence` | does evidence reflect every action, as the runbook says? It does not. | 1 thread, 2 requests |
| `lab_remediation` | does remediation restore all controls, as its docstring says? It does not. | 1 thread, 2 requests |
| `cloud` | are the cloud backends `LocalLab`, with its fairness, and is what they call applied provisioned? | 3 platforms, 2 threads, 2 requests, all inputs or most of them missing, credentials in the environment or typed in, both modes, 1 crash, 1 access to the files that raises, 1 manual task, 2 seconds |
| `cloud_credentials` | do the credentials that made a cloud target ready reach Terraform, as the README says? They do not. | 1 thread, 1 request, credentials in `.env` |
| `api_server` | is there one action lock per document, do credentials reach all backends, is each request answered once, do only actions wait for actions? | 2 threads, 3 requests of any kind, 3 targets of which 2 share a backend, 1 constructor or read that raises |
| `credentials` | do entries with fallbacks implement two layers, do backends agree, can every status be explained? | 2 backends, one of them prebuilt, visited in 3 turns, constructors that raise, 2 keys and the Terraform token, 5 batches, 2 requests, 1 restart |
| `awx_job` | do watched jobs overlap, is success real, is every request answered even if jobs never end? | 2 threads, 3 requests, up to 2 playbooks each, 2 polls, 1 crash |
| `demo_config` | do presets keep their settings, do undisturbed answers show what was asked, are waits respected, does every exception have its cause? | 2 threads, 3 requests of any kind, 3 custom payloads of which one fails half way |
| `demo_config_check` | does a readiness check return a status, as its docstring says? It does not. | the same |

Why these bounds: the lock admits one action at a time, so two threads show
every overlap (one inside, one waiting, or both at the gap a missing lock would
open); three requests are a create, an action and one more that meets their
result; limits of 2 are exceeded by the third entry of a log. Two creates
and an action between them are enough for the second-granular environment names
to show: a second create in the same second rewrites the files of the current
environment, and may then fail, or be left by an exception. In `lab_history` a
create and four more requests reach three scans with different results and a trimmed trend.
`NoLostUpdate` and the two liveness properties are checked in both modes, and
across a restart that changes the mode.

A mock verdict needs five requests for a create, two drifts, a repair and a
scan; the logs of `lab_history` hold all records because the expected verdict
is computed from them. Two configure requests are enough for a value to be typed, overwritten and cleared
on every backend, since any two batches (both keys typed or blank, or one key
and one that is not accepted) may follow each other or overlap; they are also
enough for one that ends half way and the one that makes the backends alike
again (three would be needed after an overlap, which the proof covers). Values need no
second member because a typed value is told from an original one by its source.

In `cloud` two creates are what it takes for a failed one to follow a successful
one, in the same second or the next; since the run checks the refinement, all
that is known of `LocalLab` holds of the backends without being checked again.
Which input is missing makes no difference to the code, so a set with all
inputs and one that lacks some of each platform are enough.

In `api_server` a configure request, a first request for a backend it has passed already, and an action
that holds the lock or waits for it are the three that must meet; the sorted
targets end with one that has a backend of its own, so that the loop builds it,
or finds it built meanwhile. The supported list of the code is
longer; the proofs are for any list.

In `awx_job` three requests are a job that is given up, its retry, and one more
that waits for the lock; a poll limit of 2 instead of 300 lets a job end before,
between and after the polls. The statuses a job may have before it ends are one,
and so are the unsuccessful ones, because the code does not tell them apart. In
`demo_config` a start, a configure request and a check are what it takes for one
to disturb another; the assertions about presets need a custom request and the
preset that overtakes it.

Deadlock is checked in every run; the state in which all requests have been
answered is a step of its own (`Quiet`).

Four runs (`lab_evidence`, `lab_remediation`, `demo_config_check`,
`cloud_credentials`) show places where the code does not do what a document
says; see "findings" in `PROJECT.json`.

### Fairness

`FairSpec` gives each request thread weak fairness of its own steps: the server
is threaded, the operating system runs its threads, and locks in the model are
granted to one of the waiting threads, each of which makes only one request, so
nobody is overtaken for ever. It contains the assumption that Terraform and
Ansible processes end, because the code waits for them without a timeout. No
fairness is given to clients, the clock, the operator or crashes.

`CloudBackend` makes the same assumption for its threads and their Terraform
commands, from which TLC concludes that of `LocalLab` (`IsLocalLab` includes
it). `ApiServer` does *not* assume that an action ends: `Serve`, what a thread
is fair to, leaves out `ActionReturns` and `ActionRaises`, and `OnlyActionsWait`
says which requests end all the same. It does assume that locks are handed out
in the end, that constructors and reads of the document return, and that a
payload arrives or times out (the handler sets a timeout on the connection).

In `AwxJob` every HTTP request is taken to return, since it is made with a
timeout of 30 seconds (a server that keeps sending single bytes could stretch
it); nothing is assumed of the jobs. `StateFile` assumes of its threads what
`LocalLab` does. `DemoConfig` and `Credentials` claim no liveness: their
requests have neither loops nor waits, but for short critical sections.

## 4. Proofs

Every safety invariant and every action property of the runs that pass is a
theorem, for any number of threads, requests, crashes, seconds and log limits.
The assumptions are those the modules state of their constants (`ASSUME`); TLC
evaluates each of them. The invariants below were checked by TLC on the
instances of section 3 before they were proved.

`LocalLabProofs`. The invariant is `IInv == TypeOK /\ LockHeld /\
SnapshotCurrent`. `SnapshotCurrent` alone is not inductive: that nobody writes
while a thread holds a loaded document follows from `LockHeld`, since every
write of the document is made inside an action. `TypeOK` includes the limits of
the logs; its preservation rests on `InsertProperties` (what an insert with a
limit returns) and `ScoreType`. From `IInv`:

- `TypeCorrect`, `LockDiscipline`, `SnapshotsCurrent`;
- `NoUpdateIsLost` (`NoLostUpdate`): each step applies one edit of
  `LabDocument` to the *current* document - for the two saves because of
  `SnapshotCurrent` - and each edit keeps the logs but for one new entry;
- `TrendStaysNumbered` (`TrendLabelsConsecutive`), inductive with `IInv`.

They hold for both modes and for restarts that change them, and for any number
of accesses to the files that raise.

`LocalLabRecordProofs`. Four invariants, each on top of the one before, say what
a thread knows at each place of its method. Outside an action a thread knows
nothing, so by `LockHeld` a step endangers only what the acting thread itself
knows; crashes put everybody outside. What each step does to each field
of the document is stated once (the lemmas named `...Effects`) and used by all
four.

- `RecordInv` adds to `IInv` which places belong to which actions (`Placed`), the
  Terraform status, job, evidence entry and event a thread has written
  (`StatusKnown`, `JobKnown`, `EvidenceKnown`, `EventKnown`), and that EDA is only
  enabled along with a current environment. It gives `RunningStaysInFlight`,
  `AnswersStayRecorded`, `DriftsAnnounced` and, as facts about steps,
  `CurrentIsApplied` and `EventsNeedEda`.
- `FilesInv` adds what a scan has found so far, by the tasks it has still to
  run (`ScanKnown`), that a live action works in the current environment
  (`InCurrent`), and how the controls on record relate to the files
  (`Reflected`): each agrees, or a failed job or create on record explains the
  difference (`LeftByJob`, `LeftByCreate`), or a thread is at a place from which
  it will (`Underway`), unless the environment is unread. `LeftByJob` has to
  speak of a whole run of failed jobs, since any of them may have changed the
  file last; `LeftByCreate` allows only controls that the files say fail, for a
  create resets them. It gives `ScanVerdictsTrue` and `ControlsStayFaithful`.
- `TrendAgrees` says the same of trend and evidence as `TrendBacksEvidence`, but
  also while a scan has saved its point and not its evidence: the trend is then
  one ahead. Its lemmas count the scans of a log (`ScansUpTo`, a cardinality, so
  that no induction is needed) before and after an insert. It gives
  `TrendBacked`.
- `MockInv` says that in mock mode the newest entry that decides, or the one
  about to be recorded, explains the controls, and that a create or remediation
  on record has let the password control pass. It gives `MockVerdictsExplained`:
  an insert only shifts the older scans with the entries that decide them, and
  trimming takes the oldest entries first, so that the newest which decides a
  scan goes only when all of them have gone (`InsertDecides`).

`CloudBackendProofs`. `CloudIsLocalLab` is `CloudSpec => Spec`, `Spec` being that
of `LocalLab`: every step is one of `LocalLab` or leaves its variables alone. No
invariant is needed, because the two share the variables and the commands of
Terraform are stutters. What is proved of `LocalLab` follows for the three
backends; `CloudLosesNoUpdate`, `CloudLockDiscipline`, `CloudAnswersRecorded`,
`CloudControlsFaithful` and `CloudTrendBacked` say so. `CurrentIsProvisioned` is
`AppliedMeansProvisioned`; its invariant says in addition what a thread inside a
create knows of the environment it works on at each place (after the output,
that it was provisioned as a whole), that nobody else is in one, which is
where `LockHeld` comes in, and that the applied run is the current environment,
about to be saved as such, or unread. It needs `FilesInv`: an action may read,
and so take out of `unread`, the current environment only. `CloudControlsFaithful`
has the exceptions of `ControlsStayFaithful`.

`ApiServerProofs`. `IInv` is `TypeOK` with nine parts. `LockHeld`: a thread that
builds a backend holds `backends_lock`, nobody else does. `FirstBuild`: it
builds one that is not there. `Held`: a backend in a local variable is the
cached one; with `OneAtWork` (one thread per instance inside an action) this is
`ActionsSerialised`, because a cache entry is written once. `Answers` and
`Stages` say where a request may be with how many answers and give
`AnsweredOnce`. `Alone`, `Reach` and `Calm` are the progress of a configure
request no other overlaps: the targets it has passed have a backend, built, that
holds its batch, and after its answer so has every one. That all backends *are*
built by then is what makes `ConfigureReachesAll` true of later ones; it rests
on the loop going over all supported targets, also those without a backend.

`StateFileProofs`. `IInv` adds to `TypeOK`, `LockHeld`, `FileComplete` and
`EditsNewest` where each call may be (`CallInv`), in particular that the
temporary file about to be renamed holds the whole document. From it follow
its invariants and `StateFileIsAtomic`, the safety half of the refinement:
`Spec => Atomic!Spec`.

`CredentialsProofs`. `IInv == TypeOK /\ EntriesRememberOrigin`: without the
second part a cleared entry could uncover anything. `ApplyOne` shows for one
entry that applying a value keeps what it remembers and sets the typed value as
a layer would, `ShownIsLayered` that an entry which remembers its origin shows
what two layers show, and `ApplyBatch` extends both to a batch. From these
follow `TypeCorrect`, `OriginRemembered` and the refinement `ImplementsLayers`
(`IsLayered`), in which `Configure` and `Restart` are steps of the layers and
all other actions stutter. They hold for any number of backends, keys, values
and threads and for any batches clients send.

`CheckInv` adds what a readiness check has found so far: each requirement it
calls missing was absent from, and each it has found was present in, an entry
the check could have read. When it is done no requirement is left to look up,
which is `StatusesExplained` (`StatusExplained`). `AgreeInv` adds how far a
configure request has come: its list is the rest of `Order`, and the backends
reached hold, for every credential in `sure`, the value of its batch over what
the process was started with (`Halfway`); that credentials in `sure` are named by
no other batch at work, and those named by any are torn (`Noted`). It does not
matter what a backend held before, nor how often it comes up in `Order`:
`AppliedForgets` shows that an applied value depends only on the value and on
the origin of its key, because the fallback of a typed entry is never a typed
one. That is why one request that runs through alone heals what overlapping or
half-way ones have torn. In the end
all backends have been reached, which is `BackendsStayAlike` (`BackendsAgree`)
and rests on `OrderAssumption`: the cached backends are those of the
supported targets, and `_handle_auth_configure` goes through all of these.

`AwxJobProofs`. `IInv` is `TypeOK` with four parts. `LockHeld`: the lock is held
by exactly the thread inside an action. `Watched`: every job that has not ended
and was not given up is being polled. These two give `JobsDoNotOverlap`
(`OneJobAtATime`). `Sound`: an action that has not failed has lost none of its
jobs, and all but the polled one were successful, which gives `SuccessIsReal`
(`SuccessMeansDone`). `PlaybookLeft` keeps the count of playbooks above zero.

`DemoConfigProofs`. `PresetIntact` needs to know that the object a custom request
changes is marked or has strayed (`MergesOwn`), and that a preset is installed
in an object nobody refers to (`Fresh`); it is then `PresetsStayIntact`.
`ErrorsExplained` needs to know that a start time can only disappear through a
configure request (`StartKept`, from `Configuring`) and that requests at work
know of each other (`Rivalry`); it is then `ExceptionsAreExplained`. Both hold for
any number of threads and requests and for any payloads.

`ShowInv` adds what a request knows that nobody disturbed. A configure request
without a configure rival finds the configuration it installed at each later
statement, and without a start rival no start times and findings that follow
from the settings alone (`AnswerKnown`). A check without either finds the
configuration it has taken and has called every service waiting that still has
to (`WaitKnown`). A step that would disturb one of these is made by a request
which `Rivalry` then counts as a rival (`OtherStep`, `OthersKnow`). They give
`AnswersShowRequests` and `WaitsAreRespected`.

Only model-checked: liveness (`EveryRequestAnswered`, `TerraformResolves`,
`OnlyActionsWait`) and the fairness halves of the refinements of `StateFile`
(`IsAtomicDocument`) and `CloudBackend` (`IsLocalLab`), which the prover cannot
express. `TypeOK` of `StateFile`, `CloudBackend` and `ApiServer` is proved and
in no run.

## 5. Not modelled

- Reads and writes of the document that raise inside an action of `LocalLab`.
  `StateFile` has the writes; inside an action they end the method like a crash of its thread
  alone, with the document one edit short of what `RunningIsInFlight` and
  `AnswersAreRecorded` expect.
- Subprocesses that survive the server (but for the Terraform of
  `CloudBackend`), AWX jobs that were given up and act on files while the next
  action runs, and several server processes on one workspace: nothing in the
  code coordinates these.
- *Observability*, *contract checks*, *HCP client*: functions of one document,
  dictionary or response, without state; a test of their inputs says as much as
  a model.
- *Target detection*: a look at environment variables and files of the host,
  without state; its verdict is left open, as a blocked create.
- *Control panel*: it sends what `ApiServer` accepts from anybody in any order,
  and no property of the server rests on what its buttons allow.
- *Orchestrator*, *EDA rulebook*, *AWX bootstrap*, *Terraform modules*,
  *scripts and containers*: declarations, or run by external services and tools.
- Wording, tones, and the layout of answers.

What would be worth proving next: an `ApiServer` that uses `Credentials` as it
is, so that `ConfigureReachesAll` and `BackendsAgree` become one theorem, and a
version of `ControlsReflectFiles` under writes of the document that raise.
