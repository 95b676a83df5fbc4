-------------------------- MODULE CloudBackendProofs --------------------------
(***************************************************************************)
(* Theorems about CloudBackend: it implements LocalLab, so what is proved  *)
(* of LocalLab holds of the three subclasses, and what they show as        *)
(* applied is provisioned.                                                 *)
(***************************************************************************)
EXTENDS CloudBackend, LocalLabRecordProofs

-----------------------------------------------------------------------------
(* The subclasses implement LocalLab.                                      *)

\* A step inside _terraform_apply_<platform> is LocalLab's one step of
\* Terraform, or nothing LocalLab sees.
LEMMA ModuleRefines ==
  ASSUME NEW t \in Threads, NEW inputs, TerraformModule(t, inputs)
  PROVE  TerraformApply(t) \/ UNCHANGED vars
<1> USE DEF Rest, Bounds, counters, vars
<1>1. CASE ReadInputs(t, inputs)
  BY <1>1 DEF TerraformModule, ReadInputs, TerraformApply
<1>2. CASE TerraformInit(t) \/ TerraformProvisions(t)
  BY <1>2 DEF TerraformModule, TerraformInit, TerraformProvisions
<1>3. CASE HandOff(t)
  BY <1>3 DEF TerraformModule, HandOff, TerraformApply
<1>4. CASE CommandFails(t)
  BY <1>4 DEF TerraformModule, CommandFails, TerraformApply
<1> QED BY <1>1, <1>2, <1>3, <1>4 DEF TerraformModule

\* A thread's step is one of LocalLab, or nothing LocalLab sees.
LEMMA StepRefines ==
  ASSUME NEW t \in Threads, CloudStep(t)
  PROVE  Step(t) \/ UNCHANGED vars
<1>1. CASE \E inputs : TerraformModule(t, inputs)
  BY <1>1, ModuleRefines DEF Step, Create
<1>2. CASE \E ready : CreateEnvironment(t, ready)
  BY <1>2 DEF CreateEnvironment, Step, Create
<1>3. CASE Inherited(t)
  BY <1>3 DEF Inherited, Step
<1> QED BY <1>1, <1>2, <1>3
        DEF CloudStep, AwsCreate, AzureCreate, OkdCreate, AwsApply, AzureApply, OkdApply

\* So is every step of a cloud backend.
LEMMA NextRefines == [CloudNext]_cloudVars => [Next]_vars
<1> SUFFICES ASSUME [CloudNext]_cloudVars PROVE [Next]_vars
  OBVIOUS
<1>1. ASSUME NEW t \in Threads, CloudSubmit(t) PROVE Next
  BY <1>1 DEF CloudSubmit, Next
<1>2. ASSUME NEW t \in Threads, CloudStep(t) PROVE [Next]_vars
  BY <1>2, StepRefines DEF Next
<1>3. CASE World \/ CloudCrash \/ CloudQuiet
  BY <1>3 DEF World, CloudCrash, CloudQuiet, Next
<1>4. CASE TypeCredential \/ UNCHANGED cloudVars
  BY <1>4 DEF TypeCredential, cloudVars
<1> QED BY <1>1, <1>2, <1>3, <1>4 DEF CloudNext

\* Every behaviour of a cloud backend is one of LocalLab: initial states map to
\* initial states and steps to steps or stutters, under the identity mapping.
THEOREM CloudIsLocalLab == CloudSpec => Spec
<1>1. CloudInit => Init
  BY DEF CloudInit
<1> QED BY <1>1, NextRefines, PTL DEF CloudSpec, Spec

\* So no action of a cloud backend loses what a concurrent one recorded.
THEOREM CloudLosesNoUpdate == CloudSpec => NoLostUpdate
  BY CloudIsLocalLab, NoUpdateIsLost, PTL

\* And exactly the thread inside one of its actions holds action_lock, the
\* decorator of the subclass notwithstanding.
THEOREM CloudLockDiscipline == CloudSpec => []LockHeld
  BY CloudIsLocalLab, LockDiscipline, PTL

\* A client of a cloud backend is told "succeeded" only for an action whose newest
\* evidence entry, and newest job if it ran playbooks, say so.
THEOREM CloudAnswersRecorded == CloudSpec => []AnswersAreRecorded
  BY CloudIsLocalLab, AnswersStayRecorded, PTL

\* Between actions a control on a cloud backend's record is that of the current
\* environment's files, or the records show which failed job or create has left
\* it different, the creates that run the platform's own module included.
THEOREM CloudControlsFaithful == CloudSpec => []ControlsReflectFiles
  BY CloudIsLocalLab, ControlsStayFaithful, PTL

\* And its trend agrees with the verdicts its evidence shows.
THEOREM CloudTrendBacked == CloudSpec => []TrendBacksEvidence
  BY CloudIsLocalLab, TrendBacked, PTL

-----------------------------------------------------------------------------
(* What is shown as applied is provisioned.                                *)

Creating == {"mock_directory", "tf_apply", "tf_applied", "load_created", "save_created"}

\* What the threads in the middle of a create know.
CreateSound(t) ==
  /\ pc[t] # "tf_apply" => stage[t] = "inputs"
  /\ pc[t] = "tf_apply" => doc.terraform = [run |-> call[t].env, status |-> "running"]
  /\ \/ pc[t] = "tf_apply" /\ stage[t] = "output"
     \/ pc[t] = "tf_applied"
     => infra[call[t].env] = "whole"
  /\ pc[t] \in {"mock_directory", "load_created", "save_created"} =>
       doc.terraform = [run |-> call[t].env, status |-> "applied"]

\* The applied run is provisioned, and is the current one or about to be, or
\* else its files are known to be unread.
AppliedSound ==
  crashes = 0 /\ ~mock /\ doc.terraform.status = "applied" =>
    /\ infra[doc.terraform.run] = "whole"
    /\ \/ doc.current = doc.terraform.run
       \/ doc.terraform.run \in unread
       \/ \E t \in Threads : pc[t] \in {"load_created", "save_created"}

CloudInv == CloudTypeOK /\ (\A t \in Threads : CreateSound(t)) /\ AppliedSound

\* At the start nothing is applied and nobody is at work.
LEMMA CloudInitInvariant == CloudInit => CloudInv
<1> SUFFICES ASSUME CloudInit PROVE CloudInv
  OBVIOUS
<1>1. CloudTypeOK
  BY PlatformAssumption, ProvisionAssumption
     DEF CloudInit, CloudTypeOK, Providers, Stages, Provisioning
<1>2. \A t \in Threads : CreateSound(t)
  BY DEF CloudInit, Init, CreateSound
<1>3. AppliedSound
  BY DEF CloudInit, Init, DefaultDocument, AppliedSound
<1> QED BY <1>1, <1>2, <1>3 DEF CloudInv

\* The edits other than those of create_environment leave the Terraform
\* status and the current environment alone.
LEMMA OtherEdits ==
  ASSUME NEW d \in Documents
  PROVE  /\ \A a, v, c, k :
              LET e == [Recorded(d, a, v) EXCEPT !.controls = c, !.compliance = k]
              IN  e.terraform = d.terraform /\ e.current = d.current
         /\ \A a, v : Job(d, a, v).terraform = d.terraform /\ Job(d, a, v).current = d.current
         /\ \A a : Event(d, a).terraform = d.terraform /\ Event(d, a).current = d.current
         /\ \A s : Incident(d, s).terraform = d.terraform /\ Incident(d, s).current = d.current
         /\ \A c, k : Scanned(d, c, k).terraform = d.terraform
                      /\ Scanned(d, c, k).current = d.current
         /\ \A c : Drifted(d, c).terraform = d.terraform /\ Drifted(d, c).current = d.current
  BY DEF Documents, Recorded, Job, Event, Incident, Scanned, Drifted

\* An inherited step of a thread neither enters nor leaves create_environment
\* except at its ends, and touches nothing of it.  A live one reads the files
\* of the current environment alone.
LEMMA InheritedQuiet ==
  ASSUME IInv, FilesInv, NEW t \in Threads, Inherited(t)
  PROVE  /\ doc'.terraform = doc.terraform /\ doc'.current = doc.current
         /\ UNCHANGED <<own, crashes, mock>>
         /\ pc[t] \notin Creating
         /\ pc'[t] \notin Creating
         /\ \A u \in Threads : u # t => pc'[u] = pc[u] /\ call'[u] = call[u]
         /\ ~mock => unread \subseteq unread' \cup {doc.current}
<1> USE DEF IInv, Rest, counters
<1>1. doc \in Documents /\ pc \in [Threads -> Locations] /\ call \in [Threads -> Calls]
  BY DEF TypeOK
<1> USE <1>1
<1>2. CASE Acquire(t) \/ Respond(t)
  BY <1>2 DEF Inherited, Acquire, Respond, Goto, Bounds, Creating
<1>3. CASE AddIncident(t) \/ RecordAction(t) \/ EmitEvent(t)
  <2>1. doc'.terraform = doc.terraform /\ doc'.current = doc.current
    <3>1. CASE AddIncident(t)
      BY <3>1, OtherEdits DEF AddIncident
    <3>2. CASE RecordAction(t)
      BY <3>2, OtherEdits DEF RecordAction
    <3>3. CASE EmitEvent(t)
      BY <3>3, OtherEdits DEF EmitEvent
    <3> QED BY <1>3, <3>1, <3>2, <3>3
  <2>2. ~mock => unread \subseteq unread' \cup {doc.current}
    <3>1. ~mock /\ RecordAction(t) /\ call[t].action \in PlaybookActions => doc.current = call[t].env
      BY DEF FilesInv, FilesKnown, InCurrent, RecordAction
    <3> QED BY <1>3, <3>1 DEF AddIncident, RecordAction, EmitEvent
  <2> QED BY <1>3, <2>1, <2>2 DEF Inherited, AddIncident, RecordAction, EmitEvent, Goto, Bounds, Creating
<1>4. CASE RunMock(t)
  <2>1. doc'.terraform = doc.terraform /\ doc'.current = doc.current
    <3>1. CASE SaveMockDrift(t)
      BY <3>1, OtherEdits DEF SaveMockDrift, SnapshotCurrent, Holding
    <3> QED BY <1>4, <3>1 DEF RunMock, MockRestore, LoadForMock
  <2> QED BY <1>4, <2>1 DEF Inherited, RunMock, MockRestore, LoadForMock, SaveMockDrift, Goto, Bounds, Creating
<1>5. CASE RunPlaybook(t)
  <2>1. CASE NoEnvironment(t) \/ StartPlaybook(t) \/ PlaybookFails(t)
    BY <1>5, <2>1 DEF Inherited, NoEnvironment, StartPlaybook, PlaybookFails, Goto, Bounds, Creating
  <2>2. CASE RunTask(t) \/ PlaybookSucceeds(t)
    BY <1>5, <2>2 DEF Inherited, RunTask, PlaybookSucceeds, Goto, Bounds, Creating
  <2>3. CASE JobSucceeded(t) \/ JobFailed(t)
    <3>1. doc'.terraform = doc.terraform /\ doc'.current = doc.current
      BY <2>3, OtherEdits DEF JobSucceeded, JobFailed
    <3> QED BY <1>5, <2>3, <3>1 DEF Inherited, JobSucceeded, JobFailed, Goto, Bounds, Creating
  <2>4. CASE SaveScan(t)
    <3>1. doc'.terraform = doc.terraform /\ doc'.current = doc.current
      BY <2>4, OtherEdits DEF SaveScan, SnapshotCurrent, Holding
    <3> QED BY <1>5, <2>4, <3>1 DEF Inherited, SaveScan, Goto, Bounds, Creating
  <2>5. CASE LoadForScan(t) \/ ReadFails(t) \/ BaselineReadFails(t)
    BY <1>5, <2>5 DEF Inherited, LoadForScan, ReadFails, BaselineReadFails, Leave, Goto, Bounds, Creating
  <2> QED BY <1>5, <2>1, <2>2, <2>3, <2>4, <2>5 DEF RunPlaybook
<1> QED BY <1>2, <1>3, <1>4, <1>5 DEF Inherited

\* While one thread is inside an action, the others know nothing to be lost.
LEMMA OthersSound ==
  ASSUME IInv, CloudInv, NEW t \in Threads, pc[t] \in Working,
         NEW u \in Threads, u # t, pc'[u] = pc[u], stage'[u] = stage[u]
  PROVE  CreateSound(u)'
<1>1. pc[u] \in {"idle", "waiting"}
  BY DEF IInv, TypeOK, LockHeld, Working
<1>2. stage'[u] = "inputs"
  BY <1>1 DEF CloudInv, CreateSound
<1> QED BY <1>1, <1>2 DEF CreateSound

\* The steps of create_environment around the apply.
LEMMA CreateKeepsInvariant ==
  ASSUME IInv, CloudInv, NEW t \in Threads, NEW ready, CreateEnvironment(t, ready)
  PROVE  CloudInv'
<1> USE DEF IInv, CloudInv
<1>1. /\ doc \in Documents /\ pc \in [Threads -> Locations] /\ call \in [Threads -> Calls]
      /\ stage \in [Threads -> Stages] /\ UNCHANGED own /\ UNCHANGED <<mock, crashes>>
      /\ CreateSound(t)
  BY DEF TypeOK, CloudTypeOK, CreateEnvironment, Rest, Bounds, counters, MockApplied,
         MockDirectory, CreateBlocked, CreateDirectory, MarkRunning, MarkFailed, MarkApplied,
         LoadForCreate, SaveCreated, DirectoryFails, CreatedReadFails, Leave
<1>2. CloudTypeOK'
  BY <1>1 DEF own, CloudTypeOK
<1>3. /\ pc[t] \in Working
      /\ \A u \in Threads : u # t => pc'[u] = pc[u] /\ stage'[u] = stage[u] /\ pc[u] \notin Working
  <2>1. pc[t] \in Working
    BY WorkingLocations DEF CreateEnvironment, MockApplied, MockDirectory, CreateBlocked,
       CreateDirectory, MarkRunning, MarkFailed, MarkApplied, LoadForCreate, SaveCreated,
       DirectoryFails, CreatedReadFails
  <2>2. \A u \in Threads : u # t => pc'[u] = pc[u]
    BY <1>1 DEF CreateEnvironment, MockApplied, MockDirectory, CreateBlocked, CreateDirectory,
       MarkRunning, MarkFailed, MarkApplied, LoadForCreate, SaveCreated, DirectoryFails,
       CreatedReadFails, Leave, Goto
  <2> QED BY <1>1, <2>1, <2>2 DEF LockHeld, own
<1>4. \A u \in Threads : u # t => CreateSound(u)'
  BY <1>3, OthersSound
<1>5. \A u \in Threads : pc[u] \in {"load_created", "save_created"} => u = t
  BY <1>3, WorkingLocations
<1> USE <1>1
<1>6. CASE MockApplied(t)
  <2>1. CreateSound(t)'
    <3>1. /\ doc'.terraform = [run |-> clock, status |-> "applied"]
          /\ call'[t].env = clock /\ pc'[t] = "mock_directory" /\ pc[t] = "begin"
      BY <1>6 DEF MockApplied, Terraform, Documents, Goto, Calls
    <3> QED BY <3>1 DEF CreateSound, own
  <2>2. AppliedSound'
    BY <1>6 DEF MockApplied, AppliedSound
  <2> QED BY <1>2, <1>4, <2>1, <2>2
<1>7. CASE CreateBlocked(t) \/ CreateDirectory(t)
  <2>1. CreateSound(t)'
    BY <1>7 DEF CreateBlocked, CreateDirectory, Goto, CreateSound, own
  <2>2. AppliedSound'
    BY <1>5, <1>7 DEF CreateBlocked, CreateDirectory, AppliedSound, own, Rest
  <2> QED BY <1>2, <1>4, <2>1, <2>2
<1>8. CASE MockDirectory(t)
  <2>1. doc' = doc /\ call' = call /\ pc'[t] = "load_created" /\ pc[t] = "mock_directory"
    BY <1>8 DEF MockDirectory, Goto
  <2>2. CreateSound(t)'
    BY <2>1 DEF CreateSound, own
  <2>3. AppliedSound'
    BY <2>1 DEF AppliedSound, own
  <2> QED BY <1>2, <1>4, <2>2, <2>3
<1>9. CASE MarkRunning(t)
  <2>1. doc'.terraform = [run |-> call[t].env, status |-> "running"] /\ call' = call
    BY <1>9 DEF MarkRunning, Terraform, Documents
  <2>2. CreateSound(t)'
    BY <1>9, <2>1 DEF MarkRunning, Goto, CreateSound, own
  <2>3. AppliedSound'
    BY <2>1 DEF AppliedSound
  <2> QED BY <1>2, <1>4, <2>2, <2>3
<1>10. CASE MarkFailed(t)
  <2>1. doc'.terraform.status = "failed"
    BY <1>10 DEF MarkFailed, Terraform, Documents
  <2>2. CreateSound(t)'
    BY <1>10 DEF MarkFailed, Goto, CreateSound, own
  <2>3. AppliedSound'
    BY <2>1 DEF AppliedSound
  <2> QED BY <1>2, <1>4, <2>2, <2>3
<1>11. CASE MarkApplied(t)
  <2>1. doc'.terraform = [run |-> call[t].env, status |-> "applied"] /\ call' = call
        /\ pc'[t] = "load_created"
    BY <1>11 DEF MarkApplied, Terraform, Documents, Goto
  <2>2. CreateSound(t)'
    BY <1>11, <2>1 DEF MarkApplied, CreateSound, own
  <2>3. infra'[call[t].env] = "whole"
    BY <1>11 DEF MarkApplied, CreateSound, own
  <2>4. AppliedSound'
    BY <2>1, <2>3 DEF AppliedSound
  <2> QED BY <1>2, <1>4, <2>2, <2>4
<1>12. CASE LoadForCreate(t)
  <2>1. doc' = doc /\ pc'[t] = "save_created" /\ call'[t].env = call[t].env /\ pc[t] = "load_created"
    BY <1>12 DEF LoadForCreate, Goto, Calls
  <2>2. CreateSound(t)'
    BY <2>1 DEF CreateSound, own
  <2>3. AppliedSound'
    BY <2>1 DEF AppliedSound, own
  <2> QED BY <1>2, <1>4, <2>2, <2>3
<1>13. CASE SaveCreated(t)
  <2>1. call[t].snap = doc
    BY <1>13 DEF SaveCreated, SnapshotCurrent, Holding
  <2>2. doc'.terraform = doc.terraform /\ doc'.current = call[t].env
        /\ pc'[t] = "record" /\ pc[t] = "save_created"
    BY <1>13, <2>1 DEF SaveCreated, Created, Documents, Goto
  <2>3. doc.terraform.run = call[t].env
    BY <2>2 DEF CreateSound
  <2>4. CreateSound(t)'
    BY <2>2 DEF CreateSound, own
  <2>5. AppliedSound'
    BY <2>2, <2>3 DEF AppliedSound, own
  <2> QED BY <1>2, <1>4, <2>4, <2>5
<1>14. CASE DirectoryFails(t)
  <2>1. doc' = doc /\ pc'[t] = "respond" /\ unread \subseteq unread'
    <3>1. PICK environment : Leave(t, environment)
      BY <1>14 DEF DirectoryFails
    <3> QED BY <3>1 DEF Leave, Goto
  <2>2. CreateSound(t)'
    BY <1>14, <2>1 DEF DirectoryFails, CreateSound, own
  <2>3. AppliedSound'
    BY <1>5, <1>14, <2>1 DEF DirectoryFails, AppliedSound, own
  <2> QED BY <1>2, <1>4, <2>2, <2>3
<1>15. CASE CreatedReadFails(t)
  <2>1. doc' = doc /\ pc'[t] = "respond" /\ pc[t] = "save_created"
        /\ unread' = unread \cup {call[t].env}
    BY <1>15 DEF CreatedReadFails, Leave, Goto
  <2>2. doc.terraform.run \in unread'
    BY <2>1 DEF CreateSound
  <2>3. CreateSound(t)'
    BY <2>1 DEF CreateSound, own
  <2>4. AppliedSound'
    BY <2>1, <2>2 DEF AppliedSound, own
  <2> QED BY <1>2, <1>4, <2>3, <2>4
<1> QED BY <1>6, <1>7, <1>8, <1>9, <1>10, <1>11, <1>12, <1>13, <1>14, <1>15 DEF CreateEnvironment

\* The steps of _terraform_apply_<platform>.
LEMMA ModuleKeepsInvariant ==
  ASSUME IInv, CloudInv, NEW t \in Threads, NEW inputs, TerraformModule(t, inputs)
  PROVE  CloudInv'
<1> USE DEF IInv, CloudInv
<1>1. /\ pc \in [Threads -> Locations] /\ stage \in [Threads -> Stages]
      /\ infra \in [Seconds -> Provisioning] /\ call[t].env \in Seconds
      /\ UNCHANGED <<doc, call, mock, crashes, unread, platform, usable, credentials>>
      /\ CreateSound(t) /\ pc[t] = "tf_apply"
  BY DEF TypeOK, Calls, CloudTypeOK, TerraformModule, Rest, Bounds, counters, ReadInputs, TerraformInit,
         TerraformProvisions, HandOff, CommandFails
<1>2. /\ infra' \in [Seconds -> Provisioning] /\ stage' \in [Threads -> Stages]
      /\ \A u \in Threads : u # t => pc'[u] = pc[u] /\ stage'[u] = stage[u]
  BY <1>1 DEF TerraformModule, ReadInputs, TerraformInit, TerraformProvisions, HandOff,
              CommandFails, Goto, Stages, Provisioning
<1>3. CloudTypeOK'
  BY <1>1, <1>2 DEF CloudTypeOK
<1>4. pc[t] \in Working
  BY <1>1, WorkingLocations
<1>5. \A u \in Threads : u # t => CreateSound(u)'
  BY <1>2, <1>4, OthersSound
<1>6. CreateSound(t)'
  BY <1>1 DEF TerraformModule, ReadInputs, TerraformInit, TerraformProvisions, HandOff,
              CommandFails, Goto, CreateSound
<1>7. AppliedSound'
  BY <1>1 DEF AppliedSound, CreateSound
<1> QED BY <1>3, <1>5, <1>6, <1>7

\* Every step keeps what is known of what was provisioned.
LEMMA CloudNextInvariant == IInv /\ FilesInv /\ CloudInv /\ [CloudNext]_cloudVars => CloudInv'
<1> SUFFICES ASSUME IInv, FilesInv, CloudInv, [CloudNext]_cloudVars PROVE CloudInv'
  OBVIOUS
<1>1. CASE UNCHANGED cloudVars
  BY <1>1 DEF cloudVars, vars, counters, own, CloudInv, CloudTypeOK, CreateSound, AppliedSound
<1>2. ASSUME NEW t \in Threads, CloudSubmit(t) PROVE CloudInv'
  <2>1. /\ pc \in [Threads -> Locations] /\ pc[t] = "idle" /\ pc' = [pc EXCEPT ![t] = "waiting"]
        /\ \A u \in Threads : u # t => call'[u] = call[u]
        /\ UNCHANGED <<doc, mock, crashes, unread, own>>
    BY <1>2 DEF CloudSubmit, Submit, Goto, IInv, TypeOK
  <2>2. ASSUME NEW u \in Threads PROVE CreateSound(u)'
    BY <2>1 DEF CloudInv, CreateSound, own
  <2>3. AppliedSound'
    BY <2>1 DEF CloudInv, AppliedSound, own
  <2>4. CloudTypeOK'
    BY <2>1 DEF CloudInv, CloudTypeOK, own
  <2> QED BY <2>2, <2>3, <2>4 DEF CloudInv
<1>3. ASSUME NEW t \in Threads, Inherited(t) PROVE CloudInv'
  <2>1. /\ doc'.terraform = doc.terraform /\ doc'.current = doc.current
        /\ UNCHANGED <<own, crashes, mock>>
        /\ pc[t] \notin Creating /\ pc'[t] \notin Creating
        /\ \A u \in Threads : u # t => pc'[u] = pc[u] /\ call'[u] = call[u]
        /\ ~mock => unread \subseteq unread' \cup {doc.current}
    BY <1>3, InheritedQuiet
  <2>2. ASSUME NEW u \in Threads PROVE CreateSound(u)'
    BY <2>1 DEF CloudInv, CreateSound, own, Creating
  <2>3. AppliedSound'
    BY <2>1 DEF CloudInv, AppliedSound, own, Creating
  <2>4. CloudTypeOK'
    BY <2>1 DEF CloudInv, CloudTypeOK, own
  <2> QED BY <2>2, <2>3, <2>4 DEF CloudInv
<1>4. ASSUME NEW t \in Threads, CloudStep(t) PROVE CloudInv'
  BY <1>3, <1>4, CreateKeepsInvariant, ModuleKeepsInvariant
     DEF CloudStep, AwsCreate, AzureCreate, OkdCreate, AwsApply, AzureApply, OkdApply
<1>5. CASE TypeCredential
  <2>1. CloudTypeOK'
    BY <1>5 DEF TypeCredential, CloudInv, CloudTypeOK, Providers
  <2> QED BY <1>5, <2>1 DEF TypeCredential, vars, counters, CloudInv, CreateSound, AppliedSound
<1>6. CASE World \/ CloudQuiet
  BY <1>6 DEF World, Tick, ManualRemediation, CloudQuiet, Quiet, vars, counters, own, CloudInv,
              CloudTypeOK, CreateSound, AppliedSound
<1>7. CASE CloudCrash
  <2>1. /\ crashes' = crashes + 1 /\ crashes \in Nat
        /\ pc' = [t \in Threads |-> "idle"] /\ stage' = [t \in Threads |-> "inputs"]
    BY <1>7 DEF CloudCrash, Crash, IInv, TypeOK
  <2>2. infra' \in [Seconds -> Provisioning]
    BY <1>7 DEF CloudCrash, CloudInv, CloudTypeOK, Provisioning
  <2>3. CloudTypeOK'
    BY <1>7, <2>1, <2>2, ProvisionAssumption
       DEF CloudCrash, CloudInv, CloudTypeOK, Providers, Stages
  <2>4. \A t \in Threads : CreateSound(t)'
    BY <2>1 DEF CreateSound
  <2>5. AppliedSound'
    BY <2>1 DEF AppliedSound
  <2> QED BY <2>3, <2>4, <2>5 DEF CloudInv
<1> QED BY <1>1, <1>2, <1>4, <1>5, <1>6, <1>7 DEF CloudNext

\* Whatever fails at any stage of any create, a live status of "applied" names
\* a wholly provisioned environment and, between actions, the current one, or
\* one whose files an exception kept from being read.
THEOREM AppliedMeansProvisioned == CloudSpec => []CurrentIsProvisioned
<1>1. IInv /\ CloudInv => CurrentIsProvisioned
  <2> SUFFICES ASSUME IInv, CloudInv, lock = NoThread, NEW t \in Threads
               PROVE  pc[t] \notin {"load_created", "save_created"}
    BY DEF CloudInv, AppliedSound, CurrentIsProvisioned
  <2> QED BY NoThreadAssumption, WorkingLocations DEF IInv, LockHeld
<1> QED BY <1>1, CloudInitInvariant, CloudNextInvariant, CloudIsLocalLab, Invariant,
           FilesInvariant, PTL
        DEF CloudSpec
=============================================================================
