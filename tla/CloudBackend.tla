----------------------------- MODULE CloudBackend -----------------------------
(***************************************************************************)
(* AWSBackend, AzureBackend and OKDBackend: subclasses of LocalLabBackend  *)
(* with a document and directories of their own.  They inherit every       *)
(* action except create_environment, which here runs Terraform against a   *)
(* module that really provisions, with inputs and credentials that come    *)
(* from outside.  The three classes repeat the same code around their own  *)
(* readiness check and their own inputs.                                   *)
(*                                                                         *)
(* Abstractions: the credentials a platform requires are taken together;   *)
(* an input is usable or not (absent, blank, or no list of CIDRs).         *)
(***************************************************************************)
EXTENDS LocalLab

CONSTANTS
  Platforms,    \* the classes considered
  Settings,     \* the sets of inputs a server may be started with
  Provisions    \* the sets of places where a server may find credentials

ASSUME PlatformAssumption  == Platforms \in (SUBSET {"aws", "azure", "okd"}) \ {{}}
ASSUME ProvisionAssumption == \A p \in Provisions : p \subseteq {"environment", "dotenv"}

VARIABLES
  platform,     \* the class of the backend
  usable,       \* the TF_VAR_* inputs the server was started with, if usable
  credentials,  \* where the platform's credentials have been provided
  stage,        \* per thread, how far _terraform_apply_<platform> has come
  infra         \* per environment, what Terraform has really provisioned

own       == <<platform, usable, credentials, stage, infra>>
cloudVars == <<vars, own>>

-----------------------------------------------------------------------------
AwsInputs   == {"ssh_public_key", "allowed_cidr_blocks"}
AzureInputs == {"resource_group_name", "ssh_public_key", "allowed_source_prefix"}
OkdInputs   == {"cluster_name", "base_domain"}

\* The process environment, the .env file and the UI Authentication panel.
Providers == {"environment", "dotenv", "ui"}

Stages       == {"inputs", "init", "apply", "output"}
Provisioning == {"none", "partial", "whole"}

CloudInit ==
  /\ Init
  /\ platform \in Platforms
  /\ usable \in Settings
  /\ credentials \in Provisions
  /\ stage = [t \in Threads |-> "inputs"]
  /\ infra = [e \in Seconds |-> "none"]

-----------------------------------------------------------------------------
(* Readiness: get_auth_status.  An unsupported portal and a missing AWX    *)
(* configuration are among the reasons CreateBlocked leaves open.          *)

AwsReady   == credentials # {}
AzureReady == credentials # {}
OkdReady   == credentials # {} /\ OkdInputs \subseteq usable

\* A credential is typed into the UI panel or cleared there, at any moment.
TypeCredential ==
  /\ credentials' \in {credentials \cup {"ui"}, credentials \ {"ui"}}
  /\ UNCHANGED <<vars, platform, usable, stage, infra>>

-----------------------------------------------------------------------------
(* _terraform_apply_<platform>: the inputs, then three Terraform commands. *)

\* Mutated form: the missing input raises before the try block.
ReadInputsOutsideTry(t, inputs) ==
  /\ pc[t] = "tf_apply"
  /\ stage[t] = "inputs"
  /\ \/ /\ inputs \subseteq usable
        /\ stage' = [stage EXCEPT ![t] = "init"]
        /\ UNCHANGED pc
     \/ /\ ~(inputs \subseteq usable)
        /\ Goto(t, "respond")
        /\ UNCHANGED stage
  /\ UNCHANGED infra

ReadInputs(t, inputs) ==
  /\ pc[t] = "tf_apply"
  /\ stage[t] = "inputs"
  /\ \/ /\ inputs \subseteq usable
        /\ stage' = [stage EXCEPT ![t] = "init"]
        /\ UNCHANGED pc
     \/ /\ ~(inputs \subseteq usable)
        /\ Goto(t, "tf_failed")
        /\ UNCHANGED stage
  /\ UNCHANGED infra

\* terraform init
TerraformInit(t) ==
  /\ pc[t] = "tf_apply"
  /\ stage[t] = "init"
  /\ stage' = [stage EXCEPT ![t] = "apply"]
  /\ UNCHANGED <<pc, infra>>

\* terraform apply
TerraformProvisions(t) ==
  /\ pc[t] = "tf_apply"
  /\ stage[t] = "apply"
  /\ stage' = [stage EXCEPT ![t] = "output"]
  /\ infra' = [infra EXCEPT ![call[t].env] = "whole"]
  /\ UNCHANGED pc

\* terraform output, and build_handoff_payload of what it says.
HandOff(t) ==
  /\ pc[t] = "tf_apply"
  /\ stage[t] = "output"
  /\ stage' = [stage EXCEPT ![t] = "inputs"]
  /\ Goto(t, "tf_applied")
  /\ UNCHANGED infra

\* Mutated form: _run does not check the exit code of terraform apply.
CommandFailsUnchecked(t) ==
  /\ pc[t] = "tf_apply"
  /\ stage[t] # "inputs"
  /\ \/ /\ stage[t] = "apply"
        /\ stage' = [stage EXCEPT ![t] = "output"]
        /\ infra' \in {infra, [infra EXCEPT ![call[t].env] = "partial"]}
        /\ UNCHANGED pc
     \/ /\ stage[t] # "apply"
        /\ stage' = [stage EXCEPT ![t] = "inputs"]
        /\ Goto(t, "tf_failed")
        /\ UNCHANGED infra

\* A command or the handoff raises.  An apply that fails may have created or
\* replaced a part of the environment; a failure after it undoes nothing.
CommandFails(t) ==
  /\ pc[t] = "tf_apply"
  /\ stage[t] # "inputs"
  /\ stage' = [stage EXCEPT ![t] = "inputs"]
  /\ Goto(t, "tf_failed")
  /\ \/ UNCHANGED infra
     \/ stage[t] = "apply" /\ infra' = [infra EXCEPT ![call[t].env] = "partial"]

TerraformModule(t, inputs) ==
  /\ \/ ReadInputs(t, inputs)
     \/ TerraformInit(t) \/ TerraformProvisions(t) \/ HandOff(t) \/ CommandFails(t)
  /\ UNCHANGED <<doc, files, lock, call, Rest, platform, usable, credentials>>

AwsApply(t)   == platform = "aws"   /\ TerraformModule(t, AwsInputs)
AzureApply(t) == platform = "azure" /\ TerraformModule(t, AzureInputs)
OkdApply(t)   == platform = "okd"   /\ TerraformModule(t, OkdInputs)

-----------------------------------------------------------------------------
(* create_environment.                                                     *)

\* The steps around the apply are those of LocalLab.
CreateEnvironment(t, ready) ==
  /\ \/ MockApplied(t) \/ MockDirectory(t)
     \/ CreateBlocked(t)
     \/ ready /\ CreateDirectory(t)
     \/ MarkRunning(t) \/ MarkFailed(t) \/ MarkApplied(t)
     \/ LoadForCreate(t) \/ SaveCreated(t) \/ CreatedReadFails(t)
     \/ (mock \/ ready) /\ DirectoryFails(t)
  /\ UNCHANGED own

AwsCreate(t)   == platform = "aws"   /\ CreateEnvironment(t, AwsReady)
AzureCreate(t) == platform = "azure" /\ CreateEnvironment(t, AzureReady)
OkdCreate(t)   == platform = "okd"   /\ CreateEnvironment(t, OkdReady)

-----------------------------------------------------------------------------
(* Everything else is inherited.                                           *)

CloudSubmit(t) == Submit(t) /\ UNCHANGED own

Inherited(t) ==
  /\ \/ Acquire(t) \/ RunPlaybook(t) \/ RunMock(t) \/ AddIncident(t)
     \/ RecordAction(t) \/ EmitEvent(t) \/ Respond(t)
  /\ UNCHANGED own

CloudStep(t) ==
  \/ AwsCreate(t) \/ AzureCreate(t) \/ OkdCreate(t)
  \/ AwsApply(t) \/ AzureApply(t) \/ OkdApply(t)
  \/ Inherited(t)

World == (Tick \/ ManualRemediation) /\ UNCHANGED own

\* A restart reads the environment and .env anew and forgets what was typed
\* into the UI.  A terraform apply the dead server had started may have come
\* to any end.
CloudCrash ==
  /\ Crash
  /\ usable' \in Settings
  /\ credentials' \in Provisions
  /\ stage' = [t \in Threads |-> "inputs"]
  /\ \/ UNCHANGED infra
     \/ \E t \in Threads, left \in Provisioning \ {"none"} :
          /\ pc[t] = "tf_apply"
          /\ stage[t] = "apply"
          /\ infra' = [infra EXCEPT ![call[t].env] = left]
  /\ UNCHANGED platform

CloudQuiet == Quiet /\ UNCHANGED own

CloudNext ==
  \/ \E t \in Threads : CloudSubmit(t) \/ CloudStep(t)
  \/ TypeCredential \/ World \/ CloudCrash \/ CloudQuiet

CloudSpec == CloudInit /\ [][CloudNext]_cloudVars

\* As for LocalLab: threads are scheduled and Terraform commands end.
CloudFairSpec == CloudSpec /\ \A t \in Threads : WF_cloudVars(CloudStep(t))

-----------------------------------------------------------------------------
(* Properties.                                                             *)

CloudTypeOK ==
  /\ platform \in {"aws", "azure", "okd"}
  /\ usable \in Settings
  /\ credentials \subseteq Providers
  /\ stage \in [Threads -> Stages]
  /\ infra \in [Seconds -> Provisioning]

\* A cloud backend is a LocalLabBackend: with a create_environment of its own,
\* its own decorator and inputs of its own, every behaviour of its document,
\* lock and threads is one of LocalLab, whose properties it therefore has.
IsLocalLab == FairSpec

\* As long as the server lives, a live Terraform status of "applied" names an
\* environment that was really provisioned as a whole, and between actions
\* that one is the current environment: nothing that failed on the way, in
\* this create or in a later one, is taken for it.  Only where an exception
\* kept the applied environment's files from being read is an older one, or
\* none, still the current one.
CurrentIsProvisioned ==
  crashes = 0 /\ ~mock /\ doc.terraform.status = "applied" =>
    /\ infra[doc.terraform.run] = "whole"
    /\ lock = NoThread => doc.current = doc.terraform.run \/ doc.terraform.run \in unread

\* "Credentials can be provided from .env and/or entered in the UI
\* Authentication panel." (README.md): wherever they were provided, the
\* commands of a create that was found ready have them.  Terraform inherits
\* the environment of the server and nothing else.
CredentialsReachTerraform ==
  \A t \in Threads :
    pc[t] = "tf_apply" /\ stage[t] # "inputs" => "environment" \in credentials
=============================================================================
