---------------------------- MODULE MCCloudBackend ----------------------------
(* Instances of CloudBackend small enough for TLC. *)
EXTENDS CloudBackend

AllPlatforms == {"aws", "azure", "okd"}

\* Every input, or all but one or two of each platform.
SomeSettings == {AwsInputs \cup AzureInputs \cup OkdInputs, {"ssh_public_key", "cluster_name"}}

\* The credentials are in the environment of the server, or still to be typed in.
EnvironmentOrNone == {{"environment"}, {}}

\* The credentials are in .env.
DotenvOnly == {{"dotenv"}}

\* Creates, and one action that works in the environment they leave.
CreateAndRemediate == {"create_environment", "run_remediation"}
=============================================================================
