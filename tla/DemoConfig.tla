------------------------------- MODULE DemoConfig -------------------------------
(***************************************************************************)
(* The demo configuration and the start times of the demo services.        *)
(*                                                                         *)
(* Both are globals of the process that request threads use without a      *)
(* lock.  A preset installs a new configuration object; a custom request   *)
(* changes the fields of the object it finds, one after the other.  Steps  *)
(* are as large as the statements between which threads may be switched.   *)
(***************************************************************************)
EXTENDS Naturals, Sequences, FiniteSets

CONSTANTS
  Threads,     \* request threads
  Payloads,    \* what a custom request may set: sequences of assignments
  MaxRequests  \* bound: requests ever made

Services == {"terraform", "ansible"}
Presets  == {"lab", "enterprise-mirror", "offline-fallback"}
Profiles == Presets \cup {"custom"}

\* "access" is what a probe of the service needs first: the Terraform token, the
\* host of the Ansible controller.
Fields == {"backend", "mode", "access"}
Keys   == Services \X Fields
Legal  == [f \in Fields |->
             CASE f = "backend" -> {"cli", "remote"}
               [] f = "mode"    -> {"compose", "endpoint", "offline"}
               [] f = "access"  -> {"none", "given"}]

Values == UNION {Legal[f] : f \in Fields}

\* <<key, value>>; a value that the field's enum does not have is "invalid".
Assignments == {a \in Keys \X (Values \cup {"invalid"}) :
                  a[2] \in Legal[a[1][2]] \/ (a[2] = "invalid" /\ a[1][2] # "access")}

ASSUME PayloadAssumption == Payloads \subseteq Seq(Assignments)
ASSUME BoundAssumption   == MaxRequests \in Nat

PresetMode(p) ==
  CASE p = "lab"               -> "compose"
    [] p = "enterprise-mirror" -> "endpoint"
    [] p = "offline-fallback"  -> "offline"

\* The settings a preset consists of.
Preset(p) ==
  [k \in Keys |->
     CASE k[2] = "backend" -> (IF p = "enterprise-mirror" THEN "remote" ELSE "cli")
       [] k[2] = "mode"    -> PresetMode(p)
       [] k[2] = "access"  -> "none"]

\* A request makes at most one object, which is given the request's number; object
\* 0 is the first configuration.
Objects == 0..MaxRequests

VARIABLES
  label,    \* active_profile of every configuration object
  settings, \* its fields
  current,  \* the object _demo_config refers to
  started,  \* _service_startup_times: none, recent (still within the wait) or past
  pc,       \* per thread: where its request is
  id,       \* per thread: number of its request
  kind,     \* per thread: which request
  profile,  \* per thread: the profile it asks for
  updates,  \* per thread: assignments still to make
  checks,   \* per thread: services still to check, or the service to start
  config,   \* per thread: the handler's reference to an object
  checked,  \* per thread: the reference of the readiness check
  verdict,  \* per thread: what was found out about each service
  rivals,   \* history: kinds of the requests that overlapped with this one
  strayed,  \* history: objects taken for a merge that had marked another object
  requests

locals == <<id, kind, profile, updates, checks, config, checked, verdict>>
vars   == <<label, settings, current, started, pc, locals, rivals, strayed, requests>>

Kinds     == {"configure", "start", "ready", "status"}
Locations == {"idle", "clear", "apply", "take", "merge", "get", "check", "mode",
              "lookup", "elapsed", "probe", "start", "compose", "answer", "raise"}
Verdicts  == {"none", "ready", "waiting", "error"}

Busy(t) == pc[t] # "idle"
Goto(t, there) == pc' = [pc EXCEPT ![t] = there]

NoStarts == [s \in Services |-> "none"]

Init ==
  /\ label = [o \in Objects |-> "lab"]
  /\ settings = [o \in Objects |-> Preset("lab")]
  /\ current = 0
  /\ started = NoStarts
  /\ pc = [t \in Threads |-> "idle"]
  /\ id = [t \in Threads |-> 0]
  /\ kind = [t \in Threads |-> "status"]
  /\ profile = [t \in Threads |-> "lab"]
  /\ updates = [t \in Threads |-> << >>]
  /\ checks = [t \in Threads |-> << >>]
  /\ config = [t \in Threads |-> 0]
  /\ checked = [t \in Threads |-> 0]
  /\ verdict = [t \in Threads |-> [s \in Services |-> "none"]]
  /\ rivals = [t \in Threads |-> {}]
  /\ strayed = {}
  /\ requests = 0

-----------------------------------------------------------------------------
(* Requests.                                                               *)

\* A request of kind k comes in and overlaps with those at work.
Begin(t, k, services, there) ==
  /\ pc[t] = "idle"
  /\ requests < MaxRequests
  /\ requests' = requests + 1
  /\ id' = [id EXCEPT ![t] = requests + 1]
  /\ kind' = [kind EXCEPT ![t] = k]
  /\ checks' = [checks EXCEPT ![t] = services]
  /\ rivals' = [u \in Threads |->
       IF u = t THEN {kind[w] : w \in {w \in Threads : Busy(w)}}
       ELSE IF Busy(u) THEN rivals[u] \cup {k} ELSE rivals[u]]
  /\ Goto(t, there)
  /\ UNCHANGED <<label, settings, current, started, config, checked, verdict, strayed>>

Both == <<"terraform", "ansible">>

\* POST /api/demo/configure; a name that is no profile counts as "lab", and only
\* a custom request makes assignments.
AskConfigure(t) ==
  /\ \E p \in Profiles : profile' = [profile EXCEPT ![t] = p]
  /\ \E payload \in Payloads \cup {<< >>} :
       /\ profile'[t] # "custom" => payload = << >>
       /\ updates' = [updates EXCEPT ![t] = payload]
  /\ Begin(t, "configure", Both, "clear")

AskStatus(t) == Begin(t, "status", Both, "get") /\ UNCHANGED <<profile, updates>>

AskReady(t) ==
  \E s \in Services : Begin(t, "ready", <<s>>, "check") /\ UNCHANGED <<profile, updates>>

AskStart(t) ==
  \E s \in Services : Begin(t, "start", <<s>>, "start") /\ UNCHANGED <<profile, updates>>

\* The answer, or what is sent for an exception; GET status sends nothing then.
Respond(t) ==
  /\ pc[t] \in {"answer", "raise"}
  /\ Goto(t, "idle")
  /\ id' = [id EXCEPT ![t] = 0]
  /\ kind' = [kind EXCEPT ![t] = "status"]
  /\ profile' = [profile EXCEPT ![t] = "lab"]
  /\ updates' = [updates EXCEPT ![t] = << >>]
  /\ checks' = [checks EXCEPT ![t] = << >>]
  /\ config' = [config EXCEPT ![t] = 0]
  /\ checked' = [checked EXCEPT ![t] = 0]
  /\ verdict' = [verdict EXCEPT ![t] = [s \in Services |-> "none"]]
  /\ rivals' = [rivals EXCEPT ![t] = {}]
  /\ UNCHANGED <<label, settings, current, started, strayed, requests>>

-----------------------------------------------------------------------------
(* Applying a profile, and the merge of a custom configuration.            *)

\* Mutated form: the start times survive the change of profile.
ClearStartsNot(t) ==
  /\ pc[t] = "clear"
  /\ Goto(t, "apply")
  /\ UNCHANGED <<label, settings, current, started, locals, rivals, strayed, requests>>

ClearStarts(t) ==
  /\ pc[t] = "clear"
  /\ started' = NoStarts
  /\ Goto(t, "apply")
  /\ UNCHANGED <<label, settings, current, locals, rivals, strayed, requests>>

ApplyPreset(t) ==
  /\ pc[t] = "apply"
  /\ profile[t] \in Presets
  /\ current' = id[t]
  /\ label' = [label EXCEPT ![id[t]] = profile[t]]
  /\ settings' = [settings EXCEPT ![id[t]] = Preset(profile[t])]
  /\ Goto(t, "get")
  /\ UNCHANGED <<started, locals, rivals, strayed, requests>>

\* Mutated form: a custom request does not mark the configuration it is to change.
MarkCustomNot(t) ==
  /\ pc[t] = "apply"
  /\ profile[t] = "custom"
  /\ config' = [config EXCEPT ![t] = current]
  /\ Goto(t, "take")
  /\ UNCHANGED <<label, settings, current, started, id, kind, profile, updates, checks,
                 checked, verdict, rivals, strayed, requests>>

\* The code does not keep the reference; config remembers it here up to
\* TakeForMerge.
MarkCustom(t) ==
  /\ pc[t] = "apply"
  /\ profile[t] = "custom"
  /\ label' = [label EXCEPT ![current] = "custom"]
  /\ config' = [config EXCEPT ![t] = current]
  /\ Goto(t, "take")
  /\ UNCHANGED <<settings, current, started, id, kind, profile, updates, checks,
                 checked, verdict, rivals, strayed, requests>>

TakeForMerge(t) ==
  /\ pc[t] = "take"
  /\ config' = [config EXCEPT ![t] = current]
  /\ strayed' = IF current = config[t] THEN strayed ELSE strayed \cup {current}
  /\ Goto(t, "merge")
  /\ UNCHANGED <<label, settings, current, started, id, kind, profile, updates, checks,
                 checked, verdict, rivals, requests>>

\* Mutated form: values are assigned without a conversion to the field's enum.
AssignUnchecked(t) ==
  /\ pc[t] = "merge"
  /\ updates[t] # << >>
  /\ LET k == Head(updates[t])[1]
         v == Head(updates[t])[2]
     IN  settings' = [settings EXCEPT ![config[t]] = [@ EXCEPT ![k] = v]]
  /\ updates' = [updates EXCEPT ![t] = Tail(@)]
  /\ UNCHANGED <<label, current, started, pc, id, kind, profile, checks, config,
                 checked, verdict, rivals, strayed, requests>>

Assign(t) ==
  /\ pc[t] = "merge"
  /\ updates[t] # << >>
  /\ LET k == Head(updates[t])[1]
         v == Head(updates[t])[2]
     IN  /\ v # "invalid"
         /\ settings' = [settings EXCEPT ![config[t]] = [@ EXCEPT ![k] = v]]
  /\ updates' = [updates EXCEPT ![t] = Tail(@)]
  /\ UNCHANGED <<label, current, started, pc, id, kind, profile, checks, config,
                 checked, verdict, rivals, strayed, requests>>

\* What was assigned before stays assigned.
AssignFails(t) ==
  /\ pc[t] = "merge"
  /\ updates[t] # << >>
  /\ Head(updates[t])[2] = "invalid"
  /\ Goto(t, "raise")
  /\ UNCHANGED <<label, settings, current, started, locals, rivals, strayed, requests>>

\* set_demo_config: the configuration taken for the merge is installed, again or
\* in place of one that another request has installed meanwhile.
Install(t) ==
  /\ pc[t] = "merge"
  /\ updates[t] = << >>
  /\ current' = config[t]
  /\ Goto(t, "get")
  /\ UNCHANGED <<label, settings, started, locals, rivals, strayed, requests>>

\* get_demo_config, for the answer.
GetConfig(t) ==
  /\ pc[t] = "get"
  /\ config' = [config EXCEPT ![t] = current]
  /\ Goto(t, "check")
  /\ UNCHANGED <<label, settings, current, started, id, kind, profile, updates, checks,
                 checked, verdict, rivals, strayed, requests>>

-----------------------------------------------------------------------------
(* Readiness checks.                                                       *)

Service(t) == Head(checks[t])

\* The verdict on the present service; the next one is checked, if any.
Find(t, v) ==
  /\ verdict' = [verdict EXCEPT ![t] = [@ EXCEPT ![Service(t)] = v]]
  /\ checks' = [checks EXCEPT ![t] = Tail(@)]
  /\ Goto(t, IF Tail(checks[t]) = << >> THEN "answer" ELSE "check")
  /\ UNCHANGED <<label, settings, current, started, id, kind, profile, updates, config,
                 checked, rivals, strayed, requests>>

TakeForCheck(t) ==
  /\ pc[t] = "check"
  /\ checked' = [checked EXCEPT ![t] = current]
  /\ Goto(t, "mode")
  /\ UNCHANGED <<label, settings, current, started, id, kind, profile, updates, checks,
                 config, verdict, rivals, strayed, requests>>

Mode(o, s) == settings[o][<<s, "mode">>]

ReadMode(t) ==
  /\ pc[t] = "mode"
  /\ Goto(t, IF Mode(checked[t], Service(t)) = "compose" THEN "lookup" ELSE "probe")
  /\ UNCHANGED <<label, settings, current, started, locals, rivals, strayed, requests>>

\* Is there a start time?
LookForStart(t) ==
  /\ pc[t] = "lookup"
  /\ Goto(t, IF started[Service(t)] # "none" THEN "elapsed" ELSE "probe")
  /\ UNCHANGED <<label, settings, current, started, locals, rivals, strayed, requests>>

StillWaiting(t) ==
  /\ pc[t] = "elapsed"
  /\ started[Service(t)] = "recent"
  /\ Find(t, "waiting")

\* Mutated form: the wait is not waited for.
WaitOverEarly(t) ==
  /\ pc[t] = "elapsed"
  /\ started[Service(t)] \in {"recent", "past"}
  /\ Goto(t, "probe")
  /\ UNCHANGED <<label, settings, current, started, locals, rivals, strayed, requests>>

WaitOver(t) ==
  /\ pc[t] = "elapsed"
  /\ started[Service(t)] = "past"
  /\ Goto(t, "probe")
  /\ UNCHANGED <<label, settings, current, started, locals, rivals, strayed, requests>>

\* KeyError: the start time was cleared since LookForStart.
StartGone(t) ==
  /\ pc[t] = "elapsed"
  /\ started[Service(t)] = "none"
  /\ Goto(t, "raise")
  /\ UNCHANGED <<label, settings, current, started, locals, rivals, strayed, requests>>

\* A remote service is asked, and may be anything, if there is a way to ask it.
Findings(o, s) ==
  IF settings[o][<<s, "backend">>] = "cli" THEN {"ready"}
  ELSE IF settings[o][<<s, "access">>] = "none" THEN {"error"}
  ELSE {"ready", "error"}

Probe(t) ==
  /\ pc[t] = "probe"
  /\ \E v \in Findings(checked[t], Service(t)) : Find(t, v)

-----------------------------------------------------------------------------
(* Starting a service.                                                     *)

\* Nothing is to be started, or it is not possible: orchestration is disabled or
\* there is no Docker socket.
StartNot(t) ==
  /\ pc[t] = "start"
  /\ Find(t, IF Mode(current, Service(t)) = "compose" THEN "error" ELSE "ready")

StartWithCompose(t) ==
  /\ pc[t] = "start"
  /\ Mode(current, Service(t)) = "compose"
  /\ Goto(t, "compose")
  /\ UNCHANGED <<label, settings, current, started, locals, rivals, strayed, requests>>

\* docker compose has brought the service up; its start time is recorded now.
ComposeUp(t) ==
  /\ pc[t] = "compose"
  /\ started' = [started EXCEPT ![Service(t)] = "recent"]
  /\ verdict' = [verdict EXCEPT ![t] = [@ EXCEPT ![Service(t)] = "waiting"]]
  /\ Goto(t, "answer")
  /\ UNCHANGED <<label, settings, current, id, kind, profile, updates, checks, config,
                 checked, rivals, strayed, requests>>

\* Mutated form: a failed start forgets the start before.
ComposeFailsForgetting(t) ==
  /\ pc[t] = "compose"
  /\ started' = [started EXCEPT ![Service(t)] = "none"]
  /\ verdict' = [verdict EXCEPT ![t] = [@ EXCEPT ![Service(t)] = "error"]]
  /\ Goto(t, "answer")
  /\ UNCHANGED <<label, settings, current, id, kind, profile, updates, checks, config,
                 checked, rivals, strayed, requests>>

ComposeFails(t) ==
  /\ pc[t] = "compose"
  /\ Find(t, "error")

\* The estimated wait passes.
WaitPasses(s) ==
  /\ started[s] = "recent"
  /\ started' = [started EXCEPT ![s] = "past"]
  /\ UNCHANGED <<label, settings, current, pc, locals, rivals, strayed, requests>>

\* Every request has been answered.
Quiet ==
  /\ \A t \in Threads : ~Busy(t)
  /\ UNCHANGED vars

Next ==
  \/ \E t \in Threads :
       \/ AskConfigure(t) \/ AskStatus(t) \/ AskReady(t) \/ AskStart(t) \/ Respond(t)
       \/ ClearStarts(t) \/ ApplyPreset(t) \/ MarkCustom(t) \/ TakeForMerge(t)
       \/ Assign(t) \/ AssignFails(t) \/ Install(t) \/ GetConfig(t)
       \/ TakeForCheck(t) \/ ReadMode(t) \/ LookForStart(t) \/ StillWaiting(t)
       \/ WaitOver(t) \/ StartGone(t) \/ Probe(t)
       \/ StartNot(t) \/ StartWithCompose(t) \/ ComposeUp(t) \/ ComposeFails(t)
  \/ \E s \in Services : WaitPasses(s)
  \/ Quiet

Spec == Init /\ [][Next]_vars

-----------------------------------------------------------------------------
(* Properties.                                                             *)

\* Every variable has its type, and every field a value of its enum, whatever a
\* custom request carries.
TypeOK ==
  /\ label \in [Objects -> Profiles]
  /\ settings \in [Objects -> [Keys -> Values]]
  /\ \A o \in Objects, k \in Keys : settings[o][k] \in Legal[k[2]]
  /\ requests \in 0..MaxRequests
  /\ current \in Objects
  /\ started \in [Services -> {"none", "recent", "past"}]
  /\ pc \in [Threads -> Locations]
  /\ id \in [Threads -> Objects]
  /\ kind \in [Threads -> Kinds]
  /\ profile \in [Threads -> Profiles]
  /\ updates \in [Threads -> Seq(Assignments)]
  /\ checks \in [Threads -> Seq(Services)]
  /\ config \in [Threads -> Objects]
  /\ checked \in [Threads -> Objects]
  /\ verdict \in [Threads -> [Services -> Verdicts]]
  /\ rivals \in [Threads -> SUBSET Kinds]
  /\ strayed \subseteq Objects

\* A configuration that goes by the name of a preset has the preset's settings,
\* also after a custom request failed half way through its assignments; the
\* exception is one that was installed between the two moments at which a custom
\* request marks a configuration and takes the one to change.
PresetIntact ==
  \A o \in Objects \ strayed : label[o] \in Presets => settings[o] = Preset(label[o])

\* A configure request that no other configure request overlapped is answered
\* with the profile it asked for and, if it was a preset, its settings; without
\* an overlapping start, readiness follows from these settings alone: no service
\* waits for a start made under an earlier profile.
AnswerShowsRequest ==
  \A t \in Threads :
    pc[t] = "answer" /\ kind[t] = "configure" /\ "configure" \notin rivals[t] =>
      /\ label[config[t]] = profile[t]
      /\ profile[t] \in Presets => settings[config[t]] = Preset(profile[t])
      /\ "start" \notin rivals[t] =>
           \A s \in Services : verdict[t][s] \in Findings(config[t], s)

\* A check that nothing but other checks overlapped calls a service "waiting" if
\* it runs under docker compose and its wait has not passed.
WaitRespected ==
  \A t \in Threads :
    pc[t] = "answer" /\ kind[t] # "start" /\ rivals[t] \cap {"configure", "start"} = {} =>
      \A s \in Services :
        /\ verdict[t][s] # "none"
        /\ started[s] = "recent"
        /\ Mode(current, s) = "compose"
        => verdict[t][s] = "waiting"

\* A request raises only for an illegal value of its own, unless a configure
\* request overlapped with it: starting services, and failing to, disturbs nobody.
ErrorsExplained ==
  \A t \in Threads :
    pc[t] = "raise" /\ "configure" \notin rivals[t] =>
      updates[t] # << >> /\ Head(updates[t])[2] = "invalid"

\* A readiness check returns a status.
CheckReturns == \A t \in Threads : pc[t] = "raise" => kind[t] = "configure"
=============================================================================
