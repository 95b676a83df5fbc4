---------------------------- MODULE DemoConfigProofs ----------------------------
(***************************************************************************)
(* Theorems about DemoConfig, for any number of threads and requests and   *)
(* any payloads.                                                           *)
(***************************************************************************)
EXTENDS DemoConfig, TLAPS

-----------------------------------------------------------------------------
(* The inductive invariant.                                                *)

\* A request has a service left to check until it is answered.
ChecksLeft ==
  \A t \in Threads : pc[t] \notin {"idle", "answer", "raise"} => checks[t] # << >>

\* The object a configure request is to make is nobody's yet.
Preparing(t) == pc[t] \in {"clear", "apply"}
Fresh ==
  /\ current <= requests
  /\ \A t \in Threads : id[t] <= requests /\ config[t] <= requests
  /\ \A t \in Threads : Preparing(t) =>
       /\ id[t] # 0
       /\ id[t] # current
       /\ \A u \in Threads : id[t] # config[u] /\ (id[t] = id[u] => u = t)

\* A custom request changes an object marked as custom, but for those that strayed.
MergesOwn ==
  \A t \in Threads :
    /\ pc[t] = "take" => label[config[t]] = "custom"
    /\ pc[t] = "merge" => label[config[t]] = "custom" \/ config[t] \in strayed

\* Requests at work know of each other, and those that change the configuration
\* are configure requests.
Rivalry ==
  \A t, u \in Threads : t # u /\ Busy(t) /\ Busy(u) => kind[u] \in rivals[t]
Configuring ==
  \A t \in Threads : pc[t] \in {"clear", "apply", "take", "merge"} => kind[t] = "configure"

\* Only a configure request makes a start time disappear under a check.
StartKept ==
  \A t \in Threads : pc[t] = "elapsed" /\ "configure" \notin rivals[t] =>
    started[Service(t)] # "none"

IInv ==
  /\ TypeOK /\ ChecksLeft
  /\ Fresh /\ MergesOwn /\ PresetIntact
  /\ Rivalry /\ Configuring /\ StartKept /\ ErrorsExplained

-----------------------------------------------------------------------------
(* Presets, assignments and verdicts have their types.                     *)

\* A preset has a value for every key, of its field's enum.
LEMMA PresetType ==
  ASSUME NEW p \in Presets
  PROVE  /\ Preset(p) \in [Keys -> Values]
         /\ \A k \in Keys : Preset(p)[k] \in Legal[k[2]]
<1>1. ASSUME NEW k \in Keys
      PROVE  /\ k[2] \in Fields
             /\ Preset(p)[k] \in Legal[k[2]]
  BY DEF Preset, PresetMode, Presets, Keys, Legal, Fields
<1>2. \A f \in Fields : Legal[f] \subseteq Values
  BY DEF Values
<1>3. \A k \in Keys : Preset(p)[k] \in Values
  BY <1>1, <1>2
<1> QED BY <1>1, <1>3 DEF Preset

\* The head of a list of assignments that does not raise.
LEMMA HeadLegal ==
  ASSUME NEW todo \in Seq(Assignments), todo # << >>
  PROVE  /\ Head(todo)[1] \in Keys
         /\ Head(todo)[2] # "invalid" =>
              Head(todo)[2] \in Legal[Head(todo)[1][2]] /\ Head(todo)[2] \in Values
         /\ Tail(todo) \in Seq(Assignments)
<1>1. Head(todo) \in Assignments /\ Tail(todo) \in Seq(Assignments)
  OBVIOUS
<1>2. PICK k \in Keys, v \in Values \cup {"invalid"} :
        Head(todo) = <<k, v>> /\ (v \in Legal[k[2]] \/ v = "invalid")
  BY <1>1 DEF Assignments, Values
<1> QED BY <1>1, <1>2

\* A request that is not over has a service to check.
LEMMA HeadService ==
  ASSUME TypeOK, ChecksLeft, NEW t \in Threads, pc[t] \notin {"idle", "answer", "raise"}
  PROVE  Service(t) \in Services /\ Tail(checks[t]) \in Seq(Services)
BY DEF TypeOK, ChecksLeft, Service

\* At the start every object is the preset it is labelled with.
LEMMA InitEstablishes == Init => IInv
<1> SUFFICES ASSUME Init PROVE IInv
  OBVIOUS
<1> USE DEF Init
<1>1. TypeOK
  <2>1. 0 \in Objects /\ requests \in 0..MaxRequests
    BY BoundAssumption DEF Objects
  <2>2. settings \in [Objects -> [Keys -> Values]]
    BY PresetType DEF Presets
  <2>3. \A o \in Objects, k \in Keys : settings[o][k] \in Legal[k[2]]
    BY PresetType DEF Presets
  <2>4. /\ label \in [Objects -> Profiles]
        /\ started \in [Services -> {"none", "recent", "past"}]
        /\ pc \in [Threads -> Locations]
        /\ kind \in [Threads -> Kinds]
        /\ profile \in [Threads -> Profiles]
        /\ verdict \in [Threads -> [Services -> Verdicts]]
    BY DEF Profiles, Presets, NoStarts, Locations, Kinds, Verdicts
  <2> QED BY <2>1, <2>2, <2>3, <2>4 DEF TypeOK
<1>2. ChecksLeft
  BY DEF ChecksLeft
<1>3. Fresh
  BY DEF Fresh, Preparing
<1>4. MergesOwn
  BY DEF MergesOwn
<1>5. PresetIntact
  BY DEF PresetIntact
<1>6. Rivalry /\ Configuring /\ StartKept /\ ErrorsExplained
  BY DEF Rivalry, Configuring, StartKept, ErrorsExplained, Busy
<1> QED BY <1>1, <1>2, <1>3, <1>4, <1>5, <1>6 DEF IInv

-----------------------------------------------------------------------------
(* Every step preserves it.                                                *)

\* A new request has a number of its own and knows of those at work.
LEMMA BeginKeeps ==
  ASSUME IInv, NEW t \in Threads, NEW k \in Kinds, NEW services \in Seq(Services),
         NEW there \in {"clear", "get", "check", "start"},
         Begin(t, k, services, there), services # << >>,
         there = "clear" => k = "configure",
         profile' \in [Threads -> Profiles], updates' \in [Threads -> Seq(Assignments)],
         \A u \in Threads : u # t => updates'[u] = updates[u]
  PROVE  IInv'
<1> USE DEF IInv, Begin, Goto
<1>1. TypeOK'
  <2>1. requests' \in 0..MaxRequests /\ requests + 1 \in Objects
    BY BoundAssumption DEF TypeOK, Objects
  <2>2. rivals' \in [Threads -> SUBSET Kinds]
    BY DEF TypeOK
  <2>3. pc' \in [Threads -> Locations]
    BY DEF TypeOK, Locations
  <2> QED BY <2>1, <2>2, <2>3 DEF TypeOK
<1>2. ChecksLeft'
  BY DEF TypeOK, ChecksLeft
<1>3. Fresh'
  <2>1. /\ requests \in Nat /\ current \in Nat
        /\ \A u \in Threads : id[u] \in Nat /\ config[u] \in Nat
        /\ id'[t] = requests + 1
        /\ \A u \in Threads : u # t => id'[u] = id[u] /\ pc'[u] = pc[u]
    BY DEF TypeOK, Objects
  <2>2. /\ current' <= requests'
        /\ \A u \in Threads : id'[u] <= requests' /\ config'[u] <= requests'
    BY <2>1 DEF Fresh
  <2>3. ASSUME NEW u \in Threads, Preparing(u)'
        PROVE  /\ id'[u] # 0 /\ id'[u] # current'
               /\ \A w \in Threads : id'[u] # config'[w] /\ (id'[u] = id'[w] => w = u)
    <3>1. CASE u = t
      BY <2>1, <3>1 DEF Fresh
    <3>2. CASE u # t
      <4>1. Preparing(u) /\ id'[u] = id[u] /\ id[u] <= requests
        BY <2>1, <2>3, <3>2 DEF Preparing, Fresh
      <4> QED BY <2>1, <4>1 DEF Fresh
    <3> QED BY <3>1, <3>2
  <2> QED BY <2>2, <2>3 DEF Fresh
<1>4. MergesOwn'
  BY DEF TypeOK, MergesOwn
<1>5. PresetIntact'
  BY DEF PresetIntact
<1>6. Rivalry'
  BY DEF TypeOK, Rivalry, Busy
<1>7. Configuring'
  BY DEF TypeOK, Configuring
<1>8. StartKept'
  BY DEF TypeOK, StartKept, Service
<1>9. ErrorsExplained'
  BY DEF TypeOK, ErrorsExplained
<1> QED BY <1>1, <1>2, <1>3, <1>4, <1>5, <1>6, <1>7, <1>8, <1>9

\* A request that is over refers to nothing.
LEMMA RespondKeeps ==
  ASSUME IInv, NEW t \in Threads, Respond(t)
  PROVE  IInv'
<1> USE DEF IInv, Respond, Goto, locals
<1>1. TypeOK'
  <2>1. 0 \in Objects
    BY BoundAssumption DEF Objects
  <2>2. /\ pc' \in [Threads -> Locations]
        /\ kind' \in [Threads -> Kinds]
        /\ profile' \in [Threads -> Profiles]
        /\ verdict' \in [Threads -> [Services -> Verdicts]]
    BY DEF TypeOK, Locations, Kinds, Profiles, Presets, Verdicts
  <2> QED BY <2>1, <2>2 DEF TypeOK
<1>2. ChecksLeft'
  BY DEF TypeOK, ChecksLeft
<1>3. Fresh'
  BY DEF TypeOK, Fresh, Preparing, Objects
<1>4. MergesOwn'
  BY DEF TypeOK, MergesOwn
<1>5. PresetIntact'
  BY DEF PresetIntact
<1>6. Rivalry'
  BY DEF TypeOK, Rivalry, Busy
<1>7. Configuring'
  BY DEF TypeOK, Configuring
<1>8. StartKept'
  BY DEF TypeOK, StartKept, Service
<1>9. ErrorsExplained'
  BY DEF TypeOK, ErrorsExplained
<1> QED BY <1>1, <1>2, <1>3, <1>4, <1>5, <1>6, <1>7, <1>8, <1>9

\* Only a configure request clears start times, and a check knows of it.
LEMMA ClearStartsKeeps ==
  ASSUME IInv, NEW t \in Threads, ClearStarts(t)
  PROVE  IInv'
<1> USE DEF IInv, ClearStarts, Goto, locals
<1>1. TypeOK'
  <2>1. started' \in [Services -> {"none", "recent", "past"}]
    BY DEF NoStarts
  <2> QED BY <2>1 DEF TypeOK, Locations
<1>2. ChecksLeft'
  BY DEF TypeOK, ChecksLeft
<1>3. Fresh'
  BY DEF TypeOK, Fresh, Preparing, Objects
<1>4. MergesOwn'
  BY DEF TypeOK, MergesOwn
<1>5. PresetIntact'
  BY DEF PresetIntact
<1>6. Rivalry'
  BY DEF TypeOK, Rivalry, Busy
<1>7. Configuring'
  BY DEF TypeOK, Configuring
<1>8. StartKept'
  <2> SUFFICES ASSUME NEW u \in Threads, pc'[u] = "elapsed", "configure" \notin rivals'[u]
               PROVE  FALSE
    BY DEF StartKept
  <2>1. u # t /\ pc[u] = "elapsed"
    BY DEF TypeOK
  <2>2. kind[t] = "configure" /\ kind[t] \in rivals[u]
    BY <2>1 DEF Configuring, Rivalry, Busy
  <2> QED BY <2>2
<1>9. ErrorsExplained'
  BY DEF TypeOK, ErrorsExplained
<1> QED BY <1>1, <1>2, <1>3, <1>4, <1>5, <1>6, <1>7, <1>8, <1>9

\* The new object is referred to by nobody, so that no merge changes it.
LEMMA ApplyPresetKeeps ==
  ASSUME IInv, NEW t \in Threads, ApplyPreset(t)
  PROVE  IInv'
<1> USE DEF IInv, ApplyPreset, Goto, locals
<1>1. TypeOK'
  <2>1. /\ Preset(profile[t]) \in [Keys -> Values]
        /\ \A k \in Keys : Preset(profile[t])[k] \in Legal[k[2]]
    BY PresetType
  <2>2. settings' \in [Objects -> [Keys -> Values]]
    BY <2>1 DEF TypeOK
  <2>3. \A o \in Objects, k \in Keys : settings'[o][k] \in Legal[k[2]]
    BY <2>1 DEF TypeOK
  <2>4. label' \in [Objects -> Profiles] /\ current' \in Objects
    BY DEF TypeOK
  <2> QED BY <2>2, <2>3, <2>4 DEF TypeOK, Locations
<1>2. ChecksLeft'
  BY DEF TypeOK, ChecksLeft
<1>3. Fresh'
  BY DEF TypeOK, Fresh, Preparing, Objects
<1>4. MergesOwn'
  <2>1. \A u \in Threads : label'[config[u]] = label[config[u]]
    BY DEF TypeOK, Fresh, Preparing
  <2> QED BY <2>1 DEF TypeOK, MergesOwn
<1>5. PresetIntact'
  <2>1. label'[id[t]] = profile[t] /\ settings'[id[t]] = Preset(profile[t])
    BY DEF TypeOK
  <2>2. \A o \in Objects : o # id[t] => label'[o] = label[o] /\ settings'[o] = settings[o]
    BY DEF TypeOK
  <2> QED BY <2>1, <2>2 DEF PresetIntact
<1>6. Rivalry'
  BY DEF TypeOK, Rivalry, Busy
<1>7. Configuring'
  BY DEF TypeOK, Configuring
<1>8. StartKept'
  BY DEF TypeOK, StartKept, Service
<1>9. ErrorsExplained'
  BY DEF TypeOK, ErrorsExplained
<1> QED BY <1>1, <1>2, <1>3, <1>4, <1>5, <1>6, <1>7, <1>8, <1>9

\* The object to be changed loses the name of its preset.
LEMMA MarkCustomKeeps ==
  ASSUME IInv, NEW t \in Threads, MarkCustom(t)
  PROVE  IInv'
<1> USE DEF IInv, MarkCustom, Goto, locals
<1>1. TypeOK'
  BY DEF TypeOK, Locations
<1>2. ChecksLeft'
  BY DEF TypeOK, ChecksLeft
<1>3. Fresh'
  BY DEF TypeOK, Fresh, Preparing, Objects
<1>4. MergesOwn'
  BY DEF TypeOK, MergesOwn
<1>5. PresetIntact'
  BY DEF TypeOK, PresetIntact, Presets
<1>6. Rivalry'
  BY DEF TypeOK, Rivalry, Busy
<1>7. Configuring'
  BY DEF TypeOK, Configuring
<1>8. StartKept'
  BY DEF TypeOK, StartKept, Service
<1>9. ErrorsExplained'
  BY DEF TypeOK, ErrorsExplained
<1> QED BY <1>1, <1>2, <1>3, <1>4, <1>5, <1>6, <1>7, <1>8, <1>9

\* The object that is taken was marked, or has strayed.
LEMMA TakeForMergeKeeps ==
  ASSUME IInv, NEW t \in Threads, TakeForMerge(t)
  PROVE  IInv'
<1> USE DEF IInv, TakeForMerge, Goto, locals
<1>1. TypeOK'
  BY DEF TypeOK, Locations
<1>2. ChecksLeft'
  BY DEF TypeOK, ChecksLeft
<1>3. Fresh'
  BY DEF TypeOK, Fresh, Preparing, Objects
<1>4. MergesOwn'
  BY DEF TypeOK, MergesOwn
<1>5. PresetIntact'
  BY DEF PresetIntact
<1>6. Rivalry'
  BY DEF TypeOK, Rivalry, Busy
<1>7. Configuring'
  BY DEF TypeOK, Configuring
<1>8. StartKept'
  BY DEF TypeOK, StartKept, Service
<1>9. ErrorsExplained'
  BY DEF TypeOK, ErrorsExplained
<1> QED BY <1>1, <1>2, <1>3, <1>4, <1>5, <1>6, <1>7, <1>8, <1>9

\* What is assigned is legal, and the object no longer goes by a preset.
LEMMA AssignKeeps ==
  ASSUME IInv, NEW t \in Threads, Assign(t)
  PROVE  IInv'
<1> USE DEF IInv, Assign, Goto, locals
<1>1. TypeOK'
  <2> DEFINE k == Head(updates[t])[1]
             v == Head(updates[t])[2]
  <2>1. /\ k \in Keys /\ v \in Legal[k[2]] /\ v \in Values
        /\ Tail(updates[t]) \in Seq(Assignments)
    BY HeadLegal DEF TypeOK
  <2>2. /\ settings' = [settings EXCEPT ![config[t]] = [@ EXCEPT ![k] = v]]
        /\ updates' = [updates EXCEPT ![t] = Tail(@)]
    OBVIOUS
  <2> HIDE DEF k, v
  <2>3. settings' \in [Objects -> [Keys -> Values]]
    <3>1. config[t] \in Objects /\ settings[config[t]] \in [Keys -> Values]
      BY DEF TypeOK
    <3>2. [settings[config[t]] EXCEPT ![k] = v] \in [Keys -> Values]
      BY <2>1, <3>1
    <3> QED BY <2>2, <3>1, <3>2 DEF TypeOK
  <2>4. \A o \in Objects, l \in Keys : settings'[o][l] \in Legal[l[2]]
    BY <2>1, <2>2 DEF TypeOK
  <2>5. updates' \in [Threads -> Seq(Assignments)]
    BY <2>1, <2>2 DEF TypeOK
  <2> QED BY <2>3, <2>4, <2>5 DEF TypeOK
<1>2. ChecksLeft'
  BY DEF TypeOK, ChecksLeft
<1>3. Fresh'
  BY DEF TypeOK, Fresh, Preparing, Objects
<1>4. MergesOwn'
  BY DEF TypeOK, MergesOwn
<1>5. PresetIntact'
  <2>1. label[config[t]] = "custom" \/ config[t] \in strayed
    BY DEF MergesOwn
  <2>2. \A o \in Objects : o # config[t] => settings'[o] = settings[o]
    BY DEF TypeOK
  <2> QED BY <2>1, <2>2 DEF PresetIntact, Presets
<1>6. Rivalry'
  BY DEF TypeOK, Rivalry, Busy
<1>7. Configuring'
  BY DEF TypeOK, Configuring
<1>8. StartKept'
  BY DEF TypeOK, StartKept, Service
<1>9. ErrorsExplained'
  BY DEF TypeOK, ErrorsExplained
<1> QED BY <1>1, <1>2, <1>3, <1>4, <1>5, <1>6, <1>7, <1>8, <1>9

\* An illegal value explains the exception.
LEMMA AssignFailsKeeps ==
  ASSUME IInv, NEW t \in Threads, AssignFails(t)
  PROVE  IInv'
<1> USE DEF IInv, AssignFails, Goto, locals
<1>1. TypeOK'
  BY DEF TypeOK, Locations
<1>2. ChecksLeft'
  BY DEF TypeOK, ChecksLeft
<1>3. Fresh'
  BY DEF TypeOK, Fresh, Preparing, Objects
<1>4. MergesOwn'
  BY DEF TypeOK, MergesOwn
<1>5. PresetIntact'
  BY DEF PresetIntact
<1>6. Rivalry'
  BY DEF TypeOK, Rivalry, Busy
<1>7. Configuring'
  BY DEF TypeOK, Configuring
<1>8. StartKept'
  BY DEF TypeOK, StartKept, Service
<1>9. ErrorsExplained'
  BY DEF TypeOK, ErrorsExplained
<1> QED BY <1>1, <1>2, <1>3, <1>4, <1>5, <1>6, <1>7, <1>8, <1>9

\* The object that is installed was installed or is marked: it is not a fresh one.
LEMMA InstallKeeps ==
  ASSUME IInv, NEW t \in Threads, Install(t)
  PROVE  IInv'
<1> USE DEF IInv, Install, Goto, locals
<1>1. TypeOK'
  BY DEF TypeOK, Locations
<1>2. ChecksLeft'
  BY DEF TypeOK, ChecksLeft
<1>3. Fresh'
  BY DEF TypeOK, Fresh, Preparing, Objects
<1>4. MergesOwn'
  BY DEF TypeOK, MergesOwn
<1>5. PresetIntact'
  BY DEF PresetIntact
<1>6. Rivalry'
  BY DEF TypeOK, Rivalry, Busy
<1>7. Configuring'
  BY DEF TypeOK, Configuring
<1>8. StartKept'
  BY DEF TypeOK, StartKept, Service
<1>9. ErrorsExplained'
  BY DEF TypeOK, ErrorsExplained
<1> QED BY <1>1, <1>2, <1>3, <1>4, <1>5, <1>6, <1>7, <1>8, <1>9

\* Taking the configuration for the answer changes nothing that is shared.
LEMMA GetConfigKeeps ==
  ASSUME IInv, NEW t \in Threads, GetConfig(t)
  PROVE  IInv'
<1> USE DEF IInv, GetConfig, Goto, locals
<1>1. TypeOK'
  BY DEF TypeOK, Locations
<1>2. ChecksLeft'
  BY DEF TypeOK, ChecksLeft
<1>3. Fresh'
  BY DEF TypeOK, Fresh, Preparing, Objects
<1>4. MergesOwn'
  BY DEF TypeOK, MergesOwn
<1>5. PresetIntact'
  BY DEF PresetIntact
<1>6. Rivalry'
  BY DEF TypeOK, Rivalry, Busy
<1>7. Configuring'
  BY DEF TypeOK, Configuring
<1>8. StartKept'
  BY DEF TypeOK, StartKept, Service
<1>9. ErrorsExplained'
  BY DEF TypeOK, ErrorsExplained
<1> QED BY <1>1, <1>2, <1>3, <1>4, <1>5, <1>6, <1>7, <1>8, <1>9

\* Nor does taking it for a check.
LEMMA TakeForCheckKeeps ==
  ASSUME IInv, NEW t \in Threads, TakeForCheck(t)
  PROVE  IInv'
<1> USE DEF IInv, TakeForCheck, Goto, locals
<1>1. TypeOK'
  BY DEF TypeOK, Locations
<1>2. ChecksLeft'
  BY DEF TypeOK, ChecksLeft
<1>3. Fresh'
  BY DEF TypeOK, Fresh, Preparing, Objects
<1>4. MergesOwn'
  BY DEF TypeOK, MergesOwn
<1>5. PresetIntact'
  BY DEF PresetIntact
<1>6. Rivalry'
  BY DEF TypeOK, Rivalry, Busy
<1>7. Configuring'
  BY DEF TypeOK, Configuring
<1>8. StartKept'
  BY DEF TypeOK, StartKept, Service
<1>9. ErrorsExplained'
  BY DEF TypeOK, ErrorsExplained
<1> QED BY <1>1, <1>2, <1>3, <1>4, <1>5, <1>6, <1>7, <1>8, <1>9

\* Nor does reading its mode.
LEMMA ReadModeKeeps ==
  ASSUME IInv, NEW t \in Threads, ReadMode(t)
  PROVE  IInv'
<1> USE DEF IInv, ReadMode, Goto, locals
<1>1. TypeOK'
  BY DEF TypeOK, Locations
<1>2. ChecksLeft'
  BY DEF TypeOK, ChecksLeft
<1>3. Fresh'
  BY DEF TypeOK, Fresh, Preparing, Objects
<1>4. MergesOwn'
  BY DEF TypeOK, MergesOwn
<1>5. PresetIntact'
  BY DEF PresetIntact
<1>6. Rivalry'
  BY DEF TypeOK, Rivalry, Busy
<1>7. Configuring'
  BY DEF TypeOK, Configuring
<1>8. StartKept'
  BY DEF TypeOK, StartKept, Service
<1>9. ErrorsExplained'
  BY DEF TypeOK, ErrorsExplained
<1> QED BY <1>1, <1>2, <1>3, <1>4, <1>5, <1>6, <1>7, <1>8, <1>9

\* The start time was there just now.
LEMMA LookForStartKeeps ==
  ASSUME IInv, NEW t \in Threads, LookForStart(t)
  PROVE  IInv'
<1> USE DEF IInv, LookForStart, Goto, locals
<1>1. TypeOK'
  BY DEF TypeOK, Locations
<1>2. ChecksLeft'
  BY DEF TypeOK, ChecksLeft
<1>3. Fresh'
  BY DEF TypeOK, Fresh, Preparing, Objects
<1>4. MergesOwn'
  BY DEF TypeOK, MergesOwn
<1>5. PresetIntact'
  BY DEF PresetIntact
<1>6. Rivalry'
  BY DEF TypeOK, Rivalry, Busy
<1>7. Configuring'
  BY DEF TypeOK, Configuring
<1>8. StartKept'
  BY DEF TypeOK, StartKept, Service
<1>9. ErrorsExplained'
  BY DEF TypeOK, ErrorsExplained
<1> QED BY <1>1, <1>2, <1>3, <1>4, <1>5, <1>6, <1>7, <1>8, <1>9

\* After a verdict there is another service to check, or the answer.
LEMMA FindKeeps ==
  ASSUME IInv, NEW t \in Threads, NEW v \in Verdicts,
         pc[t] \notin {"idle", "answer", "raise"}, Find(t, v)
  PROVE  IInv'
<1> USE DEF IInv, Find, Goto
<1>1. TypeOK'
  <2>1. Service(t) \in Services /\ Tail(checks[t]) \in Seq(Services)
    BY HeadService
  <2>2. verdict' \in [Threads -> [Services -> Verdicts]]
    BY <2>1 DEF TypeOK
  <2> QED BY <2>1, <2>2 DEF TypeOK, Locations
<1>2. ChecksLeft'
  BY DEF TypeOK, ChecksLeft
<1>3. Fresh'
  BY DEF TypeOK, Fresh, Preparing, Objects
<1>4. MergesOwn'
  BY DEF TypeOK, MergesOwn
<1>5. PresetIntact'
  BY DEF PresetIntact
<1>6. Rivalry'
  BY DEF TypeOK, Rivalry, Busy
<1>7. Configuring'
  BY DEF TypeOK, Configuring
<1>8. StartKept'
  BY DEF TypeOK, StartKept, Service
<1>9. ErrorsExplained'
  BY DEF TypeOK, ErrorsExplained
<1> QED BY <1>1, <1>2, <1>3, <1>4, <1>5, <1>6, <1>7, <1>8, <1>9

\* A wait that is over leads to the probe.
LEMMA WaitOverKeeps ==
  ASSUME IInv, NEW t \in Threads, WaitOver(t)
  PROVE  IInv'
<1> USE DEF IInv, WaitOver, Goto, locals
<1>1. TypeOK'
  BY DEF TypeOK, Locations
<1>2. ChecksLeft'
  BY DEF TypeOK, ChecksLeft
<1>3. Fresh'
  BY DEF TypeOK, Fresh, Preparing, Objects
<1>4. MergesOwn'
  BY DEF TypeOK, MergesOwn
<1>5. PresetIntact'
  BY DEF PresetIntact
<1>6. Rivalry'
  BY DEF TypeOK, Rivalry, Busy
<1>7. Configuring'
  BY DEF TypeOK, Configuring
<1>8. StartKept'
  BY DEF TypeOK, StartKept, Service
<1>9. ErrorsExplained'
  BY DEF TypeOK, ErrorsExplained
<1> QED BY <1>1, <1>2, <1>3, <1>4, <1>5, <1>6, <1>7, <1>8, <1>9

\* A start time that has gone was cleared by a configure request.
LEMMA StartGoneKeeps ==
  ASSUME IInv, NEW t \in Threads, StartGone(t)
  PROVE  IInv'
<1> USE DEF IInv, StartGone, Goto, locals
<1>1. TypeOK'
  BY DEF TypeOK, Locations
<1>2. ChecksLeft'
  BY DEF TypeOK, ChecksLeft
<1>3. Fresh'
  BY DEF TypeOK, Fresh, Preparing, Objects
<1>4. MergesOwn'
  BY DEF TypeOK, MergesOwn
<1>5. PresetIntact'
  BY DEF PresetIntact
<1>6. Rivalry'
  BY DEF TypeOK, Rivalry, Busy
<1>7. Configuring'
  BY DEF TypeOK, Configuring
<1>8. StartKept'
  BY DEF TypeOK, StartKept, Service
<1>9. ErrorsExplained'
  BY DEF TypeOK, ErrorsExplained, StartKept, Service
<1> QED BY <1>1, <1>2, <1>3, <1>4, <1>5, <1>6, <1>7, <1>8, <1>9

\* A start goes on to docker compose.
LEMMA StartWithComposeKeeps ==
  ASSUME IInv, NEW t \in Threads, StartWithCompose(t)
  PROVE  IInv'
<1> USE DEF IInv, StartWithCompose, Goto, locals
<1>1. TypeOK'
  BY DEF TypeOK, Locations
<1>2. ChecksLeft'
  BY DEF TypeOK, ChecksLeft
<1>3. Fresh'
  BY DEF TypeOK, Fresh, Preparing, Objects
<1>4. MergesOwn'
  BY DEF TypeOK, MergesOwn
<1>5. PresetIntact'
  BY DEF PresetIntact
<1>6. Rivalry'
  BY DEF TypeOK, Rivalry, Busy
<1>7. Configuring'
  BY DEF TypeOK, Configuring
<1>8. StartKept'
  BY DEF TypeOK, StartKept, Service
<1>9. ErrorsExplained'
  BY DEF TypeOK, ErrorsExplained
<1> QED BY <1>1, <1>2, <1>3, <1>4, <1>5, <1>6, <1>7, <1>8, <1>9

\* A start time that is set takes none away from a check.
LEMMA ComposeUpKeeps ==
  ASSUME IInv, NEW t \in Threads, ComposeUp(t)
  PROVE  IInv'
<1> USE DEF IInv, ComposeUp, Goto, locals
<1>1. TypeOK'
  <2>1. Service(t) \in Services /\ "waiting" \in Verdicts
    BY HeadService DEF Verdicts
  <2>2. verdict' \in [Threads -> [Services -> Verdicts]]
    BY <2>1 DEF TypeOK
  <2>3. started' \in [Services -> {"none", "recent", "past"}]
    BY <2>1 DEF TypeOK
  <2> QED BY <2>2, <2>3 DEF TypeOK, Locations
<1>2. ChecksLeft'
  BY DEF TypeOK, ChecksLeft
<1>3. Fresh'
  BY DEF TypeOK, Fresh, Preparing, Objects
<1>4. MergesOwn'
  BY DEF TypeOK, MergesOwn
<1>5. PresetIntact'
  BY DEF PresetIntact
<1>6. Rivalry'
  BY DEF TypeOK, Rivalry, Busy
<1>7. Configuring'
  BY DEF TypeOK, Configuring
<1>8. StartKept'
  BY DEF TypeOK, StartKept, Service
<1>9. ErrorsExplained'
  BY DEF TypeOK, ErrorsExplained
<1> QED BY <1>1, <1>2, <1>3, <1>4, <1>5, <1>6, <1>7, <1>8, <1>9

\* Nor does the wait that passes.
LEMMA WaitPassesKeeps ==
  ASSUME IInv, NEW s \in Services, WaitPasses(s)
  PROVE  IInv'
<1> USE DEF IInv, WaitPasses, Goto, locals
<1>1. TypeOK'
  BY DEF TypeOK, Locations
<1>2. ChecksLeft'
  BY DEF TypeOK, ChecksLeft
<1>3. Fresh'
  BY DEF TypeOK, Fresh, Preparing, Objects
<1>4. MergesOwn'
  BY DEF TypeOK, MergesOwn
<1>5. PresetIntact'
  BY DEF PresetIntact
<1>6. Rivalry'
  BY DEF TypeOK, Rivalry, Busy
<1>7. Configuring'
  BY DEF TypeOK, Configuring
<1>8. StartKept'
  BY DEF TypeOK, StartKept, Service
<1>9. ErrorsExplained'
  BY DEF TypeOK, ErrorsExplained
<1> QED BY <1>1, <1>2, <1>3, <1>4, <1>5, <1>6, <1>7, <1>8, <1>9

\* Requests of each kind.
LEMMA RequestKeeps ==
  ASSUME IInv, NEW t \in Threads,
         AskConfigure(t) \/ AskStatus(t) \/ AskReady(t) \/ AskStart(t)
  PROVE  IInv'
<1>1. CASE AskConfigure(t)
  <2>1. Begin(t, "configure", Both, "clear")
    BY <1>1 DEF AskConfigure
  <2>2. profile' \in [Threads -> Profiles]
    BY <1>1 DEF AskConfigure, IInv, TypeOK
  <2>3. /\ updates' \in [Threads -> Seq(Assignments)]
        /\ \A u \in Threads : u # t => updates'[u] = updates[u]
    <3>1. PICK payload \in Payloads \cup {<< >>} : updates' = [updates EXCEPT ![t] = payload]
      BY <1>1 DEF AskConfigure
    <3>2. << >> \in Seq(Assignments)
      OBVIOUS
    <3>3. payload \in Seq(Assignments)
      BY <3>1, <3>2, PayloadAssumption
    <3> QED BY <3>1, <3>3 DEF IInv, TypeOK
  <2>4. Both \in Seq(Services) /\ Both # << >> /\ "configure" \in Kinds
    BY DEF Both, Services, Kinds
  <2> QED BY <2>1, <2>2, <2>3, <2>4, BeginKeeps
<1>2. CASE AskStatus(t)
  <2>1. Both \in Seq(Services) /\ Both # << >> /\ "status" \in Kinds
    BY DEF Both, Services, Kinds
  <2>2. profile' \in [Threads -> Profiles] /\ updates' \in [Threads -> Seq(Assignments)]
    BY <1>2 DEF AskStatus, IInv, TypeOK
  <2> QED BY <1>2, <2>1, <2>2, BeginKeeps DEF AskStatus
<1>3. ASSUME NEW s \in Services, NEW k \in {"ready", "start"}, NEW there \in {"check", "start"},
             Begin(t, k, <<s>>, there), UNCHANGED <<profile, updates>>
      PROVE  IInv'
  <2>1. <<s>> \in Seq(Services) /\ <<s>> # << >> /\ k \in Kinds
    BY DEF Kinds
  <2>2. profile' \in [Threads -> Profiles] /\ updates' \in [Threads -> Seq(Assignments)]
    BY <1>3 DEF IInv, TypeOK
  <2> QED BY <1>3, <2>1, <2>2, BeginKeeps
<1>4. CASE AskReady(t)
  BY <1>3, <1>4 DEF AskReady
<1>5. CASE AskStart(t)
  BY <1>3, <1>5 DEF AskStart
<1> QED BY <1>1, <1>2, <1>4, <1>5

\* The steps that end in a verdict.
LEMMA VerdictKeeps ==
  ASSUME IInv, NEW t \in Threads,
         StillWaiting(t) \/ Probe(t) \/ StartNot(t) \/ ComposeFails(t)
  PROVE  IInv'
<1>1. CASE StillWaiting(t)
  BY <1>1, FindKeeps DEF StillWaiting, Verdicts
<1>2. CASE Probe(t)
  <2>1. PICK v \in Findings(checked[t], Service(t)) : Find(t, v)
    BY <1>2 DEF Probe
  <2>2. v \in Verdicts /\ pc[t] = "probe"
    BY <1>2 DEF Probe, Findings, Verdicts
  <2> QED BY <2>1, <2>2, FindKeeps
<1>3. CASE StartNot(t)
  <2>1. PICK v \in {"error", "ready"} : Find(t, v)
    BY <1>3 DEF StartNot
  <2> QED BY <1>3, <2>1, FindKeeps DEF StartNot, Verdicts
<1>4. CASE ComposeFails(t)
  BY <1>4, FindKeeps DEF ComposeFails, Verdicts
<1> QED BY <1>1, <1>2, <1>3, <1>4

\* A stutter changes nothing.
LEMMA StutterKeeps == IInv /\ UNCHANGED vars => IInv'
<1> SUFFICES ASSUME IInv, UNCHANGED vars PROVE IInv'
  OBVIOUS
<1> USE DEF IInv, vars, locals
<1>1. TypeOK' /\ ChecksLeft'
  BY DEF TypeOK, ChecksLeft
<1>2. Fresh' /\ MergesOwn' /\ PresetIntact'
  BY DEF Fresh, Preparing, MergesOwn, PresetIntact
<1>3. Rivalry' /\ Configuring' /\ StartKept' /\ ErrorsExplained'
  BY DEF Rivalry, Busy, Configuring, StartKept, Service, ErrorsExplained
<1> QED BY <1>1, <1>2, <1>3

\* Every step keeps the invariant.
LEMMA NextKeeps == IInv /\ [Next]_vars => IInv'
<1> SUFFICES ASSUME IInv, [Next]_vars PROVE IInv'
  OBVIOUS
<1>1. ASSUME NEW t \in Threads,
             AskConfigure(t) \/ AskStatus(t) \/ AskReady(t) \/ AskStart(t) \/ Respond(t)
      PROVE  IInv'
  BY <1>1, RequestKeeps, RespondKeeps
<1>2. ASSUME NEW t \in Threads,
             \/ ClearStarts(t) \/ ApplyPreset(t) \/ MarkCustom(t) \/ TakeForMerge(t)
             \/ Assign(t) \/ AssignFails(t) \/ Install(t) \/ GetConfig(t)
      PROVE  IInv'
  BY <1>2, ClearStartsKeeps, ApplyPresetKeeps, MarkCustomKeeps, TakeForMergeKeeps,
     AssignKeeps, AssignFailsKeeps, InstallKeeps, GetConfigKeeps
<1>3. ASSUME NEW t \in Threads,
             \/ TakeForCheck(t) \/ ReadMode(t) \/ LookForStart(t) \/ StillWaiting(t)
             \/ WaitOver(t) \/ StartGone(t) \/ Probe(t)
      PROVE  IInv'
  BY <1>3, TakeForCheckKeeps, ReadModeKeeps, LookForStartKeeps, WaitOverKeeps,
     StartGoneKeeps, VerdictKeeps
<1>4. ASSUME NEW t \in Threads,
             StartNot(t) \/ StartWithCompose(t) \/ ComposeUp(t) \/ ComposeFails(t)
      PROVE  IInv'
  BY <1>4, StartWithComposeKeeps, ComposeUpKeeps, VerdictKeeps
<1>5. ASSUME NEW s \in Services, WaitPasses(s)
      PROVE  IInv'
  BY <1>5, WaitPassesKeeps
<1>6. ASSUME Quiet \/ UNCHANGED vars
      PROVE  IInv'
  BY <1>6, StutterKeeps DEF Quiet
<1> QED BY <1>1, <1>2, <1>3, <1>4, <1>5, <1>6 DEF Next

-----------------------------------------------------------------------------
(* Theorems.                                                               *)

\* What the theorems below rest on.
THEOREM Invariant == Spec => []IInv
BY InitEstablishes, NextKeeps, PTL DEF Spec

\* No payload gives a field a value outside its enum, and no request is left
\* without an object to work on.
THEOREM TypeCorrect == Spec => []TypeOK
<1>1. IInv => TypeOK
  BY DEF IInv
<1> QED BY <1>1, Invariant, PTL

\* A configuration labelled with a preset has its settings, unless a custom
\* request was overtaken by another between marking and taking a configuration:
\* for any number of requests that merge, fail and install at the same time.
THEOREM PresetsStayIntact == Spec => []PresetIntact
<1>1. IInv => PresetIntact
  BY DEF IInv
<1> QED BY <1>1, Invariant, PTL

\* An exception is due to an illegal value in the request itself or to a configure
\* request at the same time.
THEOREM ExceptionsAreExplained == Spec => []ErrorsExplained
<1>1. IInv => ErrorsExplained
  BY DEF IInv
<1> QED BY <1>1, Invariant, PTL
-----------------------------------------------------------------------------
(* What a request knows of the configuration it is answered with, and of    *)
(* the waits it reports, as long as no request that changes them has run    *)
(* at the same time.                                                        *)

Unknown == [s \in Services |-> "none"]

\* Before the first check, and when services are started.
Untouched(t) ==
  /\ pc[t] \in {"clear", "apply", "take", "merge", "get"} => checks[t] = Both
  /\ pc[t] \in {"idle", "clear", "apply", "take", "merge", "get"} => verdict[t] = Unknown
  /\ pc[t] \in {"start", "compose"} => kind[t] = "start"

Checking == {"mode", "lookup", "elapsed", "probe"}
Finding  == Checking \cup {"check", "answer"}

\* Services that a request has still to check.
Pending(t) == {checks[t][i] : i \in 1..Len(checks[t])}

\* A configure request without a rival finds the configuration it made.
AnswerKnown(t) ==
  kind[t] = "configure" /\ "configure" \notin rivals[t] =>
    /\ pc[t] \in {"take", "merge"} => profile[t] = "custom" /\ config[t] = current
    /\ pc[t] \in {"take", "merge", "get"} \cup Finding => label[current] = profile[t]
    /\ pc[t] \in {"get"} \cup Finding =>
         (profile[t] \in Presets => settings[current] = Preset(profile[t]))
    /\ pc[t] \in Finding => config[t] = current
    /\ pc[t] \in Checking => checked[t] = current
    /\ "start" \notin rivals[t] =>
         /\ pc[t] \notin {"idle", "clear"} => started = NoStarts
         /\ pc[t] # "elapsed"
         /\ pc[t] \in Finding => \A s \in Services :
              s \in Pending(t) \/ verdict[t][s] \in Findings(current, s)
    /\ pc[t] = "answer" => checks[t] = << >>

\* A check without a rival that configures or starts finds the waits that last.
WaitKnown(t) ==
  kind[t] # "start" /\ rivals[t] \cap {"configure", "start"} = {} =>
    /\ pc[t] \in Checking => checked[t] = current
    /\ pc[t] = "probe" =>
         started[Service(t)] # "recent" \/ Mode(current, Service(t)) # "compose"
    /\ \A s \in Services :
         verdict[t][s] # "none" /\ started[s] = "recent" /\ Mode(current, s) = "compose" =>
           verdict[t][s] = "waiting"

Known(t) == Untouched(t) /\ AnswerKnown(t) /\ WaitKnown(t)

ShowInv == IInv /\ \A t \in Threads : Known(t)
Request(t)   == AskConfigure(t) \/ AskStatus(t) \/ AskReady(t) \/ AskStart(t) \/ Respond(t)
Change(t)    == \/ ClearStarts(t) \/ ApplyPreset(t) \/ MarkCustom(t) \/ TakeForMerge(t)
                \/ Assign(t) \/ AssignFails(t) \/ Install(t) \/ GetConfig(t)
Check(t)     == \/ TakeForCheck(t) \/ ReadMode(t) \/ LookForStart(t) \/ StillWaiting(t)
                \/ WaitOver(t) \/ StartGone(t) \/ Probe(t)
StartStep(t) == StartNot(t) \/ StartWithCompose(t) \/ ComposeUp(t) \/ ComposeFails(t)

-----------------------------------------------------------------------------
(* The steps of other threads.                                              *)

\* What a step of u leaves of another thread's request, and of the configuration
\* and the start times unless u is a request of the kind that changes them.
LEMMA OtherStep ==
  ASSUME ShowInv, NEW u \in Threads, Request(u) \/ Change(u) \/ Check(u) \/ StartStep(u),
         NEW t \in Threads, t # u
  PROVE  /\ pc'[t] = pc[t] /\ kind'[t] = kind[t] /\ profile'[t] = profile[t]
         /\ checks'[t] = checks[t] /\ config'[t] = config[t] /\ checked'[t] = checked[t]
         /\ verdict'[t] = verdict[t] /\ rivals[t] \subseteq rivals'[t]
         /\ \/ label' = label /\ settings' = settings /\ current' = current
            \/ Busy(u) /\ kind[u] = "configure"
         /\ \/ started' = started
            \/ Busy(u) /\ kind[u] \in {"configure", "start"}
<1>1. TypeOK /\ Configuring /\ Untouched(u)
  BY DEF ShowInv, IInv, Known
<1> USE DEF Goto, Busy
<1>2. CASE Request(u)
  <2>1. ASSUME NEW k, NEW services, NEW there, Begin(u, k, services, there)
        PROVE  /\ pc'[t] = pc[t] /\ kind'[t] = kind[t] /\ checks'[t] = checks[t]
               /\ config'[t] = config[t] /\ checked'[t] = checked[t]
               /\ verdict'[t] = verdict[t] /\ rivals[t] \subseteq rivals'[t]
               /\ UNCHANGED <<label, settings, current, started>>
    BY <1>1, <2>1 DEF Begin, TypeOK
  <2>2. ASSUME AskConfigure(u) \/ AskStatus(u) \/ AskReady(u) \/ AskStart(u)
        PROVE  profile'[t] = profile[t]
    BY <1>1, <2>2 DEF AskConfigure, AskStatus, AskReady, AskStart, TypeOK
  <2>3. CASE Respond(u)
    BY <1>1, <2>3 DEF Respond, TypeOK
  <2> QED BY <1>2, <2>1, <2>2, <2>3 DEF Request, AskConfigure, AskStatus, AskReady, AskStart
<1>3. CASE Change(u)
  <2>1. Busy(u) /\ (pc[u] = "get" \/ kind[u] = "configure")
    BY <1>1, <1>3 DEF Change, Configuring, ClearStarts, ApplyPreset, MarkCustom, TakeForMerge,
                      Assign, AssignFails, Install, GetConfig
  <2>2. /\ pc'[t] = pc[t] /\ kind'[t] = kind[t] /\ profile'[t] = profile[t]
        /\ checks'[t] = checks[t] /\ config'[t] = config[t] /\ checked'[t] = checked[t]
        /\ verdict'[t] = verdict[t] /\ rivals'[t] = rivals[t]
    BY <1>1, <1>3 DEF Change, ClearStarts, ApplyPreset, MarkCustom, TakeForMerge,
                      Assign, AssignFails, Install, GetConfig, TypeOK, locals
  <2>3. pc[u] = "get" => UNCHANGED <<label, settings, current, started>>
    BY <1>3 DEF Change, ClearStarts, ApplyPreset, MarkCustom, TakeForMerge,
                Assign, AssignFails, Install, GetConfig
  <2> QED BY <2>1, <2>2, <2>3
<1>4. ASSUME NEW v, Find(u, v)
      PROVE  /\ pc'[t] = pc[t] /\ kind'[t] = kind[t] /\ profile'[t] = profile[t]
             /\ checks'[t] = checks[t] /\ config'[t] = config[t] /\ checked'[t] = checked[t]
             /\ verdict'[t] = verdict[t] /\ rivals'[t] = rivals[t]
             /\ UNCHANGED <<label, settings, current, started>>
  BY <1>1, <1>4 DEF Find, TypeOK
<1>5. CASE Check(u)
  <2>1. CASE StillWaiting(u) \/ Probe(u)
    BY <1>4, <2>1 DEF StillWaiting, Probe
  <2>2. CASE TakeForCheck(u) \/ ReadMode(u) \/ LookForStart(u) \/ WaitOver(u) \/ StartGone(u)
    BY <1>1, <2>2 DEF TakeForCheck, ReadMode, LookForStart, WaitOver, StartGone, TypeOK, locals
  <2> QED BY <1>5, <2>1, <2>2 DEF Check
<1>6. CASE StartStep(u)
  <2>1. CASE StartNot(u) \/ ComposeFails(u)
    BY <1>4, <2>1 DEF StartNot, ComposeFails
  <2>2. CASE StartWithCompose(u)
    BY <1>1, <2>2 DEF StartWithCompose, TypeOK, locals
  <2>3. CASE ComposeUp(u)
    BY <1>1, <2>3 DEF ComposeUp, Untouched, TypeOK
  <2> QED BY <1>6, <2>1, <2>2, <2>3 DEF StartStep
<1> QED BY <1>2, <1>3, <1>5, <1>6

\* So a thread keeps what it knows: a request that could invalidate it is a rival.
LEMMA OthersKnow ==
  ASSUME ShowInv, NEW u \in Threads, Request(u) \/ Change(u) \/ Check(u) \/ StartStep(u),
         NEW t \in Threads, t # u
  PROVE  Known(t)'
<1>1. TypeOK /\ Rivalry /\ Known(t)
  BY DEF ShowInv, IInv
<1>2. /\ pc'[t] = pc[t] /\ kind'[t] = kind[t] /\ profile'[t] = profile[t]
      /\ checks'[t] = checks[t] /\ config'[t] = config[t] /\ checked'[t] = checked[t]
      /\ verdict'[t] = verdict[t] /\ rivals[t] \subseteq rivals'[t]
  BY OtherStep
<1>3. Busy(t) /\ "configure" \notin rivals[t] => UNCHANGED <<label, settings, current>>
  BY <1>1, OtherStep DEF Rivalry
<1>4. Busy(t) /\ rivals[t] \cap {"configure", "start"} = {} => UNCHANGED started
  BY <1>1, OtherStep DEF Rivalry
<1>5. Untouched(t)'
  BY <1>1, <1>2 DEF Known, Untouched
<1>6. AnswerKnown(t)'
  <2>1. CASE ~Busy(t)
    BY <1>1, <1>2, <2>1 DEF Known, AnswerKnown, Busy, Finding, Checking
  <2>2. CASE Busy(t) /\ "configure" \notin rivals[t]
    BY <1>1, <1>2, <1>3, <1>4, <2>2 DEF Known, AnswerKnown, Pending, Findings
  <2>3. CASE "configure" \in rivals[t]
    BY <1>2, <2>3 DEF AnswerKnown
  <2> QED BY <2>1, <2>2, <2>3
<1>7. WaitKnown(t)'
  <2>1. CASE ~Busy(t)
    BY <1>1, <1>2, <2>1 DEF Known, Untouched, WaitKnown, Busy, Checking, Unknown
  <2>2. CASE Busy(t) /\ rivals[t] \cap {"configure", "start"} = {}
    BY <1>1, <1>2, <1>3, <1>4, <2>2 DEF Known, WaitKnown, Service, Mode
  <2>3. CASE rivals[t] \cap {"configure", "start"} # {}
    BY <1>2, <2>3 DEF WaitKnown
  <2> QED BY <2>1, <2>2, <2>3
<1> QED BY <1>5, <1>6, <1>7 DEF Known

-----------------------------------------------------------------------------
(* A thread's own steps.                                                    *)

\* Requests.
LEMMA RequestKnows ==
  ASSUME ShowInv, NEW t \in Threads, Request(t)
  PROVE  Known(t)'
<1>1. TypeOK /\ Known(t)
  BY DEF ShowInv, IInv
<1> USE DEF Goto
<1>2. ASSUME NEW k, NEW services, NEW there, Begin(t, k, services, there),
             \/ k = "configure" /\ there = "clear" /\ services = Both
             \/ k = "status" /\ there = "get" /\ services = Both
             \/ k = "ready" /\ there = "check"
             \/ k = "start" /\ there = "start"
      PROVE  Known(t)'
  <2>1. /\ pc'[t] = there /\ kind'[t] = k /\ checks'[t] = services
        /\ verdict'[t] = Unknown
    BY <1>1, <1>2 DEF Begin, TypeOK, Known, Untouched
  <2> QED BY <1>2, <2>1 DEF Known, Untouched, AnswerKnown, WaitKnown, Finding, Checking, Unknown
<1>3. CASE Respond(t)
  <2>1. pc'[t] = "idle" /\ kind'[t] = "status" /\ verdict'[t] = Unknown
    BY <1>1, <1>3 DEF Respond, TypeOK, Unknown
  <2> QED BY <2>1 DEF Known, Untouched, AnswerKnown, WaitKnown, Finding, Checking, Unknown
<1> QED BY <1>2, <1>3 DEF Request, AskConfigure, AskStatus, AskReady, AskStart

\* The steps that change the configuration.
LEMMA ChangeKnows ==
  ASSUME ShowInv, NEW t \in Threads, Change(t)
  PROVE  Known(t)'
<1>1. /\ TypeOK /\ Configuring /\ Untouched(t) /\ AnswerKnown(t) /\ Fresh
      /\ current \in Objects /\ config[t] \in Objects /\ id[t] \in Objects
  BY DEF ShowInv, IInv, Known, TypeOK
<1> USE DEF Goto, locals
<1>2. /\ kind' = kind /\ profile' = profile /\ checks' = checks
      /\ verdict' = verdict /\ rivals' = rivals
  BY DEF Change, ClearStarts, ApplyPreset, MarkCustom, TakeForMerge,
         Assign, AssignFails, Install, GetConfig
<1>3. /\ checks[t] = Both /\ verdict[t] = Unknown
      /\ pc[t] \in {"clear", "apply", "take", "merge", "get"}
      /\ pc'[t] \in {"apply", "take", "merge", "get", "check", "raise"}
  BY <1>1 DEF Change, ClearStarts, ApplyPreset, MarkCustom, TakeForMerge, TypeOK,
              Assign, AssignFails, Install, GetConfig, Untouched
<1>4. Untouched(t)'
  BY <1>2, <1>3 DEF Untouched, Unknown
<1>5. WaitKnown(t)'
  BY <1>2, <1>3 DEF WaitKnown, Checking, Unknown
<1>6. AnswerKnown(t)'
  <2> SUFFICES ASSUME kind[t] = "configure", "configure" \notin rivals[t]
               PROVE  AnswerKnown(t)'
    BY <1>2 DEF AnswerKnown
  <2>1. /\ pc[t] \in {"take", "merge"} => profile[t] = "custom" /\ config[t] = current
        /\ pc[t] \in {"take", "merge", "get"} => label[current] = profile[t]
        /\ pc[t] = "get" => (profile[t] \in Presets => settings[current] = Preset(profile[t]))
        /\ "start" \notin rivals[t] /\ pc[t] # "clear" => started = NoStarts
    BY <1>1, <1>3 DEF AnswerKnown
  <2>2. "custom" \notin Presets
    BY DEF Presets
  <2>3. CASE ClearStarts(t)
    <3>1. pc'[t] = "apply" /\ started' = NoStarts
      BY <1>1, <2>3 DEF ClearStarts, TypeOK
    <3> QED BY <3>1 DEF AnswerKnown, Finding, Checking
  <2>4. CASE ApplyPreset(t)
    <3>1. /\ pc'[t] = "get" /\ started' = started /\ pc[t] = "apply"
          /\ label'[current'] = profile[t] /\ settings'[current'] = Preset(profile[t])
      BY <1>1, <2>4 DEF ApplyPreset, TypeOK
    <3> QED BY <1>2, <2>1, <3>1 DEF AnswerKnown, Finding, Checking, NoStarts
  <2>5. CASE MarkCustom(t)
    <3>1. /\ pc'[t] = "take" /\ started' = started /\ pc[t] = "apply" /\ profile[t] = "custom"
          /\ label'[current'] = "custom" /\ config'[t] = current'
      BY <1>1, <2>5 DEF MarkCustom, TypeOK
    <3> QED BY <1>2, <2>1, <3>1 DEF AnswerKnown, Finding, Checking, NoStarts
  <2>6. CASE TakeForMerge(t)
    <3>1. /\ pc'[t] = "merge" /\ started' = started /\ pc[t] = "take"
          /\ label' = label /\ current' = current /\ config'[t] = current
      BY <1>1, <2>6 DEF TakeForMerge, TypeOK
    <3> QED BY <1>2, <2>1, <3>1 DEF AnswerKnown, Finding, Checking, NoStarts
  <2>7. CASE Assign(t)
    <3>1. /\ pc'[t] = "merge" /\ started' = started /\ pc[t] = "merge"
          /\ label' = label /\ current' = current /\ config' = config
      BY <1>1, <2>7 DEF Assign, TypeOK
    <3> QED BY <1>2, <2>1, <3>1 DEF AnswerKnown, Finding, Checking, NoStarts
  <2>8. CASE AssignFails(t)
    <3>1. pc'[t] = "raise" /\ started' = started /\ pc[t] = "merge"
      BY <1>1, <2>8 DEF AssignFails, TypeOK
    <3> QED BY <1>2, <2>1, <3>1 DEF AnswerKnown, Finding, Checking, NoStarts
  <2>9. CASE Install(t)
    <3>1. /\ pc'[t] = "get" /\ started' = started /\ pc[t] = "merge"
          /\ label' = label /\ current' = config[t]
      BY <1>1, <2>9 DEF Install, TypeOK
    <3> QED BY <1>2, <2>1, <2>2, <3>1 DEF AnswerKnown, Finding, Checking, NoStarts
  <2>10. CASE GetConfig(t)
    <3>1. /\ pc'[t] = "check" /\ started' = started /\ pc[t] = "get"
          /\ label' = label /\ current' = current /\ config'[t] = current
          /\ settings' = settings
      BY <1>1, <2>10 DEF GetConfig, TypeOK
    <3>2. \A s \in Services : s \in Pending(t)'
      <4>1. checks'[t] = <<"terraform", "ansible">>
        BY <1>2, <1>3 DEF Both
      <4>2. Len(checks'[t]) = 2 /\ checks'[t][1] = "terraform" /\ checks'[t][2] = "ansible"
        BY <4>1
      <4> QED BY <4>2 DEF Pending, Services
    <3> QED BY <1>2, <2>1, <3>1, <3>2 DEF AnswerKnown, Finding, Checking, NoStarts
  <2> QED BY <2>3, <2>4, <2>5, <2>6, <2>7, <2>8, <2>9, <2>10 DEF Change
<1> QED BY <1>4, <1>5, <1>6 DEF Known

\* A verdict, on a service that is in fact ready, waiting or in error.
LEMMA FindKnows ==
  ASSUME ShowInv, NEW t \in Threads, NEW v \in Verdicts, Find(t, v),
         pc[t] \in {"elapsed", "probe", "start", "compose"},
         pc[t] = "elapsed" => v = "waiting",
         pc[t] = "probe" => v \in Findings(checked[t], Service(t))
  PROVE  Known(t)'
<1>1. /\ TypeOK /\ Untouched(t) /\ AnswerKnown(t) /\ WaitKnown(t)
      /\ Service(t) \in Services /\ checks[t] \in Seq(Services) /\ checks[t] # << >>
  BY HeadService DEF ShowInv, IInv, Known, TypeOK, ChecksLeft
<1>2. /\ kind' = kind /\ profile' = profile /\ config' = config /\ checked' = checked
      /\ rivals' = rivals /\ UNCHANGED <<label, settings, current, started>>
      /\ checks'[t] = Tail(checks[t])
      /\ pc'[t] = (IF Tail(checks[t]) = << >> THEN "answer" ELSE "check")
      /\ verdict'[t] = [verdict[t] EXCEPT ![Service(t)] = v]
  BY <1>1 DEF Find, Goto, TypeOK
<1>3. /\ verdict'[t][Service(t)] = v
      /\ \A s \in Services : s # Service(t) => verdict'[t][s] = verdict[t][s]
  BY <1>1, <1>2 DEF TypeOK
<1>4. Untouched(t)'
  BY <1>2 DEF Untouched
<1>5. AnswerKnown(t)'
  <2> SUFFICES ASSUME kind[t] = "configure", "configure" \notin rivals[t]
               PROVE  AnswerKnown(t)'
    BY <1>2 DEF AnswerKnown
  <2>1. pc[t] \in {"elapsed", "probe"}
    BY <1>1 DEF Untouched
  <2>2. /\ label[current] = profile[t] /\ config[t] = current /\ checked[t] = current
        /\ profile[t] \in Presets => settings[current] = Preset(profile[t])
    BY <1>1, <2>1 DEF AnswerKnown, Finding, Checking
  <2>3. ASSUME "start" \notin rivals[t]
        PROVE  /\ started = NoStarts
               /\ \A s \in Services : s \in Pending(t)' \/ verdict'[t][s] \in Findings(current, s)
    <3>1. started = NoStarts /\ pc[t] = "probe"
      BY <1>1, <2>1, <2>3 DEF AnswerKnown
    <3>2. ASSUME NEW s \in Services, s # Service(t), s \in Pending(t) PROVE s \in Pending(t)'
      <4>1. PICK i \in 1..Len(checks[t]) : s = checks[t][i]
        BY <3>2 DEF Pending
      <4>2. i # 1
        BY <1>1, <3>2, <4>1 DEF Service
      <4>3. i - 1 \in 1..Len(Tail(checks[t])) /\ Tail(checks[t])[i - 1] = s
        BY <1>1, <4>1, <4>2
      <4> QED BY <1>2, <4>3 DEF Pending
    <3>3. \A s \in Services : s \in Pending(t) \/ verdict[t][s] \in Findings(current, s)
      BY <1>1, <2>1, <2>3 DEF AnswerKnown, Finding, Checking
    <3>4. v \in Findings(current, Service(t))
      BY <2>2, <3>1
    <3> QED BY <1>3, <3>1, <3>2, <3>3, <3>4
  <2>4. pc'[t] \in {"answer", "check"} /\ (pc'[t] = "answer" => checks'[t] = << >>)
    BY <1>2
  <2> QED BY <1>2, <2>2, <2>3, <2>4 DEF AnswerKnown, Finding, Checking, Findings, NoStarts
<1>6. WaitKnown(t)'
  <2> SUFFICES ASSUME kind[t] # "start", rivals[t] \cap {"configure", "start"} = {},
                      NEW s \in Services, started[s] = "recent", Mode(current, s) = "compose",
                      verdict'[t][s] # "none"
               PROVE  verdict'[t][s] = "waiting"
    BY <1>2 DEF WaitKnown, Checking, Mode
  <2>1. CASE s = Service(t)
    BY <1>1, <1>3, <2>1 DEF Untouched, WaitKnown
  <2>2. CASE s # Service(t)
    BY <1>1, <1>3, <2>2 DEF WaitKnown
  <2> QED BY <2>1, <2>2
<1> QED BY <1>4, <1>5, <1>6 DEF Known

\* The steps of a readiness check.
LEMMA CheckKnows ==
  ASSUME ShowInv, NEW t \in Threads, Check(t)
  PROVE  Known(t)'
<1>1. /\ TypeOK /\ ChecksLeft /\ Untouched(t) /\ AnswerKnown(t) /\ WaitKnown(t)
  BY DEF ShowInv, IInv, Known
<1>2. CASE StillWaiting(t)
  BY <1>2, FindKnows DEF StillWaiting, Verdicts
<1>3. CASE Probe(t)
  <2>1. PICK v \in Findings(checked[t], Service(t)) : Find(t, v)
    BY <1>3 DEF Probe
  <2>2. v \in Verdicts /\ pc[t] = "probe"
    BY <1>3 DEF Probe, Findings, Verdicts
  <2> QED BY <2>1, <2>2, FindKnows
<1>4. CASE TakeForCheck(t) \/ ReadMode(t) \/ LookForStart(t) \/ WaitOver(t) \/ StartGone(t)
  <2> USE DEF TakeForCheck, ReadMode, LookForStart, WaitOver, StartGone, Goto, locals
  <2>1. /\ kind' = kind /\ profile' = profile /\ config' = config /\ checks' = checks
        /\ verdict' = verdict /\ rivals' = rivals
        /\ UNCHANGED <<label, settings, current, started>>
        /\ pc[t] \in {"check"} \cup Checking
    BY <1>4 DEF Checking
  <2>2. /\ pc'[t] \in Checking \cup {"raise"}
        /\ \/ pc[t] = "check" /\ pc'[t] = "mode" /\ checked'[t] = current
           \/ pc[t] \in Checking /\ checked' = checked
        /\ pc'[t] = "elapsed" => pc[t] = "lookup" /\ started[Service(t)] # "none"
        /\ pc'[t] = "probe" => \/ pc[t] = "mode" /\ Mode(checked[t], Service(t)) # "compose"
                               \/ pc[t] = "lookup" /\ started[Service(t)] = "none"
                               \/ pc[t] = "elapsed" /\ started[Service(t)] = "past"
    BY <1>1, <1>4 DEF TypeOK, Checking
  <2>3. Untouched(t)'
    BY <2>1, <2>2 DEF Untouched, Checking
  <2>4. AnswerKnown(t)'
    <3> SUFFICES ASSUME kind[t] = "configure", "configure" \notin rivals[t]
                 PROVE  AnswerKnown(t)'
      BY <2>1 DEF AnswerKnown
    <3>1. /\ label[current] = profile[t] /\ config[t] = current
          /\ profile[t] \in Presets => settings[current] = Preset(profile[t])
          /\ pc[t] \in Checking => checked[t] = current
      BY <1>1, <2>1 DEF AnswerKnown, Finding, Checking
    <3>2. ASSUME "start" \notin rivals[t]
          PROVE  /\ started = NoStarts /\ pc'[t] # "elapsed"
                 /\ \A s \in Services : s \in Pending(t) \/ verdict[t][s] \in Findings(current, s)
      <4>1. /\ started = NoStarts
            /\ \A s \in Services : s \in Pending(t) \/ verdict[t][s] \in Findings(current, s)
        BY <1>1, <2>1, <3>2 DEF AnswerKnown, Finding, Checking
      <4>2. pc[t] = "lookup" => started[Service(t)] = "none"
        BY <1>1, <4>1, HeadService DEF NoStarts
      <4> QED BY <2>2, <4>1, <4>2
    <3> QED BY <2>1, <2>2, <3>1, <3>2 DEF AnswerKnown, Finding, Checking, Findings, NoStarts, Pending
  <2>5. WaitKnown(t)'
    <3> SUFFICES ASSUME kind[t] # "start", rivals[t] \cap {"configure", "start"} = {}
                 PROVE  WaitKnown(t)'
      BY <2>1 DEF WaitKnown
    <3>1. /\ pc[t] \in Checking => checked[t] = current
          /\ \A s \in Services :
               verdict[t][s] # "none" /\ started[s] = "recent" /\ Mode(current, s) = "compose" =>
                 verdict[t][s] = "waiting"
      BY <1>1 DEF WaitKnown
    <3>2. pc'[t] \in Checking => checked'[t] = current
      BY <2>2, <3>1
    <3>3. pc'[t] = "probe" =>
            started[Service(t)] # "recent" \/ Mode(current, Service(t)) # "compose"
      BY <2>2, <3>1 DEF Checking
    <3> QED BY <2>1, <3>1, <3>2, <3>3 DEF WaitKnown, Service, Mode
  <2> QED BY <2>3, <2>4, <2>5 DEF Known
<1> QED BY <1>2, <1>3, <1>4 DEF Check

\* The steps of a start.
LEMMA StartKnows ==
  ASSUME ShowInv, NEW t \in Threads, StartStep(t)
  PROVE  Known(t)'
<1>1. TypeOK /\ Untouched(t) /\ pc[t] \in {"start", "compose"} /\ kind[t] = "start"
  BY DEF ShowInv, IInv, Known, Untouched, StartStep, StartNot, StartWithCompose, ComposeUp,
         ComposeFails
<1>2. CASE StartNot(t) \/ ComposeFails(t)
  <2>1. PICK v \in {"error", "ready"} : Find(t, v)
    BY <1>2 DEF StartNot, ComposeFails
  <2>2. pc[t] \notin {"elapsed", "probe"} /\ v \in Verdicts
    BY <1>1 DEF Verdicts
  <2> QED BY <1>1, <2>1, <2>2, FindKnows
<1>3. CASE StartWithCompose(t) \/ ComposeUp(t)
  <2>1. kind'[t] = "start" /\ pc'[t] \in {"compose", "answer"}
    BY <1>1, <1>3 DEF StartWithCompose, ComposeUp, TypeOK, Goto, locals
  <2> QED BY <2>1 DEF Known, Untouched, AnswerKnown, WaitKnown
<1> QED BY <1>2, <1>3 DEF StartStep

-----------------------------------------------------------------------------
(* The invariant, and what it says of an answer.                            *)

\* At the start there are no requests.
LEMMA InitShows == Init => ShowInv
<1> SUFFICES ASSUME Init PROVE ShowInv
  OBVIOUS
<1>1. \A t \in Threads : Known(t)
  BY DEF Init, Known, Untouched, AnswerKnown, WaitKnown, Finding, Checking, Unknown
<1> QED BY <1>1, InitEstablishes DEF ShowInv

\* A wait that passes makes no verdict wrong, and there is none to pass after the
\* start times were cleared.
LEMMA WaitPassesKnows ==
  ASSUME ShowInv, NEW s \in Services, WaitPasses(s), NEW t \in Threads
  PROVE  Known(t)'
<1>1. TypeOK /\ Known(t) /\ started # NoStarts
  BY DEF ShowInv, IInv, WaitPasses, NoStarts
<1>2. /\ UNCHANGED <<label, settings, current, pc, kind, profile, checks, config, checked,
                     verdict, rivals>>
      /\ \A r \in Services : started'[r] = "recent" => started[r] = "recent"
  BY <1>1 DEF WaitPasses, locals, TypeOK
<1>3. Untouched(t)'
  BY <1>1, <1>2 DEF Known, Untouched
<1>4. AnswerKnown(t)'
  <2>1. kind[t] = "configure" /\ "configure" \notin rivals[t] /\ "start" \notin rivals[t] =>
          pc[t] \in {"idle", "clear"}
    BY <1>1 DEF Known, AnswerKnown
  <2> QED BY <1>1, <1>2, <2>1 DEF Known, AnswerKnown, Pending, Findings, Finding, Checking
<1>5. WaitKnown(t)'
  <2>1. pc[t] = "probe" => Service(t) \in Services
    BY HeadService DEF ShowInv, IInv
  <2> QED BY <1>1, <1>2, <2>1 DEF Known, WaitKnown, Service, Mode
<1> QED BY <1>3, <1>4, <1>5 DEF Known

\* Every step keeps what requests know.
LEMMA NextShows == ShowInv /\ [Next]_vars => ShowInv'
<1> SUFFICES ASSUME ShowInv, [Next]_vars, NEW t \in Threads PROVE Known(t)'
  BY NextKeeps DEF ShowInv
<1>1. ASSUME NEW u \in Threads, Request(u) \/ Change(u) \/ Check(u) \/ StartStep(u)
      PROVE  Known(t)'
  BY <1>1, OthersKnow, RequestKnows, ChangeKnows, CheckKnows, StartKnows
<1>2. ASSUME NEW s \in Services, WaitPasses(s)
      PROVE  Known(t)'
  BY <1>2, WaitPassesKnows
<1>3. ASSUME Quiet \/ UNCHANGED vars
      PROVE  Known(t)'
  <2>1. Known(t) /\ UNCHANGED vars
    BY <1>3 DEF ShowInv, Quiet
  <2> QED BY <2>1 DEF vars, locals, Known, Untouched, AnswerKnown, WaitKnown, Pending,
                      Findings, Service, Mode
<1> QED BY <1>1, <1>2, <1>3 DEF Next, Request, Change, Check, StartStep

\* What the two theorems below rest on.
THEOREM ShowInvariant == Spec => []ShowInv
BY InitShows, NextShows, PTL DEF Spec

\* A configure request that no other overlapped is answered with the profile it
\* asked for and its settings, though it reads the global configuration anew for
\* the answer and for every check; and unless services were being started, with
\* readiness that follows from these settings alone, for no start outlives the
\* clearing of the start times.
THEOREM AnswersShowRequests == Spec => []AnswerShowsRequest
<1>1. ShowInv => AnswerShowsRequest
  <2> SUFFICES ASSUME ShowInv, NEW t \in Threads, pc[t] = "answer", kind[t] = "configure",
                      "configure" \notin rivals[t]
               PROVE  /\ label[config[t]] = profile[t]
                      /\ profile[t] \in Presets => settings[config[t]] = Preset(profile[t])
                      /\ "start" \notin rivals[t] =>
                           \A s \in Services : verdict[t][s] \in Findings(config[t], s)
    BY DEF AnswerShowsRequest
  <2>1. AnswerKnown(t)
    BY DEF ShowInv, Known
  <2>2. /\ config[t] = current /\ label[current] = profile[t] /\ checks[t] = << >>
        /\ profile[t] \in Presets => settings[current] = Preset(profile[t])
    BY <2>1 DEF AnswerKnown, Finding
  <2>3. Pending(t) = {}
    BY <2>2 DEF Pending
  <2> QED BY <2>1, <2>2, <2>3 DEF AnswerKnown, Finding
<1> QED BY <1>1, ShowInvariant, PTL

\* A wait that still lasts is reported as one by any check that no request to
\* configure or start overlapped (_terraform_readiness, _ansible_readiness).
THEOREM WaitsAreRespected == Spec => []WaitRespected
<1>1. ShowInv => WaitRespected
  BY DEF ShowInv, Known, WaitKnown, WaitRespected
<1> QED BY <1>1, ShowInvariant, PTL
================================================================================
