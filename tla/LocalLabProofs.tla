---------------------------- MODULE LocalLabProofs ----------------------------
(***************************************************************************)
(* Theorems about LocalLab, for any number of threads, requests, crashes,  *)
(* failed reads and manual repairs and any limits of the logs.             *)
(***************************************************************************)
EXTENDS LocalLab, SequenceTheorems, TLAPS

-----------------------------------------------------------------------------
(* Lemmas about the document.                                              *)

\* Inserting an entry in front of a log of S keeps it a log of S within its
\* limit, puts the entry first and shifts the others by one.
LEMMA InsertProperties ==
  ASSUME NEW S, NEW log \in Seq(S), NEW entry \in S, NEW limit \in Nat \ {0},
         Len(log) <= limit
  PROVE  /\ Insert(log, entry, limit) \in Seq(S)
         /\ Len(Insert(log, entry, limit)) =
              (IF Len(log) < limit THEN Len(log) + 1 ELSE limit)
         /\ Len(Insert(log, entry, limit)) <= limit
         /\ Insert(log, entry, limit) # << >>
         /\ Insert(log, entry, limit)[1] = entry
         /\ \A i \in 2..Len(Insert(log, entry, limit)) :
              Insert(log, entry, limit)[i] = log[i - 1]
<1> DEFINE whole == <<entry>> \o log
           n     == IF Len(log) < limit THEN Len(log) + 1 ELSE limit
<1>1. /\ whole \in Seq(S)
      /\ Len(whole) = Len(log) + 1
      /\ whole[1] = entry
      /\ \A i \in 2..Len(whole) : whole[i] = log[i - 1]
  OBVIOUS
<1>2. n \in 1..Len(whole) /\ n <= limit
  BY <1>1
<1>3. \A i \in 1..n : whole[i] \in S
  BY <1>1, <1>2
<1>4. /\ SubSeq(whole, 1, n) \in Seq(S)
      /\ Len(SubSeq(whole, 1, n)) = n
      /\ \A i \in 1..n : SubSeq(whole, 1, n)[i] = whole[i]
  <2> HIDE DEF whole, n
  <2>1. n \in Int /\ 1 <= n /\ n - 1 + 1 = n
    BY <1>1, <1>2
  <2>2. /\ SubSeq(whole, 1, n) \in Seq(S)
        /\ Len(SubSeq(whole, 1, n)) = (IF 1 <= n THEN n - 1 + 1 ELSE 0)
        /\ \A i \in 1 .. n - 1 + 1 : SubSeq(whole, 1, n)[i] = whole[1 + i - 1]
    BY <1>3, <2>1, SubSeqProperties
  <2>3. \A i \in 1..n : 1 + i - 1 = i
    BY <2>1
  <2> QED BY <2>1, <2>2, <2>3
<1>5. Insert(log, entry, limit) = SubSeq(whole, 1, n)
  BY DEF Insert
<1> HIDE DEF whole, n
<1>6. n = (IF Len(log) < limit THEN Len(log) + 1 ELSE limit)
  BY DEF n
<1>7. Insert(log, entry, limit) # << >>
  BY <1>2, <1>4, <1>5, <1>1
<1> QED BY <1>1, <1>2, <1>4, <1>5, <1>6, <1>7

\* A score is a percentage.
LEMMA ScoreType == \A flags \in [1..3 -> BOOLEAN] : Score(flags) \in 0..100
  BY DEF Score

\* Every edit of the backend makes a well-formed document of one.
LEMMA DocumentEdits ==
  ASSUME NEW d \in Documents, LogsBounded(d)
  PROVE  /\ \A a \in Actions, v \in Verdicts, c \in Controls, k \in Compliance :
              LET e == [Recorded(d, a, v) EXCEPT !.controls = c, !.compliance = k]
              IN  e \in Documents /\ LogsBounded(e)
         /\ \A a \in Actions, v \in Verdicts :
              Job(d, a, v) \in Documents /\ LogsBounded(Job(d, a, v))
         /\ \A a \in Actions : Event(d, a) \in Documents /\ LogsBounded(Event(d, a))
         /\ \A s \in Seconds : Incident(d, s) \in Documents /\ LogsBounded(Incident(d, s))
         /\ \A s \in Seconds, v \in TerraformStatuses :
              Terraform(d, s, v) \in Documents /\ LogsBounded(Terraform(d, s, v))
         /\ \A s \in Seconds, b \in BOOLEAN, c \in Controls, k \in Compliance :
              Created(d, s, b, c, k) \in Documents /\ LogsBounded(Created(d, s, b, c, k))
         /\ \A c \in Controls, k \in Compliance :
              Scanned(d, c, k) \in Documents /\ LogsBounded(Scanned(d, c, k))
         /\ \A c \in Controls : Drifted(d, c) \in Documents /\ LogsBounded(Drifted(d, c))
<1> USE LimitAssumption
<1> USE DEF Documents, LogsBounded
<1>1. ASSUME NEW a \in Actions, NEW v \in Verdicts
      PROVE  [action |-> a, status |-> v] \in Entries
  BY DEF Entries
<1>2. ASSUME NEW a \in Actions, NEW v \in Verdicts, NEW c \in Controls, NEW k \in Compliance
      PROVE  LET e == [Recorded(d, a, v) EXCEPT !.controls = c, !.compliance = k]
             IN  e \in Documents /\ LogsBounded(e)
  <2>1. /\ Insert(d.evidence, [action |-> a, status |-> v], LogLimit) \in Seq(Entries)
        /\ Len(Insert(d.evidence, [action |-> a, status |-> v], LogLimit)) <= LogLimit
    BY <1>1, InsertProperties
  <2> QED BY <2>1 DEF Recorded
<1>3. ASSUME NEW a \in Actions, NEW v \in Verdicts
      PROVE  Job(d, a, v) \in Documents /\ LogsBounded(Job(d, a, v))
  <2>1. /\ Insert(d.jobs, [action |-> a, status |-> v], LogLimit) \in Seq(Entries)
        /\ Len(Insert(d.jobs, [action |-> a, status |-> v], LogLimit)) <= LogLimit
    BY <1>1, InsertProperties
  <2> QED BY <2>1 DEF Job
<1>4. ASSUME NEW a \in Actions
      PROVE  Event(d, a) \in Documents /\ LogsBounded(Event(d, a))
  <2>1. /\ Insert(d.edaLog, a, LogLimit) \in Seq(Actions)
        /\ Len(Insert(d.edaLog, a, LogLimit)) <= LogLimit
    BY InsertProperties
  <2> QED BY <2>1 DEF Event
<1>5. ASSUME NEW s \in Seconds
      PROVE  Incident(d, s) \in Documents /\ LogsBounded(Incident(d, s))
  <2>1. /\ Insert(d.incidents, s, LogLimit) \in Seq(Seconds)
        /\ Len(Insert(d.incidents, s, LogLimit)) <= LogLimit
    BY InsertProperties
  <2> QED BY <2>1 DEF Incident
<1>6. ASSUME NEW s \in Seconds, NEW v \in TerraformStatuses
      PROVE  Terraform(d, s, v) \in Documents /\ LogsBounded(Terraform(d, s, v))
  BY DEF Terraform
<1>7. ASSUME NEW s \in Seconds, NEW b \in BOOLEAN, NEW c \in Controls, NEW k \in Compliance
      PROVE  Created(d, s, b, c, k) \in Documents /\ LogsBounded(Created(d, s, b, c, k))
  BY DEF Created
<1>8. ASSUME NEW c \in Controls, NEW k \in Compliance
      PROVE  Scanned(d, c, k) \in Documents /\ LogsBounded(Scanned(d, c, k))
  <2> DEFINE point == [pct |-> Score(Passing(c, k)), label |-> d.scanCount + 1]
  <2>1. point \in Points
    <3>1. Passing(c, k) \in [1..3 -> BOOLEAN]
      BY DEF Passing, Controls, Compliance
    <3> QED BY <3>1, ScoreType DEF Points
  <2> DEFINE trend == Insert(d.trend, point, TrendLimit)
  <2>2. trend \in Seq(Points) /\ Len(trend) <= TrendLimit
    BY <2>1, InsertProperties
  <2>3. Scanned(d, c, k) = [d EXCEPT !.controls = c, !.compliance = k,
                                     !.scanCount = @ + 1, !.trend = trend]
    BY DEF Scanned
  <2>4. d.scanCount + 1 \in Nat
    OBVIOUS
  <2> DEFINE count == d.scanCount + 1
  <2> HIDE DEF trend, count
  <2>5. Scanned(d, c, k) = [d EXCEPT !.controls = c, !.compliance = k,
                                     !.scanCount = count, !.trend = trend]
    BY <2>3 DEF count
  <2>6. count \in Nat
    BY <2>4 DEF count
  <2> QED BY <2>2, <2>5, <2>6
<1>9. ASSUME NEW c \in Controls
      PROVE  Drifted(d, c) \in Documents /\ LogsBounded(Drifted(d, c))
  BY DEF Drifted
<1> QED BY <1>2, <1>3, <1>4, <1>5, <1>6, <1>7, <1>8, <1>9

\* The maps the mock mode makes up are well typed.
LEMMA MockMaps ==
  /\ Approved \in [controls: Controls, compliance: Compliance]
  /\ \A a : doc \in Documents => MockFound(a) \in [controls: Controls, compliance: Compliance]
<1>1. Approved \in [controls: Controls, compliance: Compliance]
  BY DEF Approved, Controls, Compliance
<1>2. ASSUME NEW a, doc \in Documents
      PROVE  MockFound(a) \in [controls: Controls, compliance: Compliance]
  <2>1. doc.controls \in Controls /\ doc.compliance \in Compliance
    BY <1>2 DEF Documents
  <2>2. DriftedControls(doc.controls, a) \in Controls
    BY <2>1 DEF DriftedControls, Controls
  <2>3. [doc.compliance EXCEPT !.root = doc.controls.root] \in Compliance
    BY <2>1 DEF Controls, Compliance
  <2> QED BY <2>1, <2>2, <2>3 DEF MockFound
<1> QED BY <1>1, <1>2

-----------------------------------------------------------------------------
(* The lock and the snapshots.                                             *)

\* A step of the lock holder that stays inside its method, touches no other
\* thread's locals and enters a load-save window only with the newest
\* document keeps LockHeld and SnapshotCurrent: the others are outside.
LEMMA HolderStep ==
  ASSUME TypeOK, LockHeld, SnapshotCurrent,
         NEW t \in Threads, pc[t] \in Working,
         NEW there \in Working, Goto(t, there), lock' = lock,
         \A u \in Threads : u # t => call'[u] = call[u],
         there \in Holding => call'[t].snap = doc'
  PROVE  LockHeld' /\ SnapshotCurrent'
<1>1. \A u \in Threads : u # t => pc[u] \notin Working
  BY DEF LockHeld
<1>2. \A u \in Threads : pc'[u] = (IF u = t THEN there ELSE pc[u])
  BY DEF Goto, TypeOK
<1>3. Holding \subseteq Working
  BY DEF Holding, Working, Locations
<1>4. LockHeld'
  BY <1>1, <1>2 DEF LockHeld
<1>5. SnapshotCurrent'
  BY <1>1, <1>2, <1>3 DEF SnapshotCurrent
<1> QED BY <1>4, <1>5

IInv == TypeOK /\ LockHeld /\ SnapshotCurrent

\* Locations an action may go to.
LEMMA WorkingLocations ==
  /\ Working \subseteq Locations
  /\ {"begin", "mock_directory", "tf_running", "tf_apply", "tf_failed", "tf_applied",
      "load_created", "save_created", "playbook", "job_succeeded", "job_failed",
      "load_scan", "save_scan", "save_drift", "record", "event", "respond"} = Working
  BY DEF Working, Locations

\* Files, playbooks and the maps read from them have their types.
LEMMA FileTypes ==
  /\ \A dir \in Directories : /\ Reset(dir) \in Directories
                              /\ ReadControls(dir) \in Controls
                              /\ ReadCompliance(dir) \in Compliance
  /\ \A task \in Tasks, dir \in Directories : Effect(task, dir) \in Directories
  /\ \A a \in PlaybookActions : Playbook(a) \in Seq(Tasks)
<1>1. \A dir \in Directories : /\ Reset(dir) \in Directories
                               /\ ReadControls(dir) \in Controls
                               /\ ReadCompliance(dir) \in Compliance
  BY DEF Directories, Reset, ReadControls, ReadCompliance, Controls, Compliance
<1>2. ASSUME NEW task \in Tasks, NEW dir \in Directories
      PROVE  Effect(task, dir) \in Directories
  <2>1. /\ DenyRoot(dir) \in Directories /\ AllowRoot(dir) \in Directories
        /\ DenyPassword(dir) \in Directories
        /\ StartService(dir) \in Directories /\ StopService(dir) \in Directories
    BY DEF Directories, DenyRoot, AllowRoot, DenyPassword, StartService, StopService
  <2>2. ScanRoot(dir) \in Directories /\ ScanService(dir) \in Directories
    BY DEF Directories, Reports, Report, ScanRoot, ScanService
  <2> QED BY <2>1, <2>2 DEF Effect, Tasks
<1>3. ASSUME NEW a \in PlaybookActions
      PROVE  Playbook(a) \in Seq(Tasks)
  <2>1. /\ a = "apply_baseline" => Playbook(a) = <<"deny_root", "deny_password", "start_service">>
        /\ a = "run_compliance_scan" => Playbook(a) = <<"scan_root", "scan_service">>
        /\ a = "inject_ssh_drift" => Playbook(a) = <<"allow_root">>
        /\ a = "inject_service_drift" => Playbook(a) = <<"stop_service">>
        /\ a = "run_remediation" => Playbook(a) = <<"deny_root", "start_service">>
    BY DEF Playbook
  <2>2. a \in {"apply_baseline", "run_compliance_scan", "inject_ssh_drift",
               "inject_service_drift", "run_remediation"}
    BY DEF PlaybookActions, Actions, Drifts
  <2>3. /\ <<"deny_root", "deny_password", "start_service">> \in Seq(Tasks)
        /\ <<"scan_root", "scan_service">> \in Seq(Tasks)
        /\ <<"allow_root">> \in Seq(Tasks)
        /\ <<"stop_service">> \in Seq(Tasks)
        /\ <<"deny_root", "start_service">> \in Seq(Tasks)
    BY DEF Tasks
  <2> QED BY <2>1, <2>2, <2>3
<1> QED BY <1>1, <1>2, <1>3

\* Locals of one thread change to well-typed locals.
LEMMA CallUpdate ==
  ASSUME TypeOK, NEW t \in Threads, NEW c \in Calls,
         call' = [call EXCEPT ![t] = c]
  PROVE  /\ call' \in [Threads -> Calls]
         /\ call'[t] = c
         /\ \A u \in Threads : u # t => call'[u] = call[u]
  BY DEF TypeOK

\* At the start the document is the default one and nobody is inside an action.
LEMMA InitialInvariant == Init => IInv
<1> SUFFICES ASSUME Init PROVE IInv
  OBVIOUS
<1>1. 0 \in Seconds
  BY SecondAssumption DEF Seconds
<1>2. DefaultDocument \in Documents /\ LogsBounded(DefaultDocument)
  BY LimitAssumption
     DEF DefaultDocument, Documents, LogsBounded, Controls, Compliance, TerraformStatuses
<1>3. NoCall \in Calls
  BY <1>1, <1>2 DEF NoCall, Calls, Actions, Drifts, Verdicts, DefaultDocument, Controls, Compliance
<1>4. TypeOK
  BY <1>1, <1>2, <1>3, ModeAssumption DEF Init, TypeOK, Directories, Reports, Locations
<1>5. LockHeld
  BY NoThreadAssumption DEF Init, LockHeld, Working
<1>6. SnapshotCurrent
  BY DEF Init, SnapshotCurrent, Holding
<1> QED BY <1>4, <1>5, <1>6 DEF IInv

\* The part of the type invariant that most steps leave alone.
RestTyped == /\ mock \in BOOLEAN /\ clock \in Seconds /\ unread \subseteq Seconds
             /\ {requests, crashes, manual, failures} \subseteq Nat

\* What a step inside a method must establish for the invariant.
LEMMA GeneralStep ==
  ASSUME IInv, NEW t \in Threads, pc[t] \in Working,
         NEW there \in Working, Goto(t, there), lock' = lock,
         NEW c \in Calls, call' = [call EXCEPT ![t] = c],
         there \in Holding => c.snap = doc',
         doc' \in Documents, LogsBounded(doc'), files' \in [Seconds -> Directories],
         RestTyped'
  PROVE  IInv'
<1> USE DEF IInv
<1>1. /\ call' \in [Threads -> Calls]
      /\ call'[t] = c
      /\ \A u \in Threads : u # t => call'[u] = call[u]
  BY CallUpdate
<1>2. LockHeld' /\ SnapshotCurrent'
  BY <1>1, HolderStep
<1>3. pc' \in [Threads -> Locations]
  BY WorkingLocations DEF Goto, TypeOK
<1>4. TypeOK'
  BY <1>1, <1>3 DEF TypeOK, RestTyped
<1> QED BY <1>2, <1>4

\* The same for a step that touches neither `unread' nor a counter.
LEMMA WorkingStep ==
  ASSUME IInv, NEW t \in Threads, pc[t] \in Working,
         NEW there \in Working, Goto(t, there), lock' = lock,
         NEW c \in Calls, call' = [call EXCEPT ![t] = c],
         there \in Holding => c.snap = doc',
         doc' \in Documents, LogsBounded(doc'), files' \in [Seconds -> Directories],
         UNCHANGED Rest
  PROVE  IInv'
<1>1. RestTyped'
  BY DEF RestTyped, IInv, TypeOK, Rest, Bounds, counters
<1> QED BY <1>1, GeneralStep

\* And for one that leaves the method because an access to the files raised.
LEMMA LeavingStep ==
  ASSUME IInv, NEW t \in Threads, pc[t] \in Working, NEW e \in Seconds, Leave(t, e),
         files' \in [Seconds -> Directories]
  PROVE  IInv'
<1> USE WorkingLocations DEF IInv
<1>1. doc \in Documents /\ LogsBounded(doc) /\ call[t] \in Calls
  BY DEF TypeOK
<1>2. [call[t] EXCEPT !.outcome = "failed"] \in Calls
  BY <1>1 DEF Calls, Verdicts
<1>3. RestTyped'
  BY DEF RestTyped, TypeOK, Leave
<1> QED BY <1>1, <1>2, <1>3, GeneralStep DEF Leave, Holding

\* The steps of create_environment keep the invariant.
LEMMA CreateSteps ==
  ASSUME IInv, NEW t \in Threads, Create(t)
  PROVE  IInv'
<1> USE WorkingLocations DEF IInv, Holding
<1>1. /\ doc \in Documents /\ LogsBounded(doc) /\ files \in [Seconds -> Directories]
      /\ clock \in Seconds /\ call[t] \in Calls /\ call = [call EXCEPT ![t] = call[t]]
  BY DEF TypeOK
<1>2. \A v \in Verdicts : [call[t] EXCEPT !.outcome = v] \in Calls
  BY <1>1 DEF Calls
<1>3. "failed" \in Verdicts /\ "succeeded" \in Verdicts
      /\ {"running", "failed", "applied"} \subseteq TerraformStatuses
  BY DEF Verdicts, TerraformStatuses
<1>4. call[t].env \in Seconds /\ call[t].eda \in BOOLEAN
  BY <1>1 DEF Calls
<1>5. ASSUME CreateBlocked(t) PROVE IInv'
  BY <1>1, <1>2, <1>3, <1>5, WorkingStep DEF CreateBlocked
<1>6. ASSUME CreateDirectory(t) PROVE IInv'
  <2>1. [call[t] EXCEPT !.env = clock] \in Calls
    BY <1>1 DEF Calls
  <2>2. files' \in [Seconds -> Directories]
    BY <1>1, <1>6, FileTypes DEF CreateDirectory
  <2> QED BY <1>1, <1>6, <2>1, <2>2, WorkingStep DEF CreateDirectory
<1>7. ASSUME MarkRunning(t) PROVE IInv'
  <2>1. doc' \in Documents /\ LogsBounded(doc')
    BY <1>1, <1>3, <1>4, <1>7, DocumentEdits DEF MarkRunning
  <2> QED BY <1>1, <1>7, <2>1, WorkingStep DEF MarkRunning
<1>8. ASSUME TerraformApply(t) PROVE IInv'
  <2>1. CASE Goto(t, "tf_applied")
    BY <1>1, <1>8, <2>1, WorkingStep DEF TerraformApply
  <2>2. CASE Goto(t, "tf_failed")
    BY <1>1, <1>8, <2>2, WorkingStep DEF TerraformApply
  <2> QED BY <1>8, <2>1, <2>2 DEF TerraformApply
<1>9. ASSUME MarkFailed(t) PROVE IInv'
  <2>1. doc' \in Documents /\ LogsBounded(doc')
    BY <1>1, <1>3, <1>4, <1>9, DocumentEdits DEF MarkFailed
  <2> QED BY <1>1, <1>2, <1>3, <1>9, <2>1, WorkingStep DEF MarkFailed
<1>10. ASSUME MarkApplied(t) PROVE IInv'
  <2>1. doc' \in Documents /\ LogsBounded(doc')
    BY <1>1, <1>3, <1>4, <1>10, DocumentEdits DEF MarkApplied
  <2> QED BY <1>1, <1>10, <2>1, WorkingStep DEF MarkApplied
<1>11. ASSUME LoadForCreate(t) PROVE IInv'
  <2>1. [call[t] EXCEPT !.snap = doc] \in Calls /\ [call[t] EXCEPT !.snap = doc].snap = doc
    BY <1>1 DEF Calls
  <2> QED BY <1>1, <1>11, <2>1, WorkingStep DEF LoadForCreate
<1>12. ASSUME SaveCreated(t) PROVE IInv'
  <2>1. call[t].snap = doc
    BY <1>12 DEF SaveCreated, SnapshotCurrent
  <2>2. doc' \in Documents /\ LogsBounded(doc')
    <3>1. NewMaps(t).controls \in Controls /\ NewMaps(t).compliance \in Compliance
      BY <1>1, <1>4, FileTypes, MockMaps DEF NewMaps
    <3> QED BY <1>1, <1>4, <1>12, <2>1, <3>1, DocumentEdits DEF SaveCreated
  <2>3. RestTyped'
    BY <1>12 DEF SaveCreated, RestTyped, TypeOK, Bounds, counters
  <2> QED BY <1>1, <1>2, <1>3, <1>12, <2>2, <2>3, GeneralStep DEF SaveCreated
<1>13. ASSUME MockApplied(t) PROVE IInv'
  <2>1. [call[t] EXCEPT !.env = clock] \in Calls
    BY <1>1 DEF Calls
  <2>2. doc' \in Documents /\ LogsBounded(doc')
    BY <1>1, <1>3, <1>13, DocumentEdits DEF MockApplied
  <2> QED BY <1>1, <1>13, <2>1, <2>2, WorkingStep DEF MockApplied
<1>14. ASSUME MockDirectory(t) PROVE IInv'
  <2>1. files' \in [Seconds -> Directories]
    BY <1>1, <1>4, <1>14, FileTypes DEF MockDirectory
  <2> QED BY <1>1, <1>14, <2>1, WorkingStep DEF MockDirectory
<1>15. ASSUME DirectoryFails(t) PROVE IInv'
  <2> DEFINE e == IF mock THEN call[t].env ELSE clock
  <2>1. e \in Seconds /\ Leave(t, e)
    BY <1>1, <1>4, <1>15 DEF DirectoryFails
  <2>2. \A dir \in Directories : [dir EXCEPT !.root = FALSE, !.password = FALSE] \in Directories
    BY DEF Directories
  <2>3. files' \in {files, [files EXCEPT ![e].root = FALSE, ![e].password = FALSE],
                    [files EXCEPT ![e] = Reset(@)]}
    BY <1>15 DEF DirectoryFails
  <2> HIDE DEF e
  <2>4. files' \in [Seconds -> Directories]
    <3>1. CASE files' = [files EXCEPT ![e].root = FALSE, ![e].password = FALSE]
      <4>1. files' = [files EXCEPT ![e] = [@ EXCEPT !.root = FALSE, !.password = FALSE]]
        BY <1>1, <2>1, <3>1
      <4> QED BY <1>1, <2>1, <2>2, <4>1
    <3>2. CASE files' \in {files, [files EXCEPT ![e] = Reset(@)]}
      BY <1>1, <2>1, <3>2, FileTypes
    <3> QED BY <2>3, <3>1, <3>2
  <2> QED BY <1>15, <2>1, <2>4, LeavingStep DEF DirectoryFails
<1>16. ASSUME CreatedReadFails(t) PROVE IInv'
  BY <1>1, <1>4, <1>16, LeavingStep DEF CreatedReadFails
<1> QED BY <1>5, <1>6, <1>7, <1>8, <1>9, <1>10, <1>11, <1>12, <1>13, <1>14, <1>15, <1>16 DEF Create

\* The steps of the mock mode's other actions keep the invariant.
LEMMA MockSteps ==
  ASSUME IInv, NEW t \in Threads, RunMock(t)
  PROVE  IInv'
<1> USE WorkingLocations DEF IInv, Holding
<1>1. /\ doc \in Documents /\ LogsBounded(doc) /\ files \in [Seconds -> Directories]
      /\ call[t] \in Calls
  BY DEF TypeOK
<1>2. "succeeded" \in Verdicts
  BY DEF Verdicts
<1>3. ASSUME MockRestore(t) PROVE IInv'
  <2> DEFINE c == [call[t] EXCEPT !.found = Approved, !.outcome = "succeeded"]
  <2>1. c \in Calls
    BY <1>1, <1>2, MockMaps DEF Calls
  <2>2. call' = [call EXCEPT ![t] = c]
    BY <1>3 DEF MockRestore, TypeOK
  <2> HIDE DEF c
  <2> QED BY <1>1, <1>3, <2>1, <2>2, WorkingStep DEF MockRestore
<1>4. ASSUME LoadForMock(t) PROVE IInv'
  <2> DEFINE f == MockFound(call[t].action)
             c == [call[t] EXCEPT !.snap = doc, !.found = f]
  <2>1. f \in [controls: Controls, compliance: Compliance]
    BY <1>1, MockMaps
  <2>2. call' = [call EXCEPT ![t] = c]
    BY <1>4 DEF LoadForMock, TypeOK
  <2> HIDE DEF f
  <2>3. c \in Calls /\ c.snap = doc
    BY <1>1, <2>1 DEF Calls
  <2>4. PICK there \in {"save_drift", "save_scan"} : Goto(t, there)
    BY <1>4 DEF LoadForMock
  <2> HIDE DEF c
  <2> QED BY <1>1, <1>4, <2>2, <2>3, <2>4, WorkingStep DEF LoadForMock
<1>5. ASSUME SaveMockDrift(t) PROVE IInv'
  <2>1. call[t].snap = doc /\ call[t].found.controls \in Controls
    BY <1>1, <1>5 DEF SaveMockDrift, SnapshotCurrent, Calls
  <2>2. doc' \in Documents /\ LogsBounded(doc')
    BY <1>1, <1>5, <2>1, DocumentEdits DEF SaveMockDrift
  <2>3. [call[t] EXCEPT !.outcome = "succeeded"] \in Calls
    BY <1>1, <1>2 DEF Calls
  <2> QED BY <1>1, <1>5, <2>2, <2>3, WorkingStep DEF SaveMockDrift
<1> QED BY <1>3, <1>4, <1>5 DEF RunMock

\* The steps of the actions that run playbooks keep the invariant.
LEMMA PlaybookSteps ==
  ASSUME IInv, NEW t \in Threads, RunPlaybook(t)
  PROVE  IInv'
<1> USE WorkingLocations DEF IInv, Holding
<1>1. /\ doc \in Documents /\ LogsBounded(doc) /\ files \in [Seconds -> Directories]
      /\ call[t] \in Calls /\ call = [call EXCEPT ![t] = call[t]]
  BY DEF TypeOK
<1>2. \A v \in Verdicts : [call[t] EXCEPT !.outcome = v] \in Calls
  BY <1>1 DEF Calls
<1>3. "failed" \in Verdicts /\ "succeeded" \in Verdicts
  BY DEF Verdicts
<1>4. /\ call[t].env \in Seconds /\ call[t].action \in Actions /\ call[t].todo \in Seq(Tasks)
      /\ call[t].found.controls \in Controls /\ call[t].found.compliance \in Compliance
  BY <1>1 DEF Calls
<1>5. ASSUME NoEnvironment(t) PROVE IInv'
  BY <1>1, <1>2, <1>3, <1>5, WorkingStep DEF NoEnvironment
<1>6. ASSUME StartPlaybook(t) PROVE IInv'
  <2> DEFINE c == [call[t] EXCEPT !.env = doc.current, !.todo = Playbook(call[t].action)]
  <2>1. doc.current \in Seconds
    BY <1>1, <1>6 DEF StartPlaybook, Documents
  <2>2. Playbook(call[t].action) \in Seq(Tasks)
    BY <1>6, FileTypes DEF StartPlaybook
  <2>3. c \in Calls
    BY <1>1, <2>1, <2>2 DEF Calls
  <2>4. call' = [call EXCEPT ![t] = c]
    BY <1>1, <1>6 DEF StartPlaybook, TypeOK
  <2> HIDE DEF c
  <2> QED BY <1>1, <1>6, <2>3, <2>4, WorkingStep DEF StartPlaybook
<1>7. ASSUME RunTask(t) PROVE IInv'
  <2> DEFINE c == [call[t] EXCEPT !.todo = Tail(@)]
  <2>1. Head(call[t].todo) \in Tasks /\ Tail(call[t].todo) \in Seq(Tasks)
    BY <1>4, <1>7, HeadTailProperties DEF RunTask
  <2>2. c \in Calls
    BY <1>1, <2>1 DEF Calls
  <2>3. Effect(Head(call[t].todo), files[call[t].env]) \in Directories
    BY <1>1, <1>4, <2>1, FileTypes
  <2>4. files' \in [Seconds -> Directories]
    BY <1>1, <1>7, <2>3 DEF RunTask
  <2>5. call' = [call EXCEPT ![t] = c]
    BY <1>1, <1>7 DEF RunTask, TypeOK
  <2>6. Goto(t, "playbook")
    BY <1>7 DEF RunTask, Goto, TypeOK
  <2> HIDE DEF c
  <2> QED BY <1>1, <1>7, <2>2, <2>4, <2>5, <2>6, WorkingStep DEF RunTask
<1>8. ASSUME PlaybookSucceeds(t) PROVE IInv'
  <2> DEFINE seen == [root    |-> files[call[t].env].sshScan = "pass",
                      service |-> files[call[t].env].serviceScan = "pass"]
             c == [call[t] EXCEPT !.found.controls = seen]
  <2>1. CASE call[t].action = "run_compliance_scan"
    <3>1. seen \in Controls
      BY DEF Controls
    <3> HIDE DEF seen
    <3>2. c \in Calls
      BY <1>1, <3>1 DEF Calls
    <3>3. call' = [call EXCEPT ![t] = c]
      BY <1>1, <1>8, <2>1 DEF PlaybookSucceeds, TypeOK, seen
    <3> HIDE DEF c
    <3> QED BY <1>1, <1>8, <3>2, <3>3, WorkingStep DEF PlaybookSucceeds
  <2>2. CASE call[t].action # "run_compliance_scan"
    BY <1>1, <1>8, <2>2, WorkingStep DEF PlaybookSucceeds
  <2> QED BY <2>1, <2>2
<1>9. ASSUME PlaybookFails(t) PROVE IInv'
  BY <1>1, <1>9, WorkingStep DEF PlaybookFails
<1>10. ASSUME JobSucceeded(t) PROVE IInv'
  <2>1. doc' \in Documents /\ LogsBounded(doc')
    BY <1>1, <1>3, <1>4, <1>10, DocumentEdits DEF JobSucceeded
  <2>2. CASE call[t].action = "run_compliance_scan"
    BY <1>1, <1>2, <1>3, <1>10, <2>1, <2>2, WorkingStep DEF JobSucceeded
  <2>3. CASE call[t].action # "run_compliance_scan"
    BY <1>1, <1>2, <1>3, <1>10, <2>1, <2>3, WorkingStep DEF JobSucceeded
  <2> QED BY <2>2, <2>3
<1>11. ASSUME JobFailed(t) PROVE IInv'
  <2>1. doc' \in Documents /\ LogsBounded(doc')
    BY <1>1, <1>3, <1>4, <1>11, DocumentEdits DEF JobFailed
  <2> QED BY <1>1, <1>2, <1>3, <1>11, <2>1, WorkingStep DEF JobFailed
<1>12. ASSUME LoadForScan(t) PROVE IInv'
  <2> DEFINE k == ReadCompliance(files[call[t].env])
             c == [call[t] EXCEPT !.found.compliance = k, !.snap = doc]
  <2>1. k \in Compliance
    BY <1>1, <1>4, FileTypes
  <2>2. call' = [call EXCEPT ![t] = c]
    BY <1>1, <1>12 DEF LoadForScan, TypeOK
  <2> HIDE DEF k
  <2>3. c \in Calls /\ c.snap = doc
    BY <1>1, <2>1 DEF Calls
  <2> HIDE DEF c
  <2> QED BY <1>1, <1>12, <2>2, <2>3, WorkingStep DEF LoadForScan
<1>13. ASSUME SaveScan(t) PROVE IInv'
  <2> DEFINE v == IF Compliant(call[t].found.controls, call[t].found.compliance)
                  THEN "succeeded" ELSE "failed"
  <2>1. call[t].snap = doc
    BY <1>13 DEF SaveScan, SnapshotCurrent
  <2>2. doc' \in Documents /\ LogsBounded(doc')
    BY <1>1, <1>4, <1>13, <2>1, DocumentEdits DEF SaveScan
  <2>3. v \in Verdicts
    BY <1>3
  <2>4. call' = [call EXCEPT ![t] = [call[t] EXCEPT !.outcome = v]]
    BY <1>1, <1>13 DEF SaveScan, TypeOK
  <2> HIDE DEF v
  <2> QED BY <1>1, <1>2, <1>13, <2>2, <2>3, <2>4, WorkingStep DEF SaveScan
<1>14. ASSUME ReadFails(t) PROVE IInv'
  BY <1>1, <1>4, <1>14, LeavingStep DEF ReadFails
<1>15. ASSUME BaselineReadFails(t) PROVE IInv'
  <2>1. RestTyped'
    BY <1>15 DEF BaselineReadFails, RestTyped, TypeOK
  <2> QED BY <1>1, <1>2, <1>3, <1>15, <2>1, GeneralStep DEF BaselineReadFails
<1> QED BY <1>5, <1>6, <1>7, <1>8, <1>9, <1>10, <1>11, <1>12, <1>13, <1>14, <1>15
    DEF RunPlaybook

\* Evidence, events and incidents keep the invariant.
LEMMA RecordingSteps ==
  ASSUME IInv, NEW t \in Threads, AddIncident(t) \/ RecordAction(t) \/ EmitEvent(t)
  PROVE  IInv'
<1> USE WorkingLocations DEF IInv, Holding
<1>1. /\ doc \in Documents /\ LogsBounded(doc) /\ files \in [Seconds -> Directories]
      /\ clock \in Seconds /\ call[t] \in Calls /\ call = [call EXCEPT ![t] = call[t]]
  BY DEF TypeOK
<1>2. /\ call[t].env \in Seconds /\ call[t].action \in Actions /\ call[t].outcome \in Verdicts
      /\ call[t].found.controls \in Controls /\ call[t].found.compliance \in Compliance
  BY <1>1 DEF Calls
<1>3. ASSUME AddIncident(t) PROVE IInv'
  <2>1. doc' \in Documents /\ LogsBounded(doc')
    BY <1>1, <1>3, DocumentEdits DEF AddIncident
  <2>2. [call[t] EXCEPT !.outcome = "succeeded"] \in Calls
    BY <1>1 DEF Calls, Verdicts
  <2> QED BY <1>1, <1>3, <2>1, <2>2, WorkingStep DEF AddIncident
<1>4. ASSUME RecordAction(t) PROVE IInv'
  <2>1. ReadControls(files[call[t].env]) \in Controls
        /\ ReadCompliance(files[call[t].env]) \in Compliance
    BY <1>1, <1>2, FileTypes
  <2>2. doc.controls \in Controls /\ doc.compliance \in Compliance
    BY <1>1 DEF Documents
  <2>3. RecordedControls(t) \in Controls /\ RecordedCompliance(t) \in Compliance
    BY <1>2, <2>1, <2>2 DEF RecordedControls, RecordedCompliance
  <2>4. doc' \in Documents /\ LogsBounded(doc')
    BY <1>1, <1>2, <1>4, <2>3, DocumentEdits DEF RecordAction
  <2>5. PICK there \in {"event", "respond"} : Goto(t, there)
    BY <1>4 DEF RecordAction
  <2>6. RestTyped'
    BY <1>4 DEF RecordAction, RestTyped, TypeOK, Bounds, counters
  <2> QED BY <1>1, <1>4, <2>4, <2>5, <2>6, GeneralStep DEF RecordAction
<1>5. ASSUME EmitEvent(t) PROVE IInv'
  <2>1. doc' \in Documents /\ LogsBounded(doc')
    BY <1>1, <1>2, <1>5, DocumentEdits DEF EmitEvent
  <2>2. PICK there \in {"record", "respond"} : Goto(t, there)
    BY <1>5 DEF EmitEvent
  <2> QED BY <1>1, <1>5, <2>1, <2>2, WorkingStep DEF EmitEvent
<1> QED BY <1>3, <1>4, <1>5

\* Every step keeps the invariant.
LEMMA NextInvariant == IInv /\ [Next]_vars => IInv'
<1> SUFFICES ASSUME IInv, [Next]_vars PROVE IInv'
  OBVIOUS
<1> USE DEF IInv
<1>1. 0 \in Seconds /\ DefaultDocument \in Documents
  BY SecondAssumption DEF Seconds, DefaultDocument, Documents, Controls, Compliance, TerraformStatuses
<1>2. NoCall \in Calls
  BY <1>1 DEF NoCall, Calls, Actions, Drifts, Verdicts, DefaultDocument, Controls, Compliance
<1>3. ASSUME NEW t \in Threads, Submit(t) PROVE IInv'
  <2>1. PICK a \in Offered, b \in BOOLEAN :
          call' = [call EXCEPT ![t].action = a, ![t].eda = b]
    BY <1>3 DEF Submit
  <2>2. call' \in [Threads -> Calls]
    <3>1. [call[t] EXCEPT !.action = a, !.eda = b] \in Calls
      BY OfferedAssumption DEF TypeOK, Calls
    <3> QED BY <2>1, <3>1 DEF TypeOK
  <2>3. \A u \in Threads : pc'[u] = (IF u = t THEN "waiting" ELSE pc[u])
    BY <1>3 DEF Submit, Goto, TypeOK
  <2>4. TypeOK'
    BY <1>3, <2>2 DEF Submit, Goto, TypeOK, Locations
  <2>5. LockHeld'
    BY <1>3, <2>3 DEF Submit, LockHeld, Working
  <2>6. \A u \in Threads : u # t => call'[u] = call[u]
    BY <2>1 DEF TypeOK
  <2>7. SnapshotCurrent'
    BY <1>3, <2>3, <2>6 DEF Submit, SnapshotCurrent, Holding
  <2> QED BY <2>4, <2>5, <2>7
<1>4. ASSUME NEW t \in Threads, Acquire(t) PROVE IInv'
  <2>1. \A u \in Threads : pc'[u] = (IF u = t THEN "begin" ELSE pc[u])
    BY <1>4 DEF Acquire, Goto, TypeOK
  <2>2. TypeOK'
    BY <1>4 DEF Acquire, Goto, TypeOK, Locations, Rest, Bounds, counters
  <2>3. LockHeld'
    BY <1>4, <2>1, NoThreadAssumption DEF Acquire, LockHeld, Working, Locations
  <2>4. SnapshotCurrent'
    BY <1>4, <2>1 DEF Acquire, SnapshotCurrent, Holding
  <2> QED BY <2>2, <2>3, <2>4
<1>5. ASSUME NEW t \in Threads, Respond(t) PROVE IInv'
  <2>1. \A u \in Threads : pc'[u] = (IF u = t THEN "idle" ELSE pc[u])
    BY <1>5 DEF Respond, Goto, TypeOK
  <2>2. /\ call' \in [Threads -> Calls]
        /\ \A u \in Threads : u # t => call'[u] = call[u]
    BY <1>2, <1>5, CallUpdate DEF Respond
  <2>3. TypeOK'
    BY <1>5, <2>2 DEF Respond, Goto, TypeOK, Locations, Rest, Bounds, counters
  <2>4. lock = t
    BY <1>5 DEF Respond, LockHeld, Working, Locations
  <2>5. LockHeld'
    BY <1>5, <2>1, <2>4, NoThreadAssumption DEF Respond, LockHeld, Working
  <2>6. SnapshotCurrent'
    BY <1>5, <2>1, <2>2 DEF Respond, SnapshotCurrent, Holding
  <2> QED BY <2>3, <2>5, <2>6
<1>6. ASSUME NEW t \in Threads, Step(t) PROVE IInv'
  BY <1>4, <1>5, <1>6, CreateSteps, PlaybookSteps, MockSteps, RecordingSteps DEF Step
<1>7. ASSUME Tick PROVE IInv'
  <2>1. clock' \in Seconds
    BY <1>7, SecondAssumption DEF Tick, TypeOK, Seconds
  <2>2. TypeOK'
    BY <1>7, <2>1 DEF Tick, TypeOK, counters
  <2> QED BY <1>7, <2>2 DEF Tick, LockHeld, SnapshotCurrent
<1>8. ASSUME ManualRemediation PROVE IInv'
  <2>1. doc.current \in Seconds
    BY <1>8 DEF ManualRemediation, TypeOK, Documents
  <2>2. PICK task \in {"deny_root", "start_service"} :
          files' = [files EXCEPT ![doc.current] = Effect(task, @)]
    BY <1>8 DEF ManualRemediation
  <2>3. Effect(task, files[doc.current]) \in Directories
    BY <2>1, FileTypes DEF Tasks, TypeOK
  <2>4. TypeOK'
    BY <1>8, <2>1, <2>2, <2>3 DEF ManualRemediation, TypeOK
  <2> QED BY <1>8, <2>4 DEF ManualRemediation, LockHeld, SnapshotCurrent
<1>9. ASSUME Crash PROVE IInv'
  <2>1. TypeOK'
    <3>1. clock' \in Seconds /\ mock' \in BOOLEAN
      BY <1>9, SecondAssumption, ModeAssumption DEF Crash, TypeOK, Seconds
    <3> QED BY <1>2, <1>9, <3>1 DEF Crash, TypeOK, Locations
  <2>2. LockHeld'
    BY <1>9, NoThreadAssumption DEF Crash, LockHeld, Working
  <2>3. SnapshotCurrent'
    BY <1>9 DEF Crash, SnapshotCurrent, Holding
  <2> QED BY <2>1, <2>2, <2>3
<1>10. ASSUME UNCHANGED vars PROVE IInv'
  BY <1>10 DEF vars, counters, TypeOK, LockHeld, SnapshotCurrent
<1> QED BY <1>3, <1>6, <1>7, <1>8, <1>9, <1>10 DEF Next, Quiet

\* Every reachable state is well typed, the lock is held by exactly the
\* thread inside an action, and no thread sits on a stale document.
THEOREM Invariant == Spec => []IInv
  BY InitialInvariant, NextInvariant, PTL DEF Spec

\* The document keeps its shape, and every log its limit, whatever the actions do.
THEOREM TypeCorrect == Spec => []TypeOK
<1>1. IInv => TypeOK
  BY DEF IInv
<1> QED BY <1>1, Invariant, PTL

\* action_lock is held by exactly the thread inside an action (_serialize_action).
THEOREM LockDiscipline == Spec => []LockHeld
<1>1. IInv => LockHeld
  BY DEF IInv
<1> QED BY <1>1, Invariant, PTL

\* What create_environment and a scan have loaded, they save over the very document
\* they loaded.
THEOREM SnapshotsCurrent == Spec => []SnapshotCurrent
<1>1. IInv => SnapshotCurrent
  BY DEF IInv
<1> QED BY <1>1, Invariant, PTL

-----------------------------------------------------------------------------
(* No update is lost, and the trend stays numbered.                        *)

\* What each edit of the document does to its logs.
LEMMA EditsKeepRecords ==
  ASSUME TypeOK
  PROVE  /\ \A s \in Seconds, v \in TerraformStatuses :
              doc' = Terraform(doc, s, v) => KeepsRecords
         /\ \A s, b, c, k : doc' = Created(doc, s, b, c, k) => KeepsRecords
         /\ \A a \in Actions, v \in Verdicts : doc' = Job(doc, a, v) => KeepsRecords
         /\ \A a \in Actions, v \in Verdicts : \A c, k :
              doc' = [Recorded(doc, a, v) EXCEPT !.controls = c, !.compliance = k] => KeepsRecords
         /\ \A a \in Actions : doc' = Event(doc, a) => KeepsRecords
         /\ \A s \in Seconds : doc' = Incident(doc, s) => KeepsRecords
         /\ \A c \in Controls, k \in Compliance : doc' = Scanned(doc, c, k) => KeepsRecords
         /\ \A c : doc' = Drifted(doc, c) => KeepsRecords
<1>1. doc \in Documents
  BY DEF TypeOK
<1>2. \A a \in Actions, v \in Verdicts : [action |-> a, status |-> v] \in Entries
  BY DEF Entries
<1> USE <1>1 DEF Documents
<1>3. \A s \in Seconds, v \in TerraformStatuses : doc' = Terraform(doc, s, v) => KeepsRecords
  BY DEF Terraform, KeepsRecords
<1>4. \A s, b, c, k : doc' = Created(doc, s, b, c, k) => KeepsRecords
  BY DEF Created, KeepsRecords
<1>5. \A a \in Actions, v \in Verdicts : doc' = Job(doc, a, v) => KeepsRecords
  BY <1>2 DEF Job, KeepsRecords
<1>6. \A a \in Actions, v \in Verdicts : \A c, k :
        doc' = [Recorded(doc, a, v) EXCEPT !.controls = c, !.compliance = k] => KeepsRecords
  BY <1>2 DEF Recorded, KeepsRecords
<1>7. \A a \in Actions : doc' = Event(doc, a) => KeepsRecords
  BY DEF Event, KeepsRecords
<1>8. \A s \in Seconds : doc' = Incident(doc, s) => KeepsRecords
  BY DEF Incident, KeepsRecords
<1>9. ASSUME NEW c \in Controls, NEW k \in Compliance, doc' = Scanned(doc, c, k)
      PROVE  KeepsRecords
  <2>1. Passing(c, k) \in [1..3 -> BOOLEAN]
    BY DEF Passing, Controls, Compliance
  <2> DEFINE p == Score(Passing(c, k))
  <2>2. p \in 0..100
    BY <2>1, ScoreType
  <2>3. /\ doc'.scanCount = doc.scanCount + 1
        /\ doc'.trend = Insert(doc.trend, [pct |-> p, label |-> doc.scanCount + 1], TrendLimit)
        /\ doc'.evidence = doc.evidence /\ doc'.jobs = doc.jobs
        /\ doc'.edaLog = doc.edaLog /\ doc'.incidents = doc.incidents
    BY <1>9 DEF Scanned
  <2> HIDE DEF p
  <2> QED BY <2>2, <2>3 DEF KeepsRecords
<1>10. \A c : doc' = Drifted(doc, c) => KeepsRecords
  BY DEF Drifted, KeepsRecords
<1> QED BY <1>3, <1>4, <1>5, <1>6, <1>7, <1>8, <1>9, <1>10

\* A step writes the document only through one of its edits; a document
\* loaded earlier is still the current one when it is saved.
LEMMA StepsEdit ==
  ASSUME IInv, [Next]_vars
  PROVE  \/ doc' = doc
         \/ \E s \in Seconds, v \in TerraformStatuses : doc' = Terraform(doc, s, v)
         \/ \E s \in Seconds, b \in BOOLEAN, c \in Controls, k \in Compliance :
              doc' = Created(doc, s, b, c, k)
         \/ \E a \in Actions, v \in Verdicts : doc' = Job(doc, a, v)
         \/ \E a \in Actions, v \in Verdicts, c \in Controls, k \in Compliance :
              doc' = [Recorded(doc, a, v) EXCEPT !.controls = c, !.compliance = k]
         \/ \E a \in Actions : doc' = Event(doc, a)
         \/ \E s \in Seconds : doc' = Incident(doc, s)
         \/ \E c \in Controls, k \in Compliance : doc' = Scanned(doc, c, k)
         \/ \E c \in Controls : doc' = Drifted(doc, c)
<1> DEFINE Edited ==
      \/ doc' = doc
      \/ \E s \in Seconds, v \in TerraformStatuses : doc' = Terraform(doc, s, v)
      \/ \E s \in Seconds, b \in BOOLEAN, c \in Controls, k \in Compliance :
           doc' = Created(doc, s, b, c, k)
      \/ \E a \in Actions, v \in Verdicts : doc' = Job(doc, a, v)
      \/ \E a \in Actions, v \in Verdicts, c \in Controls, k \in Compliance :
           doc' = [Recorded(doc, a, v) EXCEPT !.controls = c, !.compliance = k]
      \/ \E a \in Actions : doc' = Event(doc, a)
      \/ \E s \in Seconds : doc' = Incident(doc, s)
      \/ \E c \in Controls, k \in Compliance : doc' = Scanned(doc, c, k)
      \/ \E c \in Controls : doc' = Drifted(doc, c)
<1> USE DEF IInv
<1>1. ASSUME NEW t \in Threads PROVE
        /\ call[t].env \in Seconds /\ call[t].action \in Actions /\ call[t].outcome \in Verdicts
        /\ call[t].eda \in BOOLEAN
        /\ call[t].found.controls \in Controls /\ call[t].found.compliance \in Compliance
        /\ ReadControls(files[call[t].env]) \in Controls
        /\ ReadCompliance(files[call[t].env]) \in Compliance
        /\ doc.controls \in Controls /\ doc.compliance \in Compliance
  <2>1. call[t] \in Calls /\ files \in [Seconds -> Directories] /\ doc \in Documents
    BY DEF TypeOK
  <2> QED BY <2>1, FileTypes DEF Calls, Documents
<1>2. "running" \in TerraformStatuses /\ "failed" \in TerraformStatuses
      /\ "applied" \in TerraformStatuses /\ "succeeded" \in Verdicts /\ "failed" \in Verdicts
  BY DEF TerraformStatuses, Verdicts
<1>3. ASSUME NEW t \in Threads, Create(t) PROVE Edited
  <2>1. CASE MarkRunning(t) \/ MarkFailed(t) \/ MarkApplied(t)
    BY <1>1, <1>2, <2>1 DEF MarkRunning, MarkFailed, MarkApplied
  <2>2. CASE SaveCreated(t)
    <3>1. call[t].snap = doc
      BY <2>2 DEF SaveCreated, SnapshotCurrent, Holding
    <3>2. NewMaps(t).controls \in Controls /\ NewMaps(t).compliance \in Compliance
      BY <1>1, MockMaps DEF NewMaps
    <3> QED BY <1>1, <2>2, <3>1, <3>2 DEF SaveCreated
  <2>3. CASE \/ MockDirectory(t) \/ CreateBlocked(t) \/ CreateDirectory(t) \/ TerraformApply(t)
             \/ LoadForCreate(t) \/ DirectoryFails(t) \/ CreatedReadFails(t)
    BY <2>3 DEF MockDirectory, CreateBlocked, CreateDirectory, TerraformApply, LoadForCreate,
                DirectoryFails, CreatedReadFails, Leave
  <2>4. CASE MockApplied(t)
    BY <1>2, <2>4 DEF MockApplied, TypeOK
  <2> QED BY <1>3, <2>1, <2>2, <2>3, <2>4 DEF Create
<1>4. ASSUME NEW t \in Threads, RunPlaybook(t) PROVE Edited
  <2>1. CASE JobSucceeded(t) \/ JobFailed(t)
    BY <1>1, <1>2, <2>1 DEF JobSucceeded, JobFailed
  <2>2. CASE SaveScan(t)
    <3>1. call[t].snap = doc
      BY <2>2 DEF SaveScan, SnapshotCurrent, Holding
    <3> QED BY <1>1, <2>2, <3>1 DEF SaveScan
  <2>3. CASE NoEnvironment(t) \/ StartPlaybook(t) \/ RunTask(t) \/ PlaybookSucceeds(t)
             \/ PlaybookFails(t) \/ LoadForScan(t) \/ ReadFails(t) \/ BaselineReadFails(t)
    BY <2>3 DEF NoEnvironment, StartPlaybook, RunTask, PlaybookSucceeds, PlaybookFails,
                LoadForScan, ReadFails, BaselineReadFails, Leave
  <2> QED BY <1>4, <2>1, <2>2, <2>3 DEF RunPlaybook
<1>5. ASSUME NEW t \in Threads, RecordAction(t) PROVE Edited
  <2>1. RecordedControls(t) \in Controls /\ RecordedCompliance(t) \in Compliance
    BY <1>1 DEF RecordedControls, RecordedCompliance
  <2> QED BY <1>1, <1>5, <2>1 DEF RecordAction
<1>6. ASSUME NEW t \in Threads, EmitEvent(t) PROVE Edited
  BY <1>1, <1>6 DEF EmitEvent
<1>7. ASSUME NEW t \in Threads, AddIncident(t) PROVE Edited
  BY <1>7 DEF AddIncident, TypeOK
<1>8. ASSUME NEW t \in Threads, Submit(t) \/ Acquire(t) \/ Respond(t) PROVE Edited
  BY <1>8 DEF Submit, Acquire, Respond
<1>9. CASE Tick \/ ManualRemediation \/ Crash \/ UNCHANGED vars
  BY <1>9 DEF Tick, ManualRemediation, Crash, vars
<1>10. ASSUME NEW t \in Threads, RunMock(t) PROVE Edited
  <2>1. CASE SaveMockDrift(t)
    <3>1. call[t].snap = doc
      BY <2>1 DEF SaveMockDrift, SnapshotCurrent, Holding
    <3> QED BY <1>1, <2>1, <3>1 DEF SaveMockDrift
  <2>2. CASE MockRestore(t) \/ LoadForMock(t)
    BY <2>2 DEF MockRestore, LoadForMock
  <2> QED BY <1>10, <2>1, <2>2 DEF RunMock
<1>11. Edited
  BY <1>3, <1>4, <1>5, <1>6, <1>7, <1>8, <1>9, <1>10 DEF Next, Step, Quiet
<1> QED BY <1>11

\* No step of any interleaving drops an entry another action recorded.
THEOREM NoUpdateIsLost == Spec => NoLostUpdate
<1>1. ASSUME IInv, [Next]_vars PROVE [KeepsRecords]_vars
  <2>1. CASE doc' = doc
    BY <2>1 DEF KeepsRecords
  <2> QED BY <1>1, <2>1, StepsEdit, EditsKeepRecords DEF IInv
<1> QED BY <1>1, Invariant, PTL DEF Spec, NoLostUpdate

\* The numbering of the trend survives a scan.
LEMMA ScanKeepsNumbering ==
  ASSUME NEW d \in Documents, LogsBounded(d), TrendNumbered(d),
         NEW c \in Controls, NEW k \in Compliance
  PROVE  TrendNumbered(Scanned(d, c, k))
<1> DEFINE point == [pct |-> Score(Passing(c, k)), label |-> d.scanCount + 1]
           after == Insert(d.trend, point, TrendLimit)
<1>1. point \in Points /\ point.label = d.scanCount + 1
  <2>1. Passing(c, k) \in [1..3 -> BOOLEAN]
    BY DEF Passing, Controls, Compliance
  <2> QED BY <2>1, ScoreType DEF Points, Documents
<1>2. /\ d.trend \in Seq(Points) /\ d.scanCount \in Nat /\ Len(d.trend) <= TrendLimit
      /\ TrendLimit \in Nat \ {0} /\ Len(d.trend) \in Nat
  BY LimitAssumption DEF Documents, LogsBounded
<1>3. Scanned(d, c, k).trend = after /\ Scanned(d, c, k).scanCount = d.scanCount + 1
  BY DEF Scanned, Documents
<1> HIDE DEF point
<1>4. /\ Len(after) = (IF Len(d.trend) < TrendLimit THEN Len(d.trend) + 1 ELSE TrendLimit)
      /\ after[1] = point
      /\ \A i \in 2..Len(after) : after[i] = d.trend[i - 1]
  <2>1. ASSUME NEW log \in Seq(Points), NEW entry \in Points, NEW limit \in Nat \ {0},
               Len(log) <= limit
        PROVE  /\ Len(Insert(log, entry, limit)) =
                    (IF Len(log) < limit THEN Len(log) + 1 ELSE limit)
               /\ Insert(log, entry, limit)[1] = entry
               /\ \A i \in 2..Len(Insert(log, entry, limit)) :
                    Insert(log, entry, limit)[i] = log[i - 1]
    BY <2>1, InsertProperties
  <2> QED BY <1>1, <1>2, <2>1
<1> HIDE DEF after
<1>5. Len(after) = (IF d.scanCount + 1 < TrendLimit THEN d.scanCount + 1 ELSE TrendLimit)
  BY <1>2, <1>4 DEF TrendNumbered
<1>6. ASSUME NEW i \in 1..Len(after) PROVE after[i].label = d.scanCount + 2 - i
  <2>1. CASE i = 1
    BY <1>1, <1>2, <1>4, <2>1
  <2>2. CASE i # 1
    <3>1. i \in 2..Len(after) /\ i - 1 \in 1..Len(d.trend)
      BY <1>2, <1>4, <2>2
    <3>2. d.trend[i - 1].label = d.scanCount + 1 - (i - 1)
      BY <3>1 DEF TrendNumbered
    <3> QED BY <1>2, <1>4, <3>1, <3>2
  <2> QED BY <2>1, <2>2
<1> QED BY <1>2, <1>3, <1>5, <1>6 DEF TrendNumbered

\* The trend always shows the newest scans, numbered consecutively.
THEOREM TrendStaysNumbered == Spec => []TrendLabelsConsecutive
<1>1. Init => TrendLabelsConsecutive
  BY LimitAssumption DEF Init, TrendLabelsConsecutive, TrendNumbered, DefaultDocument
<1>2. ASSUME IInv, TrendLabelsConsecutive, [Next]_vars PROVE TrendLabelsConsecutive'
  <2>1. doc \in Documents /\ LogsBounded(doc) /\ TrendNumbered(doc)
    BY <1>2 DEF IInv, TypeOK, TrendLabelsConsecutive
  <2>2. ASSUME NEW c \in Controls, NEW k \in Compliance, doc' = Scanned(doc, c, k)
        PROVE  TrendNumbered(doc')
    BY <2>1, <2>2, ScanKeepsNumbering
  <2>3. ASSUME doc'.trend = doc.trend, doc'.scanCount = doc.scanCount
        PROVE  TrendNumbered(doc')
    BY <2>1, <2>3 DEF TrendNumbered
  <2>4. ASSUME \/ doc' = doc
               \/ \E s, v : doc' = Terraform(doc, s, v)
               \/ \E s, b, c, k : doc' = Created(doc, s, b, c, k)
               \/ \E a, v : doc' = Job(doc, a, v)
               \/ \E a, v, c, k :
                    doc' = [Recorded(doc, a, v) EXCEPT !.controls = c, !.compliance = k]
               \/ \E a : doc' = Event(doc, a)
               \/ \E s : doc' = Incident(doc, s)
               \/ \E c : doc' = Drifted(doc, c)
        PROVE  doc'.trend = doc.trend /\ doc'.scanCount = doc.scanCount
    BY <2>1, <2>4 DEF Documents, Terraform, Created, Job, Recorded, Event, Incident, Drifted
  <2>5. TrendNumbered(doc')
    BY <1>2, <2>2, <2>3, <2>4, StepsEdit
  <2> QED BY <2>5 DEF TrendLabelsConsecutive
<1> QED BY <1>1, <1>2, Invariant, PTL DEF Spec
=============================================================================
