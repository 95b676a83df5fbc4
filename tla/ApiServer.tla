------------------------------ MODULE ApiServer ------------------------------
(***************************************************************************)
(* The request threads of the ThreadingHTTPServer: routing, the guard on   *)
(* POST requests, the payload, the cache of backends, and the answer.  A   *)
(* backend is built when a request first needs it; its actions run under   *)
(* its own action_lock (their steps are those of LocalLab and              *)
(* CloudBackend) and may last for ever.                                    *)
(*                                                                         *)
(* Abstractions: a backend instance is a number; a batch of credentials is *)
(* the number of the request that typed it; requests that use no backend   *)
(* (files, session, healthz) and those of the demo configuration (module   *)
(* DemoConfig) are left out.                                               *)
(***************************************************************************)
EXTENDS Naturals, Sequences, Functions

CONSTANTS
  Threads,        \* request threads
  NoThread,       \* backends_lock is free
  SortedTargets,  \* sorted(supported_targets)
  Asked,          \* the targets clients name, supported or not
  MaxRequests,    \* bound: requests ever received
  MaxFaults       \* bound: constructors and document reads that raise

LocalLabTargets == {"local-lab", "gcp", "vmware", "parallels", "hyper-v"}

\* The targets that have a backend of their own.
Keys == {"local-lab"} \cup (Range(SortedTargets) \ LocalLabTargets)

ASSUME ThreadAssumption == NoThread \notin Threads
ASSUME TargetAssumption ==
  SortedTargets \in Seq(STRING) /\ "local-lab" \in Range(SortedTargets) /\ Asked \subseteq STRING
ASSUME BoundAssumption  == MaxRequests \in Nat /\ MaxFaults \in Nat

VARIABLES
  backends,      \* per key, the cached instance, 0 if there is none
  credentials,   \* per instance built so far, the batch typed into it last
  backendsLock,  \* the thread holding backends_lock while it builds
  pc,            \* per thread, the point its request has reached
  req,           \* per thread, the request and the handler's locals
  replies,       \* per thread, the responses a connected client has got
  calm,          \* the batch of the newest configure answered "ok" that no
                 \* other configure overlapped; 0 while there is none
  requests, faults   \* counters for the bounds

vars == <<backends, credentials, backendsLock, pc, req, replies, calm, requests, faults>>

-----------------------------------------------------------------------------
\* GET /api/state and /api/auth/status; GET /api/auth/matrix; POST
\* /api/auth/configure; POST /api/actions/<known or unknown action>.
Kinds == {"status", "matrix", "configure", "action", "unknown"}
Posts == {"configure", "action", "unknown"}
\* The handlers that go through all supported targets.
Loops == {"matrix", "configure"}

Codes == {"ok", "failed", "bad_request", "forbidden", "not_found"}

Locations == {"idle", "received", "read", "lookup", "building", "use",
              "waiting", "working", "send"}

\* Past get_active_backend, with its result in a local variable.
Holding == {"use", "waiting", "working"}

\* at: position in the loop over the targets; report: in the except branch of
\* _handle_action; gone: the client has closed the connection; faulty: a
\* constructor or a document read raised; alone: no other configure overlapped.
Requests ==
  [kind: Kinds, target: STRING, batch: Nat, at: Nat \ {0}, backend: Nat, code: Codes,
   report: BOOLEAN, gone: BOOLEAN, faulty: BOOLEAN, alone: BOOLEAN]

Received(kind, target, batch) ==
  [kind |-> kind, target |-> target, batch |-> batch, at |-> 1, backend |-> 0, code |-> "ok",
   report |-> FALSE, gone |-> FALSE, faulty |-> FALSE, alone |-> TRUE]

\* make_handler builds the backend of local-lab.
Init ==
  /\ backends = [k \in Keys |-> IF k = "local-lab" THEN 1 ELSE 0]
  /\ credentials = <<0>>
  /\ backendsLock = NoThread
  /\ pc = [t \in Threads |-> "idle"]
  /\ req = [t \in Threads |-> Received("status", "local-lab", 0)]
  /\ replies = [t \in Threads |-> << >>]
  /\ calm = 0
  /\ requests = 0
  /\ faults = 0

Goto(t, there) == pc' = [pc EXCEPT ![t] = there]

\* A handler's next response.
Answer(t, code) ==
  /\ req' = [req EXCEPT ![t].code = code]
  /\ Goto(t, "send")

-----------------------------------------------------------------------------
(* A request comes in.                                                     *)

\* do_GET and do_POST find the route.
Receive(t) ==
  /\ pc[t] = "idle"
  /\ requests < MaxRequests
  /\ \E kind \in Kinds, target \in Asked :
       /\ req' = [req EXCEPT ![t] = Received(kind, target, requests + 1)]
       /\ Goto(t, IF kind \in Posts THEN "received" ELSE "lookup")
  /\ replies' = [replies EXCEPT ![t] = << >>]
  /\ requests' = requests + 1
  /\ UNCHANGED <<backends, credentials, backendsLock, calm, faults>>

\* _require_safe_post_request
Refuse(t) ==
  /\ pc[t] = "received"
  /\ Answer(t, "forbidden")
  /\ UNCHANGED <<backends, credentials, backendsLock, replies, calm, requests, faults>>

Admit(t) ==
  /\ pc[t] = "received"
  /\ Goto(t, "read")
  /\ UNCHANGED <<backends, credentials, backendsLock, req, replies, calm, requests, faults>>

Configuring(t) == req[t].kind = "configure" /\ pc[t] \notin {"idle", "received", "read"}

\* _read_json_payload; from here on a configure request may write.
ReadPayload(t) ==
  /\ pc[t] = "read"
  /\ Goto(t, "lookup")
  /\ IF req[t].kind = "configure"
     THEN /\ req' = [u \in Threads |->
                       [req[u] EXCEPT !.alone =
                          IF u = t THEN \A v \in Threads : ~Configuring(v)
                                   ELSE @ /\ ~Configuring(u)]]
          /\ calm' = 0
     ELSE UNCHANGED <<req, calm>>
  /\ UNCHANGED <<backends, credentials, backendsLock, replies, requests, faults>>

\* The length, the JSON or the timeout: the target remains "local-lab".
ReadFails(t) ==
  /\ pc[t] = "read"
  /\ IF req[t].kind = "configure"
     THEN Answer(t, "bad_request")
     ELSE /\ req' = [req EXCEPT ![t].target = "local-lab", ![t].report = TRUE]
          /\ Goto(t, "lookup")
  /\ UNCHANGED <<backends, credentials, backendsLock, replies, calm, requests, faults>>

-----------------------------------------------------------------------------
(* get_active_backend.                                                     *)

\* The target a handler asks a backend for.
Wanted(t) == IF req[t].kind \in Loops THEN SortedTargets[req[t].at] ELSE req[t].target

CacheKey(target) == IF target \in Keys THEN target ELSE "local-lab"

Key(t) == CacheKey(Wanted(t))

\* Mutated form: the cache is looked up without the lock.
LookupUnlocked(t) ==
  /\ pc[t] = "lookup"
  /\ \/ /\ backends[Key(t)] # 0
        /\ req' = [req EXCEPT ![t].backend = backends[Key(t)]]
        /\ Goto(t, "use")
     \/ /\ backends[Key(t)] = 0
        /\ Goto(t, "building")
        /\ UNCHANGED req
  /\ UNCHANGED <<backends, credentials, backendsLock, replies, calm, requests, faults>>

Lookup(t) ==
  /\ pc[t] = "lookup"
  /\ backendsLock = NoThread
  /\ \/ /\ backends[Key(t)] # 0
        /\ req' = [req EXCEPT ![t].backend = backends[Key(t)]]
        /\ Goto(t, "use")
        /\ UNCHANGED backendsLock
     \/ /\ backends[Key(t)] = 0
        /\ backendsLock' = t
        /\ Goto(t, "building")
        /\ UNCHANGED req
  /\ UNCHANGED <<backends, credentials, replies, calm, requests, faults>>

\* The constructor returns: the instance is cached and the lock released.
Build(t) ==
  /\ pc[t] = "building"
  /\ credentials' = Append(credentials, 0)
  /\ backends' = [backends EXCEPT ![Key(t)] = Len(credentials) + 1]
  /\ req' = [req EXCEPT ![t].backend = Len(credentials) + 1]
  /\ backendsLock' = NoThread
  /\ Goto(t, "use")
  /\ UNCHANGED <<replies, calm, requests, faults>>

\* What becomes of a request when a backend cannot be had or its document not
\* be read: a configure is answered by its except branch, an action enters its
\* own, which asks again; there and in a GET nothing catches the exception.
Raise(t) ==
  \/ /\ req[t].kind = "configure"
     /\ req' = [req EXCEPT ![t].faulty = TRUE, ![t].code = "bad_request"]
     /\ Goto(t, "send")
  \/ /\ req[t].kind \in {"action", "unknown"} /\ ~req[t].report
     /\ req' = [req EXCEPT ![t].faulty = TRUE, ![t].report = TRUE]
     /\ Goto(t, "lookup")
  \/ /\ req[t].kind \notin Posts \/ req[t].report
     /\ req' = [req EXCEPT ![t].faulty = TRUE]
     /\ Goto(t, "idle")

\* The constructor raises, for instance because .env is unreadable.
BuildFails(t) ==
  /\ pc[t] = "building"
  /\ faults < MaxFaults
  /\ faults' = faults + 1
  /\ backendsLock' = NoThread
  /\ Raise(t)
  /\ UNCHANGED <<backends, credentials, replies, calm, requests>>

-----------------------------------------------------------------------------
(* What the handlers do with the backend.                                  *)

\* Somebody is inside an action of t's backend.
Busy(t) == \E u \in Threads : pc[u] = "working" /\ req[u].backend = req[t].backend

\* Mutated form: get_state waits for the action lock.
ReadStateSerialised(t) ==
  /\ pc[t] = "use"
  /\ req[t].kind = "status" \/ req[t].report
  /\ ~Busy(t)
  /\ Answer(t, IF req[t].report THEN "failed" ELSE "ok")
  /\ UNCHANGED <<backends, credentials, backendsLock, replies, calm, requests, faults>>

\* get_state or get_auth_status, of a GET or of the except branch of an action.
ReadState(t) ==
  /\ pc[t] = "use"
  /\ req[t].kind = "status" \/ req[t].report
  /\ Answer(t, IF req[t].report THEN "failed" ELSE "ok")
  /\ UNCHANGED <<backends, credentials, backendsLock, replies, calm, requests, faults>>

ReadStateFails(t) ==
  /\ pc[t] = "use"
  /\ req[t].kind = "status" \/ req[t].report
  /\ faults < MaxFaults
  /\ faults' = faults + 1
  /\ Raise(t)
  /\ UNCHANGED <<backends, credentials, backendsLock, replies, calm, requests>>

\* Mutated form: credentials reach only the backends that exist already.
NextTargetCachedOnly(t) ==
  LET later == {i \in req[t].at + 1 .. Len(SortedTargets) :
                  backends[CacheKey(SortedTargets[i])] # 0}
  IN  IF later # {}
      THEN /\ req' = [req EXCEPT ![t].at = CHOOSE i \in later : \A j \in later : i <= j]
           /\ Goto(t, "lookup")
      ELSE Answer(t, "ok")

\* The loops go on to the next supported target, or answer.
NextTarget(t) ==
  IF req[t].at < Len(SortedTargets)
  THEN req' = [req EXCEPT ![t].at = @ + 1] /\ Goto(t, "lookup")
  ELSE Answer(t, "ok")

\* The matrix asks for an auth status per target.
AskStatus(t) ==
  /\ pc[t] = "use"
  /\ req[t].kind = "matrix"
  /\ NextTarget(t)
  /\ UNCHANGED <<backends, credentials, backendsLock, replies, calm, requests, faults>>

\* configure_credentials
Configure(t) ==
  /\ pc[t] = "use"
  /\ req[t].kind = "configure"
  /\ credentials' = [credentials EXCEPT ![req[t].backend] = req[t].batch]
  /\ NextTarget(t)
  /\ UNCHANGED <<backends, backendsLock, replies, calm, requests, faults>>

\* _dispatch_action, for one of the seven actions and for any other name.
Dispatch(t) ==
  /\ pc[t] = "use"
  /\ ~req[t].report
  /\ \/ req[t].kind = "action" /\ Goto(t, "waiting") /\ UNCHANGED req
     \/ req[t].kind = "unknown" /\ Answer(t, "not_found")
  /\ UNCHANGED <<backends, credentials, backendsLock, replies, calm, requests, faults>>

\* The action takes its backend's action_lock.
StartAction(t) ==
  /\ pc[t] = "waiting"
  /\ ~Busy(t)
  /\ Goto(t, "working")
  /\ UNCHANGED <<backends, credentials, backendsLock, req, replies, calm, requests, faults>>

ActionReturns(t) ==
  /\ pc[t] = "working"
  /\ Answer(t, "ok")
  /\ UNCHANGED <<backends, credentials, backendsLock, replies, calm, requests, faults>>

\* The except branch fetches the backend again, for the state it answers with.
ActionRaises(t) ==
  /\ pc[t] = "working"
  /\ req' = [req EXCEPT ![t].report = TRUE]
  /\ Goto(t, "lookup")
  /\ UNCHANGED <<backends, credentials, backendsLock, replies, calm, requests, faults>>

-----------------------------------------------------------------------------
(* The answer.                                                             *)

\* Mutated form: an unknown action returns a dictionary after its 404.
DeliverTwice(t) ==
  /\ pc[t] = "send"
  /\ ~req[t].gone
  /\ replies' = [replies EXCEPT ![t] = Append(@, req[t].code)]
  /\ IF req[t].code = "not_found" THEN Answer(t, "ok")
                                  ELSE Goto(t, "idle") /\ UNCHANGED req
  /\ calm' = IF req[t].kind = "configure" /\ req[t].code = "ok" /\ req[t].alone
             THEN req[t].batch ELSE calm
  /\ UNCHANGED <<backends, credentials, backendsLock, requests, faults>>

Deliver(t) ==
  /\ pc[t] = "send"
  /\ ~req[t].gone
  /\ replies' = [replies EXCEPT ![t] = Append(@, req[t].code)]
  /\ Goto(t, "idle")
  /\ calm' = IF req[t].kind = "configure" /\ req[t].code = "ok" /\ req[t].alone
             THEN req[t].batch ELSE calm
  /\ UNCHANGED <<backends, credentials, backendsLock, req, requests, faults>>

\* Writing raises because the client has gone.  Two handlers send from within
\* their try block, and their except branches try to send again.
ClientGone(t) ==
  /\ pc[t] = "send"
  /\ \/ /\ req[t].kind = "configure" /\ req[t].code = "ok"
        /\ req' = [req EXCEPT ![t].gone = TRUE, ![t].code = "bad_request"]
        /\ UNCHANGED pc
     \/ /\ req[t].code = "not_found"
        /\ req' = [req EXCEPT ![t].gone = TRUE, ![t].report = TRUE]
        /\ Goto(t, "lookup")
     \/ /\ req[t].kind = "configure" => req[t].code # "ok"
        /\ req[t].code # "not_found"
        /\ req' = [req EXCEPT ![t].gone = TRUE]
        /\ Goto(t, "idle")
  /\ UNCHANGED <<backends, credentials, backendsLock, replies, calm, requests, faults>>

Quiet ==
  /\ \A t \in Threads : pc[t] = "idle"
  /\ UNCHANGED vars

-----------------------------------------------------------------------------
\* What a thread does by itself, except inside an action.
Serve(t) ==
  \/ Refuse(t) \/ Admit(t) \/ ReadPayload(t) \/ ReadFails(t)
  \/ Lookup(t) \/ Build(t) \/ BuildFails(t)
  \/ ReadState(t) \/ ReadStateFails(t) \/ AskStatus(t) \/ Configure(t)
  \/ Dispatch(t) \/ StartAction(t) \/ Deliver(t) \/ ClientGone(t)

Next ==
  \/ \E t \in Threads : Receive(t) \/ Serve(t) \/ ActionReturns(t) \/ ActionRaises(t)
  \/ Quiet

Spec == Init /\ [][Next]_vars

\* Threads are scheduled, and payloads arrive or time out.  That an action
\* ends is not assumed: its subprocesses have no timeout.
FairSpec == Spec /\ \A t \in Threads : WF_vars(Serve(t))

-----------------------------------------------------------------------------
(* Properties.                                                             *)

TypeOK ==
  /\ backends \in [Keys -> 0..Len(credentials)]
  /\ credentials \in Seq(Nat)
  /\ backendsLock \in Threads \cup {NoThread}
  /\ pc \in [Threads -> Locations]
  /\ req \in [Threads -> Requests]
  /\ \A t \in Threads : req[t].at \in 1..Len(SortedTargets)
  /\ replies \in [Threads -> Seq(Codes)]
  /\ calm \in Nat /\ requests \in Nat /\ faults \in Nat

\* Of all requests that name a target of the same backend, at most one is
\* inside an action, whichever of them had the backend built and however
\* their first look-ups interleave: one document never has two action locks.
ActionsSerialised ==
  \A t, u \in Threads :
    pc[t] = "working" /\ pc[u] = "working" /\ Key(t) = Key(u) => t = u

\* Once a configure request that no other one overlapped has been answered
\* "ok", every backend holds what it typed, those that other requests have
\* built meanwhile or build afterwards included.
ConfigureReachesAll ==
  calm # 0 => \A k \in Keys : backends[k] # 0 => credentials[backends[k]] = calm

\* A request gets one answer, on all ways through the handlers and their
\* except branches, and none only if its client has gone or a constructor or
\* a document read raised.
AnsweredOnce ==
  \A t \in Threads :
    /\ Len(replies[t]) <= 1
    /\ pc[t] = "idle" /\ req[t].batch # 0 /\ ~req[t].gone /\ ~req[t].faulty
         => Len(replies[t]) = 1

\* Every request is over in the end, even if an action never ends, unless it
\* is itself an action on a backend that is inside one: polling and typing
\* credentials are never held up.
OnlyActionsWait ==
  \A t \in Threads :
    pc[t] # "idle" ~>
      \/ pc[t] = "idle"
      \/ req[t].kind = "action" /\ \E u \in Threads : pc[u] = "working" /\ Key(u) = Key(t)
=============================================================================
