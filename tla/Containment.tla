---------------------------- MODULE Containment ----------------------------
(***************************************************************************)
(* Network isolation of one endpoint, end to end.  The server keeps the    *)
(* intended state in agents.status and sends isolate and unisolate         *)
(* commands, which may be lost; every heartbeat compares what the agent    *)
(* reports with agents.status and tells the agent to follow it.  On the    *)
(* endpoint the command executor, the heartbeat reporter, the drift check  *)
(* and the start-up reconciliation share WFPIsolationManager, whose rules  *)
(* live in the Windows firewall and outlive the process.  The scheduler's  *)
(* HeartbeatMonitor writes agents.status as well.                          *)
(*                                                                         *)
(* WFPIsolationManager holds m.mu for the whole of Isolate and Unisolate,  *)
(* so each is one step here; VerifyIsolation and the start-up enumeration  *)
(* read the firewall without that lock and are steps of their own.         *)
(***************************************************************************)
EXTENDS Integers, Sequences, FiniteSets

CONSTANTS
  Operators,    \* requests to isolate or to release that may be under way at once
  RuleNames,    \* the names Isolate gives to its block rules
  DriftCheck,   \* EDR_ISOLATION_DRIFT_INTERVAL > 0
  Mishaps,      \* which of Kinds may happen
  MaxRequests,  \* bound on requests, for TLC
  MaxMishaps    \* bound on mishaps of all kinds together, for TLC

\* A command is lost or a call of the server or its store fails, a netsh call fails,
\* somebody else deletes rules, the agent restarts, no heartbeat arrives for five minutes.
Kinds == {"loss", "fault", "tamper", "restart", "silence"}

ASSUME ContainmentAssumption ==
  /\ IsFiniteSet(Operators) /\ RuleNames # {}
  /\ DriftCheck \in BOOLEAN /\ Mishaps \subseteq Kinds
  /\ MaxRequests \in Nat /\ MaxMishaps \in Nat

VARIABLES
  db,        \* agents.status
  fresh,     \* agents.last_seen is younger than offlineThreshold
  picked,    \* HeartbeatMonitor.check has the agent in its result rows
  request,   \* where each request is in its handler
  queue,     \* commands on their way to the agent
  isolated,  \* m.isolated
  known,     \* m.ruleNames
  rules,     \* the isolation rules in the firewall
  listing,   \* reconcile has yet to enumerate the rules
  listed,    \* the rules that reconcile has enumerated and not adopted yet
  last,      \* e.lastIsolate # nil
  exec,      \* where the executor is in the command it runs
  hb,        \* the heartbeat under way
  drift,     \* where CheckIsolationDrift is
  lost,      \* history: the rules that the manager has lost sight of since it started,
             \* because it failed to delete them or its enumeration failed
  requests,  \* how many requests were made
  mishaps    \* how many mishaps have happened

server == <<db, fresh, picked, request>>
wfp == <<isolated, known, rules, lost>>
endpoint == <<listing, listed, last, exec, hb, drift>>
used == <<requests, mishaps>>
containmentVars == <<server, queue, wfp, endpoint, used>>

Statuses == {"online", "offline", "isolated"}
Commands == {"isolate", "unisolate"}
Orders   == {"none", "isolate", "unisolate"}

Happens(kind) == kind \in Mishaps /\ mishaps < MaxMishaps /\ mishaps' = mishaps + 1

\* What is left of the server's handler of a heartbeat: gRPC reads the status and
\* then updates last_seen, HTTP updates first.
GrpcWork == <<"compare", "touch">>
HttpWork == <<"touch", "compare">>
NoBeat   == [busy |-> FALSE, path |-> "grpc", status |-> "online", work |-> <<>>,
             order |-> "none"]

\* Type invariant.
ContainmentTypeOK ==
  /\ db \in Statuses /\ fresh \in BOOLEAN /\ picked \in BOOLEAN
  /\ request \in [Operators -> {"idle", "mark", "send", "release", "clear"}]
  /\ queue \in Seq(Commands) /\ Len(queue) <= MaxRequests
  /\ isolated \in BOOLEAN /\ known \subseteq RuleNames /\ rules \subseteq RuleNames
  /\ isolated <=> known # {}
  /\ listing \in BOOLEAN /\ listed \subseteq RuleNames
  /\ last \in BOOLEAN /\ lost \subseteq RuleNames
  /\ exec \in {"idle", "verifyIsolate", "remember", "verifyUnisolate", "forget"}
  /\ hb \in [busy : BOOLEAN, path : {"grpc", "http"}, status : {"online", "isolated"},
             work : {<<>>, GrpcWork, HttpWork, <<"touch">>, <<"compare">>}, order : Orders]
  /\ drift \in {"idle", "wanted", "missing"}
  /\ requests \in 0..MaxRequests /\ mishaps \in 0..MaxMishaps

ContainmentInit ==
  /\ db = "online" /\ fresh = TRUE /\ picked = FALSE
  /\ request = [o \in Operators |-> "idle"] /\ queue = <<>>
  /\ isolated = FALSE /\ known = {} /\ rules = {} /\ lost = {}
  /\ listing = TRUE /\ listed = {} /\ last = FALSE
  /\ exec = "idle" /\ hb = NoBeat /\ drift = "idle"
  /\ requests = 0 /\ mishaps = 0

-----------------------------------------------------------------------------
(* WFPIsolationManager.                                                    *)

\* Isolate returns nil: at once when m.isolated, or after adding every rule.
IsolateOk ==
  /\ isolated' = TRUE
  /\ known' = IF isolated THEN known ELSE RuleNames
  /\ rules' = IF isolated THEN rules ELSE RuleNames
  /\ lost' = IF isolated THEN lost ELSE {}
  /\ UNCHANGED mishaps

\* Adding a rule fails: rollback deletes the ones added so far, save those in `left'
\* whose deletion fails too.
IsolateErr ==
  /\ ~isolated /\ Happens("fault")
  /\ \E added \in SUBSET RuleNames, left \in SUBSET RuleNames :
       /\ added # RuleNames /\ left \subseteq added
       /\ rules' = (rules \ added) \cup left
       /\ lost' = lost \cup left
  /\ isolated' = FALSE /\ known' = {}

\* Defect: rollback returns at the first deletion that fails.
RollbackEarly(ok) ==
  IF known \subseteq rules
  THEN /\ ok /\ rules' = rules \ known /\ isolated' = FALSE /\ known' = {}
       /\ UNCHANGED <<lost, mishaps>>
  ELSE ~ok /\ UNCHANGED <<wfp, mishaps>>

\* rollback: delete the known rules, forget them and m.isolated whatever happens.
\* Deleting a rule that is not there is an error, and so is a failing netsh call.
Rollback(ok) ==
  /\ \E left \in SUBSET (known \cap rules) :
       LET clean == left = {} /\ known \subseteq rules IN
       /\ ok => clean
       /\ IF left # {} \/ (clean /\ ~ok) THEN Happens("fault") ELSE UNCHANGED mishaps
       /\ rules' = rules \ (known \ left)
       /\ lost' = lost \cup left
  /\ isolated' = FALSE /\ known' = {}

\* Unisolate: nothing to do unless m.isolated.
Unisolate(ok) == IF isolated THEN Rollback(ok) ELSE ok /\ UNCHANGED <<wfp, mishaps>>

VerifyIsolation == rules # {}

\* Defect: without the enumeration nothing is adopted.
ReconcileListNothing ==
  /\ listing /\ listing' = FALSE /\ listed' = {}
  /\ UNCHANGED <<server, queue, wfp, last, exec, hb, drift, used>>

\* reconcile, at start: enumerate the rules without the lock ...
ReconcileList ==
  /\ listing /\ listing' = FALSE /\ listed' = rules
  /\ UNCHANGED <<server, queue, wfp, last, exec, hb, drift, used>>

\* The enumeration fails, which looks like one that finds nothing: rules that are
\* there, and that no Isolate has made its own meanwhile, are never adopted.
ReconcileListFails ==
  /\ listing /\ Happens("fault") /\ listing' = FALSE
  /\ lost' = lost \cup (rules \ known)
  /\ UNCHANGED <<server, queue, isolated, known, rules, listed, last, exec, hb, drift, requests>>

\* ... and adopt them, unless an Isolate has landed in the meantime.
ReconcileAdopt ==
  /\ listed # {} /\ listed' = {}
  /\ isolated' = TRUE
  /\ known' = IF isolated THEN known ELSE listed
  /\ UNCHANGED <<server, queue, rules, lost, listing, last, exec, hb, drift, used>>

-----------------------------------------------------------------------------
(* The server: requests, commands and the monitor.                         *)

\* AgentHandler.Isolate marks the agent; an automatic path goes to IsolateEndpoint.
RequestIsolate(o) ==
  /\ request[o] = "idle" /\ requests < MaxRequests /\ requests' = requests + 1
  /\ db' \in {db, "isolated"} /\ request' = [request EXCEPT ![o] = "mark"]
  /\ UNCHANGED <<fresh, picked, queue, wfp, endpoint, mishaps>>

\* IsolateEndpoint writes the status ...
IsolateAgent(o) ==
  /\ request[o] = "mark" /\ request' = [request EXCEPT ![o] = "send"]
  /\ db' = "isolated"
  /\ UNCHANGED <<fresh, picked, queue, wfp, endpoint, used>>

\* ... and publishes the command.
PublishIsolate(o) ==
  /\ request[o] = "send" /\ request' = [request EXCEPT ![o] = "idle"]
  /\ queue' = Append(queue, "isolate")
  /\ UNCHANGED <<db, fresh, picked, wfp, endpoint, used>>

\* AgentHandler.Unisolate writes the status; UnisolateEndpoint called by itself does not.
RequestUnisolate(o) ==
  /\ request[o] = "idle" /\ requests < MaxRequests /\ requests' = requests + 1
  /\ db' \in {db, "online"} /\ request' = [request EXCEPT ![o] = "release"]
  /\ UNCHANGED <<fresh, picked, queue, wfp, endpoint, mishaps>>

\* UnisolateEndpoint publishes the command first ...
PublishUnisolate(o) ==
  /\ request[o] = "release" /\ request' = [request EXCEPT ![o] = "clear"]
  /\ queue' = Append(queue, "unisolate")
  /\ UNCHANGED <<db, fresh, picked, wfp, endpoint, used>>

\* ... and writes the status after it.
UnisolateAgent(o) ==
  /\ request[o] = "clear" /\ request' = [request EXCEPT ![o] = "idle"]
  /\ db' = "online"
  /\ UNCHANGED <<fresh, picked, queue, wfp, endpoint, used>>

\* A status write or a publish fails: the handler answers with an error, and what it
\* has written stays.
RequestFails(o) ==
  /\ request[o] # "idle" /\ Happens("loss") /\ request' = [request EXCEPT ![o] = "idle"]
  /\ UNCHANGED <<db, fresh, picked, queue, wfp, endpoint, requests>>

\* A command is dropped: published with no subscriber, or dequeued for a stream whose
\* Send then fails.
LoseCommand ==
  /\ queue # <<>> /\ Happens("loss") /\ queue' = Tail(queue)
  /\ UNCHANGED <<server, wfp, endpoint, requests>>

\* Five minutes without a heartbeat.
Silence ==
  /\ fresh /\ Happens("silence") /\ fresh' = FALSE
  /\ UNCHANGED <<db, picked, request, queue, wfp, endpoint, requests>>

\* HeartbeatMonitor.check: the query picks silent agents that are online ...
MonitorPick ==
  /\ db = "online" /\ ~fresh /\ ~picked /\ picked' = TRUE
  /\ UNCHANGED <<db, fresh, request, queue, wfp, endpoint, used>>

\* ... and the loop over its rows marks each offline, whatever its status is by now.
MarkAgentOffline ==
  /\ picked /\ picked' = FALSE /\ db' = "offline"
  /\ UNCHANGED <<fresh, request, queue, wfp, endpoint, used>>

-----------------------------------------------------------------------------
(* The executor, in the goroutine that receives commands.                  *)

ExecIsolate ==
  /\ exec = "idle" /\ queue # <<>> /\ Head(queue) = "isolate" /\ queue' = Tail(queue)
  /\ \/ IsolateOk /\ exec' = "verifyIsolate"
     \/ IsolateErr /\ exec' = "idle"
  /\ UNCHANGED <<server, listing, listed, last, hb, drift, requests>>

IsolateVerify ==
  /\ exec = "verifyIsolate"
  /\ exec' = IF VerifyIsolation THEN "remember" ELSE "idle"
  /\ UNCHANGED <<server, queue, wfp, listing, listed, last, hb, drift, used>>

IsolateRemember ==
  /\ exec = "remember" /\ exec' = "idle" /\ last' = TRUE
  /\ UNCHANGED <<server, queue, wfp, listing, listed, hb, drift, used>>

ExecUnisolate ==
  /\ exec = "idle" /\ queue # <<>> /\ Head(queue) = "unisolate" /\ queue' = Tail(queue)
  /\ \/ Unisolate(TRUE) /\ exec' = "verifyUnisolate"
     \/ Unisolate(FALSE) /\ exec' = "idle"
  /\ UNCHANGED <<server, listing, listed, last, hb, drift, requests>>

UnisolateVerify ==
  /\ exec = "verifyUnisolate"
  /\ exec' = IF VerifyIsolation THEN "idle" ELSE "forget"
  /\ UNCHANGED <<server, queue, wfp, listing, listed, last, hb, drift, used>>

UnisolateForget ==
  /\ exec = "forget" /\ exec' = "idle" /\ last' = FALSE
  /\ UNCHANGED <<server, queue, wfp, listing, listed, hb, drift, used>>

-----------------------------------------------------------------------------
(* The heartbeat: reporter, senders and the server's two handlers.         *)

SendOnce ==
  /\ ~hb.busy
  /\ hb' = [NoBeat EXCEPT !.busy = TRUE, !.work = GrpcWork,
                          !.status = IF isolated THEN "isolated" ELSE "online"]
  /\ UNCHANGED <<server, queue, wfp, listing, listed, last, exec, drift, used>>

\* FallbackSender repeats the request over HTTP when gRPC fails.
FallBack ==
  /\ hb.busy /\ hb.path = "grpc" /\ Happens("loss")
  /\ hb' = [hb EXCEPT !.path = "http", !.work = HttpWork, !.order = "none"]
  /\ UNCHANGED <<server, queue, wfp, listing, listed, last, exec, drift, requests>>

HeartbeatFails ==
  /\ hb.busy /\ hb.path = "http" /\ Happens("loss") /\ hb' = NoBeat
  /\ UNCHANGED <<server, queue, wfp, listing, listed, last, exec, drift, requests>>

\* Defect: only the release is sent, as the code did once.
ReconcileOneWay(dbStatus, reported) ==
  IF dbStatus # "isolated" /\ reported = "isolated" THEN "unisolate" ELSE "none"

\* isolationHeaders and reconcileIsolation: agents.status against what was reported.
Reconcile(dbStatus, reported) ==
  CASE dbStatus = "isolated" /\ reported # "isolated" -> "isolate"
    [] dbStatus # "isolated" /\ reported = "isolated" -> "unisolate"
    [] OTHER -> "none"

Compare ==
  /\ hb.busy /\ hb.work # <<>> /\ Head(hb.work) = "compare"
  /\ hb' = [hb EXCEPT !.work = Tail(@), !.order = Reconcile(db, hb.status)]
  /\ UNCHANGED <<server, queue, wfp, listing, listed, last, exec, drift, used>>

UpdateLastSeen ==
  /\ hb.busy /\ hb.work # <<>> /\ Head(hb.work) = "touch"
  /\ hb' = [hb EXCEPT !.work = Tail(@)]
  /\ fresh' = TRUE /\ db' = IF db = "isolated" THEN "isolated" ELSE "online"
  /\ UNCHANGED <<picked, request, queue, wfp, listing, listed, last, exec, drift, used>>

\* The store fails in the handler, which goes on without the comparison, and over gRPC
\* without the update; over HTTP a failed update fails the heartbeat.
StoreFails ==
  /\ hb.busy /\ hb.work # <<>> /\ (hb.path = "grpc" \/ Head(hb.work) = "compare")
  /\ Happens("loss") /\ hb' = [hb EXCEPT !.work = Tail(@)]
  /\ UNCHANGED <<server, queue, wfp, listing, listed, last, exec, drift, requests>>

\* The agent acts on the reply, through the manager and not through the executor.
ApplyOrder ==
  /\ hb.busy /\ hb.work = <<>> /\ hb' = NoBeat
  /\ \/ hb.order = "none" /\ UNCHANGED <<wfp, mishaps>>
     \/ hb.order = "isolate" /\ (IsolateOk \/ IsolateErr)
     \/ hb.order = "unisolate" /\ \E ok \in BOOLEAN : Unisolate(ok)
  /\ UNCHANGED <<server, queue, listing, listed, last, exec, drift, requests>>

-----------------------------------------------------------------------------
(* CheckIsolationDrift.  With lastIsolate = nil it only logs.              *)

DriftRead ==
  /\ DriftCheck /\ drift = "idle" /\ last /\ drift' = "wanted"
  /\ UNCHANGED <<server, queue, wfp, listing, listed, last, exec, hb, used>>

DriftVerify ==
  /\ drift = "wanted" /\ drift' = IF VerifyIsolation THEN "idle" ELSE "missing"
  /\ UNCHANGED <<server, queue, wfp, listing, listed, last, exec, hb, used>>

DriftReapply ==
  /\ drift = "missing" /\ drift' = "idle" /\ (IsolateOk \/ IsolateErr)
  /\ UNCHANGED <<server, queue, listing, listed, last, exec, hb, requests>>

-----------------------------------------------------------------------------
(* The environment.                                                        *)

\* Somebody else deletes rules: a policy refresh, an administrator.
Tamper ==
  /\ Happens("tamper") /\ \E gone \in SUBSET rules : gone # {} /\ rules' = rules \ gone
  /\ UNCHANGED <<server, queue, isolated, known, lost, endpoint, requests>>

\* The process dies and is started again; when it dies inside Isolate, some of the
\* rules are already there.
Restart ==
  /\ Happens("restart")
  /\ \/ UNCHANGED rules
     \/ /\ ~isolated
        /\ \/ exec = "idle" /\ queue # <<>> /\ Head(queue) = "isolate"
           \/ hb.busy /\ hb.work = <<>> /\ hb.order = "isolate"
           \/ drift = "missing"
        /\ \E added \in SUBSET RuleNames : rules' = rules \cup added
  /\ isolated' = FALSE /\ known' = {} /\ lost' = {}
  /\ listing' = TRUE /\ listed' = {} /\ last' = FALSE
  /\ exec' = "idle" /\ hb' = NoBeat /\ drift' = "idle"
  /\ UNCHANGED <<server, queue, requests>>

-----------------------------------------------------------------------------

Handler(o) == IsolateAgent(o) \/ PublishIsolate(o) \/ PublishUnisolate(o) \/ UnisolateAgent(o)
Monitor    == MonitorPick \/ MarkAgentOffline
Startup    == ReconcileList \/ ReconcileAdopt
Executor   == \/ ExecIsolate \/ IsolateVerify \/ IsolateRemember
              \/ ExecUnisolate \/ UnisolateVerify \/ UnisolateForget
Reporter   == SendOnce \/ Compare \/ UpdateLastSeen \/ ApplyOrder
Drift      == DriftRead \/ DriftVerify \/ DriftReapply
Faults     == \/ FallBack \/ HeartbeatFails \/ StoreFails \/ LoseCommand \/ Silence
              \/ ReconcileListFails \/ Tamper \/ Restart

ContainmentNext ==
  \/ \E o \in Operators : \/ RequestIsolate(o) \/ RequestUnisolate(o)
                           \/ Handler(o) \/ RequestFails(o)
  \/ Monitor \/ Startup \/ Executor \/ Reporter \/ Drift \/ Faults

\* Handlers finish; each goroutine of the agent goes on, and its tickers keep firing.
\* Nobody has to make a request, and no fault has to happen.
ContainmentFairness ==
  /\ \A o \in Operators : WF_containmentVars(Handler(o))
  /\ WF_containmentVars(MarkAgentOffline) /\ WF_containmentVars(Startup)
  /\ WF_containmentVars(Executor) /\ WF_containmentVars(Reporter) /\ WF_containmentVars(Drift)

ContainmentSpec == ContainmentInit /\ [][ContainmentNext]_containmentVars /\ ContainmentFairness

-----------------------------------------------------------------------------
(* Properties.                                                             *)

Agrees == isolated <=> db = "isolated"

\* Every isolation rule in the firewall is one that the manager will delete when it is
\* told to release, unless its start-up enumeration is still under way: no interleaving
\* of commands, heartbeats, drift checks and restarts orphans a rule (isolate_wfp.go,
\* reconcile and rollback).  Excepted, rule by rule, are those that it failed to delete
\* and those that were there when the enumeration failed.
RulesAccounted == listing \/ listed # {} \/ rules \subseteq known \cup lost

\* The heartbeat makes the agent follow agents.status (handler.go, Heartbeat) once
\* requests and faults have ceased, whatever was lost on the way, unless the executor
\* still remembers an isolation that the server has released and the drift check keeps
\* re-applying it.
FollowsStatus ==
  <>[](db = "isolated" \/ ~last \/ ~DriftCheck) => <>[]Agrees

\* A released endpoint does not stay cut off: rules in the firewall of an agent that
\* the server does not hold isolated go away, or the server isolates it again
\* (isolate_wfp.go, reconcile: "the agent clears the rules on its own").  What stays
\* are the rules that the manager has lost sight of since it was started.
OrphanCleared ==
  (~(rules \subseteq lost) /\ db # "isolated") ~> (rules \subseteq lost \/ db = "isolated")

-----------------------------------------------------------------------------
(* What a comment says and the code does not keep (README, section 6).     *)

\* agents.status is the only truth and the next heartbeat repairs a lost command
\* (handler.go 491-492), so that agent and server come to agree and stay so.
StatusWins == <>[]Agrees

\* Rules that have gone missing under an isolation that the server still wants are
\* re-applied (executor.go 396-397).
MissingRulesReapplied ==
  (rules = {} /\ last /\ db = "isolated") ~> (rules # {} \/ ~last \/ db # "isolated")

\* agents.status stays "isolated", the operator's intent, until a request releases it
\* (agents_handler.go 311-313).
IntentKept ==
  [][db = "isolated" /\ db' # "isolated"
       => \E o \in Operators : request'[o] # request[o]]_containmentVars
=============================================================================
