--------------------------- MODULE EndpointProofs ---------------------------
(***************************************************************************)
(* The two components that keep an endpoint under control when processes   *)
(* die and system calls fail.  The watchdog always has a binary to go back *)
(* to, for any number of releases and mishaps and whichever releases are   *)
(* broken (SelfUpdate); and no rule that isolates the endpoint is          *)
(* forgotten, for any rules, operators and mishaps (Containment).          *)
(***************************************************************************)
EXTENDS SelfUpdate, Containment, FiniteSetTheorems, TLAPS

-----------------------------------------------------------------------------
(* Part 1: the self-update.                                                *)


(***************************************************************************)
(* FallbackKept says that some proven binary is there; the strengthening   *)
(* says which of the two files holds it, at every step of the watchdog.    *)
(*   - Between two runs it is the binary in place.                         *)
(*   - From the first rename to the end of the swap, and during a          *)
(*     rollback, it is the backup.                                         *)
(*   - While an agent runs it is the backup if and only if `updated' says  *)
(*     so, and then an early death leads to a rollback.                    *)
(* Only a running agent stages a release, so that the one the watchdog     *)
(* found before its first rename is still there at the second.  The agent  *)
(* is the binary in place; if it has lived for a minute, that is proven.   *)
(***************************************************************************)
Fallback ==
  /\ wpc \in {"check", "backup", "record", "down"} => bin \in proven
  /\ wpc \in {"swap", "restore", "clear", "remove", "rename"} => bak \in proven
  /\ wpc \in {"launch", "run"} => bin # None /\ (IF updated THEN bak ELSE bin) \in proven

InPlace ==
  /\ wpc \in {"backup", "swap"} => new # None
  /\ wpc = "clear" => bin # None
  /\ wpc \in {"backup", "swap", "restore"} => ~updated
  /\ wpc = "run" => agent.release = bin

AgentInv ==
  /\ agent.do # "gone" => wpc = "run"
  /\ agent.age = "stable" => agent.release \in proven

IInv == TypeOK /\ AgentInv /\ (~cut => Fallback /\ InPlace)

-----------------------------------------------------------------------------
\* None is no release, so that it is never proven.
LEMMA NoneUnproven == TypeOK => None \notin proven /\ None \notin Releases
  BY UpdateAssumption DEF TypeOK, Releases, None

LEMMA NoAgentType == NoAgent \in Agents
  BY UpdateAssumption DEF NoAgent, Agents, Ages, Releases

\* The installed release counts as proven when the watchdog first starts.
LEMMA InitIInv == Init => IInv
  <1> SUFFICES ASSUME Init PROVE IInv
    OBVIOUS
  <1>1. agent \in Agents
    BY NoAgentType DEF Init
  <1>2. sameDir \in BOOLEAN /\ updated \in BOOLEAN /\ rolledBack \in BOOLEAN /\ cut \in BOOLEAN
    BY Zenon DEF Init
  <1>2a. /\ latest \in Releases /\ {bin, bak, new} \subseteq File /\ hash \in File
         /\ proven \subseteq Releases /\ findings \subseteq {"binary_modified", "agent_death"}
    BY UpdateAssumption DEF Init, Releases, File
  <1>2b. kills \in 0..MaxKills /\ deaths \in 0..MaxDeaths /\ faults \in 0..MaxFaults
    BY UpdateAssumption DEF Init
  <1>2c. marker \in {"none", "whole", "torn"} /\ wpc \in WPCs /\ crashes \in {0, 1}
    BY Zenon DEF Init, WPCs
  <1>2d. TypeOK
    BY <1>1, <1>2, <1>2a, <1>2b, <1>2c, Zenon DEF TypeOK
  <1>3. AgentInv
    BY DEF Init, AgentInv, NoAgent
  <1>4. Fallback /\ InPlace
    BY DEF Init, Fallback, InPlace
  <1> QED
    BY <1>2d, <1>3, <1>4 DEF IInv

\* Every step keeps the state well formed.
LEMMA TypeStep == TypeOK /\ [Next]_vars => TypeOK'
  <1> SUFFICES ASSUME TypeOK, [Next]_vars PROVE TypeOK'
    OBVIOUS
  <1> USE UpdateAssumption DEF TypeOK, Releases, File, WPCs, Agents, Ages, NoAgent, None
  <1>1. CASE Watchdog
    <2>1. CASE CheckMarker
      BY <2>1 DEF CheckMarker, files, bounds
    <2>2. CASE Backup
      BY <2>2 DEF Backup, files, bounds
    <2>3. CASE Swap
      BY <2>3 DEF Swap, files, bounds
    <2>4. CASE Restore
      BY <2>4 DEF Restore, files, bounds
    <2>5. CASE ClearMarker
      BY <2>5 DEF ClearMarker, Fault, files, bounds
    <2>6. CASE Launch
      <3>1. agent' \in Agents /\ hash' \in File
            /\ findings' \subseteq {"binary_modified", "agent_death"}
        <4>1. CASE bin = None
          BY <2>6, <4>1, NoAgentType DEF Launch
        <4>2. CASE bin # None
          <5>1. agent' = [release |-> bin, age |-> "early", do |-> "work"] /\ bin \in Releases
            BY <2>6, <4>2 DEF Launch
          <5>2. agent' \in Agents
            BY <5>1
          <5>3. hash' = IF hash = None THEN bin ELSE hash
            BY <2>6, <4>2 DEF Launch, IntegrityCheck
          <5>4. findings' \in {findings, findings \cup {"binary_modified"}}
            BY <2>6, <4>2 DEF Launch, IntegrityCheck
          <5> QED
            BY <5>1, <5>2, <5>3, <5>4
        <4> QED
          BY <4>1, <4>2
      <3> QED
        BY <2>6, <3>1 DEF Launch, files, bounds
    <2>7. CASE Reap
      BY <2>7 DEF Reap, TooShort, files, bounds
    <2>8. CASE Remove
      BY <2>8 DEF Remove, Fault, files, bounds
    <2>9. CASE Rename
      BY <2>9 DEF Rename, files, bounds
    <2>10. CASE RecordAgentDeath
      BY <2>10 DEF RecordAgentDeath, files, bounds
    <2>11. CASE WatchdogStarts
      BY <2>11 DEF WatchdogStarts, files, bounds
    <2> QED
      BY <1>1, <2>1, <2>2, <2>3, <2>4, <2>5, <2>6, <2>7, <2>8, <2>9, <2>10, <2>11 DEF Watchdog
  <1>2. CASE Agent
    <2>1. CASE Ages30
      BY <2>1 DEF Ages30, files, bounds
    <2>2. CASE Ages60
      BY <2>2 DEF Ages60, files, bounds
    <2>3. CASE CheckForUpdate
      BY <2>3 DEF CheckForUpdate, files, bounds
    <2>4. CASE Stage
      BY <2>4 DEF Stage, bounds
    <2>5. CASE MarkAndExit
      BY <2>5 DEF MarkAndExit, files, bounds
    <2>6. CASE BrokenDies
      BY <2>6 DEF BrokenDies, files, bounds
    <2> QED
      BY <1>2, <2>1, <2>2, <2>3, <2>4, <2>5, <2>6 DEF Agent
  <1>3. CASE Mishap
    <2>1. CASE Killed
      BY <2>1 DEF Killed, files
    <2>2. CASE WatchdogStops
      <3>1. agent' \in Agents
        BY <2>2, NoAgentType DEF WatchdogStops
      <3>2. marker' \in {"none", "whole", "torn"}
        BY <2>2 DEF WatchdogStops
      <3>3. /\ sameDir' \in BOOLEAN /\ updated' \in BOOLEAN
            /\ rolledBack' \in BOOLEAN /\ cut' \in BOOLEAN
        BY <2>2, Zenon DEF WatchdogStops
      <3>4. /\ latest' \in Releases /\ {bin, bak, new}' \subseteq File /\ hash' \in File
            /\ proven' \subseteq Releases /\ findings' \subseteq {"binary_modified", "agent_death"}
            /\ wpc' \in WPCs /\ crashes' \in {0, 1}
        BY <2>2 DEF WatchdogStops, files
      <3>5. kills' \in 0..MaxKills /\ deaths' \in 0..MaxDeaths /\ faults' \in 0..MaxFaults
        BY <2>2 DEF WatchdogStops
      <3> QED
        BY <3>1, <3>2, <3>3, <3>4, <3>5, Zenon DEF TypeOK
    <2>3. CASE ApplyFails
      BY <2>3 DEF ApplyFails, Fault, files
    <2>4. CASE BackupFails
      BY <2>4 DEF BackupFails, Fault, files
    <2>5. CASE SwapFails
      BY <2>5 DEF SwapFails, Fault, files
    <2>6. CASE RestoreFails
      BY <2>6 DEF RestoreFails, Fault, files
    <2>7. CASE RenameFails
      BY <2>7 DEF RenameFails, Fault, files
    <2> QED
      BY <1>3, <2>1, <2>2, <2>3, <2>4, <2>5, <2>6, <2>7 DEF Mishap
  <1>4. CASE Release
    BY <1>4 DEF Release, files, bounds
  <1>5. CASE UNCHANGED vars
    BY <1>5 DEF vars, files, bounds
  <1> QED
    BY <1>1, <1>2, <1>3, <1>4, <1>5 DEF Next

-----------------------------------------------------------------------------
\* The agent process belongs to the run that the watchdog waits for, and one that
\* has lived for a minute is proven.
LEMMA AgentStep == IInv /\ [Next]_vars => AgentInv'
  <1> SUFFICES ASSUME IInv, [Next]_vars PROVE AgentInv'
    OBVIOUS
  <1> USE DEF IInv, TypeOK, AgentInv, Agents, Ages
  <1>1. CASE Watchdog
    BY <1>1 DEF Watchdog, CheckMarker, Backup, Swap, Restore, ClearMarker, Launch, Reap, Remove,
                Rename, RecordAgentDeath, WatchdogStarts, NoAgent
  <1>2. CASE Agent
    <2>1. CASE Ages60
      BY <2>1 DEF Ages60
    <2>2. CASE ~Ages60
      BY <1>2, <2>2 DEF Agent, Ages30, CheckForUpdate, Stage, MarkAndExit, BrokenDies
    <2> QED
      BY <2>1, <2>2
  <1>3. CASE Mishap
    BY <1>3 DEF Mishap, Killed, WatchdogStops, ApplyFails, BackupFails, SwapFails, RestoreFails,
                RenameFails, NoAgent
  <1>4. CASE Release \/ UNCHANGED vars
    BY <1>4 DEF Release, vars
  <1> QED
    BY <1>1, <1>2, <1>3, <1>4 DEF Next

\* A proven binary stays where the watchdog looks for it.
LEMMA FallbackStep == IInv /\ [Next]_vars => (~cut' => Fallback' /\ InPlace')
  <1> SUFFICES ASSUME IInv, [Next]_vars, ~cut' PROVE Fallback' /\ InPlace'
    OBVIOUS
  <1>1. None \notin proven
    BY NoneUnproven DEF IInv
  <1> USE <1>1 DEF IInv, AgentInv, Fallback, InPlace
  <1>2. CASE Watchdog
    <2>1. CASE CheckMarker
      BY <2>1 DEF CheckMarker, files
    <2>2. CASE Backup
      BY <2>2 DEF Backup
    <2>3. CASE Swap
      BY <2>3 DEF Swap
    <2>4. CASE Restore
      BY <2>4 DEF Restore
    <2>5. CASE ClearMarker
      BY <2>5 DEF ClearMarker, files
    <2>6. CASE Launch
      BY <2>6 DEF Launch, files
    <2>7. CASE Reap
      BY <2>7 DEF Reap, TooShort, files
    <2>8. CASE Remove
      BY <2>8 DEF Remove
    <2>9. CASE Rename
      BY <2>9 DEF Rename
    <2>10. CASE RecordAgentDeath
      BY <2>10 DEF RecordAgentDeath, files
    <2>11. CASE WatchdogStarts
      BY <2>11 DEF WatchdogStarts, files
    <2> QED
      BY <1>2, <2>1, <2>2, <2>3, <2>4, <2>5, <2>6, <2>7, <2>8, <2>9, <2>10, <2>11 DEF Watchdog
  <1>3. CASE Agent
    <2> USE DEF TypeOK, Agents
    <2>1. CASE Ages60
      BY <2>1 DEF Ages60, files
    <2>2. CASE ~Ages60
      BY <1>3, <2>2 DEF Agent, Ages30, CheckForUpdate, Stage, MarkAndExit, BrokenDies, files
    <2> QED
      BY <2>1, <2>2
  <1>4. CASE Mishap
    <2>1. CASE Killed \/ ApplyFails
      BY <2>1 DEF TypeOK, Agents, Killed, ApplyFails, files
    <2>2. CASE WatchdogStops
      BY <2>2 DEF WatchdogStops, files
    <2>3. CASE BackupFails \/ SwapFails \/ RestoreFails \/ RenameFails
      BY <2>3 DEF BackupFails, SwapFails, RestoreFails, RenameFails, files
    <2> QED
      BY <1>4, <2>1, <2>2, <2>3 DEF Mishap
  <1>5. CASE Release \/ UNCHANGED vars
    BY <1>5 DEF Release, vars, files
  <1> QED
    BY <1>2, <1>3, <1>4, <1>5 DEF Next

LEMMA IInvHolds == Spec => []IInv
  <1>1. IInv /\ [Next]_vars => IInv'
    BY TypeStep, AgentStep, FallbackStep DEF IInv
  <1> QED
    BY InitIInv, <1>1, PTL DEF Spec

-----------------------------------------------------------------------------
\* The files, the watchdog's memory and the agent process stay well formed.
THEOREM UpdateTypes == Spec => []TypeOK
  <1>1. IInv => TypeOK
    BY DEF IInv
  <1> QED
    BY IInvHolds, <1>1, PTL

\* checkAndApplyUpdate and rollbackUpdate of the watchdog never leave the agent
\* without a binary that has run for a minute, in place or as the backup, nor start
\* it without one: with every release broken or sound, an agent killed at any moment
\* and every rename failing, but for the mishaps that `cut' records.
THEOREM UpdateKeepsFallback == Spec => []FallbackKept
  <1>1. IInv => FallbackKept
    <2> SUFFICES ASSUME IInv, ~cut
                 PROVE (bin \in proven \/ bak \in proven) /\ (wpc = "launch" => bin # None)
      BY DEF FallbackKept
    <2> QED
      BY DEF IInv, TypeOK, WPCs, Fallback
  <1> QED
    BY IInvHolds, <1>1, PTL

-----------------------------------------------------------------------------
(***************************************************************************)
(* Part 2: containment.  RulesAccounted is not inductive, since adopting a *)
(* list and releasing an endpoint both forget what was there before.       *)
(* ListingInv says what the list is worth while start-up is under way:     *)
(*   - an Isolate that lands before the list is adopted has put every rule *)
(*     in place and knows them all, so that dropping the list loses none;  *)
(*   - as long as nothing is isolated, the list covers the firewall: rules *)
(*     may go in the meantime, and a new one is left only by a failed      *)
(*     deletion, which puts it into `lost'.                                *)
(* The rest of CInv is the type invariant by parts.  A command is in the   *)
(* queue for a request that was counted, one at most, and so is each that  *)
(* is still to be published (RequestInv).                                  *)
(***************************************************************************)
\* The requests whose command is still to be published; each was counted in `requests'.
Unpublished == {o \in Operators : request[o] \in {"mark", "send", "release"}}

\* What the list of rules found at start-up is worth until it is adopted.
ListingInv ==
  /\ listing => listed = {}
  /\ isolated /\ (listing \/ listed # {}) => known = RuleNames
  /\ ~isolated /\ listed # {} => rules \subseteq listed \cup lost

\* The isolation manager knows rules exactly when it is isolated.
ManagerInv ==
  /\ isolated \in BOOLEAN /\ known \subseteq RuleNames /\ rules \subseteq RuleNames
  /\ isolated <=> known # {}
  /\ listing \in BOOLEAN /\ listed \subseteq RuleNames /\ lost \subseteq RuleNames
  /\ ListingInv /\ RulesAccounted

\* No more commands are queued or to come than requests were made.
RequestInv ==
  /\ request \in [Operators -> {"idle", "mark", "send", "release", "clear"}]
  /\ queue \in Seq(Commands) /\ requests \in 0..MaxRequests
  /\ Len(queue) + Cardinality(Unpublished) <= requests

\* What is left of a heartbeat is a suffix of the work of its path.
HeartbeatInv ==
  hb \in [busy : BOOLEAN, path : {"grpc", "http"}, status : {"online", "isolated"},
          work : {<<>>, GrpcWork, HttpWork, <<"touch">>, <<"compare">>}, order : Orders]

\* The flags and counters, which no other part bounds.
FlagInv ==
  /\ db \in Statuses /\ fresh \in BOOLEAN /\ picked \in BOOLEAN /\ last \in BOOLEAN
  /\ exec \in {"idle", "verifyIsolate", "remember", "verifyUnisolate", "forget"}
  /\ drift \in {"idle", "wanted", "missing"}
  /\ mishaps \in 0..MaxMishaps

CInv == ManagerInv /\ RequestInv /\ HeartbeatInv /\ FlagInv

-----------------------------------------------------------------------------
(* The manager and its start-up. *)

\* Each operation on the firewall keeps ManagerInv; the others do not touch it.
LEMMA IsolateKeeps ==
  ASSUME ManagerInv, IsolateOk \/ IsolateErr, UNCHANGED <<listing, listed>>
  PROVE  ManagerInv'
  <1>1. CASE IsolateOk
    BY <1>1, ContainmentAssumption DEF IsolateOk, ManagerInv, ListingInv, RulesAccounted
  <1>2. CASE IsolateErr
    <2>1. PICK added \in SUBSET RuleNames, left \in SUBSET RuleNames :
            /\ left \subseteq added
            /\ rules' = (rules \ added) \cup left
            /\ lost' = lost \cup left
      BY <1>2 DEF IsolateErr
    <2>2. isolated' = FALSE /\ known' = {} /\ ~isolated /\ known = {}
      BY <1>2 DEF IsolateErr, ManagerInv
    <2>3. CASE left = {}
      BY <2>1, <2>2, <2>3 DEF ManagerInv, ListingInv, RulesAccounted
    <2>4. CASE left # {}
      BY <2>1, <2>2, <2>4 DEF ManagerInv, ListingInv, RulesAccounted
    <2> QED BY <2>3, <2>4
  <1> QED BY <1>1, <1>2

LEMMA UnisolateKeeps ==
  ASSUME ManagerInv, NEW ok \in BOOLEAN, Unisolate(ok), UNCHANGED <<listing, listed>>
  PROVE  ManagerInv'
  <1>1. CASE ~isolated
    BY <1>1 DEF Unisolate, wfp, ManagerInv, ListingInv, RulesAccounted
  <1>2. CASE isolated
    <2>1. PICK left \in SUBSET (known \cap rules) :
            /\ rules' = rules \ (known \ left)
            /\ lost' = lost \cup left
      BY <1>2, Zenon DEF Unisolate, Rollback
    <2>2. isolated' = FALSE /\ known' = {}
      BY <1>2 DEF Unisolate, Rollback
    <2>3. CASE left = {}
      BY <2>1, <2>2, <2>3, <1>2 DEF ManagerInv, ListingInv, RulesAccounted
    <2>4. CASE left # {}
      BY <2>1, <2>2, <2>4, <1>2 DEF ManagerInv, ListingInv, RulesAccounted
    <2> QED BY <2>3, <2>4
  <1> QED BY <1>1, <1>2 DEF ManagerInv

LEMMA ReconcileKeeps ==
  ASSUME ManagerInv, ReconcileList \/ ReconcileAdopt
  PROVE  ManagerInv'
  <1>1. CASE ReconcileList
    BY <1>1 DEF ReconcileList, wfp, ManagerInv, ListingInv, RulesAccounted
  <1>2. CASE ReconcileAdopt
    <2>1. listed' = {} /\ isolated' = TRUE /\ UNCHANGED <<rules, lost, listing>>
      BY <1>2 DEF ReconcileAdopt
    <2>2. CASE isolated
      <3>1. known' = known /\ known = RuleNames
        BY <1>2, <2>2 DEF ReconcileAdopt, ManagerInv, ListingInv
      <3> QED BY <2>1, <2>2, <3>1 DEF ManagerInv, ListingInv, RulesAccounted
    <2>3. CASE ~isolated
      <3>1. known' = listed /\ listed # {} /\ ~listing
        BY <1>2, <2>3 DEF ReconcileAdopt, ManagerInv, ListingInv
      <3> QED BY <2>1, <2>3, <3>1 DEF ManagerInv, ListingInv, RulesAccounted
    <2> QED BY <2>2, <2>3 DEF ManagerInv
  <1> QED BY <1>1, <1>2

\* An enumeration that fails leaves the rules that nobody knows in `lost'.
LEMMA ReconcileFailsKeeps ==
  ASSUME ManagerInv, ReconcileListFails
  PROVE  ManagerInv'
  BY DEF ReconcileListFails, ManagerInv, ListingInv, RulesAccounted

LEMMA TamperKeeps ==
  ASSUME ManagerInv, Tamper
  PROVE  ManagerInv'
  BY DEF Tamper, endpoint, ManagerInv, ListingInv, RulesAccounted

LEMMA RestartKeeps ==
  ASSUME ManagerInv, Restart
  PROVE  ManagerInv'
  <1>1. rules' \subseteq RuleNames
    BY DEF Restart, ManagerInv
  <1> QED BY <1>1 DEF Restart, ManagerInv, ListingInv, RulesAccounted

LEMMA ManagerUnchanged ==
  ASSUME ManagerInv, UNCHANGED <<wfp, listing, listed>>
  PROVE  ManagerInv'
  BY DEF wfp, ManagerInv, ListingInv, RulesAccounted

LEMMA NextManager ==
  ASSUME ManagerInv, ContainmentNext
  PROVE  ManagerInv'
  <1>1. CASE \E o \in Operators : \/ RequestIsolate(o) \/ RequestUnisolate(o)
                                  \/ Handler(o) \/ RequestFails(o)
    <2>1. UNCHANGED <<wfp, listing, listed>>
      BY <1>1 DEF RequestIsolate, RequestUnisolate, Handler, IsolateAgent, PublishIsolate,
                  PublishUnisolate, UnisolateAgent, RequestFails, endpoint
    <2> QED BY <2>1, ManagerUnchanged
  <1>2. CASE Monitor
    BY <1>2, ManagerUnchanged DEF Monitor, MonitorPick, MarkAgentOffline, endpoint
  <1>3. CASE Startup
    BY <1>3, ReconcileKeeps DEF Startup
  <1>4. CASE Executor
    <2>1. CASE ExecIsolate
      BY <2>1, IsolateKeeps DEF ExecIsolate
    <2>2. CASE ExecUnisolate
      BY <2>2, UnisolateKeeps DEF ExecUnisolate
    <2>3. CASE IsolateVerify \/ IsolateRemember \/ UnisolateVerify \/ UnisolateForget
      BY <2>3, ManagerUnchanged
      DEF IsolateVerify, IsolateRemember, UnisolateVerify, UnisolateForget
    <2> QED BY <1>4, <2>1, <2>2, <2>3 DEF Executor
  <1>5. CASE Reporter
    <2>1. CASE SendOnce \/ Compare \/ UpdateLastSeen
      BY <2>1, ManagerUnchanged DEF SendOnce, Compare, UpdateLastSeen
    <2>2. CASE ApplyOrder
      <3>1. \/ UNCHANGED wfp \/ IsolateOk \/ IsolateErr
            \/ \E ok \in BOOLEAN : Unisolate(ok)
        BY <2>2 DEF ApplyOrder
      <3>2. UNCHANGED <<listing, listed>>
        BY <2>2 DEF ApplyOrder
      <3> QED BY <3>1, <3>2, ManagerUnchanged, IsolateKeeps, UnisolateKeeps
    <2> QED BY <1>5, <2>1, <2>2 DEF Reporter
  <1>6. CASE Drift
    <2>1. CASE DriftRead \/ DriftVerify
      BY <2>1, ManagerUnchanged DEF DriftRead, DriftVerify
    <2>2. CASE DriftReapply
      BY <2>2, IsolateKeeps DEF DriftReapply
    <2> QED BY <1>6, <2>1, <2>2 DEF Drift
  <1>7. CASE Faults
    <2>1. CASE FallBack \/ HeartbeatFails \/ StoreFails \/ LoseCommand \/ Silence
      BY <2>1, ManagerUnchanged
      DEF FallBack, HeartbeatFails, StoreFails, LoseCommand, Silence, endpoint
    <2> QED BY <1>7, <2>1, ReconcileFailsKeeps, TamperKeeps, RestartKeeps DEF Faults
  <1> QED BY <1>1, <1>2, <1>3, <1>4, <1>5, <1>6, <1>7 DEF ContainmentNext

-----------------------------------------------------------------------------
(* Requests and the commands under way. *)

\* Taking a command shortens the queue by one.
LEMMA QueueTail ==
  ASSUME NEW q \in Seq(Commands), q # <<>>
  PROVE  Tail(q) \in Seq(Commands) /\ Len(Tail(q)) = Len(q) - 1
  OBVIOUS

\* Finitely many operators have finitely many requests open.
LEMMA UnpublishedCount ==
  IsFiniteSet(Unpublished) /\ Cardinality(Unpublished) \in Nat
  <1>1. Unpublished \in SUBSET Operators
    BY DEF Unpublished
  <1>2. IsFiniteSet(Unpublished)
    BY <1>1, FS_Subset, ContainmentAssumption
  <1> QED BY <1>2, FS_CardinalityType

\* A command is taken, or nothing happens to the requests.
LEMMA RequestUnchanged ==
  ASSUME RequestInv, UNCHANGED <<request, requests>>,
         queue' = queue \/ (queue # <<>> /\ queue' = Tail(queue))
  PROVE  RequestInv'
  <1>1. Unpublished' = Unpublished
    BY DEF Unpublished
  <1>2. queue' \in Seq(Commands) /\ Len(queue') <= Len(queue)
    BY QueueTail DEF RequestInv
  <1>3. Len(queue) \in Nat /\ Len(queue') \in Nat
    BY <1>2 DEF RequestInv
  <1> QED BY <1>1, <1>2, <1>3, UnpublishedCount DEF RequestInv

\* A request begins: there is one more of them, and at most one more to publish.
LEMMA RequestBegins ==
  ASSUME RequestInv, NEW o \in Operators, NEW s \in {"mark", "release"},
         requests < MaxRequests, requests' = requests + 1, UNCHANGED queue,
         request' = [request EXCEPT ![o] = s], request[o] = "idle"
  PROVE  RequestInv'
  <1>1. Unpublished' = Unpublished \cup {o} /\ o \notin Unpublished
    BY DEF Unpublished, RequestInv
  <1>2. Cardinality(Unpublished') = Cardinality(Unpublished) + 1
    BY <1>1, UnpublishedCount, FS_AddElement
  <1>3. request' \in [Operators -> {"idle", "mark", "send", "release", "clear"}]
    BY DEF RequestInv
  <1>4. Len(queue) \in Nat
    BY DEF RequestInv
  <1> QED BY <1>2, <1>3, <1>4, UnpublishedCount, ContainmentAssumption DEF RequestInv

\* A command is published: the queue is longer by one, and one less is to come.
LEMMA RequestPublishes ==
  ASSUME RequestInv, NEW o \in Operators, NEW s \in {"idle", "clear"},
         NEW c \in Commands, UNCHANGED requests, queue' = Append(queue, c),
         request' = [request EXCEPT ![o] = s], o \in Unpublished
  PROVE  RequestInv'
  <1>1. Unpublished' = Unpublished \ {o}
    BY DEF Unpublished, RequestInv
  <1>2. Cardinality(Unpublished') = Cardinality(Unpublished) - 1
    BY <1>1, UnpublishedCount, FS_RemoveElement
  <1>3. request' \in [Operators -> {"idle", "mark", "send", "release", "clear"}]
    BY DEF RequestInv
  <1>4. queue' \in Seq(Commands) /\ Len(queue') = Len(queue) + 1 /\ Len(queue) \in Nat
    BY DEF RequestInv
  <1> QED BY <1>2, <1>3, <1>4, UnpublishedCount DEF RequestInv

\* A handler goes on without a command, or gives up.
LEMMA RequestGoesOn ==
  ASSUME RequestInv, NEW o \in Operators, NEW s \in {"idle", "send"},
         UNCHANGED <<queue, requests>>,
         request' = [request EXCEPT ![o] = s], s = "send" => request[o] = "mark"
  PROVE  RequestInv'
  <1>1. Unpublished' \in SUBSET Unpublished
    BY DEF Unpublished, RequestInv
  <1>2. Cardinality(Unpublished') <= Cardinality(Unpublished)
    BY <1>1, UnpublishedCount, FS_Subset
  <1>3. request' \in [Operators -> {"idle", "mark", "send", "release", "clear"}]
    BY DEF RequestInv
  <1>4. Cardinality(Unpublished') \in Nat
    BY <1>1, UnpublishedCount, FS_Subset, FS_CardinalityType
  <1>5. Len(queue) \in Nat
    BY DEF RequestInv
  <1> QED BY <1>2, <1>3, <1>4, <1>5, UnpublishedCount DEF RequestInv

\* Every step keeps RequestInv.
LEMMA NextRequest ==
  ASSUME RequestInv, ContainmentNext
  PROVE  RequestInv'
  <1>1. ASSUME NEW o \in Operators, RequestIsolate(o) \/ RequestUnisolate(o)
        PROVE  RequestInv'
    BY <1>1, RequestBegins DEF RequestIsolate, RequestUnisolate
  <1>2. ASSUME NEW o \in Operators, PublishIsolate(o) \/ PublishUnisolate(o)
        PROVE  RequestInv'
    <2>1. o \in Unpublished
      BY <1>2 DEF PublishIsolate, PublishUnisolate, Unpublished
    <2>2. CASE PublishIsolate(o)
      BY <2>1, <2>2, RequestPublishes DEF PublishIsolate, Commands, used
    <2>3. CASE PublishUnisolate(o)
      BY <2>1, <2>3, RequestPublishes DEF PublishUnisolate, Commands, used
    <2> QED BY <1>2, <2>2, <2>3
  <1>3. ASSUME NEW o \in Operators, IsolateAgent(o) \/ UnisolateAgent(o) \/ RequestFails(o)
        PROVE  RequestInv'
    <2>1. CASE IsolateAgent(o)
      BY <2>1, RequestGoesOn DEF IsolateAgent, used
    <2>2. CASE UnisolateAgent(o) \/ RequestFails(o)
      BY <2>2, RequestGoesOn DEF UnisolateAgent, RequestFails, used
    <2> QED BY <1>3, <2>1, <2>2
  <1>4. CASE Monitor \/ Startup \/ Executor \/ Reporter \/ Drift \/ Faults
    <2>1. /\ UNCHANGED <<request, requests>>
          /\ queue' = queue \/ (queue # <<>> /\ queue' = Tail(queue))
      BY <1>4 DEF Monitor, MonitorPick, MarkAgentOffline, Startup, ReconcileList,
        ReconcileAdopt, Executor, ExecIsolate, IsolateVerify, IsolateRemember,
        ExecUnisolate, UnisolateVerify, UnisolateForget, Reporter, SendOnce, Compare,
        UpdateLastSeen, ApplyOrder, Drift, DriftRead, DriftVerify, DriftReapply, Faults,
        FallBack, HeartbeatFails, StoreFails, LoseCommand, Silence, Tamper, Restart, ReconcileListFails,
        server, used
    <2> QED BY <2>1, RequestUnchanged
  <1> QED BY <1>1, <1>2, <1>3, <1>4 DEF ContainmentNext, Handler

-----------------------------------------------------------------------------
(* The heartbeat under way. *)

\* The rest of a heartbeat after its first item.
LEMMA WorkTail ==
  ASSUME NEW w \in {<<>>, GrpcWork, HttpWork, <<"touch">>, <<"compare">>}, w # <<>>
  PROVE  Tail(w) \in {<<>>, <<"touch">>, <<"compare">>}
  <1>1. Tail(GrpcWork) = <<"touch">> /\ Tail(HttpWork) = <<"compare">>
    BY DEF GrpcWork, HttpWork
  <1>2. Tail(<<"touch">>) = <<>> /\ Tail(<<"compare">>) = <<>>
    OBVIOUS
  <1> QED BY <1>1, <1>2

\* Every step keeps HeartbeatInv.
LEMMA NextHeartbeat ==
  ASSUME HeartbeatInv, ContainmentNext
  PROVE  HeartbeatInv'
  <1> DEFINE Works == {<<>>, GrpcWork, HttpWork, <<"touch">>, <<"compare">>}
             Beats == [busy : BOOLEAN, path : {"grpc", "http"},
                       status : {"online", "isolated"}, work : Works, order : Orders]
  <1>0. hb \in Beats
    BY DEF HeartbeatInv
  <1>1. NoBeat \in Beats
    BY DEF NoBeat, Orders
  <1>2. CASE SendOnce
    <2>1. PICK s \in {"online", "isolated"} :
            hb' = [NoBeat EXCEPT !.busy = TRUE, !.work = GrpcWork, !.status = s]
      BY <1>2 DEF SendOnce
    <2> HIDE DEF Works
    <2>2. GrpcWork \in Works
      BY DEF Works
    <2> QED BY <2>1, <2>2, <1>1 DEF HeartbeatInv, Works
  <1>3. CASE FallBack
    <2>1. HttpWork \in Works /\ "none" \in Orders
      BY DEF Orders
    <2> HIDE DEF Works
    <2>2. hb' \in Beats
      BY <1>0, <1>3, <2>1 DEF FallBack
    <2> QED BY <2>2 DEF HeartbeatInv, Works
  <1>4. CASE Compare
    <2>1. Tail(hb.work) \in Works
      BY <1>0, <1>4, WorkTail DEF Compare
    <2>2. PICK d \in Orders : hb' = [hb EXCEPT !.work = Tail(@), !.order = d]
      BY <1>4 DEF Compare, Reconcile, Orders
    <2> HIDE DEF Works
    <2>3. hb' \in Beats
      BY <1>0, <2>1, <2>2
    <2> QED BY <2>3 DEF HeartbeatInv, Works
  <1>5. CASE UpdateLastSeen \/ StoreFails
    <2>1. Tail(hb.work) \in Works
      BY <1>0, <1>5, WorkTail DEF UpdateLastSeen, StoreFails
    <2>2. hb' = [hb EXCEPT !.work = Tail(@)]
      BY <1>5 DEF UpdateLastSeen, StoreFails
    <2> HIDE DEF Works
    <2>3. hb' \in Beats
      BY <1>0, <2>1, <2>2
    <2> QED BY <2>3 DEF HeartbeatInv, Works
  <1>6. CASE ApplyOrder \/ HeartbeatFails \/ Restart
    BY <1>1, <1>6 DEF ApplyOrder, HeartbeatFails, Restart, HeartbeatInv
  <1>7. CASE UNCHANGED hb
    BY <1>7 DEF HeartbeatInv
  <1>8. \/ SendOnce \/ FallBack \/ Compare \/ UpdateLastSeen \/ StoreFails \/ ApplyOrder
        \/ HeartbeatFails \/ Restart \/ UNCHANGED hb
    BY DEF ContainmentNext, RequestIsolate, RequestUnisolate, Handler, IsolateAgent,
      PublishIsolate, PublishUnisolate, UnisolateAgent, RequestFails, Monitor, MonitorPick,
      MarkAgentOffline, Startup, ReconcileList, ReconcileAdopt, Executor, ExecIsolate,
      IsolateVerify, IsolateRemember, ExecUnisolate, UnisolateVerify, UnisolateForget,
      Reporter, Drift, DriftRead, DriftVerify, DriftReapply, Faults, LoseCommand, Silence,
      Tamper, ReconcileListFails, endpoint
  <1> QED BY <1>2, <1>3, <1>4, <1>5, <1>6, <1>7, <1>8

-----------------------------------------------------------------------------
(* The flags of server and agent. *)

\* A step is at most one mishap, and only below the bound.
LEMMA NextMishaps ==
  ASSUME ContainmentNext
  PROVE  mishaps' = mishaps \/ (mishaps < MaxMishaps /\ mishaps' = mishaps + 1)
  <1>1. CASE \E o \in Operators : \/ RequestIsolate(o) \/ RequestUnisolate(o)
                                  \/ Handler(o) \/ RequestFails(o)
    BY <1>1 DEF RequestIsolate, RequestUnisolate, Handler, IsolateAgent, PublishIsolate,
                PublishUnisolate, UnisolateAgent, RequestFails, used, Happens
  <1>2. CASE Monitor \/ Startup \/ Drift
    BY <1>2 DEF Monitor, MonitorPick, MarkAgentOffline, Startup, ReconcileList,
      ReconcileAdopt, Drift, DriftRead, DriftVerify, DriftReapply, IsolateOk, IsolateErr,
      used, Happens
  <1>3. ASSUME NEW ok \in BOOLEAN, Unisolate(ok)
        PROVE  mishaps' = mishaps \/ (mishaps < MaxMishaps /\ mishaps' = mishaps + 1)
    BY <1>3 DEF Unisolate, Rollback, Happens
  <1>4. CASE Executor
    BY <1>3, <1>4 DEF Executor, ExecIsolate, IsolateOk, IsolateErr, IsolateVerify,
      IsolateRemember, ExecUnisolate, UnisolateVerify, UnisolateForget, used, Happens
  <1>5. CASE Reporter
    BY <1>3, <1>5 DEF Reporter, SendOnce, Compare, UpdateLastSeen, ApplyOrder, IsolateOk,
      IsolateErr, used, Happens
  <1>6. CASE Faults
    BY <1>6 DEF Faults, FallBack, HeartbeatFails, StoreFails, LoseCommand, Silence, Tamper, ReconcileListFails,
      Restart, Happens
  <1> QED BY <1>1, <1>2, <1>4, <1>5, <1>6 DEF ContainmentNext

\* Every step keeps FlagInv.
LEMMA NextFlags ==
  ASSUME FlagInv, ContainmentNext
  PROVE  FlagInv'
  <1>1. mishaps' \in 0..MaxMishaps
    BY NextMishaps, ContainmentAssumption DEF FlagInv
  <1> USE DEF FlagInv, ContainmentNext, RequestIsolate, RequestUnisolate, Handler,
        IsolateAgent, PublishIsolate, PublishUnisolate, UnisolateAgent, RequestFails,
        Monitor, MonitorPick, MarkAgentOffline, Startup, ReconcileList, ReconcileAdopt,
        Executor, ExecIsolate, IsolateVerify, IsolateRemember, ExecUnisolate,
        UnisolateVerify, UnisolateForget, Reporter, SendOnce, Compare, UpdateLastSeen,
        ApplyOrder, Drift, DriftRead, DriftVerify, DriftReapply, Faults, FallBack,
        HeartbeatFails, StoreFails, LoseCommand, Silence, Tamper, Restart, ReconcileListFails, server, endpoint
  <1>2. db' \in Statuses
    BY DEF Statuses
  <1>3. fresh' \in BOOLEAN /\ picked' \in BOOLEAN
    BY Zenon
  <1>4. last' \in BOOLEAN
    BY Zenon
  <1>5. /\ exec' \in {"idle", "verifyIsolate", "remember", "verifyUnisolate", "forget"}
        /\ drift' \in {"idle", "wanted", "missing"}
    OBVIOUS
  <1> HIDE DEF ContainmentNext
  <1> QED BY <1>1, <1>2, <1>3, <1>4, <1>5 DEF FlagInv

-----------------------------------------------------------------------------
(* The theorems. *)

\* CInv is inductive and implies the type invariant.
LEMMA InitCInv == ContainmentInit => CInv
  <1> SUFFICES ASSUME ContainmentInit PROVE CInv
    OBVIOUS
  <1>1. ManagerInv
    BY DEF ContainmentInit, ManagerInv, ListingInv, RulesAccounted
  <1>2. RequestInv
    <2>1. Unpublished = {} /\ Cardinality(Unpublished) = 0
      BY FS_EmptySet DEF ContainmentInit, Unpublished
    <2> QED BY <2>1, ContainmentAssumption DEF ContainmentInit, RequestInv, Commands
  <1>3. HeartbeatInv
    BY DEF ContainmentInit, HeartbeatInv, NoBeat, Orders
  <1>4. fresh \in BOOLEAN /\ picked \in BOOLEAN /\ last \in BOOLEAN
    BY Zenon DEF ContainmentInit
  <1>5. FlagInv
    BY <1>4, ContainmentAssumption DEF ContainmentInit, FlagInv, Statuses
  <1> QED BY <1>1, <1>2, <1>3, <1>5 DEF CInv

LEMMA NextCInv == CInv /\ [ContainmentNext]_containmentVars => CInv'
  <1> SUFFICES ASSUME CInv, [ContainmentNext]_containmentVars PROVE CInv'
    OBVIOUS
  <1>1. CASE ContainmentNext
    BY <1>1, NextManager, NextRequest, NextHeartbeat, NextFlags DEF CInv
  <1>2. CASE UNCHANGED containmentVars
    <2>1. ManagerInv'
      BY <1>2, ManagerUnchanged DEF CInv, containmentVars, endpoint
    <2>2. RequestInv'
      BY <1>2, RequestUnchanged DEF CInv, containmentVars, server, used
    <2>3. HeartbeatInv' /\ FlagInv'
      BY <1>2 DEF CInv, HeartbeatInv, FlagInv, containmentVars, server, endpoint, used
    <2> QED BY <2>1, <2>2, <2>3 DEF CInv
  <1> QED BY <1>1, <1>2

LEMMA CInvType == CInv => ContainmentTypeOK
  <1> SUFFICES ASSUME CInv PROVE ContainmentTypeOK
    OBVIOUS
  <1>1. Len(queue) <= MaxRequests
    <2>1. Len(queue) \in Nat
      BY DEF CInv, RequestInv
    <2> QED BY <2>1, UnpublishedCount, ContainmentAssumption DEF CInv, RequestInv
  <1> QED BY <1>1 DEF CInv, ManagerInv, RequestInv, HeartbeatInv, FlagInv, ContainmentTypeOK

\* Server, queue and endpoint are well formed, the manager is isolated exactly when it
\* knows rules, and no more commands are under way than requests were made, for any
\* number of operators, requests and mishaps.
THEOREM ContainmentTypes == ContainmentSpec => []ContainmentTypeOK
  BY InitCInv, NextCInv, CInvType, PTL DEF ContainmentSpec

\* For any set of rules and any mishaps no interleaving orphans a rule: what is in the
\* firewall is known to the manager, is about to be enumerated or adopted, or is a rule
\* whose deletion failed (isolate_wfp.go, Isolate, rollback and reconcile).
THEOREM ContainmentAccounts == ContainmentSpec => []RulesAccounted
  <1>1. CInv => RulesAccounted
    BY DEF CInv, ManagerInv
  <1> QED BY InitCInv, NextCInv, <1>1, PTL DEF ContainmentSpec
=============================================================================
