----------------------------- MODULE Gatekeeper -----------------------------
(***************************************************************************)
(* The only way to isolate an endpoint (server/internal/isolation): every  *)
(* request goes through Gatekeeper.Isolate.  A request from an unattended  *)
(* path (a rule, a playbook, remediation, triage) has to pass the safety   *)
(* valves first: the global switch, the exemption list, a cooldown for     *)
(* each endpoint, a budget of isolations in a window of time, dry run.  A  *)
(* request that is let through is recorded in response_actions before its  *)
(* command is sent, and the row is brought up to date afterwards.          *)
(*                                                                         *)
(* Requests are served concurrently.  guard.allow decides under a mutex,   *)
(* so a decision is one step; recording, sending and completing are steps  *)
(* of their own.  The valves live in memory: a restart forgets them.       *)
(***************************************************************************)
EXTENDS Integers, Sequences, FiniteSets

CONSTANTS
  Agents,       \* endpoints
  Callers,      \* goroutines that serve requests
  Configs,      \* the configurations New is given
  Cooldown,     \* guard.cooldown
  Budget,       \* guard.budget
  Window,       \* guard.window
  None,         \* no entry in guard.lastByAgent, no endpoint
  MaxTime,      \* bound on the clock, for TLC
  MaxGrants     \* bound on the grants of one process, for TLC

\* AUTO_ISOLATE_EXEMPT names an endpoint by its id or by its host name.
Config == [enabled : BOOLEAN, dryRun : BOOLEAN, commands : BOOLEAN,
           exemptIds : SUBSET Agents, exemptNames : SUBSET Agents]

\* newGuard replaces a cooldown or a budget that is not positive by a default.
ASSUME GatekeeperAssumption ==
  /\ Configs \subseteq Config
  /\ Cooldown \in Nat \ {0}
  /\ Budget \in Nat \ {0}
  /\ Window \in Nat \ {0}
  /\ None \notin Nat \cup Agents
  /\ MaxTime \in Nat /\ MaxGrants \in Nat

VARIABLES
  cfg,          \* Config: what New was given
  clock,        \* guard.now
  lastByAgent,  \* guard.lastByAgent
  recent,       \* guard.recent, as the positions in `grants' of its entries
  grants,       \* history: what guard.allow let through since the process started
  call          \* the request each caller is serving, or served last

guardVars == <<lastByAgent, recent, grants>>
vars == <<cfg, clock, guardVars, call>>

\* Who asks.  "" is a caller of Isolate that forgot to say; "release" stands
\* for a call of Unisolate, which no valve applies to.
Origins == {"manual", "rule", "", "release"}

\* "allowed": past the valves; "recorded": the row was inserted, if the insert
\* succeeded; "sent" and "unsent": the command was published or not.
Stages == {"idle", "allowed", "recorded", "sent", "unsent", "done"}

Outcomes == {"none", "dispatched", "disabled", "exempt", "refused", "dry_run"}

\* response_actions.status_text of the call's row; "absent" without a row.
RowStates == {"absent", "pending", "dispatched", "failure", "suppressed"}

\* `named': the host name was known when the exemption list was looked at.
Grant == [agent : Agents, time : Nat, named : BOOLEAN]

\* `grant' (0 for none), `published' and `marked' are history: the grant that let
\* the call through, whether its command reached NATS, and whether agents.status
\* was set.
Call == [stage : Stages, agent : Agents \cup {None}, origin : Origins,
         outcome : Outcomes, row : RowStates,
         published : BOOLEAN, marked : BOOLEAN, grant : Nat]

Free(c) == call[c].stage \in {"idle", "done"}

\* The guard and the callers of a process that has just started.
Fresh(lastBy, rec, gs, cl) ==
  /\ lastBy = [a \in Agents |-> None]
  /\ rec = {} /\ gs = <<>>
  /\ cl = [c \in Callers |->
             [stage |-> "idle", agent |-> None, origin |-> "manual", outcome |-> "none",
              row |-> "absent", published |-> FALSE, marked |-> FALSE, grant |-> 0]]

Init ==
  /\ cfg \in Configs
  /\ clock = 0
  /\ Fresh(lastByAgent, recent, grants, call)

-----------------------------------------------------------------------------
\* Defect: a request without an origin is taken for a manual one.
UnattendedIfNamed(o) == o = "rule"

\* Origin.Unattended, after Isolate replaced an empty origin by remediation.
Unattended(o) == o \in {"rule", ""}

\* Defect: the cooldown ends one instant early.
CoolingShort(a) == lastByAgent[a] # None /\ clock - lastByAgent[a] < Cooldown - 1

\* guard.allow: the endpoint was isolated less than a cooldown ago.
Cooling(a) == lastByAgent[a] # None /\ clock - lastByAgent[a] < Cooldown

\* Defect: entries older than half the window are dropped.
KeptHalf == {s \in recent : grants[s].time > clock - (Window \div 2)}

\* guard.allow: the entries of recent that are still inside the window.
Kept == {s \in recent : grants[s].time > clock - Window}

\* Defect: entries that have left the window count against the budget.
SpentUnpruned == Cardinality(recent) >= Budget

\* guard.allow: the budget of the window is spent.
Spent == Cardinality(Kept) >= Budget

-----------------------------------------------------------------------------
\* Caller c is at `stage' of a request from o about endpoint a.
Serve(c, a, o, stage, outcome, row, grant) ==
  /\ Free(c)
  /\ call' = [call EXCEPT ![c] =
       [stage |-> stage, agent |-> a, origin |-> o, outcome |-> outcome,
        row |-> row, published |-> FALSE, marked |-> FALSE, grant |-> grant]]

\* g.suppress: the decision is recorded, if the insert succeeds, and returned.
Suppress(c, a, o, outcome, grant) ==
  \E row \in {"absent", "suppressed"} : Serve(c, a, o, "done", outcome, row, grant)

\* Past the valves.  Without a command sender the request is suppressed here.
PassOn(c, a, o, grant) ==
  \/ cfg.commands /\ Serve(c, a, o, "allowed", "none", "absent", grant)
  \/ ~cfg.commands /\ Suppress(c, a, o, "disabled", grant)

\* Isolate for a person, and Unisolate for anyone: no valve applies.
Attended(c, a, o) ==
  /\ ~Unattended(o)
  /\ PassOn(c, a, o, 0)
  /\ UNCHANGED <<cfg, clock, guardVars>>

\* Whether Isolate knows the host name when it looks at the list.  hostnameFor
\* answers "" when the database cannot be read; it matters for an endpoint that is
\* on the list by name.
HostKnown(a) == IF a \in cfg.exemptNames THEN BOOLEAN ELSE {TRUE}

\* IsExempt.
Exempt(a, named) == a \in cfg.exemptIds \/ (named /\ a \in cfg.exemptNames)

\* Isolate, unattended: the switch is off or the endpoint is exempt.
IsolateOff(c, a, o, named) ==
  /\ Unattended(o)
  /\ \/ ~cfg.enabled /\ Suppress(c, a, o, "disabled", 0)
     \/ cfg.enabled /\ Exempt(a, named) /\ Suppress(c, a, o, "exempt", 0)
  /\ UNCHANGED <<cfg, clock, guardVars>>

\* The request reaches guard.allow.
AtGuard(a, o, named) == Unattended(o) /\ cfg.enabled /\ ~Exempt(a, named)

\* guard.allow refuses: cooling down (nothing is pruned then), or out of budget.
IsolateRefused(c, a, o, named) ==
  /\ AtGuard(a, o, named)
  /\ \/ Cooling(a) /\ UNCHANGED recent
     \/ ~Cooling(a) /\ Spent /\ recent' = Kept
  /\ Suppress(c, a, o, "refused", 0)
  /\ UNCHANGED <<cfg, clock, lastByAgent, grants>>

\* guard.allow: recent with the new entry.
Booked == Kept \cup {Len(grants) + 1}

\* guard.allow lets the call through and books it; then dry run is looked at.
IsolateGranted(c, a, o, named) ==
  /\ AtGuard(a, o, named)
  /\ ~Cooling(a) /\ ~Spent
  /\ Len(grants) < MaxGrants
  /\ lastByAgent' = [lastByAgent EXCEPT ![a] = clock]
  /\ recent' = Booked
  /\ grants' = Append(grants, [agent |-> a, time |-> clock, named |-> named])
  /\ \/ cfg.dryRun /\ Suppress(c, a, o, "dry_run", Len(grants) + 1)
     \/ ~cfg.dryRun /\ PassOn(c, a, o, Len(grants) + 1)
  /\ UNCHANGED <<cfg, clock>>

\* g.record: the pending row.  If the insert fails the request goes on.
Record(c) ==
  /\ call[c].stage = "allowed"
  /\ \E row \in {"absent", "pending"} :
       call' = [call EXCEPT ![c].stage = "recorded", ![c].row = row]
  /\ UNCHANGED <<cfg, clock, guardVars>>

\* IsolateEndpoint sets agents.status and then publishes; UnisolateEndpoint
\* publishes and then clears agents.status.  Either may fail before it has done
\* anything, or between the two.
Dispatch(c) ==
  /\ call[c].stage = "recorded"
  /\ \/ call' = [call EXCEPT ![c].stage = "sent", ![c].published = TRUE, ![c].marked = TRUE]
     \/ call' = [call EXCEPT ![c].stage = "unsent"]
     \/ /\ call[c].origin # "release"
        /\ call' = [call EXCEPT ![c].stage = "unsent", ![c].marked = TRUE]
     \/ /\ call[c].origin = "release"
        /\ call' = [call EXCEPT ![c].stage = "unsent", ![c].published = TRUE]
  /\ UNCHANGED <<cfg, clock, guardVars>>

\* Defect: the error of IsolateEndpoint is discarded.
CompletionUnchecked(stage) == "dispatched"

\* The status that g.complete is given.
Completion(stage) == IF stage = "sent" THEN "dispatched" ELSE "failure"

\* g.complete (nothing to update without a row id; a failed update is only
\* logged), and the call returns.
Complete(c) ==
  /\ call[c].stage \in {"sent", "unsent"}
  /\ \E row \in IF call[c].row = "absent" THEN {"absent"}
                ELSE {call[c].row, Completion(call[c].stage)} :
       call' = [call EXCEPT
                  ![c].stage = "done", ![c].row = row,
                  ![c].outcome = IF call[c].stage = "sent" THEN "dispatched" ELSE "disabled"]
  /\ UNCHANGED <<cfg, clock, guardVars>>

Tick ==
  /\ clock < MaxTime
  /\ clock' = clock + 1
  /\ UNCHANGED <<cfg, guardVars, call>>

\* The server process is restarted: New builds an empty guard, and the calls in
\* progress are gone.
Restart ==
  /\ Fresh(lastByAgent', recent', grants', call')
  /\ UNCHANGED <<cfg, clock>>

Next ==
  \/ \E c \in Callers, a \in Agents, o \in Origins :
       \/ Attended(c, a, o)
       \/ \E named \in HostKnown(a) :
            \/ IsolateOff(c, a, o, named) \/ IsolateRefused(c, a, o, named)
            \/ IsolateGranted(c, a, o, named)
  \/ \E c \in Callers : Record(c) \/ Dispatch(c) \/ Complete(c)
  \/ Tick \/ Restart

Spec == Init /\ [][Next]_vars

-----------------------------------------------------------------------------
\* Type invariant.
TypeOK ==
  /\ cfg \in Config /\ clock \in Nat
  /\ lastByAgent \in [Agents -> Nat \cup {None}]
  /\ grants \in Seq(Grant)
  /\ recent \subseteq 1..Len(grants)
  /\ call \in [Callers -> Call]

\* The grants between the instants t - Window (excluded) and t.
GrantsIn(t) == {s \in 1..Len(grants) : t - Window < grants[s].time /\ grants[s].time <= t}

\* In no window of time, wherever it starts, does a process let more than
\* `budget' unattended isolations through, however many paths ask and in
\* whatever order, and although allow prunes its list as it goes.
BudgetHolds == \A t \in 0..clock : Cardinality(GrantsIn(t)) <= Budget

\* A process never lets two unattended isolations of one endpoint through less
\* than a cooldown apart.
CooldownHolds ==
  \A s, u \in 1..Len(grants) :
    s < u /\ grants[s].agent = grants[u].agent
      => grants[u].time - grants[s].time >= Cooldown

\* Endpoint a was isolated by an unattended path less than a cooldown ago.
RecentlyIsolated(a) ==
  \E s \in 1..Len(grants) : grants[s].agent = a /\ clock - grants[s].time < Cooldown

\* A refusal is never caused by what was itself refused, nor by entries that
\* have left the window: when guard.allow refuses, this process had isolated
\* the endpoint less than a cooldown before, or had really spent the budget.
RefusalJustified ==
  [][\A c \in Callers : call'[c].outcome = "refused" /\ call'[c] # call[c]
       => RecentlyIsolated(call'[c].agent) \/ Cardinality(GrantsIn(clock)) >= Budget]_vars

\* An isolation that no person asked for takes effect (its command is published, or
\* agents.status says isolated, which the next heartbeat enforces) only under a grant
\* of its own, for that endpoint, with the switch on and dry run off: every unattended
\* path goes through all the valves, also one that does not say who it is.  The
\* endpoint is not exempt by its id, and is exempt by its host name only if the name
\* could not be looked up when the list was checked.
SentUnderGrant ==
  \A c \in Callers :
    /\ call[c].published \/ call[c].marked
    /\ call[c].origin \notin {"manual", "release"}
    => /\ cfg.enabled /\ ~cfg.dryRun
       /\ call[c].grant \in 1..Len(grants)
       /\ LET g == grants[call[c].grant]
          IN  g.agent = call[c].agent /\ ~Exempt(g.agent, g.named)
       /\ \A d \in Callers : call[d].grant = call[c].grant => d = c

\* The row never claims more than what happened, through failing inserts, updates
\* and publishes: "dispatched" means that the command was published and agents.status
\* set, "suppressed" that neither happened, "failure" that the second of the two
\* effects did not, and the first may have (the status is set before an isolation is
\* published and after a release is).
RowsTellTruth ==
  \A c \in Callers :
    /\ call[c].row = "dispatched" => call[c].published /\ call[c].marked
    /\ call[c].row = "suppressed" => ~call[c].published /\ ~call[c].marked
    /\ call[c].row = "failure" =>
         IF call[c].origin = "release" THEN ~call[c].marked ELSE ~call[c].published

=============================================================================
