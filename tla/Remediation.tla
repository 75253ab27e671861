---------------------------- MODULE Remediation ----------------------------
(***************************************************************************)
(* The auto-remediation engine (server/internal/remediation/engine.go).    *)
(* Every alert starts a goroutine that looks the host up in the exclusion  *)
(* list, runs the rules that match and are not cooling down, and arms a    *)
(* timer that takes an isolation back unless an analyst approves it.       *)
(* Operators change rules and exclusions meanwhile, exclusions are written *)
(* to the database by goroutines of their own, and the server restarts.    *)
(*                                                                         *)
(* IsExcluded takes the slice of exclusions under the lock and reads its   *)
(* elements after the unlock.  RemoveExclusion shifts the elements of the  *)
(* same array, so that a reader sees them move; what it reads while they   *)
(* move is torn, and may match or not.                                     *)
(*                                                                         *)
(* Every rule isolates the endpoint of the alert, has a cooldown and takes *)
(* effect at once; its other actions change nothing here.                  *)
(***************************************************************************)
EXTENDS Integers, Sequences, FiniteSets, SequencesExt

CONSTANTS
  Calls, Hosts,
  NRules,      \* the rules, in the order of e.rules
  RollsBack,   \* the rules with a RollbackTimeout
  Exclusions,  \* the exclusions that operators may add, by id
  Pattern,     \* and their patterns: the set of hosts that they match
  Stored,      \* the exclusions in the database when the server starts
  MaxEdits,    \* bound on changes by operators, for TLC
  MaxFaults    \* bound on failing calls, refused isolations and restarts, for TLC

Rules == 1..NRules
Torn == "torn"    \* what is read of an element that is moving
NoRow == "no row"

ASSUME RemediationAssumption ==
  /\ NRules \in Nat /\ RollsBack \subseteq Rules
  /\ IsFiniteSet(Exclusions) /\ Torn \notin Exclusions /\ NoRow \notin Exclusions
  /\ Pattern \in [Exclusions -> SUBSET Hosts]
  /\ Stored \subseteq Exclusions /\ \A x, y \in Stored : Pattern[x] = Pattern[y] => x = y
  /\ MaxEdits \in Nat /\ MaxFaults \in Nat

VARIABLES
  exclusions,  \* e.exclusions
  unreadable,  \* e.exclusionsUnreadable
  rows,        \* remediation_exclusions: the id that is stored for each pattern
  writes,      \* the INSERTs and DELETEs that are under way
  host,        \* the endpoint of the alert that makes each call
  pc, rule,    \* where each call of TriggerOnAlert is, and at which rule
  view, pos,   \* its slice of the exclusions, and how far it has read
  shared,      \* the calls whose slice lies in the array of e.exclusions
  enabled,     \* the rules with Enabled
  lastExec,    \* the keys of e.lastExec younger than their cooldown
  pending,     \* e.pendingRollbacks
  timer,       \* the goroutine of each rollback
  approval,    \* the call of ApproveExecution for each execution
  holders,     \* external: the executions whose isolation is in force
  edits, faults,
  wanted,      \* history: exclusions that were added and not removed
  cover,       \* history: calls that came with a host name and whose host had an
               \* exclusion that should hold, with none removed while they read
  since,       \* history: rules that were cooling down for the host when the call
               \* began and still are
  ran,         \* history: the rules and hosts whose last execution is that young
  logged,      \* the executions whose log says that they isolated the endpoint
  acted, skipped,  \* history: executions, and those left out by the cooldown
  late,        \* history: approvals that came when the timer had fired
  failed       \* history: executions whose rollback failed or was lost

listVars == <<exclusions, unreadable, rows, writes, wanted>>
callVars == <<host, pc, rule, view, pos, shared, cover, since>>
ruleVars == <<enabled, lastExec, ran, logged, acted, skipped>>
rollbackVars == <<pending, timer, approval, holders, late, failed>>
bounds == <<edits, faults>>
vars == <<listVars, callVars, ruleVars, rollbackVars, bounds>>

Executions == Calls \X Rules
HostOf(e) == host[e[1]]
Patterns == {Pattern[x] : x \in Exclusions}
PCs == {"new", "match", "rules", "act", "note", "over"}

\* The engine as main wires it: rules enabled, exclusions read.
Init ==
  /\ exclusions \in SetToSeqs(Stored) /\ unreadable = FALSE
  /\ rows = [p \in Patterns |-> IF \E x \in Stored : Pattern[x] = p
                                  THEN CHOOSE x \in Stored : Pattern[x] = p ELSE NoRow]
  /\ writes = {} /\ wanted = Stored
  /\ host \in [Calls -> Hosts]
  /\ pc = [c \in Calls |-> "new"] /\ rule = [c \in Calls |-> 1]
  /\ view = [c \in Calls |-> <<>>] /\ pos = [c \in Calls |-> 1] /\ shared = {}
  /\ cover = {} /\ since = [c \in Calls |-> {}]
  /\ enabled = Rules /\ lastExec = {} /\ ran = {} /\ logged = {} /\ acted = {} /\ skipped = {}
  /\ pending = {} /\ timer = [e \in Executions |-> "none"]
  /\ approval = [e \in Executions |-> "none"]
  /\ holders = {} /\ late = {} /\ failed = {}
  /\ edits = 0 /\ faults = 0

Edit == edits < MaxEdits /\ edits' = edits + 1 /\ UNCHANGED faults
Fault == faults < MaxFaults /\ faults' = faults + 1 /\ UNCHANGED edits

\* What filepath.Match may say of an element.
Verdicts(x, h) == IF x = Torn THEN BOOLEAN ELSE {h \in Pattern[x]}

-----------------------------------------------------------------------------
(* The exclusion list. *)

\* AddExclusion: append writes behind the list where the array has room (it has
\* where some reader's slice is longer) or moves the list to a new array.
AddExclusion(x) ==
  /\ x \notin wanted /\ Edit
  /\ x \notin Range(exclusions) /\ x \notin {w.id : w \in writes}
  /\ LET n == Len(exclusions) + 1
         inside == {c \in shared : Len(view[c]) >= n}
     IN /\ \/ /\ view' = [c \in Calls |-> IF c \in inside THEN [view[c] EXCEPT ![n] = x]
                                                         ELSE view[c]]
              /\ UNCHANGED shared
           \/ inside = {} /\ shared' = {} /\ UNCHANGED view
  /\ exclusions' = Append(exclusions, x)
  /\ writes' = writes \cup {[op |-> "insert", id |-> x]}
  /\ wanted' = wanted \cup {x}
  /\ UNCHANGED <<unreadable, rows, host, pc, rule, pos, cover, since, ruleVars, rollbackVars>>

\* The elements of slice s after those behind position i of the list have moved up.
Shifted(s, i) == [k \in DOMAIN s |-> IF k \in i..(Len(exclusions) - 1) THEN exclusions[k + 1] ELSE s[k]]

\* RemoveExclusion, while some calls are just reading one of the moving elements.
RemoveExclusion(i) ==
  /\ Edit
  /\ LET gone == exclusions[i]
         reading == {c \in shared : /\ pos[c] \in DOMAIN view[c]
                                  /\ pos[c] \in i..(Len(exclusions) - 1)}
     IN /\ exclusions' = RemoveAt(exclusions, i)
        /\ \E torn \in SUBSET reading :
             view' = [c \in Calls |->
                        IF c \in torn THEN [Shifted(view[c], i) EXCEPT ![pos[c]] = Torn]
                        ELSE IF c \in shared THEN Shifted(view[c], i) ELSE view[c]]
        /\ writes' = writes \cup {[op |-> "delete", id |-> gone]}
        /\ wanted' = wanted \ {gone}
  /\ cover' = {c \in cover : pc[c] # "match"}
  /\ UNCHANGED <<unreadable, rows, host, pc, rule, pos, shared, since, ruleVars, rollbackVars>>

\* A goroutine of AddExclusion or RemoveExclusion reaches the database.  A second
\* exclusion with the same pattern leaves the first one's id in the row.
StoreWrite(w) ==
  /\ w \in writes /\ writes' = writes \ {w}
  /\ LET p == Pattern[w.id]
     IN rows' = CASE w.op = "insert" /\ rows[p] = NoRow -> [rows EXCEPT ![p] = w.id]
                  [] w.op = "delete" /\ rows[p] = w.id -> [rows EXCEPT ![p] = NoRow]
                  [] OTHER -> rows
  /\ UNCHANGED <<exclusions, unreadable, wanted, callVars, ruleVars, rollbackVars, bounds>>

\* The statement fails, which is logged.
StoreWriteFails(w) ==
  /\ w \in writes /\ Fault /\ writes' = writes \ {w}
  /\ UNCHANGED <<exclusions, unreadable, rows, wanted, callVars, ruleVars, rollbackVars>>

\* Defect: a failed load leaves an empty list that counts as read.
LoadExclusionsFailOpen ==
  /\ unreadable' = FALSE
  /\ \/ exclusions' \in SetToSeqs({rows[p] : p \in Patterns} \ {NoRow})
     \/ exclusions' = <<>>

\* LoadExclusionsFromDB: all rows, or the list counts as unreadable.
LoadExclusions ==
  \/ /\ exclusions' \in SetToSeqs({rows[p] : p \in Patterns} \ {NoRow})
     /\ unreadable' = FALSE
  \/ exclusions' = <<>> /\ unreadable' = TRUE

-----------------------------------------------------------------------------
(* TriggerOnAlert. *)

\* An exclusion of h that an operator wants, and that is listed or stored.
Covered(h) ==
  \E x \in wanted : h \in Pattern[x] /\ (x \in Range(exclusions) \/ rows[Pattern[x]] = x)

\* IsExcluded takes the flag and the slice under the lock.  A call that came without
\* a host name ("pass "" if unknown") has no exclusion, whatever the list says; only
\* a list that could not be read holds it back too.
Begin(c) ==
  /\ pc[c] = "new"
  /\ \E named \in BOOLEAN :
       /\ \/ /\ unreadable
             /\ pc' = [pc EXCEPT ![c] = "over"] /\ UNCHANGED <<view, shared>>
          \/ /\ ~unreadable /\ ~named
             /\ pc' = [pc EXCEPT ![c] = "rules"] /\ UNCHANGED <<view, shared>>
          \/ /\ ~unreadable /\ named
             /\ pc' = [pc EXCEPT ![c] = "match"]
             /\ view' = [view EXCEPT ![c] = exclusions] /\ shared' = shared \cup {c}
       /\ cover' = IF Covered(host[c]) /\ (named \/ unreadable) THEN cover \cup {c} ELSE cover
  /\ since' = [since EXCEPT ![c] = {r \in Rules : <<r, host[c]>> \in ran}]
  /\ UNCHANGED <<listVars, host, rule, pos, ruleVars, rollbackVars, bounds>>

\* IsExcluded returns.
Leave(c, to) ==
  /\ pc' = [pc EXCEPT ![c] = to]
  /\ view' = [view EXCEPT ![c] = <<>>] /\ pos' = [pos EXCEPT ![c] = 1] /\ shared' = shared \ {c}

\* IsExcluded compares one element: a match ends the call, the end of the slice
\* lets it go on to the rules.
Match(c) ==
  /\ pc[c] = "match"
  /\ IF pos[c] > Len(view[c])
       THEN Leave(c, "rules")
       ELSE \E hit \in Verdicts(view[c][pos[c]], host[c]) :
              IF hit THEN Leave(c, "over")
                     ELSE pos' = [pos EXCEPT ![c] = @ + 1] /\ UNCHANGED <<pc, view, shared>>
  /\ UNCHANGED <<listVars, host, rule, cover, since, ruleVars, rollbackVars, bounds>>

\* Defect: one cooldown per rule, for all hosts.
cooldownKeyRuleOnly(r, h) == <<r, "any">>

cooldownKey(r, h) == <<r, h>>

\* The loop over the rules ends.
AllRulesDone(c) == rule[c] > NRules

\* The next rule: passed over when it is disabled, when the alert does not match its
\* trigger (which is left open), or when it is cooling down.
NextRule(c) ==
  /\ pc[c] = "rules"
  /\ \E matches \in BOOLEAN :
       LET r == rule[c]
           cooling == cooldownKey(r, host[c]) \in lastExec
           considered == r \in enabled /\ matches
       IN IF AllRulesDone(c)
            THEN pc' = [pc EXCEPT ![c] = "over"] /\ UNCHANGED <<rule, skipped>>
            ELSE IF considered /\ ~cooling
              THEN pc' = [pc EXCEPT ![c] = "act"] /\ UNCHANGED <<rule, skipped>>
              ELSE /\ rule' = [rule EXCEPT ![c] = r + 1]
                   /\ skipped' = IF considered THEN skipped \cup {<<c, r>>} ELSE skipped
                   /\ UNCHANGED pc
  /\ UNCHANGED <<listVars, host, view, pos, shared, cover, since, enabled, lastExec, ran, logged,
                 acted, rollbackVars, bounds>>

\* executeRule: the gatekeeper isolates the endpoint.
ExecuteRule(c) ==
  /\ pc[c] = "act"
  /\ pc' = [pc EXCEPT ![c] = "note"]
  /\ acted' = acted \cup {<<c, rule[c]>>} /\ logged' = logged \cup {<<c, rule[c]>>}
  /\ holders' = holders \cup {<<c, rule[c]>>}
  /\ UNCHANGED <<listVars, host, rule, view, pos, shared, cover, since, enabled, lastExec, ran, skipped,
                 pending, timer, approval, late, failed, bounds>>

\* executeRule: the gatekeeper refuses or fails, and the log says so.  IsolateEndpoint
\* may have marked the endpoint as isolated before its publish failed: the heartbeat
\* then isolates it.
ExecuteRuleRefused(c) ==
  /\ pc[c] = "act" /\ Fault
  /\ pc' = [pc EXCEPT ![c] = "note"]
  /\ acted' = acted \cup {<<c, rule[c]>>}
  /\ holders' \in {holders, holders \cup {<<c, rule[c]>>}}
  /\ UNCHANGED <<listVars, host, rule, view, pos, shared, cover, since, enabled, lastExec, ran, skipped,
                 logged, pending, timer, approval, late, failed>>

\* Defect: one pending rollback per endpoint.
SchedulesOnce(e) ==
  /\ e[2] \in RollsBack /\ e \in logged
  /\ \A o \in pending : HostOf(o) # HostOf(e)

\* Does an execution schedule its rollback?  executionIsolated looks at its log.
Schedules(e) == e[2] \in RollsBack /\ e \in logged

\* The end of the turn: the cooldown starts, and the rollback is scheduled.
Note(c) ==
  /\ pc[c] = "note"
  /\ LET e == <<c, rule[c]>>
     IN /\ lastExec' = lastExec \cup {cooldownKey(e[2], host[c])}
        /\ ran' = ran \cup {<<e[2], host[c]>>}
        /\ IF Schedules(e)
             THEN pending' = pending \cup {e} /\ timer' = [timer EXCEPT ![e] = "armed"]
             ELSE UNCHANGED <<pending, timer>>
  /\ pc' = [pc EXCEPT ![c] = "rules"] /\ rule' = [rule EXCEPT ![c] = @ + 1]
  /\ UNCHANGED <<listVars, host, view, pos, shared, cover, since, enabled, logged, acted, skipped,
                 approval, holders, late, failed, bounds>>

\* A cooldown ends.
CooldownEnds(k) ==
  /\ lastExec' = lastExec \ {k}
  /\ ran' = {p \in ran : cooldownKey(p[1], p[2]) # k}
  /\ since' = [c \in Calls |-> {r \in since[c] : <<r, host[c]>> \in ran'}]
  /\ UNCHANGED <<listVars, host, pc, rule, view, pos, shared, cover, enabled, logged, acted,
                 skipped, rollbackVars, bounds>>

EnableRule(r) ==
  /\ Edit
  /\ enabled' = IF r \in enabled THEN enabled \ {r} ELSE enabled \cup {r}
  /\ UNCHANGED <<listVars, callVars, lastExec, ran, logged, acted, skipped, rollbackVars>>

-----------------------------------------------------------------------------
(* Rollback and approval. *)

\* Defect: the goroutine sleeps and does not look at its context.
FireRegardless(e) ==
  /\ timer[e] \in {"armed", "cancelled"}
  /\ timer' = [timer EXCEPT ![e] = "fired"]
  /\ UNCHANGED <<listVars, callVars, ruleVars, pending, approval, holders, late, failed, bounds>>

\* The timer wins the select.
Fire(e) ==
  /\ timer[e] = "armed"
  /\ timer' = [timer EXCEPT ![e] = "fired"]
  /\ UNCHANGED <<listVars, callVars, ruleVars, pending, approval, holders, late, failed, bounds>>

DeletePending(e) ==
  /\ timer[e] = "fired"
  /\ pending' = pending \ {e} /\ timer' = [timer EXCEPT ![e] = "release"]
  /\ UNCHANGED <<listVars, callVars, ruleVars, approval, holders, late, failed, bounds>>

\* actionUnisolateNetwork releases the endpoint, whoever had it isolated.
Release(e) ==
  /\ timer[e] = "release"
  /\ holders' = {o \in holders : HostOf(o) # HostOf(e)}
  /\ timer' = [timer EXCEPT ![e] = "done"]
  /\ UNCHANGED <<listVars, callVars, ruleVars, pending, approval, late, failed, bounds>>

\* It fails; the log says RollbackDone all the same, and nobody tries again.
ReleaseFails(e) ==
  /\ timer[e] = "release" /\ Fault
  /\ timer' = [timer EXCEPT ![e] = "done"] /\ failed' = failed \cup {e}
  /\ UNCHANGED <<listVars, callVars, ruleVars, pending, approval, holders, late>>

\* ApproveExecution takes the entry; without one it returns false.
Approve(e) ==
  /\ e \in pending /\ approval[e] = "none"
  /\ pending' = pending \ {e} /\ approval' = [approval EXCEPT ![e] = "taken"]
  /\ UNCHANGED <<listVars, callVars, ruleVars, timer, holders, late, failed, bounds>>

\* It cancels the timer and returns true.
ApproveCancel(e) ==
  /\ approval[e] = "taken"
  /\ approval' = [approval EXCEPT ![e] = "given"]
  /\ IF timer[e] = "armed"
       THEN timer' = [timer EXCEPT ![e] = "cancelled"] /\ UNCHANGED late
       ELSE late' = late \cup {e} /\ UNCHANGED timer
  /\ UNCHANGED <<listVars, callVars, ruleVars, pending, holders, failed, bounds>>

\* The server restarts: calls, cooldowns, timers and unfinished writes are gone, and
\* the exclusions are read again.
Restart ==
  /\ Fault
  /\ LoadExclusions /\ writes' = {}
  /\ pc' = [c \in Calls |-> IF pc[c] = "new" THEN "new" ELSE "over"]
  /\ rule' = [c \in Calls |-> 1] /\ pos' = [c \in Calls |-> 1]
  /\ view' = [c \in Calls |-> <<>>] /\ shared' = {} /\ cover' = {}
  /\ since' = [c \in Calls |-> {}] /\ lastExec' = {} /\ ran' = {} /\ enabled' = Rules
  /\ failed' = failed \cup {e \in holders : timer[e] \notin {"cancelled", "done"}}
  /\ pending' = {}
  /\ timer' = [e \in Executions |-> IF timer[e] \in {"armed", "fired", "release"} THEN "done" ELSE timer[e]]
  /\ approval' = [e \in Executions |-> IF approval[e] = "taken" THEN "none" ELSE approval[e]]
  /\ UNCHANGED <<rows, wanted, host, logged, acted, skipped, holders, late>>

Call(c) == Begin(c) \/ Match(c) \/ NextRule(c) \/ ExecuteRule(c) \/ Note(c)
Rollback(e) == Fire(e) \/ DeletePending(e) \/ Release(e)

Next ==
  \/ \E c \in Calls : Call(c) \/ ExecuteRuleRefused(c)
  \/ \E e \in Executions : Rollback(e) \/ ReleaseFails(e) \/ Approve(e) \/ ApproveCancel(e)
  \/ \E x \in Exclusions : AddExclusion(x)
  \/ \E i \in DOMAIN exclusions : RemoveExclusion(i)
  \/ \E w \in writes : StoreWrite(w) \/ StoreWriteFails(w)
  \/ \E k \in lastExec : CooldownEnds(k)
  \/ \E r \in Rules : EnableRule(r)
  \/ Restart

Spec == Init /\ [][Next]_vars

-----------------------------------------------------------------------------
\* Type invariant.
TypeOK ==
  /\ exclusions \in Seq(Exclusions) /\ unreadable \in BOOLEAN
  /\ rows \in [Patterns -> Exclusions \cup {NoRow}]
  /\ writes \subseteq [op : {"insert", "delete"}, id : Exclusions]
  /\ host \in [Calls -> Hosts] /\ pc \in [Calls -> PCs] /\ rule \in [Calls -> 1..(NRules + 1)]
  /\ view \in [Calls -> Seq(Exclusions \cup {Torn})] /\ pos \in [Calls -> Nat]
  /\ enabled \subseteq Rules /\ lastExec \subseteq Rules \X Hosts /\ ran \subseteq Rules \X Hosts
  /\ shared \subseteq Calls /\ cover \subseteq Calls /\ since \in [Calls -> SUBSET Rules]
  /\ timer \in [Executions -> {"none", "armed", "cancelled", "fired", "release", "done"}]
  /\ approval \in [Executions -> {"none", "taken", "given"}]
  /\ pending \subseteq Executions /\ holders \subseteq Executions
  /\ logged \subseteq Executions /\ acted \subseteq Executions
  /\ skipped \subseteq Executions /\ late \subseteq Executions /\ failed \subseteq Executions
  /\ wanted \subseteq Exclusions /\ edits \in 0..MaxEdits /\ faults \in 0..MaxFaults

\* "The list names the hosts that must never be auto-remediated": a call whose host
\* had an exclusion when it began runs no rule, across concurrent additions,
\* restarts and lists that cannot be read.  There are two exceptions, which the code
\* does not spare.  One is a call that came without a host name while the list could
\* be read: IsExcluded passes it.  The other is an exclusion, of any host, that is
\* removed while the call reads the list: the call then reads a list that moves, and
\* may miss its entry.
ExcludedSpared == \A c \in cover : pc[c] \notin {"rules", "act", "note"}

\* The cooldown holds per rule and host: a call does not run a rule that was already
\* cooling down for its host when the call began (calls that overlap may both run
\* it), and leaves a rule out only because it was run for that very host.
CooldownPerHost ==
  /\ \A c \in Calls : pc[c] = "act" => rule[c] \notin since[c]
  /\ \A s \in skipped : \E e \in acted : e # s /\ e[2] = s[2] /\ HostOf(e) = HostOf(s)

\* An isolation that an analyst has approved is not lifted by its own rollback once
\* ApproveExecution has returned, unless the timer had fired by then; only another
\* execution's rollback for the same endpoint lifts it.
ApprovalHolds ==
  [][\A e \in holders \ holders' :
       approval[e] = "given" =>
         e \in late \/ \E o \in Executions \ {e} : HostOf(o) = HostOf(e) /\ timer[o] = "release"]_vars

\* Every isolation in force that a rule with a rollback has made is on its way to
\* being taken back, its own timer armed or its goroutine at work, whatever other
\* executions, approvals and releases there are for the endpoint; except where an
\* analyst has approved it, the release failed, a restart has lost the timer, or the
\* endpoint was marked as isolated by an IsolateEndpoint that failed after that: the
\* log then has no isolation, executionIsolated is false, and nothing takes it back.
RollbackToCome ==
  \A e \in holders :
    e[2] \in RollsBack =>
      \/ timer[e] \in {"armed", "fired", "release"}
      \/ pc[e[1]] = "note" /\ rule[e[1]] = e[2]
      \/ approval[e] # "none" \/ e \in failed
      \/ e \notin logged

=============================================================================
