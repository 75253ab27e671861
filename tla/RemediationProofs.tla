------------------------- MODULE RemediationProofs -------------------------
(***************************************************************************)
(* Auto-remediation respects the exclusion list, cooldowns, approvals and  *)
(* rollbacks, for any number of alerts, hosts, rules and exclusions.       *)
(***************************************************************************)
EXTENDS Remediation, FiniteSetTheorems, TLAPS

(***************************************************************************)
(* The parts of the state that calls, rules and rollbacks need.            *)
(***************************************************************************)
RunType ==
  /\ host \in [Calls -> Hosts] /\ pc \in [Calls -> PCs] /\ rule \in [Calls -> 1..(NRules + 1)]
  /\ since \in [Calls -> SUBSET Rules]
  /\ timer \in [Executions -> {"none", "armed", "cancelled", "fired", "release", "done"}]
  /\ approval \in [Executions -> {"none", "taken", "given"}]
  /\ pending \subseteq Executions /\ holders \subseteq Executions
  /\ logged \subseteq Executions /\ acted \subseteq Executions /\ skipped \subseteq Executions
  /\ ran \subseteq Rules \X Hosts

(***************************************************************************)
(* A call goes through the rules once, in their order.  An execution lies  *)
(* behind it, or is the one whose turn is about to end (AtNote), or has    *)
(* left no trace yet.                                                      *)
(***************************************************************************)
Behind(e) == pc[e[1]] = "over" \/ e[2] < rule[e[1]]
AtNote(e) == pc[e[1]] = "note" /\ rule[e[1]] = e[2]

CallInv ==
  /\ \A c \in Calls :
       /\ pc[c] \in {"new", "match"} => rule[c] = 1
       /\ pc[c] \in {"act", "note"} => rule[c] \in Rules
       /\ pc[c] = "note" => <<c, rule[c]>> \in acted
  /\ \A e \in Executions :
       /\ e \in holders \/ e \in acted => Behind(e) \/ AtNote(e)
       /\ timer[e] # "none" => Behind(e)

(***************************************************************************)
(* The cooldown table agrees with the history, and each of its entries     *)
(* goes back to an execution for that rule and host.                       *)
(***************************************************************************)
CoolInv ==
  /\ lastExec = ran
  /\ \A p \in ran : \E e \in acted : e[2] = p[1] /\ HostOf(e) = p[2]
  /\ \A c \in Calls : \A r \in since[c] : <<r, host[c]>> \in ran
  /\ CooldownPerHost

(***************************************************************************)
(* An approval that was given has cancelled the timer, or came too late.   *)
(* A rollback that is over has released the endpoint, or failed.           *)
(***************************************************************************)
RollInv ==
  /\ \A e \in Executions :
       /\ e \in pending => timer[e] \in {"armed", "fired"} /\ approval[e] = "none"
       /\ approval[e] # "none" => timer[e] # "none"
       /\ timer[e] = "cancelled" => approval[e] = "given"
       /\ approval[e] = "given" => e \in late \/ timer[e] = "cancelled"
       /\ e \in holders /\ timer[e] = "done" => e \in failed
  /\ RollbackToCome

RunInv == RunType /\ CallInv /\ CoolInv /\ RollInv

(***************************************************************************)
(* The exclusion list.  A list that counts as read holds every wanted      *)
(* exclusion that is stored or about to be; and a call whose host is       *)
(* covered still has a matching element before it, because no append       *)
(* reaches into a slice as long as nothing was removed from the list.      *)
(***************************************************************************)
ListType ==
  /\ exclusions \in Seq(Exclusions) /\ unreadable \in BOOLEAN
  /\ rows \in [Patterns -> Exclusions \cup {NoRow}]
  /\ writes \subseteq [op : {"insert", "delete"}, id : Exclusions]
  /\ view \in [Calls -> Seq(Exclusions \cup {Torn})] /\ pos \in [Calls -> Nat]
  /\ shared \subseteq Calls /\ cover \subseteq Calls /\ wanted \subseteq Exclusions

InsertOf(x) == [op |-> "insert", id |-> x]

StoredInv ==
  \A x \in wanted :
    (~unreadable /\ rows[Pattern[x]] = x) \/ InsertOf(x) \in writes => x \in Range(exclusions)

Hit(c, k) == view[c][k] # Torn /\ host[c] \in Pattern[view[c][k]]

CoverInv ==
  /\ \A c \in Calls : pc[c] # "match" => pos[c] = 1
  /\ \A c \in cover :
       /\ pc[c] \in {"match", "over"}
       /\ pc[c] = "match" =>
            /\ c \in shared => Len(view[c]) <= Len(exclusions)
            /\ \E k \in DOMAIN view[c] : pos[c] <= k /\ Hit(c, k)

ListInv == ListType /\ StoredInv /\ CoverInv

-----------------------------------------------------------------------------
\* The variables that RunInv speaks of.
runVars == <<host, pc, rule, since, lastExec, ran, logged, acted, skipped, pending, timer, approval,
             holders, late, failed>>

LEMMA ExecutionParts ==
  /\ \A e \in Executions : e[1] \in Calls /\ e[2] \in Rules /\ e = <<e[1], e[2]>>
  /\ \A c \in Calls, r \in Rules : <<c, r>> \in Executions /\ <<c, r>>[1] = c /\ <<c, r>>[2] = r
  BY DEF Executions

LEMMA InitRun == Init => RunInv
  <1> SUFFICES ASSUME Init PROVE RunInv
    OBVIOUS
  <1>1. RunType
    BY RemediationAssumption DEF Init, RunType, PCs
  <1>2. CallInv
    BY ExecutionParts DEF Init, CallInv, Behind, AtNote
  <1>3. CoolInv
    BY DEF Init, CoolInv, CooldownPerHost
  <1>4. RollInv
    BY DEF Init, RollInv, RollbackToCome
  <1> QED
    BY <1>1, <1>2, <1>3, <1>4 DEF RunInv

\* Changes of the exclusion list and of the rules do not touch what is running.
LEMMA RunUnchanged ==
  ASSUME RunInv, UNCHANGED runVars
  PROVE  RunInv'
  BY DEF RunInv, RunType, CallInv, Behind, AtNote, CoolInv, CooldownPerHost, HostOf, RollInv,
         RollbackToCome, runVars

LEMMA BeginRun ==
  ASSUME RunInv, NEW c \in Calls, Begin(c)
  PROVE  RunInv'
  <1> USE DEF RunInv, Begin
  <1>1. /\ pc[c] = "new" /\ pc' = [pc EXCEPT ![c] = pc'[c]] /\ pc'[c] \in {"over", "rules", "match"}
        /\ since' = [since EXCEPT ![c] = {r \in Rules : <<r, host[c]>> \in ran}]
        /\ UNCHANGED <<host, rule, lastExec, ran, logged, acted, skipped, pending, timer, approval,
                       holders, late, failed>>
    BY DEF RunType, ruleVars, rollbackVars
  <1>2. RunType'
    BY <1>1 DEF RunType, PCs
  <1>3. \A e \in Executions : Behind(e) => Behind(e)'
    BY <1>1, ExecutionParts DEF RunType, Behind
  <1>4. \A e \in Executions : AtNote(e) => AtNote(e)'
    BY <1>1, ExecutionParts DEF RunType, AtNote
  <1>5. CallInv'
    BY <1>1, <1>3, <1>4 DEF RunType, CallInv
  <1>6. CoolInv'
    BY <1>1 DEF RunType, CoolInv, CooldownPerHost, HostOf
  <1>7. RollInv'
    BY <1>1, <1>4 DEF RunType, RollInv, RollbackToCome, AtNote
  <1> QED
    BY <1>2, <1>5, <1>6, <1>7

LEMMA MatchRun ==
  ASSUME RunInv, NEW c \in Calls, Match(c)
  PROVE  RunInv'
  <1> USE DEF RunInv, Match, Leave
  <1>1. /\ pc[c] = "match" /\ pc' = [pc EXCEPT ![c] = pc'[c]]
        /\ pc'[c] \in {"over", "rules", "match"}
        /\ UNCHANGED <<host, rule, since, lastExec, ran, logged, acted, skipped, pending, timer, approval,
                       holders, late, failed>>
    BY DEF RunType, ruleVars, rollbackVars
  <1>2. RunType'
    BY <1>1 DEF RunType, PCs
  <1>3. \A e \in Executions : Behind(e) => Behind(e)'
    BY <1>1, ExecutionParts DEF RunType, Behind
  <1>4. \A e \in Executions : AtNote(e) => AtNote(e)'
    BY <1>1, ExecutionParts DEF RunType, AtNote
  <1>5. CallInv'
    BY <1>1, <1>3, <1>4 DEF RunType, CallInv
  <1>6. CoolInv'
    BY <1>1 DEF RunType, CoolInv, CooldownPerHost, HostOf
  <1>7. RollInv'
    BY <1>1, <1>4 DEF RunType, RollInv, RollbackToCome, AtNote
  <1> QED
    BY <1>2, <1>5, <1>6, <1>7

\* A rule is left out because the table holds its key, and the execution that the
\* key goes back to is another one: this call has not come to the rule before.
LEMMA NextRuleRun ==
  ASSUME RunInv, NEW c \in Calls, NextRule(c)
  PROVE  RunInv'
  <1> USE DEF RunInv
  <1>1. /\ pc[c] = "rules"
        /\ UNCHANGED <<host, since, lastExec, ran, logged, acted, pending, timer, approval,
                       holders, late, failed>>
    BY DEF NextRule, rollbackVars
  <1>2. CASE pc' = [pc EXCEPT ![c] = "over"] /\ UNCHANGED <<rule, skipped>>
    <2>1. RunType'
      BY <1>1, <1>2 DEF RunType, PCs
    <2>2. \A e \in Executions : (Behind(e) => Behind(e)') /\ (AtNote(e) => AtNote(e)')
      BY <1>1, <1>2, ExecutionParts DEF RunType, Behind, AtNote
    <2>3. CallInv'
      BY <1>1, <1>2, <2>2 DEF RunType, CallInv
    <2>4. CoolInv'
      BY <1>1, <1>2 DEF RunType, CoolInv, CooldownPerHost, HostOf
    <2>5. RollInv'
      BY <1>1, <2>2 DEF RunType, RollInv, RollbackToCome, AtNote
    <2> QED
      BY <2>1, <2>3, <2>4, <2>5
  <1>3. CASE /\ pc' = [pc EXCEPT ![c] = "act"] /\ UNCHANGED <<rule, skipped>>
             /\ rule[c] \in Rules /\ cooldownKey(rule[c], host[c]) \notin lastExec
    <2>1. RunType'
      BY <1>1, <1>3 DEF RunType, PCs
    <2>2. \A e \in Executions : (Behind(e) => Behind(e)') /\ (AtNote(e) => AtNote(e)')
      BY <1>1, <1>3, ExecutionParts DEF RunType, Behind, AtNote
    <2>3. CallInv'
      BY <1>1, <1>3, <2>2 DEF RunType, CallInv
    <2>4. rule[c] \notin since[c]
      BY <1>3 DEF CoolInv, cooldownKey
    <2>5. CoolInv'
      BY <1>1, <1>3, <2>4 DEF RunType, CoolInv, CooldownPerHost, HostOf
    <2>6. RollInv'
      BY <1>1, <2>2 DEF RunType, RollInv, RollbackToCome, AtNote
    <2> QED
      BY <2>1, <2>3, <2>5, <2>6
  <1>4. CASE /\ pc' = pc /\ rule' = [rule EXCEPT ![c] = rule[c] + 1] /\ rule[c] \in Rules
             /\ \/ skipped' = skipped
                \/ /\ skipped' = skipped \cup {<<c, rule[c]>>}
                   /\ cooldownKey(rule[c], host[c]) \in lastExec
    <2>1. RunType'
      BY <1>1, <1>4, RemediationAssumption, ExecutionParts DEF RunType, Rules
    <2>2. \A e \in Executions : (Behind(e) => Behind(e)') /\ (AtNote(e) => AtNote(e)')
      BY <1>1, <1>4, ExecutionParts DEF RunType, Behind, AtNote, Rules
    <2>3. CallInv'
      BY <1>1, <1>4, <2>2 DEF RunType, CallInv
    <2>4. ASSUME <<rule[c], host[c]>> \in ran
          PROVE  \E e \in acted : e # <<c, rule[c]>> /\ e[2] = rule[c] /\ HostOf(e) = host[c]
      <3>1. PICK e \in acted : e[2] = rule[c] /\ HostOf(e) = host[c]
        BY <2>4 DEF CoolInv
      <3>2. e # <<c, rule[c]>>
        BY <1>1, <1>4, <3>1, ExecutionParts DEF RunType, CallInv, Behind, AtNote, Rules
      <3> QED
        BY <3>1, <3>2
    <2>5. CoolInv'
      <3>1. \A s \in skipped' : \E e \in acted : e # s /\ e[2] = s[2] /\ HostOf(e) = HostOf(s)
        BY <1>4, <2>4 DEF CoolInv, CooldownPerHost, HostOf, cooldownKey
      <3> QED
        BY <1>1, <1>4, <3>1 DEF RunType, CoolInv, CooldownPerHost, HostOf
    <2>6. RollInv'
      BY <1>1, <2>2 DEF RunType, RollInv, RollbackToCome, AtNote
    <2> QED
      BY <2>1, <2>3, <2>5, <2>6
  <1>5. \/ pc' = [pc EXCEPT ![c] = "over"] /\ UNCHANGED <<rule, skipped>>
        \/ /\ pc' = [pc EXCEPT ![c] = "act"] /\ UNCHANGED <<rule, skipped>>
           /\ rule[c] \in Rules /\ cooldownKey(rule[c], host[c]) \notin lastExec
        \/ /\ pc' = pc /\ rule' = [rule EXCEPT ![c] = rule[c] + 1] /\ rule[c] \in Rules
           /\ \/ skipped' = skipped
              \/ /\ skipped' = skipped \cup {<<c, rule[c]>>}
                 /\ cooldownKey(rule[c], host[c]) \in lastExec
    BY RemediationAssumption DEF NextRule, AllRulesDone, RunType, Rules
  <1> QED
    BY <1>2, <1>3, <1>4, <1>5

LEMMA ExecuteRun ==
  ASSUME RunInv, NEW c \in Calls, ExecuteRule(c) \/ ExecuteRuleRefused(c)
  PROVE  RunInv'
  <1> USE DEF RunInv
  <1>1. /\ pc[c] = "act" /\ pc' = [pc EXCEPT ![c] = "note"]
        /\ acted' = acted \cup {<<c, rule[c]>>} /\ logged' \in {logged, logged \cup {<<c, rule[c]>>}}
        /\ holders' \in {holders, holders \cup {<<c, rule[c]>>}}
        /\ UNCHANGED <<host, rule, since, lastExec, ran, skipped, pending, timer, approval, late,
                       failed>>
    BY DEF ExecuteRule, ExecuteRuleRefused, rollbackVars
  <1>2. rule[c] \in Rules /\ <<c, rule[c]>> \in Executions
    BY <1>1, ExecutionParts DEF CallInv
  <1>3. RunType'
    BY <1>1, <1>2 DEF RunType, PCs
  <1>4. \A e \in Executions : (Behind(e) => Behind(e)') /\ (AtNote(e) => AtNote(e)')
    BY <1>1, ExecutionParts DEF RunType, Behind, AtNote
  <1>5. AtNote(<<c, rule[c]>>)'
    BY <1>1, <1>2, ExecutionParts DEF RunType, AtNote
  <1>6. CallInv'
    BY <1>1, <1>2, <1>4, <1>5 DEF RunType, CallInv
  <1>7. CoolInv'
    BY <1>1 DEF RunType, CoolInv, CooldownPerHost, HostOf
  <1>8. timer[<<c, rule[c]>>] = "none"
    BY <1>1, <1>2, ExecutionParts DEF RunType, CallInv, Behind, Rules
  <1>9. RollInv'
    BY <1>1, <1>2, <1>4, <1>5, <1>8 DEF RunType, RollInv, RollbackToCome, AtNote
  <1> QED
    BY <1>3, <1>6, <1>7, <1>9

\* The end of the turn arms the timer of the isolation it leaves behind.
LEMMA NoteRun ==
  ASSUME RunInv, NEW c \in Calls, Note(c)
  PROVE  RunInv'
  <1> USE DEF RunInv
  <1> DEFINE e == <<c, rule[c]>>
  <1>1. /\ pc[c] = "note" /\ pc' = [pc EXCEPT ![c] = "rules"]
        /\ rule' = [rule EXCEPT ![c] = rule[c] + 1]
        /\ lastExec' = lastExec \cup {<<rule[c], host[c]>>} /\ ran' = ran \cup {<<rule[c], host[c]>>}
        /\ UNCHANGED <<host, since, logged, acted, skipped, approval, holders, late, failed>>
    BY ExecutionParts DEF Note, cooldownKey
  <1>2. /\ rule[c] \in Rules /\ e \in Executions /\ e \in acted /\ e[1] = c /\ e[2] = rule[c]
    BY <1>1, ExecutionParts DEF CallInv
  <1>3. \/ Schedules(e) /\ pending' = pending \cup {e} /\ timer' = [timer EXCEPT ![e] = "armed"]
        \/ ~Schedules(e) /\ UNCHANGED <<pending, timer>>
    BY DEF Note
  <1> HIDE DEF e
  <1>4. RunType'
    <2>1. pc' \in [Calls -> PCs] /\ rule' \in [Calls -> 1..(NRules + 1)]
      BY <1>1, <1>2, RemediationAssumption DEF RunType, PCs, Rules
    <2>2. <<rule[c], host[c]>> \in Rules \X Hosts
      BY <1>2 DEF RunType
    <2>3. timer' \in [Executions -> {"none", "armed", "cancelled", "fired", "release", "done"}]
          /\ pending' \subseteq Executions
      BY <1>2, <1>3 DEF RunType
    <2> QED
      BY <1>1, <2>1, <2>2, <2>3 DEF RunType
  <1>5. \A o \in Executions : Behind(o) => Behind(o)'
    BY <1>1, <1>2, ExecutionParts, RemediationAssumption DEF RunType, Behind, Rules
  <1>6. \A o \in Executions : AtNote(o) => AtNote(o)' \/ o = e
    BY <1>1, ExecutionParts DEF RunType, AtNote, e
  <1>7. \A o \in Executions : o = e => Behind(o)'
    BY <1>1, <1>2, RemediationAssumption DEF RunType, Behind, Rules
  <1>8. CallInv'
    <2>1. \A d \in Calls : /\ pc'[d] \in {"new", "match"} => rule'[d] = 1
                           /\ pc'[d] \in {"act", "note"} => rule'[d] \in Rules
                           /\ pc'[d] = "note" => <<d, rule'[d]>> \in acted'
      BY <1>1 DEF RunType, CallInv
    <2>2. \A o \in Executions : o \in holders' \/ o \in acted' => Behind(o)' \/ AtNote(o)'
      BY <1>1, <1>5, <1>6, <1>7 DEF CallInv
    <2>3. \A o \in Executions : timer'[o] # "none" => Behind(o)'
      BY <1>3, <1>5, <1>7 DEF RunType, CallInv
    <2> QED
      BY <2>1, <2>2, <2>3 DEF CallInv
  <1>9. CoolInv'
    <2>1. \A p \in ran' : \E o \in acted' : o[2] = p[1] /\ HostOf(o)' = p[2]
      BY <1>1, <1>2 DEF CoolInv, HostOf
    <2> QED
      BY <1>1, <2>1 DEF RunType, CoolInv, CooldownPerHost, HostOf
  <1>10. timer[e] = "none" /\ approval[e] = "none"
    BY <1>1, <1>2, ExecutionParts DEF RunType, CallInv, RollInv, Behind, Rules
  <1>11. RollInv'
    <2>1. \A o \in Executions :
            /\ o \in pending' => timer'[o] \in {"armed", "fired"} /\ approval'[o] = "none"
            /\ approval'[o] # "none" => timer'[o] # "none"
            /\ timer'[o] = "cancelled" => approval'[o] = "given"
            /\ approval'[o] = "given" => o \in late' \/ timer'[o] = "cancelled"
            /\ o \in holders' /\ timer'[o] = "done" => o \in failed'
      BY <1>1, <1>2, <1>3, <1>10 DEF RunType, RollInv
    <2>2. ASSUME NEW o \in holders', o[2] \in RollsBack
          PROVE  \/ timer'[o] \in {"armed", "fired", "release"}
                 \/ AtNote(o)' \/ approval'[o] # "none" \/ o \in failed' \/ o \notin logged'
      <3>1. CASE o = e
        BY <1>1, <1>2, <1>3, <2>2, <3>1 DEF RunType, Schedules
      <3>2. CASE o # e
        BY <1>1, <1>3, <1>6, <2>2, <3>2 DEF RunType, RollInv, RollbackToCome, AtNote
      <3> QED
        BY <3>1, <3>2
    <2> QED
      BY <2>1, <2>2 DEF RollInv, RollbackToCome, AtNote
  <1> QED
    BY <1>4, <1>8, <1>9, <1>11

LEMMA CooldownRun ==
  ASSUME RunInv, NEW k \in lastExec, CooldownEnds(k)
  PROVE  RunInv'
  <1> USE DEF RunInv, CooldownEnds
  <1>1. UNCHANGED <<host, pc, rule, logged, acted, skipped, pending, timer, approval, holders, late,
                  failed>>
    BY DEF rollbackVars
  <1>2. ran' = lastExec' /\ ran' \subseteq ran
    <2>1. \A p \in ran : p = <<p[1], p[2]>>
      BY DEF RunType
    <2> QED
      BY <2>1 DEF CoolInv, cooldownKey
  <1>3. since' \in [Calls -> SUBSET Rules]
        /\ \A c \in Calls : since'[c] \subseteq since[c] /\ \A r \in since'[c] : <<r, host[c]>> \in ran'
    BY DEF RunType
  <1>4. RunType'
    BY <1>1, <1>2, <1>3 DEF RunType
  <1>5. CallInv'
    BY <1>1 DEF CallInv, Behind, AtNote
  <1>6. CoolInv'
    BY <1>1, <1>2, <1>3 DEF CoolInv, CooldownPerHost, HostOf
  <1>7. RollInv'
    BY <1>1 DEF RollInv, RollbackToCome
  <1> QED
    BY <1>4, <1>5, <1>6, <1>7

\* The goroutine of a rollback, and ApproveExecution.
LEMMA RollbackRun ==
  ASSUME RunInv, NEW e \in Executions,
         Rollback(e) \/ ReleaseFails(e) \/ Approve(e) \/ ApproveCancel(e)
  PROVE  RunInv'
  <1> USE DEF RunInv
  <1>1. UNCHANGED <<host, pc, rule, since, lastExec, ran, logged, acted, skipped>>
    BY DEF Rollback, Fire, DeletePending, Release, ReleaseFails, Approve, ApproveCancel, callVars,
           ruleVars
  <1>2. CoolInv'
    BY <1>1 DEF CoolInv, CooldownPerHost, HostOf
  <1>3. \A o \in Executions : Behind(o)' = Behind(o) /\ AtNote(o)' = AtNote(o)
    BY <1>1 DEF Behind, AtNote
  <1>4. CASE Fire(e)
    <2> USE <1>1, <1>4 DEF Fire
    <2>1. RunType'
      BY DEF RunType
    <2>2. CallInv'
      BY <1>3 DEF RunType, CallInv
    <2>3. RollInv'
      BY DEF RunType, RollInv, RollbackToCome
    <2> QED
      BY <1>2, <2>1, <2>2, <2>3
  <1>5. CASE DeletePending(e)
    <2> USE <1>1, <1>5 DEF DeletePending
    <2>1. RunType'
      BY DEF RunType
    <2>2. CallInv'
      BY <1>3 DEF RunType, CallInv
    <2>3. RollInv'
      BY DEF RunType, RollInv, RollbackToCome
    <2> QED
      BY <1>2, <2>1, <2>2, <2>3
  <1>6. CASE Release(e)
    <2> USE <1>1, <1>6 DEF Release
    <2>1. RunType'
      BY DEF RunType
    <2>2. CallInv'
      BY <1>3 DEF RunType, CallInv
    <2>3. RollInv'
      BY DEF RunType, RollInv, RollbackToCome
    <2> QED
      BY <1>2, <2>1, <2>2, <2>3
  <1>7. CASE ReleaseFails(e)
    <2> USE <1>1, <1>7 DEF ReleaseFails
    <2>1. RunType'
      BY DEF RunType
    <2>2. CallInv'
      BY <1>3 DEF RunType, CallInv
    <2>3. RollInv'
      BY DEF RunType, RollInv, RollbackToCome
    <2> QED
      BY <1>2, <2>1, <2>2, <2>3
  <1>8. CASE Approve(e)
    <2> USE <1>1, <1>8 DEF Approve
    <2>1. RunType'
      BY DEF RunType
    <2>2. CallInv'
      BY <1>3 DEF RunType, CallInv
    <2>3. RollInv'
      BY DEF RunType, RollInv, RollbackToCome
    <2> QED
      BY <1>2, <2>1, <2>2, <2>3
  <1>9. CASE ApproveCancel(e)
    <2> USE <1>1, <1>9 DEF ApproveCancel
    <2>1. RunType'
      BY DEF RunType
    <2>2. CallInv'
      BY <1>3 DEF RunType, CallInv
    <2>3. \A o \in Executions :
            /\ o \in pending' => timer'[o] \in {"armed", "fired"} /\ approval'[o] = "none"
            /\ approval'[o] # "none" => timer'[o] # "none"
            /\ timer'[o] = "cancelled" => approval'[o] = "given"
            /\ approval'[o] = "given" => o \in late' \/ timer'[o] = "cancelled"
            /\ o \in holders' /\ timer'[o] = "done" => o \in failed'
      <3>1. e \notin pending
        BY DEF RollInv
      <3>2. CASE timer[e] = "armed"
        BY <3>1, <3>2 DEF RunType, RollInv
      <3>3. CASE timer[e] # "armed"
        BY <3>3 DEF RunType, RollInv
      <3> QED
        BY <3>2, <3>3
    <2>4. RollbackToCome'
      BY DEF RunType, RollInv, RollbackToCome
    <2> QED
      BY <1>2, <2>1, <2>2, <2>3, <2>4 DEF RollInv
  <1> QED
    BY <1>4, <1>5, <1>6, <1>7, <1>8, <1>9 DEF Rollback

\* A restart loses the timers: what they were to release counts as failed.
LEMMA RestartRun ==
  ASSUME RunInv, Restart
  PROVE  RunInv'
  <1> USE DEF RunInv, Restart
  <1>1. RunType'
    BY RemediationAssumption DEF RunType, PCs
  <1>2. \A e \in Executions : Behind(e) \/ AtNote(e) => Behind(e)'
    BY ExecutionParts DEF RunType, CallInv, Behind, AtNote, Rules
  <1>3. CallInv'
    <2>1. \A c \in Calls : /\ pc'[c] \in {"new", "match"} => rule'[c] = 1
                           /\ pc'[c] \notin {"act", "note"}
      OBVIOUS
    <2>2. \A e \in Executions : timer'[e] # "none" => timer[e] # "none"
      OBVIOUS
    <2> QED
      BY <1>2, <2>1, <2>2 DEF CallInv
  <1>4. CoolInv'
    <2>1. \A c \in Calls : pc'[c] # "act" /\ since'[c] = {}
      OBVIOUS
    <2>2. CooldownPerHost'
      BY <2>1 DEF CoolInv, CooldownPerHost, HostOf
    <2> QED
      BY <2>1, <2>2 DEF CoolInv
  <1>5. RollInv'
    <2> SUFFICES ASSUME NEW e \in Executions
                 PROVE  /\ e \in pending' => timer'[e] \in {"armed", "fired"} /\ approval'[e] = "none"
                        /\ approval'[e] # "none" => timer'[e] # "none"
                        /\ timer'[e] = "cancelled" => approval'[e] = "given"
                        /\ approval'[e] = "given" => e \in late' \/ timer'[e] = "cancelled"
                        /\ e \in holders' /\ timer'[e] = "done" => e \in failed'
                        /\ e \in holders' /\ e[2] \in RollsBack
                             => approval'[e] # "none" \/ e \in failed'
      BY <1>1 DEF RunType, RollInv, RollbackToCome
    <2>1. /\ timer'[e] = (IF timer[e] \in {"armed", "fired", "release"} THEN "done" ELSE timer[e])
          /\ approval'[e] = (IF approval[e] = "taken" THEN "none" ELSE approval[e])
          /\ failed' = failed \cup {o \in holders : timer[o] \notin {"cancelled", "done"}}
          /\ pending' = {} /\ holders' = holders /\ late' = late
      OBVIOUS
    <2>2. e \in holders /\ timer[e] # "cancelled" => e \in failed'
      BY <2>1 DEF RollInv
    <2>3. timer[e] = "cancelled" => approval[e] = "given"
      BY DEF RollInv
    <2>4. /\ approval'[e] # "none" => timer'[e] # "none"
          /\ approval'[e] = "given" => e \in late' \/ timer'[e] = "cancelled"
      BY <2>1 DEF RunType, RollInv
    <2> QED
      BY <2>1, <2>2, <2>3, <2>4
  <1> QED
    BY <1>1, <1>3, <1>4, <1>5

LEMMA RunStep == RunInv /\ [Next]_vars => RunInv'
  <1> SUFFICES ASSUME RunInv, [Next]_vars PROVE RunInv'
    OBVIOUS
  <1>1. ASSUME NEW c \in Calls, Call(c) \/ ExecuteRuleRefused(c) PROVE RunInv'
    BY <1>1, BeginRun, MatchRun, NextRuleRun, ExecuteRun, NoteRun DEF Call
  <1>2. ASSUME NEW x \in Exclusions, AddExclusion(x) PROVE RunInv'
    BY <1>2, RunUnchanged DEF AddExclusion, runVars, ruleVars, rollbackVars
  <1>3. ASSUME NEW i \in DOMAIN exclusions, RemoveExclusion(i) PROVE RunInv'
    BY <1>3, RunUnchanged DEF RemoveExclusion, runVars, ruleVars, rollbackVars
  <1>4. ASSUME NEW w \in writes, StoreWrite(w) \/ StoreWriteFails(w) PROVE RunInv'
    BY <1>4, RunUnchanged
       DEF StoreWrite, StoreWriteFails, runVars, callVars, ruleVars, rollbackVars
  <1>5. ASSUME NEW r \in Rules, EnableRule(r) PROVE RunInv'
    BY <1>5, RunUnchanged DEF EnableRule, runVars, callVars, rollbackVars
  <1>6. CASE UNCHANGED vars
    BY <1>6, RunUnchanged DEF vars, runVars, callVars, ruleVars, rollbackVars
  <1> QED
    BY <1>1, <1>2, <1>3, <1>4, <1>5, <1>6, RollbackRun, CooldownRun, RestartRun DEF Next

LEMMA RunHolds == Spec => []RunInv
  BY InitRun, RunStep, PTL DEF Spec

-----------------------------------------------------------------------------
\* TriggerOnAlert runs no rule that was cooling down for the host, and the key of
\* lastExec never holds a rule back for a host it was not run for.
THEOREM CooldownRespected == Spec => []CooldownPerHost
  <1>1. RunInv => CooldownPerHost
    BY DEF RunInv, CoolInv
  <1> QED
    BY RunHolds, <1>1, PTL

\* scheduleRollback and its goroutine take every isolation back that is not approved,
\* but for releases that fail and timers that a restart has lost.
THEOREM RollbackScheduled == Spec => []RollbackToCome
  <1>1. RunInv => RollbackToCome
    BY DEF RunInv, RollInv
  <1> QED
    BY RunHolds, <1>1, PTL

\* ApproveExecution has cancelled the timer before it returns true, or the timer had
\* fired: no approved isolation is lifted by its own rollback.
THEOREM ApprovalRespected == Spec => ApprovalHolds
  <1> DEFINE Kept == \A e \in holders \ holders' :
                       approval[e] = "given" =>
                         e \in late \/ \E o \in Executions \ {e} :
                                         HostOf(o) = HostOf(e) /\ timer[o] = "release"
  <1>1. RunInv /\ [Next]_vars => [Kept]_vars
    <2> SUFFICES ASSUME RunInv, Next, NEW e \in holders \ holders', approval[e] = "given"
                 PROVE  e \in late \/ \E o \in Executions \ {e} :
                                         HostOf(o) = HostOf(e) /\ timer[o] = "release"
      OBVIOUS
    <2>1. \E o \in Executions : Release(o)
      BY DEF Next, Call, Begin, Match, NextRule, ExecuteRule, ExecuteRuleRefused, Note, Rollback,
             Fire, DeletePending, ReleaseFails, Approve, ApproveCancel, AddExclusion,
             RemoveExclusion, StoreWrite, StoreWriteFails, CooldownEnds, EnableRule, Restart,
             rollbackVars
    <2>2. PICK o \in Executions : Release(o)
      BY <2>1
    <2>3. HostOf(o) = HostOf(e) /\ timer[o] = "release"
      BY <2>2 DEF Release
    <2>4. e \in Executions /\ (e \in late \/ timer[e] = "cancelled")
      BY DEF RunInv, RunType, RollInv
    <2> QED
      BY <2>3, <2>4
  <1> QED
    BY RunHolds, <1>1, PTL DEF Spec, ApprovalHolds

-----------------------------------------------------------------------------
(* The exclusion list. *)

\* A list of a finite set's elements, in whatever order the rows come, holds them all.
LEMMA SetToSeqsRange ==
  ASSUME NEW S, IsFiniteSet(S), NEW s \in SetToSeqs(S)
  PROVE  s \in Seq(S) /\ Range(s) = S
  <1> DEFINE D == 1..Cardinality(S)
  <1>1. Cardinality(S) \in Nat
    BY FS_CardinalityType
  <1>2. s \in [D -> S] /\ \A i, j \in D : i # j => s[i] # s[j]
    BY DEF SetToSeqs
  <1>3. IsFiniteSet(D) /\ Cardinality(D) = Cardinality(S)
    BY <1>1, FS_Interval
  <1>4. s \in Injection(D, S)
    BY <1>2 DEF Injection, IsInjective
  <1>5. s \in Surjection(D, S)
    BY <1>3, <1>4, FS_Injection
  <1>6. Range(s) = S
    BY <1>2, <1>5 DEF Surjection, Range
  <1> QED
    BY <1>1, <1>2, <1>6

LEMMA FunIsSeq ==
  ASSUME NEW S, NEW n \in Nat, NEW f \in [1..n -> S]
  PROVE  f \in Seq(S) /\ DOMAIN f = 1..n
  OBVIOUS

\* A slice stays one when an element of it is overwritten.
LEMMA ExceptIsSeq ==
  ASSUME NEW S, NEW s \in Seq(S), NEW k, NEW x \in S
  PROVE  [s EXCEPT ![k] = x] \in Seq(S)
  <1>1. Len(s) \in Nat /\ s \in [1..Len(s) -> S]
    OBVIOUS
  <1>2. [s EXCEPT ![k] = x] \in [1..Len(s) -> S]
    BY <1>1
  <1> QED
    BY <1>1, <1>2, FunIsSeq

LEMMA AppendRange ==
  ASSUME NEW S, NEW s \in Seq(S), NEW x \in S
  PROVE  Append(s, x) \in Seq(S) /\ Range(s) \subseteq Range(Append(s, x))
         /\ x \in Range(Append(s, x)) /\ Len(Append(s, x)) = Len(s) + 1
  <1>1. /\ Append(s, x) \in Seq(S) /\ DOMAIN Append(s, x) = 1..(Len(s) + 1)
        /\ \A i \in 1..Len(s) : Append(s, x)[i] = s[i]
        /\ Append(s, x)[Len(s) + 1] = x /\ Len(Append(s, x)) = Len(s) + 1
        /\ DOMAIN s = 1..Len(s) /\ Len(s) \in Nat
    OBVIOUS
  <1> QED
    BY <1>1 DEF Range

\* Nothing but the removed element leaves the list.
LEMMA RemoveAtRange ==
  ASSUME NEW S, NEW s \in Seq(S), NEW i \in DOMAIN s
  PROVE  RemoveAt(s, i) \in Seq(S) /\ Range(s) \subseteq Range(RemoveAt(s, i)) \cup {s[i]}
  <1> DEFINE a == SubSeq(s, 1, i - 1)
             b == SubSeq(s, i + 1, Len(s))
  <1>1. i \in 1..Len(s) /\ Len(s) \in Nat /\ DOMAIN s = 1..Len(s)
    OBVIOUS
  <1>2. a \in Seq(S) /\ Len(a) = i - 1 /\ \A j \in 1..(i - 1) : a[j] = s[j]
    BY <1>1
  <1>3. b \in Seq(S) /\ Len(b) = Len(s) - i /\ \A j \in 1..(Len(s) - i) : b[j] = s[j + i]
    BY <1>1
  <1>4. RemoveAt(s, i) = a \o b
    BY DEF RemoveAt
  <1> HIDE DEF a, b
  <1>5. a \in Seq(S) /\ b \in Seq(S) /\ Len(a) \in Nat /\ Len(b) \in Nat
    BY <1>2, <1>3
  <1>6. /\ a \o b \in Seq(S) /\ DOMAIN (a \o b) = 1..(Len(a) + Len(b))
        /\ \A j \in 1..Len(a) : (a \o b)[j] = a[j]
        /\ \A j \in 1..Len(b) : (a \o b)[j + Len(a)] = b[j]
    BY <1>5
  <1>7. ASSUME NEW j \in DOMAIN s, j # i
        PROVE  \E k \in DOMAIN (a \o b) : (a \o b)[k] = s[j]
    <2>1. CASE j < i
      <3>1. j \in 1..Len(a) /\ j \in 1..(Len(a) + Len(b))
        BY <1>1, <1>2, <1>5, <2>1
      <3> QED
        BY <1>2, <1>6, <3>1
    <2>2. CASE ~(j < i)
      <3>1. j - i \in 1..Len(b) /\ (j - i) + Len(a) \in 1..(Len(a) + Len(b)) /\ (j - i) + i = j
        BY <1>1, <1>2, <1>3, <1>7, <2>2
      <3>2. b[j - i] = s[j]
        BY <1>3, <3>1
      <3> QED
        BY <1>6, <3>1, <3>2
    <2> QED
      BY <2>1, <2>2
  <1> QED
    BY <1>4, <1>6, <1>7 DEF Range

LEMMA InitList == Init => ListInv
  <1> SUFFICES ASSUME Init PROVE ListInv
    OBVIOUS
  <1>1. IsFiniteSet(Stored)
    BY RemediationAssumption, FS_Subset
  <1>2. exclusions \in Seq(Stored) /\ Range(exclusions) = Stored
    BY <1>1, SetToSeqsRange DEF Init
  <1>3. exclusions \in Seq(Exclusions)
    BY <1>2, RemediationAssumption
  <1>4. rows \in [Patterns -> Exclusions \cup {NoRow}]
    BY RemediationAssumption DEF Init
  <1>5. unreadable \in BOOLEAN
    BY Zenon DEF Init
  <1>6. ListType
    BY <1>3, <1>4, <1>5, RemediationAssumption DEF Init, ListType
  <1>7. StoredInv
    BY <1>2 DEF Init, StoredInv
  <1>8. CoverInv
    BY DEF Init, CoverInv
  <1> QED
    BY <1>6, <1>7, <1>8 DEF ListInv

\* Running rules and rollbacks do not touch the list.
LEMMA ListUnchanged ==
  ASSUME ListInv, UNCHANGED <<listVars, host, view, pos, shared, cover>>,
         \A c \in Calls : pc'[c] = pc[c] \/ (pc[c] \notin {"match", "over"} /\ pc'[c] # "match")
  PROVE  ListInv'
  <1> USE DEF ListInv, listVars
  <1>1. ListType'
    BY DEF ListType
  <1>2. StoredInv'
    BY DEF StoredInv
  <1>3. \A c \in cover : pc'[c] = pc[c]
    BY DEF ListType, CoverInv
  <1>4. CoverInv'
    BY <1>3 DEF ListType, CoverInv, Hit
  <1> QED
    BY <1>1, <1>2, <1>4

\* IsExcluded takes a list that holds the exclusion of a covered host.
LEMMA BeginList ==
  ASSUME RunType, ListInv, NEW c \in Calls, Begin(c)
  PROVE  ListInv'
  <1> USE DEF ListInv, RunType
  <1>1. UNCHANGED <<listVars, host, pos>> /\ pc[c] = "new"
    BY DEF Begin
  <1>2. c \notin cover /\ pos[c] = 1
    BY <1>1 DEF CoverInv
  <1>3. \A d \in Calls : d # c => pc'[d] = pc[d] /\ view'[d] = view[d]
    BY DEF Begin, ListType
  <1>4. shared' \subseteq shared \cup {c} /\ cover' \subseteq cover \cup {c}
    BY DEF Begin
  <1>5. ListType'
    <2>1. view' \in [Calls -> Seq(Exclusions \cup {Torn})]
      <3>1. exclusions \in Seq(Exclusions \cup {Torn})
        BY DEF ListType
      <3> QED
        BY <3>1 DEF Begin, ListType
    <2> QED
      BY <1>1, <1>4, <2>1 DEF ListType, listVars
  <1>6. StoredInv'
    BY <1>1 DEF StoredInv, listVars
  <1>7. c \in cover' => pc'[c] \in {"match", "over"}
    BY <1>2 DEF Begin
  <1>8. ASSUME c \in cover', pc'[c] = "match"
        PROVE  /\ Len(view'[c]) <= Len(exclusions)
               /\ \E k \in DOMAIN view'[c] :
                    1 <= k /\ view'[c][k] # Torn /\ host[c] \in Pattern[view'[c][k]]
    <2>1. ~unreadable /\ view'[c] = exclusions
      BY <1>8 DEF Begin, ListType
    <2>2. Covered(host[c])
      BY <1>2, <1>8 DEF Begin
    <2>3. PICK x \in wanted : /\ host[c] \in Pattern[x]
                              /\ x \in Range(exclusions) \/ rows[Pattern[x]] = x
      BY <2>2 DEF Covered
    <2>4. x \in Range(exclusions) /\ x # Torn
      BY <2>1, <2>3, RemediationAssumption DEF StoredInv, ListType
    <2>5. PICK k \in DOMAIN exclusions : exclusions[k] = x
      BY <2>4 DEF Range
    <2>6. 1 <= k /\ Len(exclusions) \in Nat
      BY DEF ListType
    <2> QED
      BY <2>1, <2>3, <2>4, <2>5, <2>6
  <1>9. CoverInv'
    <2>1. \A d \in Calls : pc'[d] # "match" => pos'[d] = 1
      BY <1>1, <1>2, <1>3 DEF CoverInv
    <2>2. \A d \in cover' : d = c \/ (d \in cover /\ d # c)
      BY <1>4
    <2>3. \A d \in cover' : pc'[d] \in {"match", "over"}
      BY <1>2, <1>3, <1>7, <2>2 DEF CoverInv, ListType
    <2>4. ASSUME NEW d \in cover', pc'[d] = "match"
          PROVE  /\ d \in shared' => Len(view'[d]) <= Len(exclusions')
                 /\ \E k \in DOMAIN view'[d] :
                      pos'[d] <= k /\ view'[d][k] # Torn /\ host'[d] \in Pattern[view'[d][k]]
      <3>1. CASE d = c
        BY <1>1, <1>2, <1>8, <2>4, <3>1 DEF listVars
      <3>2. CASE d # c
        BY <1>1, <1>3, <1>4, <2>2, <2>4, <3>2 DEF CoverInv, ListType, Hit, listVars
      <3> QED
        BY <3>1, <3>2
    <2> QED
      BY <2>1, <2>3, <2>4 DEF CoverInv, Hit
  <1> QED
    BY <1>5, <1>6, <1>9

\* IsExcluded does not pass over an element that matches.
LEMMA MatchList ==
  ASSUME RunType, ListInv, NEW c \in Calls, Match(c)
  PROVE  ListInv'
  <1> USE DEF ListInv, RunType
  <1>1. UNCHANGED <<listVars, host, cover>> /\ pc[c] = "match"
    BY DEF Match
  <1>2. \/ pos[c] > Len(view[c]) /\ Leave(c, "rules")
        \/ pos[c] <= Len(view[c]) /\ TRUE \in Verdicts(view[c][pos[c]], host[c]) /\ Leave(c, "over")
        \/ /\ pos[c] <= Len(view[c]) /\ FALSE \in Verdicts(view[c][pos[c]], host[c])
           /\ pos' = [pos EXCEPT ![c] = pos[c] + 1] /\ UNCHANGED <<pc, view, shared>>
    <2>1. pos[c] \in Nat /\ Len(view[c]) \in Nat
      BY DEF ListType
    <2>2. \A hit \in Verdicts(view[c][pos[c]], host[c]) : hit \in BOOLEAN
      BY Zenon DEF Verdicts
    <2>3. CASE pos[c] > Len(view[c])
      BY <2>3 DEF Match
    <2>4. CASE ~(pos[c] > Len(view[c]))
      <3>1. PICK hit \in Verdicts(view[c][pos[c]], host[c]) :
              IF hit THEN Leave(c, "over")
                     ELSE pos' = [pos EXCEPT ![c] = @ + 1] /\ UNCHANGED <<pc, view, shared>>
        BY <2>4 DEF Match
      <3>2. pos[c] <= Len(view[c])
        BY <2>1, <2>4
      <3>3. CASE hit
        <4>1. hit = TRUE
          BY <2>2, <3>3, Zenon
        <4>2. TRUE \in Verdicts(view[c][pos[c]], host[c])
          BY <4>1, Zenon
        <4> QED
          BY <3>1, <3>2, <3>3, <4>2, Zenon
      <3>4. CASE ~hit
        <4>1. hit = FALSE
          BY <2>2, <3>4, Zenon
        <4>2. FALSE \in Verdicts(view[c][pos[c]], host[c])
          BY <4>1, Zenon
        <4>3. pos' = [pos EXCEPT ![c] = pos[c] + 1] /\ UNCHANGED <<pc, view, shared>>
          BY <3>1, <3>4
        <4> QED
          BY <3>2, <4>2, <4>3, Zenon
      <3> QED
        BY <3>3, <3>4, Zenon
    <2> QED
      BY <2>3, <2>4
  <1>3. \A d \in Calls : d # c => /\ pc'[d] = pc[d] /\ view'[d] = view[d] /\ pos'[d] = pos[d]
                                  /\ (d \in shared' <=> d \in shared)
    BY <1>2 DEF Leave, ListType
  <1>4. ListType'
    <2>1. <<>> \in Seq(Exclusions \cup {Torn})
      OBVIOUS
    <2>2. view' \in [Calls -> Seq(Exclusions \cup {Torn})] /\ pos' \in [Calls -> Nat]
      <3>1. ASSUME NEW to, Leave(c, to)
            PROVE  view' \in [Calls -> Seq(Exclusions \cup {Torn})] /\ pos' \in [Calls -> Nat]
        BY <2>1, <3>1 DEF Leave, ListType
      <3>2. ASSUME pos' = [pos EXCEPT ![c] = pos[c] + 1], UNCHANGED view
            PROVE  view' \in [Calls -> Seq(Exclusions \cup {Torn})] /\ pos' \in [Calls -> Nat]
        BY <3>2 DEF ListType
      <3> QED
        BY <1>2, <3>1, <3>2
    <2>3. shared' \subseteq Calls
      BY <1>2 DEF Leave, ListType
    <2> QED
      BY <1>1, <2>2, <2>3 DEF ListType, listVars
  <1>5. StoredInv'
    BY <1>1 DEF StoredInv, listVars
  <1>6. pc'[c] # "match" => pos'[c] = 1
    BY <1>1, <1>2 DEF Leave, ListType
  <1>7. ASSUME c \in cover
        PROVE  /\ pc'[c] \in {"match", "over"}
               /\ pc'[c] = "match" =>
                    /\ c \in shared' => Len(view'[c]) <= Len(exclusions)
                    /\ \E k \in DOMAIN view'[c] :
                         pos'[c] <= k /\ view'[c][k] # Torn /\ host[c] \in Pattern[view'[c][k]]
    <2>1. PICK k \in DOMAIN view[c] : pos[c] <= k /\ Hit(c, k)
      BY <1>1, <1>7 DEF CoverInv
    <2>2. /\ pos[c] \in Nat /\ Len(view[c]) \in Nat /\ DOMAIN view[c] = 1..Len(view[c])
          /\ c \in shared => Len(view[c]) <= Len(exclusions)
      BY <1>1, <1>7 DEF ListType, CoverInv
    <2>3. ~(pos[c] > Len(view[c]))
      BY <2>1, <2>2
    <2>4. CASE Leave(c, "over")
      BY <2>4 DEF Leave
    <2>5. CASE /\ FALSE \in Verdicts(view[c][pos[c]], host[c])
               /\ pos' = [pos EXCEPT ![c] = pos[c] + 1] /\ UNCHANGED <<pc, view, shared>>
      <3>1. pos[c] # k
        <4>1. FALSE \notin Verdicts(view[c][k], host[c])
          BY <2>1, Zenon DEF Verdicts, Hit
        <4> QED
          BY <2>5, <4>1
      <3>2. pos'[c] = pos[c] + 1 /\ pos'[c] <= k
        BY <2>1, <2>2, <2>5, <3>1 DEF ListType
      <3> QED
        BY <1>1, <2>1, <2>2, <2>5, <3>2 DEF Hit
    <2> QED
      BY <1>2, <2>2, <2>3, <2>4, <2>5
  <1>8. CoverInv'
    <2>1. \A d \in Calls : pc'[d] # "match" => pos'[d] = 1
      BY <1>3, <1>6 DEF CoverInv
    <2>2. ASSUME NEW d \in cover
          PROVE  /\ pc'[d] \in {"match", "over"}
                 /\ pc'[d] = "match" =>
                      /\ d \in shared' => Len(view'[d]) <= Len(exclusions)
                      /\ \E k \in DOMAIN view'[d] :
                           pos'[d] <= k /\ view'[d][k] # Torn /\ host[d] \in Pattern[view'[d][k]]
      <3>1. CASE d = c
        BY <1>7, <3>1
      <3>2. CASE d # c
        BY <1>3, <3>2 DEF CoverInv, ListType, Hit
      <3> QED
        BY <3>1, <3>2
    <2> QED
      BY <1>1, <2>1, <2>2 DEF CoverInv, Hit, listVars
  <1> QED
    BY <1>4, <1>5, <1>8

\* append reaches only into slices that are longer than the list, and those of
\* covered calls are not.
LEMMA AddList ==
  ASSUME RunType, ListInv, NEW x \in Exclusions, AddExclusion(x)
  PROVE  ListInv'
  <1> USE DEF ListInv, RunType
  <1> DEFINE n == Len(exclusions) + 1
             inside == {c \in shared : Len(view[c]) >= n}
  <1>1. /\ exclusions' = Append(exclusions, x) /\ wanted' = wanted \cup {x}
        /\ writes' = writes \cup {InsertOf(x)}
        /\ UNCHANGED <<unreadable, rows, host, pc, pos, cover>>
    BY DEF AddExclusion, InsertOf
  <1>2. \/ /\ view' = [c \in Calls |-> IF c \in inside THEN [view[c] EXCEPT ![n] = x] ELSE view[c]]
           /\ UNCHANGED shared
        \/ shared' = {} /\ UNCHANGED view
    BY DEF AddExclusion
  <1>3. /\ exclusions' \in Seq(Exclusions) /\ Range(exclusions) \subseteq Range(exclusions')
        /\ x \in Range(exclusions') /\ Len(exclusions') = Len(exclusions) + 1
        /\ Len(exclusions) \in Nat
    BY <1>1, AppendRange DEF ListType
  <1>4. ListType'
    <2>1. \A c \in Calls : [view[c] EXCEPT ![n] = x] \in Seq(Exclusions \cup {Torn})
      <3>1. \A s \in Seq(Exclusions \cup {Torn}) : [s EXCEPT ![n] = x] \in Seq(Exclusions \cup {Torn})
        BY ExceptIsSeq
      <3> QED
        BY <3>1 DEF ListType
    <2>2. view' \in [Calls -> Seq(Exclusions \cup {Torn})]
      BY <1>2, <2>1 DEF ListType
    <2>3. shared' \subseteq Calls
      BY <1>2 DEF ListType
    <2> QED
      BY <1>1, <1>3, <2>2, <2>3 DEF ListType, InsertOf
  <1>5. StoredInv'
    BY <1>1, <1>3 DEF StoredInv, InsertOf
  <1>6. \A c \in cover : pc[c] = "match" => view'[c] = view[c] /\ (c \in shared' => c \in shared)
    <2>1. \A c \in cover : pc[c] = "match" => c \notin inside
      BY <1>3 DEF CoverInv, ListType
    <2> QED
      BY <1>2, <2>1 DEF ListType
  <1>7. CoverInv'
    <2>1. ASSUME NEW c \in cover, pc[c] = "match"
          PROVE  /\ c \in shared' => Len(view'[c]) <= Len(exclusions')
                 /\ \E k \in DOMAIN view'[c] :
                      pos[c] <= k /\ view'[c][k] # Torn /\ host[c] \in Pattern[view'[c][k]]
      <3>1. c \in shared => Len(view[c]) <= Len(exclusions)
        BY <2>1 DEF CoverInv
      <3>2. Len(view[c]) \in Nat
        BY DEF ListType
      <3>3. c \in shared' => Len(view'[c]) <= Len(exclusions')
        BY <1>3, <1>6, <2>1, <3>1, <3>2
      <3> QED
        BY <1>6, <2>1, <3>3 DEF CoverInv, Hit
    <2> QED
      BY <1>1, <2>1 DEF CoverInv, Hit
  <1> QED
    BY <1>4, <1>5, <1>7

\* RemoveExclusion moves elements under the readers, which from then on are not
\* counted among the covered ones.
LEMMA RemoveList ==
  ASSUME RunType, ListInv, NEW i \in DOMAIN exclusions, RemoveExclusion(i)
  PROVE  ListInv'
  <1> USE DEF ListInv, RunType
  <1> DEFINE gone == exclusions[i]
             E == Exclusions \cup {Torn}
  <1>1. /\ exclusions' = RemoveAt(exclusions, i) /\ wanted' = wanted \ {gone}
        /\ writes' = writes \cup {[op |-> "delete", id |-> gone]}
        /\ cover' = {c \in cover : pc[c] # "match"}
        /\ UNCHANGED <<unreadable, rows, host, pc, pos, shared>>
    BY DEF RemoveExclusion
  <1>2. /\ exclusions' \in Seq(Exclusions) /\ gone \in Exclusions
        /\ Range(exclusions) \subseteq Range(exclusions') \cup {gone}
    BY <1>1, RemoveAtRange DEF ListType
  <1>3. view' \in [Calls -> Seq(E)]
    <2>1. ASSUME NEW s \in Seq(E) PROVE Shifted(s, i) \in Seq(E) /\ DOMAIN Shifted(s, i) = DOMAIN s
      <3>1. i \in 1..Len(exclusions) /\ Len(exclusions) \in Nat
        BY DEF ListType
      <3>2. \A k \in DOMAIN s : k \in i..(Len(exclusions) - 1) => exclusions[k + 1] \in E
        BY <3>1 DEF ListType
      <3>3. \A k \in DOMAIN s :
              (IF k \in i..(Len(exclusions) - 1) THEN exclusions[k + 1] ELSE s[k]) \in E
        BY <3>2
      <3>4. DOMAIN s = 1..Len(s) /\ Len(s) \in Nat
        OBVIOUS
      <3>5. Shifted(s, i) \in [1..Len(s) -> E]
        BY <3>3, <3>4 DEF Shifted
      <3> QED
        BY <3>4, <3>5, FunIsSeq
    <2>2. ASSUME NEW s \in Seq(E), NEW k PROVE [s EXCEPT ![k] = Torn] \in Seq(E)
      BY ExceptIsSeq
    <2> HIDE DEF E
    <2>3. \A c \in Calls : /\ view[c] \in Seq(E) /\ Shifted(view[c], i) \in Seq(E)
                           /\ [Shifted(view[c], i) EXCEPT ![pos[c]] = Torn] \in Seq(E)
      BY <2>1, <2>2 DEF ListType, E
    <2>4. PICK torn :
            view' = [c \in Calls |->
                       IF c \in torn THEN [Shifted(view[c], i) EXCEPT ![pos[c]] = Torn]
                       ELSE IF c \in shared THEN Shifted(view[c], i) ELSE view[c]]
      BY DEF RemoveExclusion
    <2> QED
      BY <2>3, <2>4
  <1>4. ListType'
    BY <1>1, <1>2, <1>3 DEF ListType
  <1>5. StoredInv'
    BY <1>1, <1>2 DEF StoredInv, InsertOf
  <1>6. CoverInv'
    BY <1>1 DEF CoverInv
  <1> QED
    BY <1>4, <1>5, <1>6

\* A row that appears belongs to an exclusion that is listed.
LEMMA WriteList ==
  ASSUME RunType, ListInv, NEW w \in writes, StoreWrite(w) \/ StoreWriteFails(w)
  PROVE  ListInv'
  <1> USE DEF ListInv, RunType
  <1>1. /\ writes' = writes \ {w}
        /\ UNCHANGED <<exclusions, unreadable, wanted, host, pc, view, pos, shared, cover>>
    BY DEF StoreWrite, StoreWriteFails, callVars
  <1>2. w.id \in Exclusions /\ w.op \in {"insert", "delete"} /\ w = [op |-> w.op, id |-> w.id]
    BY DEF ListType
  <1>3. /\ Pattern[w.id] \in Patterns
        /\ \/ rows' = rows
           \/ w.op = "insert" /\ rows' = [rows EXCEPT ![Pattern[w.id]] = w.id]
           \/ rows' = [rows EXCEPT ![Pattern[w.id]] = NoRow]
    BY <1>2 DEF StoreWrite, StoreWriteFails, Patterns
  <1>4. ListType'
    <2>1. rows' \in [Patterns -> Exclusions \cup {NoRow}]
      BY <1>2, <1>3 DEF ListType
    <2> QED
      BY <1>1, <2>1 DEF ListType
  <1>5. StoredInv'
    <2> SUFFICES ASSUME NEW x \in wanted,
                        (~unreadable /\ rows'[Pattern[x]] = x) \/ InsertOf(x) \in writes'
                 PROVE  x \in Range(exclusions)
      BY <1>1 DEF StoredInv, InsertOf
    <2>1. x \in Exclusions /\ x # NoRow /\ Pattern[x] \in Patterns
      BY RemediationAssumption DEF ListType, Patterns
    <2>2. rows'[Pattern[x]] = x => rows[Pattern[x]] = x \/ InsertOf(x) \in writes
      BY <1>2, <1>3, <2>1 DEF ListType, InsertOf
    <2> QED
      BY <1>1, <2>2 DEF StoredInv
  <1>6. CoverInv'
    BY <1>1 DEF CoverInv, Hit
  <1> QED
    BY <1>4, <1>5, <1>6

\* LoadExclusionsFromDB lists every row, or the list counts as unreadable.
LEMMA RestartList ==
  ASSUME RunType, ListInv, Restart
  PROVE  ListInv'
  <1> USE DEF ListInv, RunType
  <1> DEFINE S == {rows[p] : p \in Patterns} \ {NoRow}
  <1>1. /\ writes' = {} /\ shared' = {} /\ cover' = {}
        /\ pos' = [c \in Calls |-> 1] /\ view' = [c \in Calls |-> <<>>]
        /\ UNCHANGED <<rows, wanted, host>>
    BY DEF Restart
  <1>2. S \subseteq Exclusions /\ IsFiniteSet(S)
    BY RemediationAssumption, FS_Subset DEF ListType
  <1>3. \/ exclusions' \in SetToSeqs(S) /\ unreadable' = FALSE
        \/ exclusions' = <<>> /\ unreadable' = TRUE
    BY DEF Restart, LoadExclusions
  <1> HIDE DEF S
  <1>4. /\ exclusions' \in Seq(Exclusions) /\ (unreadable' \/ Range(exclusions') = S)
    <2>1. CASE exclusions' \in SetToSeqs(S)
      <3>1. exclusions' \in Seq(S) /\ Range(exclusions') = S
        BY <1>2, <2>1, SetToSeqsRange
      <3> QED
        BY <1>2, <3>1
    <2>2. CASE exclusions' = <<>> /\ unreadable' = TRUE
      BY <2>2
    <2> QED
      BY <1>3, <2>1, <2>2
  <1>5. ListType'
    <2>1. unreadable' \in BOOLEAN
      BY <1>3, Zenon
    <2> QED
      BY <1>1, <1>4, <2>1 DEF ListType
  <1>6. StoredInv'
    <2> SUFFICES ASSUME NEW x \in wanted, ~unreadable', rows[Pattern[x]] = x
                 PROVE  x \in Range(exclusions')
      BY <1>1 DEF StoredInv
    <2>1. x \in S
      BY RemediationAssumption DEF ListType, Patterns, S
    <2> QED
      BY <1>4, <2>1
  <1>7. CoverInv'
    BY <1>1 DEF CoverInv
  <1> QED
    BY <1>5, <1>6, <1>7

LEMMA ListStep == RunInv /\ ListInv /\ [Next]_vars => ListInv'
  <1> SUFFICES ASSUME RunInv, ListInv, [Next]_vars PROVE ListInv'
    OBVIOUS
  <1> USE DEF RunInv
  <1>1. ASSUME NEW c \in Calls, Call(c) \/ ExecuteRuleRefused(c) PROVE ListInv'
    <2>1. CASE NextRule(c) \/ ExecuteRule(c) \/ ExecuteRuleRefused(c) \/ Note(c)
      <3>1. UNCHANGED <<listVars, host, view, pos, shared, cover>>
        BY <2>1 DEF NextRule, ExecuteRule, ExecuteRuleRefused, Note
      <3>2. pc[c] \in {"rules", "act", "note"} /\ (pc' = pc \/ pc' = [pc EXCEPT ![c] = pc'[c]])
            /\ pc'[c] \in {"rules", "act", "note", "over"}
        BY <2>1 DEF RunType, NextRule, ExecuteRule, ExecuteRuleRefused, Note
      <3>3. \A d \in Calls : pc'[d] = pc[d] \/ (pc[d] \notin {"match", "over"} /\ pc'[d] # "match")
        BY <3>2 DEF RunType
      <3> QED
        BY <3>1, <3>3, ListUnchanged
    <2> QED
      BY <1>1, <2>1, BeginList, MatchList DEF Call
  <1>2. ASSUME NEW e \in Executions,
               Rollback(e) \/ ReleaseFails(e) \/ Approve(e) \/ ApproveCancel(e)
        PROVE  ListInv'
    BY <1>2, ListUnchanged
       DEF Rollback, Fire, DeletePending, Release, ReleaseFails, Approve, ApproveCancel, callVars
  <1>3. ASSUME NEW k \in lastExec, CooldownEnds(k) PROVE ListInv'
    BY <1>3, ListUnchanged DEF CooldownEnds
  <1>4. ASSUME NEW r \in Rules, EnableRule(r) PROVE ListInv'
    BY <1>4, ListUnchanged DEF EnableRule, callVars
  <1>5. CASE UNCHANGED vars
    BY <1>5, ListUnchanged DEF vars, callVars
  <1> QED
    BY <1>1, <1>2, <1>3, <1>4, <1>5, AddList, RemoveList, WriteList, RestartList DEF Next

LEMMA ListHolds == Spec => []ListInv
  BY RunHolds, InitList, ListStep, PTL DEF Spec

\* IsExcluded lets no call through whose host had an exclusion when it began, unless
\* an exclusion is removed while it reads: concurrent AddExclusion, writes that come
\* late or fail, restarts and a list that cannot be read do not break it.
THEOREM ExclusionsRespected == Spec => []ExcludedSpared
  <1>1. ListInv => ExcludedSpared
    BY DEF ListInv, CoverInv, ExcludedSpared
  <1> QED
    BY ListHolds, <1>1, PTL

-----------------------------------------------------------------------------
(* What is left of the type invariant. *)

RestType ==
  /\ enabled \subseteq Rules /\ late \subseteq Executions /\ failed \subseteq Executions
  /\ edits \in 0..MaxEdits /\ faults \in 0..MaxFaults

LEMMA RestStep == RunType /\ RestType /\ [Next]_vars => RestType'
  <1> SUFFICES ASSUME RunType, RestType, [Next]_vars PROVE RestType'
    OBVIOUS
  <1> USE DEF RestType
  <1>1. \/ UNCHANGED bounds \/ Edit \/ Fault
    BY DEF Next, Call, Begin, Match, NextRule, ExecuteRule, ExecuteRuleRefused, Note, Rollback,
           Fire, DeletePending, Release, ReleaseFails, Approve, ApproveCancel, AddExclusion,
           RemoveExclusion, StoreWrite, StoreWriteFails, CooldownEnds, EnableRule, Restart, vars
  <1>2. edits' \in 0..MaxEdits /\ faults' \in 0..MaxFaults
    BY <1>1, RemediationAssumption DEF bounds, Edit, Fault
  <1>3. \/ enabled' = enabled \/ enabled' = Rules \/ \E r \in Rules : EnableRule(r)
    BY DEF Next, Call, Begin, Match, NextRule, ExecuteRule, ExecuteRuleRefused, Note, Rollback,
           Fire, DeletePending, Release, ReleaseFails, Approve, ApproveCancel, AddExclusion,
           RemoveExclusion, StoreWrite, StoreWriteFails, CooldownEnds, Restart, vars, ruleVars
  <1>4. enabled' \subseteq Rules
    BY <1>3 DEF EnableRule
  <1>5. ASSUME NEW e \in Executions, Rollback(e) \/ ReleaseFails(e) \/ Approve(e) \/ ApproveCancel(e)
        PROVE  late' \subseteq Executions /\ failed' \subseteq Executions
    BY <1>5 DEF Rollback, Fire, DeletePending, Release, ReleaseFails, Approve, ApproveCancel
  <1>6. CASE Restart
    <2>1. late' \subseteq Executions /\ failed' \subseteq Executions
      BY <1>6 DEF Restart, RunType
    <2> QED
      BY <1>2, <1>4, <2>1
  <1>7. \/ UNCHANGED <<late, failed>> \/ Restart
        \/ \E e \in Executions : Rollback(e) \/ ReleaseFails(e) \/ Approve(e) \/ ApproveCancel(e)
    BY DEF Next, Call, Begin, Match, NextRule, ExecuteRule, ExecuteRuleRefused, Note,
           AddExclusion, RemoveExclusion, StoreWrite, StoreWriteFails, CooldownEnds, EnableRule,
           vars, rollbackVars
  <1> QED
    BY <1>2, <1>4, <1>5, <1>6, <1>7

\* The engine's lists, tables, timers and calls stay well formed.
THEOREM RemediationTypes == Spec => []TypeOK
  <1>1. Init => RestType
    BY RemediationAssumption DEF Init, RestType
  <1>2. RunInv => RunType
    BY DEF RunInv
  <1>3. RunInv /\ ListInv /\ RestType => TypeOK
    BY DEF RunInv, RunType, CoolInv, ListInv, ListType, RestType, TypeOK
  <1> QED
    BY RunHolds, ListHolds, RestStep, <1>1, <1>2, <1>3, PTL DEF Spec

=============================================================================
