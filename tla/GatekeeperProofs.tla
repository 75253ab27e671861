-------------------------- MODULE GatekeeperProofs --------------------------
(***************************************************************************)
(* The safety valves of the isolation path hold for every number of        *)
(* endpoints and callers and every cooldown, budget and window.            *)
(***************************************************************************)
EXTENDS Gatekeeper, FiniteSetTheorems, TLAPS

(***************************************************************************)
(* What guard.allow's two data structures know about the past, which is    *)
(* what makes its decisions right:                                         *)
(*   - no grant lies in the future;                                        *)
(*   - pruning has not removed a grant that is still in the window;        *)
(*   - lastByAgent holds the time of the endpoint's latest grant.          *)
(***************************************************************************)
GrantsPast == \A s \in 1..Len(grants) : grants[s].time <= clock

RecentComplete ==
  \A s \in 1..Len(grants) : grants[s].time > clock - Window => s \in recent

LastIsLatest ==
  /\ \A s \in 1..Len(grants) :
       /\ lastByAgent[grants[s].agent] # None
       /\ grants[s].time <= lastByAgent[grants[s].agent]
  /\ \A a \in Agents : lastByAgent[a] # None =>
       \E s \in 1..Len(grants) : grants[s].agent = a /\ grants[s].time = lastByAgent[a]

GuardInv == GrantsPast /\ RecentComplete /\ LastIsLatest /\ CooldownHolds /\ BudgetHolds

InFlight == {"allowed", "recorded", "sent", "unsent"}

(***************************************************************************)
(* What a call in progress knows: it has no outcome yet, its row and       *)
(* `published' agree with its stage, and if no person asked for it, it     *)
(* holds a grant for its endpoint that no other call holds.                *)
(***************************************************************************)
StageInv(c) ==
  /\ call[c].stage \in InFlight =>
       call[c].outcome = "none" /\ call[c].row \in {"absent", "pending"}
  /\ call[c].stage \in {"idle", "allowed", "recorded"} => ~call[c].published /\ ~call[c].marked
  /\ call[c].stage = "unsent" =>
       IF call[c].origin = "release" THEN ~call[c].marked ELSE ~call[c].published
  /\ call[c].stage = "sent" => call[c].published /\ call[c].marked
  /\ call[c].row = "dispatched" => call[c].published /\ call[c].marked
  /\ call[c].row = "suppressed" => ~call[c].published /\ ~call[c].marked
  /\ call[c].row = "failure" =>
       IF call[c].origin = "release" THEN ~call[c].marked ELSE ~call[c].published

\* The check of the exemption list passed for grant g.
Spared(g) == ~Exempt(g.agent, g.named)

GrantInv(c) ==
  /\ call[c].grant \in 0..Len(grants)
  /\ \A d \in Callers : call[c].grant # 0 /\ call[d].grant = call[c].grant => d = c
  /\ Unattended(call[c].origin)
     /\ (call[c].stage \in InFlight \/ call[c].published \/ call[c].marked) =>
       /\ cfg.enabled /\ ~cfg.dryRun
       /\ call[c].grant # 0 /\ grants[call[c].grant].agent = call[c].agent
       /\ Spared(grants[call[c].grant])

CallInv == \A c \in Callers : StageInv(c) /\ GrantInv(c)

-----------------------------------------------------------------------------
\* What TypeOK says of the grants.
LEMMA GrantTypes ==
  ASSUME TypeOK
  PROVE  /\ Len(grants) \in Nat
         /\ \A s \in 1..Len(grants) : grants[s].agent \in Agents /\ grants[s].time \in Nat
<1>1. grants \in Seq(Grant)  BY DEF TypeOK
<1>2. Len(grants) \in Nat /\ \A s \in 1..Len(grants) : grants[s] \in Grant  BY <1>1
<1> QED  BY <1>2 DEF Grant

\* The sets whose sizes guard.allow and BudgetHolds compare are finite.
LEMMA GrantSetsFinite ==
  ASSUME TypeOK, NEW t \in Int
  PROVE  /\ IsFiniteSet(Kept) /\ IsFiniteSet(GrantsIn(t))
         /\ Cardinality(Kept) \in Nat /\ Cardinality(GrantsIn(t)) \in Nat
<1>0. Len(grants) \in Int /\ 1 \in Int  BY GrantTypes
<1>1. IsFiniteSet(1..Len(grants))  BY <1>0, FS_Interval
<1>2. Kept \in SUBSET (1..Len(grants)) /\ GrantsIn(t) \in SUBSET (1..Len(grants))
  BY DEF TypeOK, Kept, GrantsIn
<1>3. IsFiniteSet(Kept) /\ IsFiniteSet(GrantsIn(t))  BY <1>1, <1>2, FS_Subset
<1> QED  BY <1>3, FS_CardinalityType

\* The pruned list is exactly the set of grants of the current window.
LEMMA KeptIsWindow ==
  ASSUME TypeOK, GrantsPast, RecentComplete
  PROVE  Kept = GrantsIn(clock)
<1>1. recent \subseteq 1..Len(grants) /\ clock \in Nat  BY DEF TypeOK
<1> QED
  BY <1>1, GrantTypes, GatekeeperAssumption DEF GrantsPast, RecentComplete, Kept, GrantsIn

-----------------------------------------------------------------------------
\* A process that has just started satisfies the invariants.
LEMMA FreshInv ==
  ASSUME Fresh(lastByAgent, recent, grants, call), cfg \in Config, clock \in Nat
  PROVE  TypeOK /\ GuardInv /\ CallInv
<1>1. Len(grants) = 0 /\ 1..Len(grants) = {} /\ grants \in Seq(Grant)
  BY DEF Fresh
<1>2. TypeOK
  BY <1>1 DEF Fresh, TypeOK, Call, Stages, Origins, Outcomes, RowStates
<1>3. BudgetHolds
  <2>1. \A t \in 0..clock : GrantsIn(t) = {}  BY <1>1 DEF GrantsIn
  <2>2. Cardinality({}) = 0  BY FS_EmptySet
  <2> QED  BY <2>1, <2>2, GatekeeperAssumption DEF BudgetHolds
<1>4. GrantsPast /\ RecentComplete /\ LastIsLatest /\ CooldownHolds
  BY <1>1 DEF Fresh, GrantsPast, RecentComplete, LastIsLatest, CooldownHolds
<1>5. ASSUME NEW c \in Callers PROVE StageInv(c) /\ GrantInv(c)
  <2>1. /\ call[c].stage = "idle" /\ call[c].origin = "manual" /\ call[c].row = "absent"
        /\ call[c].published = FALSE /\ call[c].marked = FALSE /\ call[c].grant = 0
    BY DEF Fresh
  <2>2. StageInv(c)  BY <2>1 DEF StageInv, InFlight
  <2>3. GrantInv(c)  BY <2>1, <1>1 DEF GrantInv, InFlight, Unattended
  <2> QED  BY <2>2, <2>3
<1> QED  BY <1>2, <1>3, <1>4, <1>5 DEF GuardInv, CallInv

-----------------------------------------------------------------------------
\* What a caller's decision leaves in its call record.
LEMMA ServeType ==
  ASSUME TypeOK, NEW c \in Callers, NEW a \in Agents, NEW o \in Origins,
         NEW stage \in Stages, NEW outcome \in Outcomes, NEW row \in RowStates,
         NEW grant \in Nat, Serve(c, a, o, stage, outcome, row, grant)
  PROVE  call' \in [Callers -> Call]
  BY DEF TypeOK, Serve, Call

\* Either branch of PassOn and Suppress is a Serve.
LEMMA PassOnType ==
  ASSUME TypeOK, NEW c \in Callers, NEW a \in Agents, NEW o \in Origins, NEW grant \in Nat,
         PassOn(c, a, o, grant) \/ \E out \in Outcomes : Suppress(c, a, o, out, grant)
  PROVE  call' \in [Callers -> Call]
<1>1. "allowed" \in Stages /\ "done" \in Stages /\ {"none", "disabled"} \subseteq Outcomes
      /\ {"absent", "suppressed"} \subseteq RowStates
  BY DEF Stages, Outcomes, RowStates
<1>2. CASE PassOn(c, a, o, grant)
  <2>1. CASE Serve(c, a, o, "allowed", "none", "absent", grant)
    BY <2>1, <1>1, ServeType
  <2>2. CASE Suppress(c, a, o, "disabled", grant)
    <3>1. PICK row \in RowStates : Serve(c, a, o, "done", "disabled", row, grant)
      BY <2>2, <1>1 DEF Suppress
    <3> QED  BY <3>1, <1>1, ServeType
  <2> QED  BY <1>2, <2>1, <2>2 DEF PassOn
<1>3. CASE \E out \in Outcomes : Suppress(c, a, o, out, grant)
  <2>1. PICK out \in Outcomes, row \in RowStates : Serve(c, a, o, "done", out, row, grant)
    BY <1>3, <1>1 DEF Suppress
  <2> QED  BY <2>1, <1>1, ServeType
<1> QED  BY <1>2, <1>3

LEMMA TypeStep == TypeOK /\ [Next]_vars => TypeOK'
<1> SUFFICES ASSUME TypeOK, [Next]_vars PROVE TypeOK'
  OBVIOUS
<1>o. {"disabled", "exempt", "refused", "dry_run"} \subseteq Outcomes  BY DEF Outcomes
<1>k. Kept \subseteq 1..Len(grants)  BY DEF TypeOK, Kept
<1>1. ASSUME NEW c \in Callers, NEW a \in Agents, NEW o \in Origins, NEW named \in BOOLEAN,
             Attended(c, a, o) \/ IsolateOff(c, a, o, named)
      PROVE  TypeOK'
  <2>1. call' \in [Callers -> Call]
    BY <1>1, <1>o, PassOnType DEF Attended, IsolateOff
  <2> QED  BY <2>1, <1>1 DEF Attended, IsolateOff, TypeOK, guardVars
<1>2. ASSUME NEW c \in Callers, NEW a \in Agents, NEW o \in Origins, NEW named \in BOOLEAN,
             IsolateRefused(c, a, o, named)
      PROVE  TypeOK'
  <2>1. call' \in [Callers -> Call]
    BY <1>2, <1>o, PassOnType DEF IsolateRefused
  <2>2. recent' \subseteq 1..Len(grants)  BY <1>2, <1>k DEF IsolateRefused, TypeOK
  <2> QED  BY <2>1, <2>2, <1>2 DEF IsolateRefused, TypeOK
<1>3. ASSUME NEW c \in Callers, NEW a \in Agents, NEW o \in Origins, NEW named \in BOOLEAN,
             IsolateGranted(c, a, o, named)
      PROVE  TypeOK'
  <2>1. call' \in [Callers -> Call]
    <3>1. Len(grants) + 1 \in Nat  BY GrantTypes
    <3> QED  BY <3>1, <1>3, <1>o, PassOnType DEF IsolateGranted
  <2>2. [agent |-> a, time |-> clock, named |-> named] \in Grant  BY DEF Grant, TypeOK
  <2>3. grants' \in Seq(Grant) /\ Len(grants') = Len(grants) + 1
    BY <2>2, <1>3 DEF IsolateGranted, TypeOK
  <2>4. recent' \subseteq 1..Len(grants')
    <3>1. recent' = Kept \cup {Len(grants) + 1}  BY <1>3 DEF IsolateGranted, Booked
    <3>2. 1..Len(grants) \subseteq 1..(Len(grants) + 1) /\ Len(grants) + 1 \in 1..(Len(grants) + 1)
      BY GrantTypes
    <3> QED  BY <3>1, <3>2, <2>3, <1>k
  <2>5. lastByAgent' \in [Agents -> Nat \cup {None}]
    BY <1>3 DEF IsolateGranted, TypeOK
  <2> QED  BY <2>1, <2>3, <2>4, <2>5, <1>3 DEF IsolateGranted, TypeOK
<1>4. ASSUME NEW c \in Callers, Record(c) PROVE TypeOK'
  <2>1. PICK row \in {"absent", "pending"} :
          call' = [call EXCEPT ![c] = [[call[c] EXCEPT !.stage = "recorded"] EXCEPT !.row = row]]
    BY <1>4 DEF Record, TypeOK
  <2>2. [[call[c] EXCEPT !.stage = "recorded"] EXCEPT !.row = row] \in Call
    BY DEF TypeOK, Call, Stages, RowStates
  <2>3. call' \in [Callers -> Call]  BY <2>1, <2>2 DEF TypeOK
  <2> QED  BY <2>3, <1>4 DEF Record, TypeOK, guardVars
<1>5. ASSUME NEW c \in Callers, Dispatch(c) PROVE TypeOK'
  <2>0. call \in [Callers -> Call] /\ call[c] \in Call  BY DEF TypeOK
  <2>1. \E r \in Call : call' = [call EXCEPT ![c] = r]
    <3> DEFINE done == [call[c] EXCEPT !.stage = "sent", !.published = TRUE, !.marked = TRUE]
               not == [call[c] EXCEPT !.stage = "unsent"]
               mark == [call[c] EXCEPT !.stage = "unsent", !.marked = TRUE]
               pub == [call[c] EXCEPT !.stage = "unsent", !.published = TRUE]
    <3>1. done \in Call /\ not \in Call /\ mark \in Call /\ pub \in Call
      BY <2>0 DEF Call, Stages
    <3>2. \/ call' = [call EXCEPT ![c] = done] \/ call' = [call EXCEPT ![c] = not]
          \/ call' = [call EXCEPT ![c] = mark] \/ call' = [call EXCEPT ![c] = pub]
      BY <1>5, <2>0 DEF Dispatch
    <3> HIDE DEF done, not, mark, pub
    <3> QED  BY <3>1, <3>2
  <2>3. call' \in [Callers -> Call]  BY <2>0, <2>1
  <2> QED  BY <2>3, <1>5 DEF Dispatch, TypeOK, guardVars
<1>6. ASSUME NEW c \in Callers, Complete(c) PROVE TypeOK'
  <2> DEFINE out == IF call[c].stage = "sent" THEN "dispatched" ELSE "disabled"
  <2>1. PICK row \in IF call[c].row = "absent" THEN {"absent"}
                     ELSE {call[c].row, Completion(call[c].stage)} :
          call' = [call EXCEPT ![c].stage = "done", ![c].row = row, ![c].outcome = out]
    BY <1>6 DEF Complete
  <2>2. row \in RowStates /\ out \in Outcomes
    BY <2>1 DEF Completion, TypeOK, Call, RowStates, Outcomes
  <2> HIDE DEF out
  <2>3. [call[c] EXCEPT !.stage = "done", !.row = row, !.outcome = out] \in Call
    BY <2>2 DEF TypeOK, Call, Stages
  <2>4. call' = [call EXCEPT ![c] = [call[c] EXCEPT !.stage = "done", !.row = row, !.outcome = out]]
    BY <2>1 DEF TypeOK
  <2>5. call' \in [Callers -> Call]  BY <2>3, <2>4 DEF TypeOK
  <2> QED  BY <2>5, <1>6 DEF Complete, TypeOK, guardVars
<1>7. CASE Tick  BY <1>7 DEF Tick, TypeOK, guardVars
<1>8. CASE Restart
  <2>1. grants' \in Seq(Grant) /\ recent' \subseteq 1..Len(grants')
    BY <1>8 DEF Restart, Fresh
  <2>2. call' \in [Callers -> Call]
    BY <1>8 DEF Restart, Fresh, Call, Stages, Origins, Outcomes, RowStates
  <2> QED  BY <1>8, <2>1, <2>2 DEF Restart, Fresh, TypeOK
<1>9. CASE UNCHANGED vars  BY <1>9 DEF vars, guardVars, TypeOK
<1> QED  BY <1>1, <1>2, <1>3, <1>4, <1>5, <1>6, <1>7, <1>8, <1>9 DEF Next, HostKnown

-----------------------------------------------------------------------------
\* Steps that leave the guard and the clock alone, but for pruning.
LEMMA GuardPruned ==
  ASSUME TypeOK, GuardInv, UNCHANGED <<clock, lastByAgent, grants>>,
         recent' = recent \/ recent' = Kept
  PROVE  GuardInv'
<1>1. GrantsPast' /\ LastIsLatest' /\ CooldownHolds'
  BY DEF GuardInv, GrantsPast, LastIsLatest, CooldownHolds
<1>2. RecentComplete'  BY DEF GuardInv, RecentComplete, Kept
<1>3. BudgetHolds'  BY DEF GuardInv, BudgetHolds, GrantsIn
<1> QED  BY <1>1, <1>2, <1>3 DEF GuardInv

\* The clock moves on: the window of the new instant holds no new grant.
LEMMA GuardTick ==
  ASSUME TypeOK, GuardInv, Tick
  PROVE  GuardInv'
<1>0. clock \in Nat /\ clock' = clock + 1 /\ grants' = grants /\ UNCHANGED <<lastByAgent, recent>>
  BY DEF Tick, TypeOK, guardVars
<1>1. GrantsPast'  BY <1>0, GrantTypes DEF GuardInv, GrantsPast
<1>2. RecentComplete'
  BY <1>0, GrantTypes, GatekeeperAssumption DEF GuardInv, RecentComplete
<1>3. LastIsLatest' /\ CooldownHolds'  BY <1>0 DEF GuardInv, LastIsLatest, CooldownHolds
<1>4. BudgetHolds'
  <2> SUFFICES ASSUME NEW t \in 0..(clock + 1) PROVE Cardinality(GrantsIn(t)) <= Budget
    BY <1>0 DEF BudgetHolds, GrantsIn
  <2>1. CASE t <= clock  BY <2>1, <1>0 DEF GuardInv, BudgetHolds
  <2>2. CASE t = clock + 1
    <3>1. GrantsIn(t) \in SUBSET GrantsIn(clock)
      BY <2>2, <1>0, GrantTypes, GatekeeperAssumption DEF GrantsIn, GuardInv, GrantsPast
    <3>2. IsFiniteSet(GrantsIn(clock)) /\ Cardinality(GrantsIn(clock)) \in Nat
          /\ Cardinality(GrantsIn(t)) \in Nat
      BY <1>0, GrantSetsFinite
    <3>3. Cardinality(GrantsIn(t)) <= Cardinality(GrantsIn(clock))
      BY <3>1, <3>2, FS_Subset
    <3>4. Cardinality(GrantsIn(clock)) <= Budget
      BY <1>0 DEF GuardInv, BudgetHolds
    <3> QED  BY <3>2, <3>3, <3>4, GatekeeperAssumption
  <2> QED  BY <2>1, <2>2, <1>0
<1> QED  BY <1>1, <1>2, <1>3, <1>4 DEF GuardInv

\* guard.allow books a grant: the endpoint has cooled down, and the window that
\* ends now held less than the budget.
LEMMA GuardGranted ==
  ASSUME TypeOK, GuardInv, NEW c \in Callers, NEW a \in Agents, NEW o \in Origins,
         NEW named \in BOOLEAN, IsolateGranted(c, a, o, named)
  PROVE  GuardInv'
<1> DEFINE n == Len(grants)
<1>0. /\ clock \in Nat /\ clock' = clock /\ n \in Nat
      /\ lastByAgent \in [Agents -> Nat \cup {None}]
      /\ lastByAgent' = [lastByAgent EXCEPT ![a] = clock]
      /\ recent' = Kept \cup {n + 1}
  BY GrantTypes DEF TypeOK, IsolateGranted, Booked
<1>1. /\ Len(grants') = n + 1
      /\ \A s \in 1..n : grants'[s] = grants[s]
      /\ grants'[n + 1].agent = a /\ grants'[n + 1].time = clock
  <2>1. grants \in Seq(Grant)  BY DEF TypeOK
  <2>2. grants' = Append(grants, [agent |-> a, time |-> clock, named |-> named])  BY DEF IsolateGranted
  <2>3. [agent |-> a, time |-> clock, named |-> named] \in Grant  BY <1>0 DEF Grant
  <2>4. grants'[n + 1] = [agent |-> a, time |-> clock, named |-> named]  BY <2>1, <2>2, <2>3
  <2> QED  BY <2>1, <2>2, <2>3, <2>4
<1>2. \A s \in 1..(n + 1) : s \in 1..n \/ s = n + 1  BY <1>0
<1>3. \A s \in 1..n : grants[s].agent \in Agents /\ grants[s].time \in Nat
  BY GrantTypes
<1>4. \A s \in 1..n : grants[s].time <= clock  BY DEF GuardInv, GrantsPast
<1> HIDE DEF n
<1>5. GrantsPast'
  BY <1>0, <1>1, <1>2, <1>4 DEF GrantsPast
<1>6. RecentComplete'
  <2>1. \A s \in 1..n : grants[s].time > clock - Window => s \in Kept
    BY DEF GuardInv, RecentComplete, Kept, n
  <2> QED  BY <2>1, <1>0, <1>1, <1>2 DEF RecentComplete
<1>7. LastIsLatest'
  <2>1. ASSUME NEW s \in 1..(n + 1)
        PROVE  /\ lastByAgent'[grants'[s].agent] # None
               /\ grants'[s].time <= lastByAgent'[grants'[s].agent]
    <3>1. CASE s = n + 1
      BY <3>1, <1>0, <1>1, GatekeeperAssumption
    <3>2. CASE s \in 1..n
      <4>1. lastByAgent[grants[s].agent] # None /\ grants[s].time <= lastByAgent[grants[s].agent]
        BY <3>2 DEF GuardInv, LastIsLatest, n
      <4> QED  BY <3>2, <4>1, <1>0, <1>1, <1>3, <1>4, GatekeeperAssumption
    <3> QED  BY <3>1, <3>2, <1>2
  <2>2. ASSUME NEW b \in Agents, lastByAgent'[b] # None
        PROVE  \E s \in 1..(n + 1) : grants'[s].agent = b /\ grants'[s].time = lastByAgent'[b]
    <3>1. CASE b = a
      <4>1. n + 1 \in 1..(n + 1)  BY <1>0
      <4> QED  BY <3>1, <4>1, <1>0, <1>1
    <3>2. CASE b # a
      <4>1. lastByAgent'[b] = lastByAgent[b]  BY <3>2, <1>0
      <4>2. PICK s \in 1..n : grants[s].agent = b /\ grants[s].time = lastByAgent[b]
        BY <4>1, <2>2 DEF GuardInv, LastIsLatest, n
      <4>3. s \in 1..(n + 1)  BY <1>0
      <4> QED  BY <4>1, <4>2, <4>3, <1>1
    <3> QED  BY <3>1, <3>2
  <2> QED  BY <2>1, <2>2, <1>1 DEF LastIsLatest
<1>8. CooldownHolds'
  <2> SUFFICES ASSUME NEW s \in 1..(n + 1), NEW u \in 1..(n + 1), s < u,
                      grants'[s].agent = grants'[u].agent
               PROVE  grants'[u].time - grants'[s].time >= Cooldown
    BY <1>1 DEF CooldownHolds
  <2>0. s \in 1..n  BY <1>0
  <2>1. CASE u \in 1..n
    BY <2>0, <2>1, <1>1 DEF GuardInv, CooldownHolds, n
  <2>2. CASE u = n + 1
    <3>1. grants[s].agent = a  BY <2>0, <2>2, <1>1
    <3>2. lastByAgent[a] # None /\ grants[s].time <= lastByAgent[a]
      BY <2>0, <3>1 DEF GuardInv, LastIsLatest, n
    <3>3. clock - lastByAgent[a] >= Cooldown
      BY <3>2, <1>0, GatekeeperAssumption DEF IsolateGranted, Cooling
    <3> QED  BY <2>0, <2>2, <3>2, <3>3, <1>0, <1>1, <1>3, GatekeeperAssumption
  <2> QED  BY <2>1, <2>2, <1>2
<1>9. BudgetHolds'
  <2> SUFFICES ASSUME NEW t \in 0..clock PROVE Cardinality(GrantsIn(t)') <= Budget
    BY <1>0 DEF BudgetHolds
  <2>1. Cardinality(GrantsIn(t)) <= Budget  BY DEF GuardInv, BudgetHolds
  <2>2. CASE t < clock
    <3>1. GrantsIn(t)' = GrantsIn(t)
      BY <2>2, <1>0, <1>1, <1>2, GatekeeperAssumption DEF GrantsIn, n
    <3> QED  BY <2>1, <3>1
  <2>3. CASE t = clock
    <3>1. GrantsIn(t) = Kept  BY <2>3, KeptIsWindow DEF GuardInv
    <3>2. GrantsIn(t)' = Kept \cup {n + 1}
      <4>1. GrantsIn(t)' = GrantsIn(t) \cup {n + 1}
        BY <2>3, <1>0, <1>1, <1>2, GatekeeperAssumption DEF GrantsIn, n
      <4> QED  BY <4>1, <3>1
    <3>3. IsFiniteSet(Kept) /\ Cardinality(Kept) \in Nat  BY <1>0, GrantSetsFinite
    <3>4. Cardinality(Kept) < Budget
      BY <3>3, GatekeeperAssumption DEF IsolateGranted, Spent
    <3>5. Cardinality(Kept \cup {n + 1}) <= Cardinality(Kept) + 1
      <4>1. Cardinality(Kept \cup {n + 1}) =
              IF n + 1 \in Kept THEN Cardinality(Kept) ELSE Cardinality(Kept) + 1
        BY <3>3, FS_AddElement
      <4> QED  BY <4>1, <3>3
    <3>6. IsFiniteSet(Kept \cup {n + 1})  BY <3>3, FS_AddElement
    <3>7. Cardinality(Kept \cup {n + 1}) \in Nat  BY <3>6, FS_CardinalityType
    <3> QED  BY <3>2, <3>3, <3>4, <3>5, <3>7, GatekeeperAssumption
  <2> QED  BY <2>2, <2>3, <1>0
<1> QED  BY <1>5, <1>6, <1>7, <1>8, <1>9 DEF GuardInv

LEMMA GuardStep == TypeOK /\ GuardInv /\ [Next]_vars => GuardInv'
<1> SUFFICES ASSUME TypeOK, GuardInv, [Next]_vars PROVE GuardInv'
  OBVIOUS
<1>1. ASSUME NEW c \in Callers, NEW a \in Agents, NEW o \in Origins, NEW named \in BOOLEAN,
             Attended(c, a, o) \/ IsolateOff(c, a, o, named) \/ IsolateRefused(c, a, o, named)
      PROVE  GuardInv'
  BY <1>1, GuardPruned DEF Attended, IsolateOff, IsolateRefused, guardVars
<1>2. ASSUME NEW c \in Callers, NEW a \in Agents, NEW o \in Origins, NEW named \in BOOLEAN,
             IsolateGranted(c, a, o, named)
      PROVE  GuardInv'
  BY <1>2, GuardGranted
<1>3. ASSUME NEW c \in Callers, Record(c) \/ Dispatch(c) \/ Complete(c) PROVE GuardInv'
  BY <1>3, GuardPruned DEF Record, Dispatch, Complete, guardVars
<1>4. CASE Tick  BY <1>4, GuardTick
<1>5. CASE Restart
  <2>1. /\ Len(grants') = 0 /\ 1..Len(grants') = {} /\ clock' \in Nat
        /\ lastByAgent' = [a \in Agents |-> None]
    BY <1>5 DEF Restart, Fresh, TypeOK
  <2>2. BudgetHolds'
    <3>1. \A t \in 0..clock' : GrantsIn(t)' = {}  BY <2>1 DEF GrantsIn
    <3>2. Cardinality({}) = 0  BY FS_EmptySet
    <3> QED  BY <3>1, <3>2, GatekeeperAssumption DEF BudgetHolds
  <2>3. GrantsPast' /\ RecentComplete' /\ LastIsLatest' /\ CooldownHolds'
    BY <2>1 DEF GrantsPast, RecentComplete, LastIsLatest, CooldownHolds
  <2> QED  BY <2>2, <2>3 DEF GuardInv
<1>6. CASE UNCHANGED vars  BY <1>6, GuardPruned DEF vars, guardVars
<1> QED  BY <1>1, <1>2, <1>3, <1>4, <1>5, <1>6 DEF Next, HostKnown

-----------------------------------------------------------------------------
\* A caller that starts a request, or is done with it at once, keeps CallInv,
\* if a request that goes on unattended is given a new grant.
LEMMA ServeInv ==
  ASSUME TypeOK, CallInv, NEW c \in Callers, NEW a \in Agents, NEW o \in Origins,
         NEW stage, NEW outcome, NEW row, NEW grant \in Nat,
         Serve(c, a, o, stage, outcome, row, grant),
         cfg' = cfg, Len(grants') \in Nat, Len(grants) <= Len(grants'),
         \A s \in 1..Len(grants) : grants'[s] = grants[s],
         grant = 0 \/ (grant = Len(grants) + 1 /\ grant <= Len(grants')),
         \/ stage = "allowed" /\ outcome = "none" /\ row = "absent"
         \/ stage = "done" /\ row \in {"absent", "suppressed"},
         Unattended(o) /\ stage = "allowed" =>
           /\ cfg.enabled /\ ~cfg.dryRun
           /\ grant # 0 /\ grants'[grant].agent = a /\ Spared(grants'[grant])
  PROVE  CallInv'
<1>1. /\ call'[c].stage = stage /\ call'[c].agent = a /\ call'[c].origin = o
      /\ call'[c].outcome = outcome /\ call'[c].row = row /\ call'[c].published = FALSE
      /\ call'[c].marked = FALSE /\ call'[c].grant = grant
      /\ \A d \in Callers \ {c} : call'[d] = call[d]
  BY DEF Serve, TypeOK
<1>2. Len(grants) \in Nat  BY GrantTypes
<1>3. \A d \in Callers : call[d].grant \in 0..Len(grants)  BY DEF CallInv, GrantInv
<1>4. ASSUME NEW d \in Callers PROVE StageInv(d)'
  <2>1. CASE d = c  BY <2>1, <1>1 DEF StageInv, InFlight
  <2>2. CASE d # c  BY <2>2, <1>1 DEF StageInv, CallInv
  <2> QED  BY <2>1, <2>2
<1>5. ASSUME NEW d \in Callers PROVE GrantInv(d)'
  <2>1. call'[d].grant \in 0..Len(grants')
    <3>1. CASE d = c  BY <3>1, <1>1
    <3>2. CASE d # c  BY <3>2, <1>1, <1>2, <1>3
    <3> QED  BY <3>1, <3>2
  <2>2. ASSUME NEW e \in Callers, call'[d].grant # 0, call'[e].grant = call'[d].grant
        PROVE  e = d
    <3>1. CASE d # c /\ e # c
      BY <3>1, <2>2, <1>1 DEF CallInv, GrantInv
    <3>2. CASE d = c /\ e # c  BY <3>2, <2>2, <1>1, <1>2, <1>3
    <3>3. CASE d # c /\ e = c  BY <3>3, <2>2, <1>1, <1>2, <1>3
    <3> QED  BY <3>1, <3>2, <3>3
  <2>3. ASSUME Unattended(call'[d].origin),
               call'[d].stage \in InFlight \/ call'[d].published \/ call'[d].marked
        PROVE  /\ cfg'.enabled /\ ~cfg'.dryRun
               /\ call'[d].grant # 0 /\ grants'[call'[d].grant].agent = call'[d].agent
               /\ Spared(grants'[call'[d].grant])
    <3>1. CASE d = c  BY <3>1, <2>3, <1>1 DEF InFlight
    <3>2. CASE d # c
      <4>1. call'[d] = call[d]  BY <3>2, <1>1
      <4>2. /\ cfg.enabled /\ ~cfg.dryRun
            /\ call[d].grant # 0 /\ grants[call[d].grant].agent = call[d].agent
            /\ Spared(grants[call[d].grant])
        BY <4>1, <2>3 DEF CallInv, GrantInv
      <4>3. call[d].grant \in 1..Len(grants)  BY <4>2, <1>2, <1>3
      <4> QED  BY <4>1, <4>2, <4>3
    <3> QED  BY <3>1, <3>2
  <2> QED  BY <2>1, <2>2, <2>3 DEF GrantInv, Unattended, Spared, Exempt
<1> QED  BY <1>4, <1>5 DEF CallInv

\* A caller that moves on with its request keeps CallInv.
LEMMA ProgressInv ==
  ASSUME TypeOK, CallInv, NEW c \in Callers, UNCHANGED <<cfg, grants>>,
         \A d \in Callers \ {c} : call'[d] = call[d],
         call[c].stage \in InFlight,
         /\ call'[c].agent = call[c].agent /\ call'[c].origin = call[c].origin
         /\ call'[c].grant = call[c].grant,
         StageInv(c)'
  PROVE  CallInv'
<1>1. ASSUME NEW d \in Callers PROVE StageInv(d)'
  <2>1. CASE d # c  BY <2>1 DEF CallInv, StageInv
  <2> QED  BY <2>1
<1>2. ASSUME NEW d \in Callers PROVE GrantInv(d)'
  <2>1. \A e \in Callers : call'[e].grant = call[e].grant  OBVIOUS
  <2>2. CASE d = c  BY <2>1, <2>2 DEF CallInv, GrantInv, Spared, Exempt
  <2>3. CASE d # c  BY <2>1, <2>3 DEF CallInv, GrantInv, Spared, Exempt
  <2> QED  BY <2>2, <2>3
<1> QED  BY <1>1, <1>2 DEF CallInv

LEMMA CallStep == TypeOK /\ CallInv /\ [Next]_vars => CallInv'
<1> SUFFICES ASSUME TypeOK, CallInv, [Next]_vars PROVE CallInv'
  OBVIOUS
<1>n. Len(grants) \in Nat  BY GrantTypes
<1>1. ASSUME NEW c \in Callers, NEW a \in Agents, NEW o \in Origins, NEW named \in BOOLEAN,
             Attended(c, a, o) \/ IsolateOff(c, a, o, named) \/ IsolateRefused(c, a, o, named)
      PROVE  CallInv'
  <2>1. cfg' = cfg /\ grants' = grants
    BY <1>1 DEF Attended, IsolateOff, IsolateRefused, guardVars
  <2>2. \/ ~Unattended(o) /\ Serve(c, a, o, "allowed", "none", "absent", 0)
        \/ \E out \in Outcomes, row \in {"absent", "suppressed"} : Serve(c, a, o, "done", out, row, 0)
    BY <1>1 DEF Attended, IsolateOff, IsolateRefused, PassOn, Suppress, Outcomes
  <2>3. CASE ~Unattended(o) /\ Serve(c, a, o, "allowed", "none", "absent", 0)
    BY <2>1, <2>3, <1>n, ServeInv
  <2>4. ASSUME NEW out \in Outcomes, NEW row \in {"absent", "suppressed"},
               Serve(c, a, o, "done", out, row, 0)
        PROVE  CallInv'
    BY <2>1, <2>4, <1>n, ServeInv
  <2> QED  BY <2>2, <2>3, <2>4
<1>2. ASSUME NEW c \in Callers, NEW a \in Agents, NEW o \in Origins, NEW named \in BOOLEAN,
             IsolateGranted(c, a, o, named)
      PROVE  CallInv'
  <2> DEFINE n == Len(grants) + 1
  <2>1. cfg' = cfg /\ n \in Nat  BY <1>2, <1>n DEF IsolateGranted
  <2>2. /\ Len(grants') = n /\ grants'[n].agent = a /\ grants'[n].named = named
        /\ \A s \in 1..Len(grants) : grants'[s] = grants[s]
    <3>1. grants \in Seq(Grant) /\ [agent |-> a, time |-> clock, named |-> named] \in Grant
      BY DEF TypeOK, Grant
    <3>2. grants' = Append(grants, [agent |-> a, time |-> clock, named |-> named])  BY <1>2 DEF IsolateGranted
    <3>3. grants'[n] = [agent |-> a, time |-> clock, named |-> named]  BY <3>1, <3>2
    <3> QED  BY <3>1, <3>2, <3>3
  <2>3. \/ /\ Serve(c, a, o, "allowed", "none", "absent", n)
           /\ cfg.enabled /\ ~cfg.dryRun /\ Spared(grants'[n])
        \/ \E out \in Outcomes, row \in {"absent", "suppressed"} : Serve(c, a, o, "done", out, row, n)
    BY <1>2, <2>2 DEF IsolateGranted, AtGuard, PassOn, Suppress, Outcomes, Spared
  <2>4. n # 0 /\ Len(grants) <= Len(grants') /\ n <= Len(grants') /\ Len(grants') \in Nat
    BY <1>n, <2>2
  <2> HIDE DEF n
  <2>5. n = Len(grants) + 1  BY DEF n
  <2>6. CASE /\ Serve(c, a, o, "allowed", "none", "absent", n)
             /\ cfg.enabled /\ ~cfg.dryRun /\ Spared(grants'[n])
    BY <2>1, <2>2, <2>4, <2>5, <2>6, ServeInv
  <2>7. ASSUME NEW out \in Outcomes, NEW row \in {"absent", "suppressed"},
               Serve(c, a, o, "done", out, row, n)
        PROVE  CallInv'
    BY <2>1, <2>2, <2>4, <2>5, <2>7, ServeInv
  <2> QED  BY <2>3, <2>6, <2>7
<1>3. ASSUME NEW c \in Callers, Record(c) \/ Dispatch(c) \/ Complete(c) PROVE CallInv'
  <2>1. UNCHANGED <<cfg, grants>>  BY <1>3 DEF Record, Dispatch, Complete, guardVars
  <2>2. call[c].stage \in InFlight  BY <1>3 DEF Record, Dispatch, Complete, InFlight
  <2>3. /\ \A d \in Callers \ {c} : call'[d] = call[d]
        /\ call'[c].agent = call[c].agent /\ call'[c].origin = call[c].origin
        /\ call'[c].grant = call[c].grant
    <3>1. call[c] \in Call /\ call \in [Callers -> Call]  BY DEF TypeOK
    <3>2. CASE Record(c)  BY <3>1, <3>2 DEF Record, Call
    <3>3. CASE Dispatch(c)  BY <3>1, <3>3 DEF Dispatch, Call
    <3>4. CASE Complete(c)  BY <3>1, <3>4 DEF Complete, Call
    <3> QED  BY <1>3, <3>2, <3>3, <3>4
  <2>4. StageInv(c)'
    <3>0. StageInv(c)  BY DEF CallInv
    <3>1. CASE Record(c)  BY <3>0, <3>1 DEF Record, StageInv, InFlight, TypeOK, Call
    <3>2. CASE Dispatch(c)  BY <3>0, <3>2 DEF Dispatch, StageInv, InFlight, TypeOK, Call
    <3>3. CASE Complete(c)
      BY <3>0, <3>3 DEF Complete, Completion, StageInv, InFlight, TypeOK, Call
    <3> QED  BY <1>3, <3>1, <3>2, <3>3
  <2> QED  BY <2>1, <2>2, <2>3, <2>4, ProgressInv
<1>4. CASE Tick \/ UNCHANGED vars
  BY <1>4 DEF Tick, vars, guardVars, CallInv, StageInv, GrantInv, Spared, Exempt
<1>5. CASE Restart
  <2>1. ASSUME NEW c \in Callers
        PROVE  /\ call'[c].stage = "idle" /\ call'[c].origin = "manual" /\ call'[c].row = "absent"
               /\ call'[c].published = FALSE /\ call'[c].marked = FALSE /\ call'[c].grant = 0
    BY <1>5 DEF Restart, Fresh
  <2>2. Len(grants') = 0  BY <1>5 DEF Restart, Fresh
  <2>3. ASSUME NEW c \in Callers PROVE StageInv(c)'
    BY <2>1 DEF StageInv, InFlight
  <2>4. ASSUME NEW c \in Callers PROVE GrantInv(c)'
    <3>0. call'[c].grant = 0  BY <2>1
    <3>1. call'[c].grant \in 0..Len(grants')  BY <3>0, <2>2
    <3>2. ~Unattended(call'[c].origin)  BY <2>1 DEF Unattended
    <3> QED  BY <3>0, <3>1, <3>2 DEF GrantInv, Unattended
  <2> QED  BY <2>3, <2>4 DEF CallInv
<1> QED  BY <1>1, <1>2, <1>3, <1>4, <1>5 DEF Next, HostKnown

-----------------------------------------------------------------------------
\* The inductive invariant of the Gatekeeper.
LEMMA GatekeeperInvariant == Spec => [](TypeOK /\ GuardInv /\ CallInv)
<1>1. Init => TypeOK /\ GuardInv /\ CallInv
  BY FreshInv, GatekeeperAssumption DEF Init
<1>2. TypeOK /\ GuardInv /\ CallInv /\ [Next]_vars => (TypeOK /\ GuardInv /\ CallInv)'
  BY TypeStep, GuardStep, CallStep
<1> QED  BY <1>1, <1>2, PTL DEF Spec

\* Type correctness of the Gatekeeper.
THEOREM GatekeeperTypes == Spec => []TypeOK
  BY GatekeeperInvariant, PTL

\* guard.allow never lets more than the budget through in any window, for every
\* number of concurrent callers and every budget and window.
THEOREM BudgetTheorem == Spec => []BudgetHolds
<1>1. GuardInv => BudgetHolds  BY DEF GuardInv
<1> QED  BY <1>1, GatekeeperInvariant, PTL

\* guard.allow never lets an endpoint through twice within a cooldown.
THEOREM CooldownTheorem == Spec => []CooldownHolds
<1>1. GuardInv => CooldownHolds  BY DEF GuardInv
<1> QED  BY <1>1, GatekeeperInvariant, PTL

\* No unattended isolation is published without its own grant.
THEOREM ValvesTheorem == Spec => []SentUnderGrant
<1>1. TypeOK /\ CallInv => SentUnderGrant
  <2> SUFFICES ASSUME TypeOK, CallInv, NEW c \in Callers,
                      call[c].published \/ call[c].marked,
                      call[c].origin \notin {"manual", "release"}
               PROVE  /\ cfg.enabled /\ ~cfg.dryRun
                      /\ call[c].grant \in 1..Len(grants)
                      /\ grants[call[c].grant].agent = call[c].agent
                      /\ Spared(grants[call[c].grant])
                      /\ \A d \in Callers : call[d].grant = call[c].grant => d = c
    BY DEF SentUnderGrant, Spared
  <2>1. GrantInv(c) /\ Unattended(call[c].origin)  BY DEF CallInv, Unattended, TypeOK, Call, Origins
  <2>2. call[c].grant # 0 /\ call[c].grant \in 0..Len(grants)  BY <2>1 DEF GrantInv
  <2>l. Len(grants) \in Nat  BY GrantTypes
  <2>3. call[c].grant \in 1..Len(grants)  BY <2>2, <2>l
  <2>4. \A d \in Callers : call[d].grant = call[c].grant => d = c  BY <2>1, <2>2 DEF GrantInv
  <2> QED  BY <2>1, <2>3, <2>4 DEF GrantInv
<1> QED  BY <1>1, GatekeeperInvariant, PTL

\* response_actions never claims more than what happened.
THEOREM RowsTheorem == Spec => []RowsTellTruth
<1>1. CallInv => RowsTellTruth  BY DEF CallInv, StageInv, RowsTellTruth
<1> QED  BY <1>1, GatekeeperInvariant, PTL

\* guard.allow refuses only for a reason that is real at that instant.
THEOREM RefusalTheorem == Spec => RefusalJustified
<1> DEFINE Justified ==
      \A c \in Callers : call'[c].outcome = "refused" /\ call'[c] # call[c]
        => RecentlyIsolated(call'[c].agent) \/ Cardinality(GrantsIn(clock)) >= Budget
<1>1. TypeOK /\ GuardInv /\ CallInv /\ [Next]_vars => [Justified]_vars
  <2> SUFFICES ASSUME TypeOK, GuardInv, CallInv, Next, NEW c \in Callers,
                      call'[c].outcome = "refused", call'[c] # call[c]
               PROVE  RecentlyIsolated(call'[c].agent) \/ Cardinality(GrantsIn(clock)) >= Budget
    OBVIOUS
  <2>1. ASSUME NEW d \in Callers, NEW a \in Agents, NEW o \in Origins, NEW named \in BOOLEAN,
               Attended(d, a, o) \/ IsolateOff(d, a, o, named) \/ IsolateGranted(d, a, o, named)
        PROVE  FALSE
    BY <2>1 DEF Attended, IsolateOff, IsolateGranted, PassOn, Suppress, Serve, TypeOK
  <2>2. ASSUME NEW d \in Callers, NEW a \in Agents, NEW o \in Origins, NEW named \in BOOLEAN,
             IsolateRefused(d, a, o, named)
        PROVE  RecentlyIsolated(call'[c].agent) \/ Cardinality(GrantsIn(clock)) >= Budget
    <3>1. d = c /\ call'[c].agent = a
      BY <2>2 DEF IsolateRefused, Suppress, Serve, TypeOK
    <3>2. CASE Cooling(a)
      <4>1. PICK s \in 1..Len(grants) : grants[s].agent = a /\ grants[s].time = lastByAgent[a]
        BY <3>2 DEF Cooling, GuardInv, LastIsLatest
      <4> QED  BY <3>1, <3>2, <4>1 DEF Cooling, RecentlyIsolated
    <3>3. CASE Spent
      BY <3>3, KeptIsWindow DEF Spent, GuardInv
    <3> QED  BY <2>2, <3>2, <3>3 DEF IsolateRefused
  <2>3. ASSUME NEW d \in Callers, Record(d) \/ Dispatch(d) \/ Complete(d) PROVE FALSE
    <3>1. \A e \in Callers : call[e].stage \in InFlight => call[e].outcome = "none"
      BY DEF CallInv, StageInv
    <3>2. call[d].stage \in InFlight  BY <2>3 DEF Record, Dispatch, Complete, InFlight
    <3>3. d = c  BY <2>3 DEF Record, Dispatch, Complete, TypeOK
    <3>4. call'[c].outcome \in {"none", "dispatched", "disabled"}
      <4>1. call[c].outcome = "none" /\ call[c] \in Call /\ call \in [Callers -> Call]
        BY <3>1, <3>2, <3>3 DEF TypeOK
      <4>2. CASE Record(c)  BY <4>1, <4>2 DEF Record, Call
      <4>3. CASE Dispatch(c)  BY <4>1, <4>3 DEF Dispatch, Call
      <4>4. CASE Complete(c)  BY <4>1, <4>4 DEF Complete, Call
      <4> QED  BY <2>3, <3>3, <4>2, <4>3, <4>4
    <3> QED  BY <3>4
  <2>4. CASE Tick  BY <2>4 DEF Tick
  <2>5. CASE Restart  BY <2>5 DEF Restart, Fresh
  <2> QED  BY <2>1, <2>2, <2>3, <2>4, <2>5 DEF Next, HostKnown
<1> QED  BY <1>1, GatekeeperInvariant, PTL DEF Spec, RefusalJustified

=============================================================================
