---------------------------- MODULE Correlation ----------------------------
(***************************************************************************)
(* The correlation engine (server/internal/correlation/engine.go).  It     *)
(* keeps, in the memory of one API server, a sliding window of alerts for  *)
(* each rule and the incidents it has raised.  The whole of ProcessAlert   *)
(* runs under e.mu; an incident is stored by a goroutine afterwards.       *)
(*                                                                         *)
(* An alert is a record.  Of its content the fields agent and rules are    *)
(* used, the rules being the ones that eventMatchesRule accepts it for.    *)
(***************************************************************************)
EXTENDS Integers, FiniteSets

CONSTANTS
  Rules,      \* how many rules there are, in the order of e.rules
  MinEvents,  \* the threshold of each
  Scope       \* what its description says: "same" agent, "spread" over as many
              \* agents as the threshold says, or "any"

ASSUME CorrelationAssumption ==
  /\ Rules \in Nat /\ MinEvents \in [1..Rules -> Nat \ {0}]
  /\ Scope \in [1..Rules -> {"same", "spread", "any"}]

VARIABLES
  buffer,    \* e.eventBuffer
  incident,  \* the alerts of the open incident of each rule; none: no incident
  unsaved,   \* rules whose persistIncident has not run yet
  life,      \* how often the server has started
  rows       \* the table incidents

memory == <<buffer, incident, unsaved>>
correlation == <<memory, life, rows>>

EmptyMemory(b, i, u) ==
  /\ b = [k \in 1..Rules |-> {}] /\ i = [k \in 1..Rules |-> {}] /\ u = {}

CorrelationInit == EmptyMemory(buffer, incident, unsaved) /\ life = 0 /\ rows = {}

----------------------------------------------------------------------------

\* Defect: the rule of the incident is not looked at.
HasOpenIncidentAny(k) == \E j \in 1..Rules : incident[j] # {}

\* Nothing in the server sets the status of an incident in memory, so that every
\* one is open.
HasOpenIncident(k) == incident[k] # {}

Reaches(k, window) == Cardinality(window) >= MinEvents[k]

AppendAlertToIncident(k, a) == IF incident[k] = {} THEN {} ELSE incident[k] \cup {a}

\* The rules are gone through in order.  One that raises an incident ends the
\* loop; the later ones do not see the alert.
ProcessAlert(a) ==
  LET Window(k) == buffer[k] \cup {a}
      Full    == {k \in a.rules : Reaches(k, Window(k))}
      New     == {k \in Full : ~HasOpenIncident(k)}
      Reached == {k \in a.rules : \A j \in New : k <= j}
  IN  /\ buffer' = [k \in 1..Rules |-> IF k \in Reached THEN Window(k) ELSE buffer[k]]
      /\ incident' = [k \in 1..Rules |->
                        IF k \notin Reached \cap Full THEN incident[k]
                        ELSE IF k \in New THEN Window(k) ELSE AppendAlertToIncident(k, a)]
      /\ unsaved' = unsaved \cup (New \cap Reached)
      /\ UNCHANGED <<life, rows>>

\* An alert becomes older than the time window of the rule: it is pruned before
\* anyone counts it again.
Expire(k, a) ==
  /\ a \in buffer[k]
  /\ buffer' = [buffer EXCEPT ![k] = @ \ {a}]
  /\ UNCHANGED <<incident, unsaved, life, rows>>

\* The goroutine reads the incident when it runs, with what was appended by then.
PersistIncident(k) ==
  /\ k \in unsaved
  /\ unsaved' = unsaved \ {k}
  /\ rows' = rows \cup {[rule |-> k, life |-> life, alerts |-> incident[k],
                         status |-> "open", atClose |-> {}]}
  /\ UNCHANGED <<buffer, incident, life>>

PersistFails(k) ==
  /\ k \in unsaved
  /\ unsaved' = unsaved \ {k}
  /\ UNCHANGED <<buffer, incident, life, rows>>

\* IncidentStore.Update: an analyst closes the row.
CloseIncident(row) ==
  /\ row.status = "open"
  /\ rows' = (rows \ {row}) \cup
               {[row EXCEPT !.status = "closed",
                            !.atClose = IF row.life = life THEN incident[row.rule] ELSE {}]}
  /\ UNCHANGED <<memory, life>>

\* NewEngine in the next process: windows and incidents are forgotten.
NewEngine ==
  /\ EmptyMemory(buffer', incident', unsaved')
  /\ life' = life + 1
  /\ UNCHANGED rows

----------------------------------------------------------------------------
(* Properties of the engine alone. *)

CorrelationTypeOK(Alerts) ==
  /\ buffer \in [1..Rules -> SUBSET Alerts] /\ incident \in [1..Rules -> SUBSET Alerts]
  /\ unsaved \subseteq {k \in 1..Rules : incident[k] # {}}
  /\ life \in Nat
  /\ \A row \in rows : /\ row.rule \in 1..Rules /\ row.life \in 0..life
                       /\ row.alerts \subseteq Alerts /\ row.status \in {"open", "closed"}

\* A rule whose window holds as many alerts as its threshold has an incident,
\* whatever incidents the same alerts have raised for other rules (ProcessAlert).
ThresholdRaises == \A k \in 1..Rules : Reaches(k, buffer[k]) => incident[k] # {}

-----------------------------------------------------------------------------
(* What a comment says and the code does not keep (README, section 6). *)

\* An incident is what the description of its rule says: of one agent, or of as many
\* agents as the rule counts events (BuiltinRules).
ScopeHolds ==
  \A row \in rows :
    LET Agents == {a.agent : a \in row.alerts}
    IN  /\ Scope[row.rule] = "same" => Cardinality(Agents) = 1
        /\ Scope[row.rule] = "spread" => Cardinality(Agents) >= MinEvents[row.rule]

\* An incident that an analyst has closed takes no further alerts (ProcessAlert:
\* hasOpenIncident, appendAlertToIncident).
ClosedStaysClosed ==
  \A row \in rows : row.status = "closed" /\ row.life = life => incident[row.rule] = row.atClose

=============================================================================
