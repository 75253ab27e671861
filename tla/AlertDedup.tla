----------------------------- MODULE AlertDedup -----------------------------
(***************************************************************************)
(* The alert deduplicator (server/internal/dedup/alert_dedup.go).  Every   *)
(* API server runs one, and all of them work on the same table without     *)
(* knowing of each other.  A tick queries for groups of alerts that repeat *)
(* a title, marks the alert it keeps and closes the others one statement   *)
(* at a time, and then does the same for alerts of different titles that   *)
(* report one technique.  Analysts and the AI triage set the status of     *)
(* alerts at any moment in between.                                        *)
(*                                                                         *)
(* Time is counted in small steps and the windows in the same unit.        *)
(* created_at has the resolution of microseconds: alerts of the same step  *)
(* are ordered by rank, and may or may not have one and the same           *)
(* created_at.                                                             *)
(***************************************************************************)
EXTENDS Integers, FiniteSets, FiniteSetsExt

CONSTANTS
  Servers,    \* the API servers
  Alerts,
  Rule,        \* lower(title) of each alert
  Spelling,    \* and how the engine that raised it spells it
  Severity, Source, Technique, Agent,
  NoTechnique, \* mitre_technique is NULL or empty
  None,        \* no alert
  TitleWindow, TechniqueWindow, Interval,
  Limit,       \* the LIMIT of both queries
  MaxTime,     \* bound on time, for TLC
  MaxEdits,    \* bound on decisions of people and of the AI triage, for TLC
  MaxSlips    \* bound on failing statements, slow passes and restarts, for TLC

ASSUME DedupAssumption ==
  /\ Servers # {} /\ IsFiniteSet(Alerts) /\ None \notin Alerts
  /\ Severity \in [Alerts -> 1..10]
  /\ Interval \in Nat \ {0} /\ Limit \in Nat \ {0}
  /\ TechniqueWindow \in Nat /\ TitleWindow \in Nat /\ Interval < TechniqueWindow
  /\ MaxTime \in Nat /\ MaxEdits \in Nat /\ MaxSlips \in Nat

VARIABLES
  now,
  rank,     \* the position of each alert in the order of created_at and id, 0 if not raised
  tied,     \* the alerts whose created_at is that of the one of their severity before them
  created,  \* alerts.created_at
  status,   \* alerts.status
  key,      \* alerts.dedup_key: which pass has set it, if any
  into,     \* the alert that the note in alerts.description names
  pc,       \* where the tick of each server is
  todo,     \* its groups that are still to be merged
  cur,      \* and the one it is merging
  ticked,   \* when its last tick began
  edits, slips,
  touched,  \* history: alerts whose status a person or the AI triage has set
  recent    \* history: those of them since each server's last query

table == <<rank, tied, created, status, key, into>>
pass == <<pc, todo, cur, ticked>>
dedupVars == <<now, table, pass, edits, slips, touched, recent>>

NoGroup == [keep |-> None, dups |-> {}]
Title(a) == <<Rule[a], Spelling[a]>>
Raised == {a \in Alerts : rank[a] > 0}
MaxOf(S, n) == {T \in SUBSET S : Cardinality(T) = Min({n, Cardinality(S)})}

DedupInit ==
  /\ now = 0
  /\ rank = [a \in Alerts |-> 0] /\ tied = {} /\ created = [a \in Alerts |-> 0]
  /\ status = [a \in Alerts |-> "open"] /\ key = [a \in Alerts |-> "null"]
  /\ into = [a \in Alerts |-> None]
  /\ pc = [r \in Servers |-> "idle"] /\ todo = [r \in Servers |-> {}]
  /\ cur = [r \in Servers |-> NoGroup] /\ ticked = [r \in Servers |-> 0]
  /\ edits = 0 /\ slips = 0 /\ touched = {} /\ recent = [r \in Servers |-> {}]

Slip == slips < MaxSlips /\ slips' = slips + 1

----------------------------------------------------------------------------
(* The other writers of the table. *)

\* One of the engines stores an alert.
RaiseAlert(a) ==
  /\ rank[a] = 0
  /\ rank' = [rank EXCEPT ![a] = Cardinality(Raised) + 1]
  /\ created' = [created EXCEPT ![a] = now]
  /\ tied' \in IF \E b \in Raised : Severity[b] = Severity[a] /\ created[b] = now
                 THEN {tied, tied \cup {a}} ELSE {tied}
  /\ UNCHANGED <<now, status, key, into, pass, edits, slips, touched, recent>>

\* UpdateStatus, UpdateAlert and runAIAnalysis write the status by id, whatever
\* it was.  A false_positive is to the deduplicator what an investigating is.
SetStatus(a, s) ==
  /\ edits < MaxEdits /\ rank[a] > 0
  /\ edits' = edits + 1
  /\ status' = [status EXCEPT ![a] = s]
  /\ into' = [into EXCEPT ![a] = None]
  /\ touched' = touched \cup {a}
  /\ recent' = [r \in Servers |-> recent[r] \cup {a}]
  /\ UNCHANGED <<now, rank, tied, created, key, pass, slips>>

----------------------------------------------------------------------------
(* The two queries. *)

\* The same without status = 'open'.
TitleRowsOfAnyStatus == {a \in Raised : created[a] >= now - TitleWindow /\ key[a] = "null"}

\* WHERE of the query of deduplicate.
TitleRows == {a \in Raised : /\ status[a] = "open"
                             /\ created[a] >= now - TitleWindow
                             /\ key[a] = "null"}

SameTitle(a, b) == /\ Rule[a] = Rule[b] /\ Severity[a] = Severity[b]
                   /\ Source[a] = Source[b] /\ Agent[a] = Agent[b]

\* MIN(id) instead: any alert, as far as time goes; here the latest.
TitleKeepById(G) == CHOOSE a \in G : \A b \in G : rank[a] >= rank[b]

\* The alert that a group of the title pass keeps: the earliest.
TitleKeep(G) == CHOOSE a \in G : \A b \in G : rank[a] <= rank[b]

TitleGroups ==
  LET Groups == {{b \in TitleRows : SameTitle(a, b)} : a \in TitleRows}
  IN  {[keep |-> TitleKeep(G), dups |-> G \ {TitleKeep(G)}] :
          G \in {H \in Groups : Cardinality(H) > 1}}

\* The filter that the comment at the query says was removed.
TechniqueRowsUnmarked == {a \in Raised : /\ status[a] = "open" /\ Technique[a] # NoTechnique
                                         /\ created[a] >= now - TechniqueWindow
                                         /\ key[a] = "null"}

\* WHERE of the query of deduplicateByTechnique.
TechniqueRows == {a \in Raised : /\ status[a] = "open" /\ Technique[a] # NoTechnique
                                 /\ created[a] >= now - TechniqueWindow}

SameTechnique(a, b) == Technique[a] = Technique[b] /\ Agent[a] = Agent[b]

\* One severity, and one and the same created_at.
Twins(a, b) ==
  /\ Severity[a] = Severity[b]
  /\ {c \in Raised : /\ Severity[c] = Severity[a]
                     /\ \/ rank[a] < rank[c] /\ rank[c] <= rank[b]
                        \/ rank[b] < rank[c] /\ rank[c] <= rank[a]} \subseteq tied

\* ORDER BY severity DESC, created_at ASC: the alerts that may come first.  There is
\* no id in this order, as there is in the one of the title pass, so that there are
\* several when the earliest have the same created_at.
TechniqueKeep(G) ==
  {a \in G : \A b \in G : \/ Severity[a] > Severity[b]
                          \/ Severity[a] = Severity[b] /\ rank[a] <= rank[b]
                          \/ Twins(a, b)}

\* GROUP BY and HAVING.
TechniqueSets ==
  {G \in {{b \in TechniqueRows : SameTechnique(a, b)} : a \in TechniqueRows} :
     Cardinality({Title(a) : a \in G}) > 1}

\* The answers that the query may give.
TechniqueGroups ==
  {{[keep |-> first[G], dups |-> G \ {first[G]}] : G \in TechniqueSets} :
     first \in {f \in [TechniqueSets -> Alerts] : \A G \in TechniqueSets : f[G] \in TechniqueKeep(G)}}

----------------------------------------------------------------------------
(* A tick of one server. *)

\* What a query returns: all of the groups up to the limit, or less when it
\* fails or the rows end early.
Returns(r, groups) ==
  \/ todo' \in {[todo EXCEPT ![r] = T] : T \in MaxOf(groups, Limit)} /\ UNCHANGED slips
  \/ Slip /\ groups # {} /\ todo' \in {[todo EXCEPT ![r] = T] : T \in SUBSET groups}

Due(r) == pc[r] = "idle" /\ now - ticked[r] >= Interval

\* The ticker fires and the title pass queries.
TitleQuery(r) ==
  /\ Due(r)
  /\ pc' = [pc EXCEPT ![r] = "title"] /\ ticked' = [ticked EXCEPT ![r] = now]
  /\ Returns(r, TitleGroups)
  /\ recent' = [recent EXCEPT ![r] = {}]
  /\ UNCHANGED <<now, table, cur, edits, touched>>

PassOver(r) == todo[r] = {} /\ cur[r] = NoGroup

\* The title pass is over and the technique pass queries.
TechniqueQuery(r) ==
  /\ pc[r] = "title" /\ PassOver(r)
  /\ pc' = [pc EXCEPT ![r] = "technique"]
  /\ \E groups \in TechniqueGroups : Returns(r, groups)
  /\ recent' = [recent EXCEPT ![r] = {}]
  /\ UNCHANGED <<now, table, cur, ticked, edits, touched>>

TickOver(r) ==
  /\ pc[r] = "technique" /\ PassOver(r)
  /\ pc' = [pc EXCEPT ![r] = "idle"]
  /\ UNCHANGED <<now, table, todo, cur, ticked, edits, slips, touched, recent>>

\* The next group: its kept alert is marked, or the statement fails.
Mark(r) ==
  /\ pc[r] # "idle" /\ cur[r] = NoGroup
  /\ \E g \in todo[r] :
       /\ todo' = [todo EXCEPT ![r] = @ \ {g}]
       /\ cur' = [cur EXCEPT ![r] = g]
       /\ \/ key' = [key EXCEPT ![g.keep] = pc[r]] /\ UNCHANGED slips
          \/ Slip /\ UNCHANGED key
  /\ UNCHANGED <<now, rank, tied, created, status, into, pc, ticked, edits, touched, recent>>

\* UPDATE alerts SET status='resolved' ... WHERE id: one duplicate, by its id only.
Resolve(r, a) ==
  /\ status' = [status EXCEPT ![a] = "resolved"]
  /\ key' = [key EXCEPT ![a] = pc[r]]
  /\ into' = [into EXCEPT ![a] = cur[r].keep]

CloseDuplicate(r, a) ==
  /\ a \in cur[r].dups
  /\ cur' = [cur EXCEPT ![r] = IF @.dups = {a} THEN NoGroup
                                 ELSE [keep |-> @.keep, dups |-> @.dups \ {a}]]
  /\ \/ Resolve(r, a) /\ UNCHANGED slips
     \/ Slip /\ UNCHANGED <<status, key, into>>
  /\ UNCHANGED <<now, rank, tied, created, pc, todo, ticked, edits, touched, recent>>

----------------------------------------------------------------------------
(* The servers and the clock. *)

\* A server stops in the middle of a tick and comes back with a new ticker.
Restart(r) ==
  /\ pc[r] # "idle" /\ Slip
  /\ pc' = [pc EXCEPT ![r] = "idle"] /\ todo' = [todo EXCEPT ![r] = {}]
  /\ cur' = [cur EXCEPT ![r] = NoGroup] /\ ticked' = [ticked EXCEPT ![r] = now]
  /\ UNCHANGED <<now, table, edits, touched, recent>>

\* A tick is due before time passes, and its passes are short unless a
\* statement hangs.
Tick ==
  /\ now < MaxTime /\ ~ \E r \in Servers : Due(r)
  /\ now' = now + 1
  /\ IF \A r \in Servers : pc[r] = "idle" THEN UNCHANGED slips ELSE Slip
  /\ UNCHANGED <<table, pass, edits, touched, recent>>

DedupNext ==
  \/ Tick
  \/ \E a \in Alerts : RaiseAlert(a)
  \/ \E a \in Alerts, s \in {"open", "investigating", "resolved"} : SetStatus(a, s)
  \/ \E r \in Servers : \/ TitleQuery(r) \/ TechniqueQuery(r) \/ TickOver(r)
                         \/ Mark(r) \/ Restart(r)
                         \/ \E a \in Alerts : CloseDuplicate(r, a)

DedupSpec == DedupInit /\ [][DedupNext]_dedupVars

----------------------------------------------------------------------------
(* Properties. *)

Group == [keep : Alerts, dups : SUBSET Alerts]

\* The table and the state of every tick are well formed, and no group holds the
\* alert it keeps among the ones it closes (deduplicate and
\* deduplicateByTechnique, the loop that fills dupIDs).
DedupTypeOK ==
  /\ now \in 0..MaxTime /\ rank \in [Alerts -> 0..Cardinality(Alerts)]
  /\ tied \subseteq Alerts /\ created \in [Alerts -> 0..MaxTime]
  /\ status \in [Alerts -> {"open", "investigating", "resolved"}]
  /\ key \in [Alerts -> {"null", "title", "technique"}]
  /\ into \in [Alerts -> Alerts \cup {None}]
  /\ pc \in [Servers -> {"idle", "title", "technique"}]
  /\ todo \in [Servers -> SUBSET Group]
  /\ cur \in [Servers -> Group \cup {NoGroup}]
  /\ \A r \in Servers : \A g \in todo[r] \cup {cur[r]} : g.keep \notin g.dups
  /\ ticked \in [Servers -> 0..MaxTime]
  /\ edits \in 0..MaxEdits /\ slips \in 0..MaxSlips
  /\ touched \subseteq Alerts /\ recent \in [Servers -> SUBSET Alerts]

\* Whoever follows the notes of closed duplicates arrives at an alert that
\* deduplication has not closed, and that is no less severe: two servers, or the
\* two passes, never close each other's survivors (the keep_id of both queries
\* and the UPDATEs that close the rest).  Alerts of one severity with the very same
\* created_at are excepted: the technique query may put either first, so that two
\* servers can keep one each and close the other.
SurvivorRemains ==
  LET Merged == {a \in Alerts : into[a] # None}
  IN  /\ \A a \in Merged : Severity[into[a]] >= Severity[a]
      /\ \A S \in SUBSET Merged :
           S # {} => (\E a \in S : into[a] \notin S) \/ (\E a, b \in S : a # b /\ Twins(a, b))

\* Alerts that count as duplicates of each other and that nobody has touched.
Repeated(a, b) == a # b /\ {a, b} \subseteq Raised \ touched /\ SameTitle(a, b)
CrossEngine(a, b) == /\ {a, b} \subseteq Raised \ touched /\ SameTechnique(a, b)
                     /\ Technique[a] # NoTechnique /\ Title(a) # Title(b)

\* Created so close together that a tick must have seen both, and that long ago.
Passed(a, b, window) ==
  /\ created[a] <= created[b] /\ created[b] - created[a] <= window - Interval
  /\ now > created[a] + window

BothOpen(a, b) == status[a] = "open" /\ status[b] = "open"

\* As long as nothing fails, alerts of one technique that arrive within the
\* technique window less an interval are merged before they leave it, also when
\* one of them is the survivor of an earlier merge; and so are repeats of a title
\* that no pass has marked yet (NewAlertDeduplicator: the window exceeds the
\* interval; tick: the two passes and their order).
DuplicatesMerged ==
  slips = 0 =>
    \A a, b \in Alerts :
      /\ CrossEngine(a, b) /\ Passed(a, b, TechniqueWindow) => ~BothOpen(a, b)
      /\ Repeated(a, b) /\ Passed(a, b, TitleWindow) /\ key[a] = "null" /\ key[b] = "null"
           => ~BothOpen(a, b)

\* A status that a person or the AI triage has set is overwritten only when it
\* was set after the query of the very pass that overwrites it (the UPDATE by id
\* against the status = 'open' of the query).
DecisionHolds ==
  [][\A a \in Alerts :
        into[a] = None /\ into'[a] # None /\ status[a] # "open"
        => \E r \in Servers : a \in cur[r].dups /\ a \in recent[r]]_dedupVars

-----------------------------------------------------------------------------
(* What a comment says and the code does not keep (README, section 6). *)

\* Alerts with the same title, severity, source and agent are merged when they
\* arrive within the title window (deduplicate).
TitleMerged ==
  slips = 0 =>
    \A a, b \in Alerts : Repeated(a, b) /\ Passed(a, b, TitleWindow) => ~BothOpen(a, b)

=============================================================================
