--------------------------- MODULE AlertPipeline ---------------------------
(***************************************************************************)
(* The alert pipeline of the API server                                    *)
(* (server/internal/detection/alert_pipeline.go), with the stream it reads *)
(* and the correlation engine it feeds.  Events that a durable consumer    *)
(* delivers wait for a worker; it inserts an alert for every Sigma match   *)
(* and every custom rule that does not repeat within five minutes, hands   *)
(* Sigma alerts to the correlation engine in a goroutine each, and         *)
(* acknowledges.                                                           *)
(*                                                                         *)
(* What the rules find in an event is a constant; an event that does not   *)
(* parse has no findings, it is acknowledged all the same.  The IOCMatcher *)
(* of the pipeline is never set.                                           *)
(***************************************************************************)
EXTENDS EventStream, Correlation, Sequences

CONSTANTS
  Workers,   \* the slots of the semaphore
  Findings,  \* the findings of each event, in the order of handleEvent
  Idle,      \* no event
  MaxFaults, \* bound on crashes, failing statements, lost acknowledgements and
             \* deliveries that take longer than AckWait, for TLC
  MaxEdits   \* bound on incidents closed, on alerts that leave a window, and on
             \* stamps that expire with a delivery under way, for TLC

\* title: the key of isDuplicate, agent included; quiet: insertAlert suppresses it.
Finds(F) ==
  /\ DOMAIN F = {"kind", "title", "agent", "quiet", "rules"}
  /\ F.kind \in {"sigma", "custom"} /\ F.quiet \in BOOLEAN /\ F.rules \subseteq 1..Rules

ASSUME PipelineAssumption ==
  /\ Idle \notin Events /\ MaxFaults \in Nat /\ MaxEdits \in Nat
  /\ \A e \in Events : /\ Len(Findings[e]) \in Nat /\ DOMAIN Findings[e] = 1..Len(Findings[e])
                       /\ \A i \in DOMAIN Findings[e] : Finds(Findings[e][i])

VARIABLES
  waiting,     \* the deliveries that have no worker yet
  worker,      \* the event of each worker, which delivery of it, the finding it is
               \* at, and whether it inserts it
  dedupCache,  \* p.dedupCache: the titles stamped within the last five minutes
  alerts,      \* the table alerts
  pending,     \* the alerts whose goroutine is about to call ProcessAlert
  faults, edits,
  aged         \* history: findings whose stamp expired with a delivery under way

vars == <<stream, correlation, waiting, worker, dedupCache, alerts, pending, faults, edits, aged>>

Free == [ev |-> Idle, n |-> 0, at |-> 1, inserting |-> FALSE]
Busy(w) == worker[w].ev # Idle
Over(w) == Busy(w) /\ worker[w].at > Len(Findings[worker[w].ev])
Finding(w) == Findings[worker[w].ev][worker[w].at]

Alert(e, n, i) == [ev |-> e, n |-> n, at |-> i, agent |-> Findings[e][i].agent,
                   rules |-> Findings[e][i].rules]
Alerts == UNION {{Alert(e, n, i) : n \in 1..MaxDeliver, i \in DOMAIN Findings[e]} : e \in Events}

Init ==
  /\ StreamInit /\ CorrelationInit
  /\ waiting = {} /\ worker = [w \in Workers |-> Free]
  /\ dedupCache = {} /\ alerts = {} /\ pending = {} /\ faults = 0 /\ edits = 0 /\ aged = {}

Fault == faults < MaxFaults /\ faults' = faults + 1
Edit == edits < MaxEdits /\ edits' = edits + 1

----------------------------------------------------------------------------
(* One event. *)

\* An event reaches the process: the callback of Consume, or the buffer before it.
Deliver(e) ==
  /\ HandOut(e)
  /\ waiting' = waiting \cup {<<e, deliveries'[e]>>}
  /\ UNCHANGED <<correlation, worker, dedupCache, alerts, pending, faults, edits, aged>>

\* The callback gets a slot of the semaphore.
Receive(w, d) ==
  /\ ~Busy(w) /\ d \in waiting
  /\ waiting' = waiting \ {d}
  /\ worker' = [worker EXCEPT ![w] = [Free EXCEPT !.ev = d[1], !.n = d[2]]]
  /\ UNCHANGED <<stream, correlation, dedupCache, alerts, pending, faults, edits, aged>>

AtFinding(w) == Busy(w) /\ ~Over(w) /\ ~worker[w].inserting

NextFinding(w) == worker' = [worker EXCEPT ![w].at = @ + 1, ![w].inserting = FALSE]

\* The check forgotten.
IsDuplicateNever(t) == FALSE

IsDuplicate(t) == t \in dedupCache

Repeat(w) ==
  /\ AtFinding(w) /\ IsDuplicate(Finding(w).title)
  /\ NextFinding(w)
  /\ UNCHANGED <<stream, correlation, waiting, dedupCache, alerts, pending, faults, edits, aged>>

\* isDuplicate stamps the title; the alert is suppressed or inserted after that.
Stamp(w) ==
  /\ AtFinding(w) /\ ~IsDuplicate(Finding(w).title)
  /\ dedupCache' = dedupCache \cup {Finding(w).title}
  /\ IF Finding(w).quiet THEN NextFinding(w)
                         ELSE worker' = [worker EXCEPT ![w].inserting = TRUE]
  /\ UNCHANGED <<stream, correlation, waiting, alerts, pending, faults, edits, aged>>

\* Custom rules do not feed the correlation engine.
Feeds(a, kind) == IF kind = "sigma" THEN pending' = pending \cup {a} ELSE UNCHANGED pending

InsertAlert(w) ==
  LET a == Alert(worker[w].ev, worker[w].n, worker[w].at)
  IN  /\ worker[w].inserting
      /\ alerts' = alerts \cup {a}
      /\ Feeds(a, Finding(w).kind)
      /\ NextFinding(w)
      /\ UNCHANGED <<stream, correlation, waiting, dedupCache, faults, edits, aged>>

\* The INSERT fails: the worker logs it and goes on.
InsertFails(w) ==
  /\ worker[w].inserting /\ Fault
  /\ NextFinding(w)
  /\ UNCHANGED <<stream, correlation, waiting, dedupCache, alerts, pending, edits, aged>>

Acknowledge(w) ==
  /\ Over(w)
  /\ \/ Ack(worker[w].ev) /\ UNCHANGED faults
     \/ Fault /\ UNCHANGED stream
  /\ worker' = [worker EXCEPT ![w] = Free]
  /\ UNCHANGED <<correlation, waiting, dedupCache, alerts, pending, edits, aged>>

----------------------------------------------------------------------------
(* Correlation, time and the process. *)

Correlate(a) ==
  /\ a \in pending /\ pending' = pending \ {a}
  /\ ProcessAlert(a)
  /\ UNCHANGED <<stream, waiting, worker, dedupCache, alerts, faults, edits, aged>>

Store(k) ==
  /\ \/ PersistIncident(k) /\ UNCHANGED faults
     \/ PersistFails(k) /\ Fault
  /\ UNCHANGED <<stream, waiting, worker, dedupCache, alerts, pending, edits, aged>>

Close ==
  /\ Edit
  /\ \E row \in rows : CloseIncident(row)
  /\ UNCHANGED <<stream, waiting, worker, dedupCache, alerts, pending, faults, aged>>

Age(k) ==
  /\ Edit
  /\ \E a \in buffer[k] : Expire(k, a)
  /\ UNCHANGED <<stream, waiting, worker, dedupCache, alerts, pending, faults, aged>>

\* A delivery of the event waits for a worker, or has one.
InHand(e) == (\E d \in waiting : d[1] = e) \/ (\E w \in Workers : worker[w].ev = e)

\* AckWait ends: for an event that was lost with the process, or that takes longer.
Redeliver(e) ==
  /\ AckWaitOver(e)
  /\ IF InHand(e) THEN Fault ELSE UNCHANGED faults
  /\ UNCHANGED <<correlation, waiting, worker, dedupCache, alerts, pending, edits, aged>>

\* Neither delivered to its end nor not at all.
UnderWay(e) == deliveries[e] > 0 /\ (msg[e] \in {"ready", "out"} \/ InHand(e))

\* The findings with this title of the events under way.
AgedBy(t) ==
  UNION {{<<e, i>> : i \in {j \in DOMAIN Findings[e] : Findings[e][j].title = t}} :
           e \in {f \in Events : UnderWay(f)}}

\* Five minutes after the stamp, whatever is still to be done with the event.
WindowOver(t) ==
  /\ t \in dedupCache
  /\ dedupCache' = dedupCache \ {t}
  /\ aged' = aged \cup AgedBy(t)
  /\ IF AgedBy(t) = {} THEN UNCHANGED edits ELSE Edit
  /\ UNCHANGED <<stream, correlation, waiting, worker, alerts, pending, faults>>

Crash ==
  /\ Fault
  /\ waiting' = {} /\ worker' = [w \in Workers |-> Free]
  /\ dedupCache' = {} /\ pending' = {}
  /\ NewEngine
  /\ UNCHANGED <<stream, alerts, edits, aged>>

Next ==
  \/ \E w \in Workers : \/ \E d \in waiting : Receive(w, d)
                        \/ Repeat(w) \/ Stamp(w) \/ InsertAlert(w) \/ InsertFails(w)
                        \/ Acknowledge(w)
  \/ \E a \in pending : Correlate(a)
  \/ \E k \in 1..Rules : Store(k) \/ Age(k)
  \/ \E e \in Events : Deliver(e) \/ Redeliver(e)
  \/ \E t \in dedupCache : WindowOver(t)
  \/ Close \/ Crash

Spec == Init /\ [][Next]_vars

----------------------------------------------------------------------------
(* Properties. *)

\* Stream, correlation engine, workers and tables are well formed (handleEvent).
TypeOK ==
  /\ StreamTypeOK /\ CorrelationTypeOK(Alerts)
  /\ worker \in [Workers -> [ev : Events \cup {Idle}, n : 0..MaxDeliver,
                             at : Nat \ {0}, inserting : BOOLEAN]]
  /\ \A w \in Workers : worker[w].inserting => Busy(w) /\ ~Over(w)
  /\ dedupCache \subseteq UNION {{Findings[e][i].title : i \in DOMAIN Findings[e]} : e \in Events}
  /\ alerts \subseteq Alerts /\ pending \subseteq alerts
  /\ waiting \subseteq Events \X (1..MaxDeliver)
  /\ faults \in 0..MaxFaults /\ edits \in 0..MaxEdits

\* Every incident that is stored rests on as many alerts as its rule asks for, each
\* of them a row of the alerts table and each of a different finding: an event that is
\* delivered again does not count twice, through any interleaving of workers
\* (isDuplicate, createAlertFromSigma and ProcessAlert together).  Excepted are
\* findings whose stamp expired with a delivery of the event still under way, in a
\* worker, waiting for one or yet to be repeated: the next one counts again.
EvidenceHolds ==
  \A row \in rows :
    /\ row.alerts \subseteq alerts
    /\ Cardinality(row.alerts) >= MinEvents[row.rule]
    /\ \A a, b \in row.alerts :
         a.ev = b.ev /\ a.at = b.at /\ <<a.ev, a.at>> \notin aged => a = b

-----------------------------------------------------------------------------
(* What a comment says and the code does not keep (README, section 6). *)

\* Deliver an event as often as you like: no finding has two alerts (Start).
RedeliveryHarmless == \A a, b \in alerts : a.ev = b.ev /\ a.at = b.at => a = b

=============================================================================
