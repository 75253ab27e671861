-------------------------- MODULE DetectionEngine --------------------------
(***************************************************************************)
(* The detection engine (server/internal/detection/engine.go): one durable *)
(* consumer delivers events to several replicas, whose workers turn what   *)
(* the detectors find into alerts and acknowledge the event.  A delivered  *)
(* event waits for a free worker with its AckWait running.  A finding of a *)
(* rule that repeats within alertDedupWindow on one replica is dropped,    *)
(* and an operator's suppression rule may drop it too.                     *)
(*                                                                         *)
(* What the detectors find in an event is a constant.  The findings of one *)
(* agent are shown; keys of different agents never meet.                   *)
(***************************************************************************)
EXTENDS EventStream, Sequences, FiniteSets, Functions

CONSTANTS
  Replicas,
  Workers, Home,   \* the slots of the semaphore, and the replica of each
  Malformed,       \* events that do not parse
  Findings,        \* the findings of each event, in the order of processEventData
  Titles,          \* what isDuplicateAlert and markBaselineSeen tell apart
  MaxAckPending,   \* how many messages may be out at once
  MapCap,          \* the safety cap of both maps
  Idle,            \* no event
  MaxFaults,       \* bound on crashes, stops, failing saves, lost acknowledgements
                   \* and slow workers, for TLC
  MaxWaits         \* bound on AckWaits that end before a worker is free, for TLC

\* ioc: IOCMatcher; chain: the behavioral engine; baseline: the unknown-process
\* check; rule: everything that arrives as a RuleMatch.  quiet: a suppression rule
\* matches the alert together with the command line and the parent of this event,
\* or it is our own containment that a firewall rule reports (IsSelfInflicted).
Kinds == {"ioc", "chain", "baseline", "rule"}

ASSUME EngineAssumption ==
  /\ Home \in [Workers -> Replicas]
  /\ Malformed \subseteq Events /\ Idle \notin Events
  /\ Findings \in [Events -> Seq([kind : Kinds, title : Titles, quiet : BOOLEAN])]
  /\ MaxAckPending \in Nat \ {0} /\ MapCap \in Nat /\ MaxFaults \in Nat /\ MaxWaits \in Nat

VARIABLES
  waiting,   \* the events delivered to each replica that have no worker yet
  worker,    \* the event of each worker, the finding it is at, and whether it saves it
  dedup,     \* e.alertDedup: the titles stamped within alertDedupWindow
  seen,      \* e.baselineSeen
  stopping,  \* the replicas whose context is cancelled
  faults,
  late,      \* history: workers whose stamp has become too old while they save
  fresh,     \* history: alerts of rules that the present stamp of the title let through
  capped,    \* history: the replicas whose alertDedup has been reset at its cap
  settled,   \* history: the findings of each event that were dealt with
  waits      \* history: the AckWaits that ended while the event waited

vars == <<stream, waiting, worker, dedup, seen, stopping, faults, late, fresh, capped,
          settled, waits>>

Free == [ev |-> Idle, at |-> 1, saving |-> FALSE]
Busy(w) == worker[w].ev # Idle
Finding(w) == Findings[worker[w].ev][worker[w].at]
AllDone(w) == worker[w].at > Len(Findings[worker[w].ev])

Init ==
  /\ StreamInit
  /\ waiting = [r \in Replicas |-> <<>>]
  /\ worker = [w \in Workers |-> Free]
  /\ dedup = [r \in Replicas |-> {}] /\ seen = [r \in Replicas |-> {}]
  /\ stopping = {} /\ faults = 0 /\ late = {}
  /\ fresh = [r \in Replicas |-> [t \in Titles |-> 0]]
  /\ capped = {}
  /\ settled = [e \in Events |-> {}] /\ waits = 0

Fault == faults < MaxFaults /\ faults' = faults + 1

----------------------------------------------------------------------------
(* One event. *)

\* The stream delivers an event, to the callback of Consume or to the buffer before it.
Deliver(r, e) ==
  /\ r \notin stopping /\ Cardinality({d \in Events : msg[d] = "out"}) < MaxAckPending
  /\ HandOut(e)
  /\ waiting' = [waiting EXCEPT ![r] = Append(@, e)]
  /\ UNCHANGED <<worker, dedup, seen, stopping, faults, late, fresh, capped, settled, waits>>

\* The callback gets a slot of the semaphore and starts processMessage.
Receive(w) ==
  /\ ~Busy(w) /\ waiting[Home[w]] # <<>>
  /\ waiting' = [waiting EXCEPT ![Home[w]] = Tail(@)]
  /\ worker' = [worker EXCEPT ![w] = [Free EXCEPT !.ev = Head(waiting[Home[w]])]]
  /\ UNCHANGED <<stream, dedup, seen, stopping, faults, late, fresh, capped, settled, waits>>

\* The payload does not parse: processMessage fails and the message is refused,
\* unless the refusal fails too.
Refuse(w) ==
  /\ worker[w].ev \in Malformed
  /\ \/ Nak(worker[w].ev) /\ UNCHANGED faults
     \/ Fault /\ UNCHANGED stream
  /\ worker' = [worker EXCEPT ![w] = Free]
  /\ UNCHANGED <<waiting, dedup, seen, stopping, late, fresh, capped, settled, waits>>

\* The worker goes on to the next finding.
Settle(w) ==
  /\ worker' = [worker EXCEPT ![w].at = @ + 1, ![w].saving = FALSE]
  /\ settled' = [settled EXCEPT ![worker[w].ev] = @ \cup {worker[w].at}]
  /\ late' = late \ {w}

\* The stamp forgotten.
RememberNot(S, t) == S

\* A time.Now() stored under a key; a map past its cap starts again.
Remember(S, t) == IF Cardinality(S) > MapCap THEN {t} ELSE S \cup {t}

Kept(r, S) == [t \in Titles |-> IF t \in S THEN fresh[r][t] ELSE 0]

\* isDuplicateAlert, markBaselineSeen: nothing else is ever a repetition.
Repeats(w) ==
  \/ Finding(w).kind = "rule" /\ Finding(w).title \in dedup[Home[w]]
  \/ Finding(w).kind = "baseline" /\ Finding(w).title \in seen[Home[w]]

\* IsSuppressed, asked for indicators and for rules only.
Suppressed(w) == Finding(w).quiet /\ Finding(w).kind \in {"ioc", "rule"}

AtFinding(w) ==
  Busy(w) /\ worker[w].ev \notin Malformed /\ ~AllDone(w) /\ ~worker[w].saving

Drop(w) ==
  /\ AtFinding(w) /\ Repeats(w)
  /\ Settle(w)
  /\ UNCHANGED <<stream, waiting, dedup, seen, stopping, faults, fresh, capped, waits>>

\* The title is stamped first; whether the alert is suppressed is asked after that.
Consider(w) ==
  LET r == Home[w]
      t == Finding(w).title
  IN  /\ AtFinding(w) /\ ~Repeats(w)
      /\ IF Finding(w).kind = "rule"
           THEN /\ dedup' = [dedup EXCEPT ![r] = Remember(@, t)]
                /\ fresh' = [fresh EXCEPT ![r] = Kept(r, dedup'[r] \ {t})]
                /\ capped' = IF dedup[r] \subseteq dedup'[r] THEN capped ELSE capped \cup {r}
           ELSE UNCHANGED <<dedup, fresh, capped>>
      /\ seen' = IF Finding(w).kind = "baseline"
                   THEN [seen EXCEPT ![r] = Remember(@, t)] ELSE seen
      /\ IF Suppressed(w)
           THEN Settle(w)
           ELSE worker' = [worker EXCEPT ![w].saving = TRUE] /\ UNCHANGED <<settled, late>>
      /\ UNCHANGED <<stream, waiting, stopping, faults, waits>>

\* SaveAlert, and what follows a saved alert: publication, notification, response,
\* playbooks and AI triage.  An alert that is late does not count for a stamp that
\* the title has been given since.
Save(w) ==
  /\ worker[w].saving /\ Home[w] \notin stopping
  /\ fresh' = IF Finding(w).kind = "rule" /\ w \notin late
                THEN [fresh EXCEPT ![Home[w]][Finding(w).title] = @ + 1] ELSE fresh
  /\ Settle(w)
  /\ UNCHANGED <<stream, waiting, dedup, seen, stopping, faults, capped, waits>>

\* The database refuses, or the context of the replica is cancelled: the finding is
\* logged and the worker goes on.
SaveFails(w) ==
  /\ worker[w].saving
  /\ IF Home[w] \in stopping THEN UNCHANGED faults ELSE Fault
  /\ Settle(w)
  /\ UNCHANGED <<stream, waiting, dedup, seen, stopping, fresh, capped, waits>>

\* The event taken for done with its last finding still to come.
AcknowledgeEarly(w) ==
  /\ Busy(w) /\ worker[w].ev \notin Malformed /\ worker[w].at >= Len(Findings[worker[w].ev])
  /\ Ack(worker[w].ev) /\ worker' = [worker EXCEPT ![w] = Free]
  /\ UNCHANGED <<waiting, dedup, seen, stopping, faults, late, fresh, capped, settled, waits>>

Over(w) == Busy(w) /\ worker[w].ev \notin Malformed /\ AllDone(w)

\* The slot of the semaphore never given back.
AcknowledgeKeepsSlot(w) ==
  /\ Over(w) /\ Ack(worker[w].ev)
  /\ UNCHANGED <<waiting, worker, dedup, seen, stopping, faults, late, fresh, capped, settled,
                 waits>>

Acknowledge(w) ==
  /\ Over(w)
  /\ \/ Ack(worker[w].ev) /\ UNCHANGED faults
     \/ Fault /\ UNCHANGED stream
  /\ worker' = [worker EXCEPT ![w] = Free]
  /\ UNCHANGED <<waiting, dedup, seen, stopping, late, fresh, capped, settled, waits>>

----------------------------------------------------------------------------
(* Time, and the processes. *)

Working(e) == \E w \in Workers : worker[w].ev = e
StillWaits(e) == \E r \in Replicas : e \in Range(waiting[r])

\* AckWait ends: for an event whose worker is gone or is slow, or that still waits
\* for one.
Redeliver(e) ==
  /\ AckWaitOver(e)
  /\ IF Working(e) THEN Fault ELSE UNCHANGED faults
  /\ IF StillWaits(e) /\ ~Working(e)
       THEN waits < MaxWaits /\ waits' = waits + 1 ELSE UNCHANGED waits
  /\ UNCHANGED <<waiting, worker, dedup, seen, stopping, late, fresh, capped, settled>>

\* A stamp becomes older than alertDedupWindow, also while the alert it let through
\* is being saved: SaveAlert has no time limit.
WindowOver(r, t) ==
  /\ t \in dedup[r]
  /\ dedup' = [dedup EXCEPT ![r] = @ \ {t}]
  /\ fresh' = [fresh EXCEPT ![r][t] = 0]
  /\ late' = late \cup {w \in Workers : /\ Home[w] = r /\ worker[w].saving
                                        /\ Finding(w).kind = "rule" /\ Finding(w).title = t}
  /\ UNCHANGED <<stream, waiting, worker, seen, stopping, faults, capped, settled, waits>>

\* SIGTERM cancels the context that every worker of the replica uses.
Stop(r) ==
  /\ r \notin stopping /\ Fault
  /\ stopping' = stopping \cup {r}
  /\ UNCHANGED <<stream, waiting, worker, dedup, seen, late, fresh, capped, settled, waits>>

Gone(r) ==
  /\ waiting' = [waiting EXCEPT ![r] = <<>>]
  /\ late' = {w \in late : Home[w] # r}
  /\ worker' = [w \in Workers |-> IF Home[w] = r THEN Free ELSE worker[w]]
  /\ dedup' = [dedup EXCEPT ![r] = {}] /\ seen' = [seen EXCEPT ![r] = {}]
  /\ fresh' = [fresh EXCEPT ![r] = [t \in Titles |-> 0]]
  /\ capped' = capped \ {r}
  /\ UNCHANGED <<stream, settled, waits>>

\* A stopped replica exits, whatever its workers are at, and is replaced.
Exit(r) == r \in stopping /\ stopping' = stopping \ {r} /\ Gone(r) /\ UNCHANGED faults

Crash(r) == r \notin stopping /\ Fault /\ Gone(r) /\ UNCHANGED stopping

Step(w) == \/ Receive(w) \/ Refuse(w) \/ Drop(w) \/ Consider(w) \/ Save(w) \/ SaveFails(w)
           \/ Acknowledge(w)

Next ==
  \/ \E w \in Workers : Step(w)
  \/ \E e \in Events : Redeliver(e)
  \/ \E r \in Replicas : \/ Stop(r) \/ Exit(r) \/ Crash(r)
                         \/ \E e \in Events : Deliver(r, e)
                         \/ \E t \in Titles : WindowOver(r, t)

\* Workers run, the stream delivers and redelivers, and a stopped replica exits and is replaced.
Fairness ==
  /\ WF_vars(\E w \in Workers : Step(w))
  /\ WF_vars(\E r \in Replicas, e \in Events : Deliver(r, e))
  /\ WF_vars(\E e \in Events : Redeliver(e))
  /\ WF_vars(\E r \in Replicas : Exit(r))

Spec == Init /\ [][Next]_vars /\ Fairness

----------------------------------------------------------------------------
(* Properties. *)

\* The workers, the two maps and the messages are well formed: no worker is past
\* the findings of its event and none saves for an event that does not parse
\* (processEventData).
TypeOK ==
  /\ StreamTypeOK
  /\ waiting \in [Replicas -> Seq(Events)]
  /\ worker \in [Workers -> [ev : Events \cup {Idle}, at : Nat \ {0}, saving : BOOLEAN]]
  /\ \A w \in Workers :
       /\ Busy(w) => worker[w].at <= Len(Findings[worker[w].ev]) + 1
       /\ worker[w].saving => Busy(w) /\ worker[w].ev \notin Malformed /\ ~AllDone(w)
  /\ dedup \in [Replicas -> SUBSET Titles] /\ seen \in [Replicas -> SUBSET Titles]
  /\ \A r \in Replicas : /\ Cardinality(dedup[r]) <= MapCap + 1
                         /\ Cardinality(seen[r]) <= MapCap + 1
  /\ stopping \subseteq Replicas /\ faults \in 0..MaxFaults
  /\ late \subseteq {w \in Workers : worker[w].saving}
  /\ fresh \in [Replicas -> [Titles -> Nat]]
  /\ capped \subseteq Replicas
  /\ settled \in [Events -> SUBSET Nat] /\ waits \in 0..MaxWaits

\* However many workers meet the same finding at once, in different events or in
\* two deliveries of one, a replica raises it once within alertDedupWindow, as long
\* as the map is below its cap (isDuplicateAlert: the check and the stamp are one
\* step under alertDedupMu).  Excepted are alerts that are stored late: one that the
\* stamp of an earlier window let through, and whose SaveAlert outlasted that window.
OncePerWindow == \A r \in Replicas \ capped, t \in Titles : fresh[r][t] <= 1

\* An event that is acknowledged has been looked at to its last finding, however
\* often it was delivered and whoever crashed meanwhile; one that does not parse is
\* never acknowledged (Start: Nak on an error, Ack after the whole of
\* processMessage).
Accounted ==
  \A e \in Events : msg[e] = "done" =>
    e \notin Malformed /\ settled[e] = DOMAIN Findings[e]

\* Every event is acknowledged in the end.  One that does not parse is given up, so
\* that it does not occupy the consumer for ever.  No other is as long as all goes
\* well, however often its AckWait ends while it waits for a worker: each delivery
\* is worked off sooner or later.  With mishaps one is given up only when they and
\* the waits that took too long have used up its MaxDeliver deliveries (Start:
\* MaxDeliver, AckWait, the semaphore).
EventuallySettled ==
  <>(\A e \in Events :
       \/ msg[e] = "done"
       \/ msg[e] = "dead" /\ e \in Malformed
       \/ msg[e] = "dead" /\ faults > 0 /\ faults + waits >= MaxDeliver)

----------------------------------------------------------------------------
(* What a comment says and the code does not keep (README, section 6). *)

\* A title that counts as raised was saved within the window, or is being saved
\* (isDuplicateAlert: "reports whether an alert with the same (agent, title) key was
\* saved within alertDedupWindow").  It is stamped before suppression is asked and
\* before SaveAlert, which may fail.
DuplicateMeansSaved ==
  \A r \in Replicas : \A t \in dedup[r] :
    \/ fresh[r][t] > 0
    \/ \E w \in Workers : Home[w] = r /\ worker[w].saving /\ Finding(w).title = t

=============================================================================
