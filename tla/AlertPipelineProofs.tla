------------------------ MODULE AlertPipelineProofs ------------------------
(***************************************************************************)
(* The alert pipeline, the stream and the correlation engine together: an  *)
(* incident rests on as many alerts as its rule asks for, of different     *)
(* findings unless a stamp expired too soon, however often events are      *)
(* delivered and however workers interleave, and a full window always has  *)
(* one.                                                                    *)
(***************************************************************************)
EXTENDS AlertPipeline, FiniteSetTheorems, TLAPS

(* Well-formedness. *)

Below == \A e \in Events : msg[e] = "ready" => deliveries[e] < MaxDeliver

WorkerType ==
  /\ worker \in [Workers -> [ev : Events \cup {Idle}, n : 0..MaxDeliver,
                             at : Nat \ {0}, inserting : BOOLEAN]]
  /\ \A w \in Workers : /\ Busy(w) => worker[w].n \in 1..MaxDeliver
                        /\ worker[w].inserting => Busy(w) /\ ~Over(w)

Row == [rule : 1..Rules, life : Nat, alerts : SUBSET Alerts, status : {"open", "closed"},
        atClose : SUBSET Alerts]

MemoryType ==
  /\ buffer \in [1..Rules -> SUBSET alerts] /\ incident \in [1..Rules -> SUBSET alerts]
  /\ unsaved \subseteq {k \in 1..Rules : incident[k] # {}}
  /\ life \in Nat
  /\ rows \subseteq Row /\ \A row \in rows : row.life <= life

TableType ==
  /\ dedupCache \subseteq UNION {{Findings[e][i].title : i \in DOMAIN Findings[e]} : e \in Events}
  /\ alerts \subseteq Alerts /\ pending \subseteq alerts
  /\ faults \in 0..MaxFaults /\ edits \in 0..MaxEdits

WaitType == waiting \subseteq Events \X (1..MaxDeliver)

TypeInv == StreamTypeOK /\ Below /\ WaitType /\ WorkerType /\ MemoryType /\ TableType

(* An alert that this process may still count, or counts, belongs to a finding
   whose title is stamped, or to an event that is over for good, or its stamp has
   expired too soon; so no worker can raise it a second time unless that happened. *)

InMemory(a) == a \in pending \/ \E k \in 1..Rules : a \in buffer[k] \cup incident[k]

Title(e, i) == Findings[e][i].title

Final(e) == msg[e] \in {"done", "dead"} /\ ~InHand(e)

HandInv == \A e \in Events : InHand(e) => deliveries[e] > 0

StampedInv ==
  \A a \in Alerts : InMemory(a) =>
    /\ deliveries[a.ev] > 0
    /\ Title(a.ev, a.at) \in dedupCache \/ Final(a.ev) \/ <<a.ev, a.at>> \in aged

\* The worker inserts an alert for a stamp that did not expire too soon.
Young(w) == worker[w].inserting /\ <<worker[w].ev, worker[w].at>> \notin aged

InsertInv ==
  \A w \in Workers : Young(w) =>
    /\ Finding(w).title \in dedupCache
    /\ \A v \in Workers : Young(v) /\ Finding(v).title = Finding(w).title => v = w
    /\ \A a \in Alerts : InMemory(a) => ~(a.ev = worker[w].ev /\ a.at = worker[w].at)

UniqueInv ==
  \A a, b \in Alerts :
    InMemory(a) /\ InMemory(b) /\ a.ev = b.ev /\ a.at = b.at /\ <<a.ev, a.at>> \notin aged
      => a = b

OnceInv == HandInv /\ StampedInv /\ InsertInv /\ UniqueInv

(* An incident is never smaller than the threshold of its rule. *)

CountInv ==
  \A k \in 1..Rules :
    /\ IsFiniteSet(buffer[k]) /\ IsFiniteSet(incident[k])
    /\ incident[k] # {} => Cardinality(incident[k]) >= MinEvents[k]

IInv == TypeInv /\ OnceInv /\ CountInv /\ ThresholdRaises /\ EvidenceHolds

----------------------------------------------------------------------------
(* The constants. *)

LEMMA FindingFields ==
  ASSUME NEW e \in Events, NEW i \in DOMAIN Findings[e]
  PROVE  Finds(Findings[e][i]) /\ Findings[e][i].rules \subseteq 1..Rules
  BY PipelineAssumption DEF Finds

LEMMA AlertFields ==
  ASSUME NEW a \in Alerts
  PROVE  a.ev \in Events /\ a.at \in DOMAIN Findings[a.ev] /\ a.rules \subseteq 1..Rules
<1>1. PICK e \in Events : a \in {Alert(e, n, i) : n \in 1..MaxDeliver, i \in DOMAIN Findings[e]}
  BY DEF Alerts
<1>2. PICK n \in 1..MaxDeliver, i \in DOMAIN Findings[e] : a = Alert(e, n, i)
  BY <1>1
<1>3. a.ev = e /\ a.at = i /\ a.rules = Findings[e][i].rules
  BY <1>2 DEF Alert
<1> QED
  BY <1>3, FindingFields

LEMMA AlertsHas ==
  ASSUME NEW e \in Events, NEW n \in 1..MaxDeliver, NEW i \in DOMAIN Findings[e]
  PROVE  /\ Alert(e, n, i) \in Alerts
         /\ Alert(e, n, i).ev = e /\ Alert(e, n, i).at = i
<1>1. Alert(e, n, i) \in Alerts
  BY DEF Alerts
<1> QED
  BY <1>1 DEF Alert

\* What a worker that is not over is at.
LEMMA AtAFinding ==
  ASSUME WorkerType, NEW w \in Workers, Busy(w), ~Over(w)
  PROVE  /\ worker[w].ev \in Events /\ worker[w].at \in DOMAIN Findings[worker[w].ev]
         /\ worker[w].n \in 1..MaxDeliver
<1>1. worker[w].ev \in Events /\ worker[w].at \in Nat \ {0} /\ worker[w].n \in 1..MaxDeliver
  BY DEF WorkerType, Busy
<1>2. /\ Len(Findings[worker[w].ev]) \in Nat
      /\ DOMAIN Findings[worker[w].ev] = 1..Len(Findings[worker[w].ev])
  BY <1>1, PipelineAssumption
<1>3. ~(worker[w].at > Len(Findings[worker[w].ev]))
  BY DEF Over
<1> QED
  BY <1>1, <1>2, <1>3

----------------------------------------------------------------------------
(* The correlation engine. *)

LEMMA Growing ==
  ASSUME NEW S, NEW x, IsFiniteSet(S)
  PROVE  /\ IsFiniteSet(S \cup {x}) /\ Cardinality(S) \in Nat
         /\ Cardinality(S \cup {x}) \in Nat /\ Cardinality(S) <= Cardinality(S \cup {x})
<1>1. IsFiniteSet(S \cup {x})
  BY FS_AddElement
<1>2. Cardinality(S) \in Nat /\ Cardinality(S \cup {x}) \in Nat
  BY <1>1, FS_CardinalityType
<1>3. Cardinality(S) <= Cardinality(S \cup {x})
  BY <1>1, FS_Subset
<1> QED
  BY <1>1, <1>2, <1>3

\* What ProcessAlert does to the window and to the incident of each rule.
LEMMA ProcessEffect ==
  ASSUME MemoryType, CountInv, NEW a \in alerts, a.rules \subseteq 1..Rules, ProcessAlert(a),
         NEW k \in 1..Rules
  PROVE  /\ buffer'[k] \in {buffer[k], buffer[k] \cup {a}}
         /\ \/ incident'[k] = incident[k]
            \/ incident[k] # {} /\ incident'[k] = incident[k] \cup {a}
            \/ /\ incident[k] = {} /\ incident'[k] = buffer[k] \cup {a}
               /\ Reaches(k, buffer[k] \cup {a})
         /\ buffer'[k] # buffer[k] /\ Reaches(k, buffer'[k]) => incident'[k] # {}
         /\ k \in unsaved' => k \in unsaved \/ incident'[k] # {}
<1> DEFINE Window(j) == buffer[j] \cup {a}
           Full    == {j \in a.rules : Reaches(j, Window(j))}
           New     == {j \in Full : ~HasOpenIncident(j)}
           Reached == {j \in a.rules : \A i \in New : j <= i}
<1>1. /\ buffer' = [j \in 1..Rules |-> IF j \in Reached THEN Window(j) ELSE buffer[j]]
      /\ incident' = [j \in 1..Rules |->
                        IF j \notin Reached \cap Full THEN incident[j]
                        ELSE IF j \in New THEN Window(j) ELSE AppendAlertToIncident(j, a)]
      /\ unsaved' = unsaved \cup (New \cap Reached)
  BY DEF ProcessAlert
<1>2. k \in Full <=> k \in a.rules /\ Reaches(k, buffer[k] \cup {a})
  OBVIOUS
<1>3. k \in New <=> k \in Full /\ incident[k] = {}
  BY DEF HasOpenIncident
<1>4. AppendAlertToIncident(k, a) = IF incident[k] = {} THEN {} ELSE incident[k] \cup {a}
  BY DEF AppendAlertToIncident
<1>5. k \in Reached => k \in a.rules
  OBVIOUS
<1>6. buffer'[k] = IF k \in Reached THEN buffer[k] \cup {a} ELSE buffer[k]
  BY <1>1
<1>7. incident'[k] = IF k \notin Reached \cap Full THEN incident[k]
                     ELSE IF k \in New THEN buffer[k] \cup {a} ELSE AppendAlertToIncident(k, a)
  BY <1>1
<1>8. k \in unsaved' <=> k \in unsaved \/ (k \in New /\ k \in Reached)
  BY <1>1
<1>9. k \in New => k \in Full
  OBVIOUS
<1> HIDE DEF Full, New, Reached
<1> QED
  BY <1>2, <1>3, <1>4, <1>5, <1>6, <1>7, <1>8, <1>9

LEMMA ProcessType ==
  ASSUME MemoryType, CountInv, NEW a \in alerts, a.rules \subseteq 1..Rules, ProcessAlert(a),
         UNCHANGED alerts
  PROVE  MemoryType'
<1>1. /\ DOMAIN buffer' = 1..Rules /\ buffer' = [k \in 1..Rules |-> buffer'[k]]
      /\ DOMAIN incident' = 1..Rules /\ incident' = [k \in 1..Rules |-> incident'[k]]
  BY DEF ProcessAlert
<1>2. ASSUME NEW k \in 1..Rules
      PROVE  buffer'[k] \in SUBSET alerts /\ incident'[k] \in SUBSET alerts
  <2>1. buffer[k] \in SUBSET alerts /\ incident[k] \in SUBSET alerts
    BY DEF MemoryType
  <2>2. buffer[k] \cup {a} \in SUBSET alerts /\ incident[k] \cup {a} \in SUBSET alerts
    BY <2>1
  <2>3. buffer'[k] \in {buffer[k], buffer[k] \cup {a}}
    BY ProcessEffect
  <2>4. incident'[k] \in {incident[k], incident[k] \cup {a}, buffer[k] \cup {a}}
    BY ProcessEffect
  <2> QED
    BY <2>1, <2>2, <2>3, <2>4
<1>4. \A k \in 1..Rules : incident[k] # {} => incident'[k] # {}
  BY ProcessEffect
<1>5. unsaved' \subseteq 1..Rules
  BY DEF ProcessAlert, MemoryType
<1>6. unsaved' \subseteq {k \in 1..Rules : incident'[k] # {}}
  BY <1>4, <1>5, ProcessEffect DEF MemoryType
<1>7. UNCHANGED <<life, rows>>
  BY DEF ProcessAlert
<1>8. buffer' \in [1..Rules -> SUBSET alerts] /\ incident' \in [1..Rules -> SUBSET alerts]
  BY <1>1, <1>2
<1> QED
  BY <1>6, <1>7, <1>8 DEF MemoryType

LEMMA ProcessCounts ==
  ASSUME MemoryType, CountInv, ThresholdRaises, NEW a \in alerts, a.rules \subseteq 1..Rules,
         ProcessAlert(a)
  PROVE  CountInv' /\ ThresholdRaises'
<1>1. ASSUME NEW k \in 1..Rules
      PROVE  /\ IsFiniteSet(buffer'[k]) /\ IsFiniteSet(incident'[k])
             /\ incident'[k] # {} => Cardinality(incident'[k]) >= MinEvents[k]
             /\ Reaches(k, buffer'[k]) => incident'[k] # {}
  <2>1. MinEvents[k] \in Nat
    BY CorrelationAssumption
  <2>2. /\ IsFiniteSet(buffer[k] \cup {a}) /\ IsFiniteSet(incident[k] \cup {a})
        /\ Cardinality(incident[k]) \in Nat /\ Cardinality(incident[k] \cup {a}) \in Nat
        /\ Cardinality(incident[k]) <= Cardinality(incident[k] \cup {a})
    BY Growing DEF CountInv
  <2>3. IsFiniteSet(buffer'[k])
    BY <2>2, ProcessEffect DEF CountInv
  <2>4. IsFiniteSet(incident'[k]) /\ (incident'[k] # {} => Cardinality(incident'[k]) >= MinEvents[k])
    <3>1. CASE incident'[k] = incident[k]
      BY <3>1 DEF CountInv
    <3>2. CASE incident[k] # {} /\ incident'[k] = incident[k] \cup {a}
      BY <2>1, <2>2, <3>2 DEF CountInv
    <3>3. CASE incident'[k] = buffer[k] \cup {a} /\ Reaches(k, buffer[k] \cup {a})
      BY <2>2, <3>3 DEF Reaches
    <3> QED
      BY <3>1, <3>2, <3>3, ProcessEffect
  <2>5. Reaches(k, buffer'[k]) => incident'[k] # {}
    <3>1. CASE buffer'[k] = buffer[k]
      <4>1. Reaches(k, buffer[k]) => incident[k] # {}
        BY DEF ThresholdRaises
      <4>2. incident[k] # {} => incident'[k] # {}
        BY ProcessEffect
      <4> QED
        BY <3>1, <4>1, <4>2
    <3>2. CASE buffer'[k] # buffer[k]
      BY <3>2, ProcessEffect
    <3> QED
      BY <3>1, <3>2
  <2> QED
    BY <2>3, <2>4, <2>5
<1>2. CountInv'
  BY <1>1 DEF CountInv
<1>3. ThresholdRaises'
  <2>1. \A k \in 1..Rules : Reaches(k, buffer'[k]) => incident'[k] # {}
    BY <1>1
  <2> QED
    BY <2>1 DEF ThresholdRaises, Reaches
<1> QED
  BY <1>2, <1>3

LEMMA ExpireCounts ==
  ASSUME MemoryType, CountInv, ThresholdRaises, NEW k \in 1..Rules, NEW a, Expire(k, a)
  PROVE  CountInv' /\ ThresholdRaises'
<1>1. /\ UNCHANGED incident /\ buffer'[k] = buffer[k] \ {a}
      /\ \A j \in 1..Rules : j # k => buffer'[j] = buffer[j]
  BY DEF Expire, MemoryType
<1>2. IsFiniteSet(buffer[k])
  BY DEF CountInv
<1>3. IsFiniteSet(buffer[k] \ {a}) /\ Cardinality(buffer[k] \ {a}) <= Cardinality(buffer[k])
  BY <1>2, FS_Subset
<1>4. Cardinality(buffer[k] \ {a}) \in Nat /\ Cardinality(buffer[k]) \in Nat
  BY <1>2, <1>3, FS_CardinalityType
<1>5. MinEvents[k] \in Nat
  BY CorrelationAssumption
<1>6. CountInv'
  BY <1>1, <1>3 DEF CountInv
<1>7. Reaches(k, buffer'[k]) => Reaches(k, buffer[k])
  BY <1>1, <1>3, <1>4, <1>5 DEF Reaches
<1>8. \A j \in 1..Rules : Reaches(j, buffer'[j]) => incident'[j] # {}
  BY <1>1, <1>7 DEF ThresholdRaises
<1> QED
  BY <1>6, <1>8 DEF ThresholdRaises, Reaches

----------------------------------------------------------------------------
(* The state is well formed. *)

LEMMA InitIInv == Init => IInv
<1> SUFFICES ASSUME Init PROVE IInv
  OBVIOUS
<1> USE DEF Init, StreamInit, CorrelationInit, EmptyMemory
<1>1. MaxFaults \in Nat /\ MaxEdits \in Nat /\ MaxDeliver \in Nat \ {0}
  BY PipelineAssumption, StreamAssumption
<1>2. StreamTypeOK /\ Below
  BY <1>1 DEF StreamTypeOK, Below
<1>3. WaitType /\ WorkerType
  BY <1>1 DEF WaitType, WorkerType, Free, Busy
<1>4. MemoryType /\ TableType
  BY <1>1 DEF MemoryType, TableType
<1>5. OnceInv
  BY PipelineAssumption
  DEF OnceInv, HandInv, InHand, StampedInv, InsertInv, Young, UniqueInv, InMemory, Free
<1>6. CountInv
  BY FS_EmptySet DEF CountInv
<1>7. ThresholdRaises
  <2>1. ASSUME NEW k \in 1..Rules PROVE ~Reaches(k, buffer[k])
    <3>1. buffer[k] = {} /\ MinEvents[k] \in Nat \ {0}
      BY CorrelationAssumption
    <3>2. Cardinality(buffer[k]) = 0
      BY <3>1, FS_EmptySet
    <3> QED
      BY <3>1, <3>2 DEF Reaches
  <2> QED
    BY <2>1 DEF ThresholdRaises
<1>8. EvidenceHolds
  BY DEF EvidenceHolds
<1> QED
  BY <1>2, <1>3, <1>4, <1>5, <1>6, <1>7, <1>8 DEF IInv, TypeInv

LEMMA StreamStep == TypeInv /\ [Next]_vars => (StreamTypeOK /\ Below)'
<1> SUFFICES ASSUME TypeInv, [Next]_vars PROVE (StreamTypeOK /\ Below)'
  OBVIOUS
<1> USE DEF TypeInv, StreamTypeOK, Below
<1>1. MaxDeliver \in Nat \ {0}
  BY StreamAssumption
<1>2. ASSUME NEW e \in Events, HandOut(e) PROVE (StreamTypeOK /\ Below)'
  BY <1>1, <1>2 DEF HandOut
<1>3. ASSUME NEW e \in Events, Ack(e) PROVE (StreamTypeOK /\ Below)'
  BY <1>3 DEF Ack
<1>4. ASSUME NEW e \in Events, AckWaitOver(e) PROVE (StreamTypeOK /\ Below)'
  BY <1>1, <1>4 DEF AckWaitOver, Again
<1>5. CASE UNCHANGED stream
  BY <1>5 DEF stream
<1>6. ASSUME NEW w \in Workers, Acknowledge(w) PROVE (StreamTypeOK /\ Below)'
  <2>1. worker[w].ev \in Events
    BY <1>6 DEF Acknowledge, Over, Busy, WorkerType
  <2> QED
    BY <1>6, <2>1, <1>3, <1>5 DEF Acknowledge
<1> QED
  BY <1>2, <1>4, <1>5, <1>6
  DEF Next, Deliver, Receive, Repeat, Stamp, InsertAlert, InsertFails, Correlate, Store, Age, Redeliver,
      WindowOver, Close, Crash, vars

LEMMA WaitStep == TypeInv /\ [Next]_vars => WaitType'
<1> SUFFICES ASSUME TypeInv, [Next]_vars PROVE WaitType'
  OBVIOUS
<1> USE DEF TypeInv, WaitType
<1>1. ASSUME NEW e \in Events, Deliver(e) PROVE WaitType'
  <2>1. deliveries'[e] \in 1..MaxDeliver
    BY <1>1, StreamAssumption DEF Deliver, HandOut, StreamTypeOK, Below
  <2> QED
    BY <1>1, <2>1 DEF Deliver
<1>2. CASE waiting' \subseteq waiting
  BY <1>2
<1> QED
  BY <1>1, <1>2
  DEF Next, Receive, Repeat, Stamp, InsertAlert, InsertFails, Acknowledge, Correlate, Store, Age,
      Redeliver, WindowOver, Close, Crash, vars

\* The worker goes on to its next finding; the others stay where they are.
LEMMA NextFindingEffect ==
  ASSUME WorkerType, NEW w \in Workers, NextFinding(w)
  PROVE  /\ worker'[w].ev = worker[w].ev /\ worker'[w].n = worker[w].n
         /\ worker'[w].at = worker[w].at + 1 /\ ~worker'[w].inserting
         /\ \A v \in Workers : v # w => worker'[v] = worker[v]
         /\ worker' \in [Workers -> [ev : Events \cup {Idle}, n : 0..MaxDeliver,
                                     at : Nat \ {0}, inserting : BOOLEAN]]
<1>1. worker' = [worker EXCEPT ![w] = [worker[w] EXCEPT !.at = worker[w].at + 1,
                                                        !.inserting = FALSE]]
  BY DEF NextFinding, WorkerType
<1>2. worker[w] \in [ev : Events \cup {Idle}, n : 0..MaxDeliver, at : Nat \ {0},
                     inserting : BOOLEAN]
  BY DEF WorkerType
<1>3. worker[w].at + 1 \in Nat \ {0}
  BY <1>2
<1>4. [worker[w] EXCEPT !.at = worker[w].at + 1, !.inserting = FALSE]
        \in [ev : Events \cup {Idle}, n : 0..MaxDeliver, at : Nat \ {0}, inserting : BOOLEAN]
  BY <1>2, <1>3
<1>5. worker' \in [Workers -> [ev : Events \cup {Idle}, n : 0..MaxDeliver, at : Nat \ {0},
                               inserting : BOOLEAN]]
  BY <1>1, <1>4 DEF WorkerType
<1>6. \A v \in Workers : v # w => worker'[v] = worker[v]
  BY <1>1 DEF WorkerType
<1>7. worker'[w] = [worker[w] EXCEPT !.at = worker[w].at + 1, !.inserting = FALSE]
  BY <1>1 DEF WorkerType
<1> QED
  BY <1>2, <1>5, <1>6, <1>7

LEMMA WorkerStep == TypeInv /\ [Next]_vars => WorkerType'
<1> SUFFICES ASSUME TypeInv, [Next]_vars PROVE WorkerType'
  OBVIOUS
<1> USE DEF TypeInv
<1>1. CASE UNCHANGED worker
  BY <1>1 DEF WorkerType, Busy, Over
<1>2. ASSUME NEW w \in Workers, NextFinding(w) PROVE WorkerType'
  BY <1>2, NextFindingEffect DEF WorkerType, Busy, Over
<1>3. Free \in [ev : Events \cup {Idle}, n : 0..MaxDeliver, at : Nat \ {0}, inserting : BOOLEAN]
  BY StreamAssumption DEF Free
<1>4. ASSUME NEW w \in Workers, worker' = [worker EXCEPT ![w] = Free] PROVE WorkerType'
  <2>1. worker' \in [Workers -> [ev : Events \cup {Idle}, n : 0..MaxDeliver, at : Nat \ {0},
                                 inserting : BOOLEAN]]
    BY <1>3, <1>4 DEF WorkerType
  <2>2. worker'[w].ev = Idle /\ ~worker'[w].inserting
    BY <1>4 DEF WorkerType, Free
  <2>3. \A v \in Workers : v # w => worker'[v] = worker[v]
    BY <1>4 DEF WorkerType
  <2> QED
    BY <2>1, <2>2, <2>3 DEF WorkerType, Busy, Over
<1>5. ASSUME NEW w \in Workers, NEW x \in waiting, Receive(w, x) PROVE WorkerType'
  <2>1. PICK e \in Events, d \in 1..MaxDeliver : e = x[1] /\ d = x[2]
    BY DEF WaitType
  <2>2. [Free EXCEPT !.ev = e, !.n = d]
          \in [ev : Events \cup {Idle}, n : 0..MaxDeliver, at : Nat \ {0}, inserting : BOOLEAN]
    <3>1. d \in 0..MaxDeliver
      BY StreamAssumption
    <3> QED
      BY <1>3, <3>1
  <2>3. worker' = [worker EXCEPT ![w] = [Free EXCEPT !.ev = e, !.n = d]]
    BY <1>5, <2>1 DEF Receive
  <2>4. worker' \in [Workers -> [ev : Events \cup {Idle}, n : 0..MaxDeliver, at : Nat \ {0},
                                 inserting : BOOLEAN]]
    BY <2>2, <2>3 DEF WorkerType
  <2>5. worker'[w].n \in 1..MaxDeliver /\ ~worker'[w].inserting
    BY <2>3 DEF WorkerType, Free
  <2>6. \A v \in Workers : v # w => worker'[v] = worker[v]
    BY <2>3 DEF WorkerType
  <2> QED
    BY <2>4, <2>5, <2>6 DEF WorkerType, Busy, Over
<1>6. ASSUME NEW w \in Workers, Stamp(w) PROVE WorkerType'
  <2>1. CASE worker' = [worker EXCEPT ![w].inserting = TRUE]
    <3>1. worker' \in [Workers -> [ev : Events \cup {Idle}, n : 0..MaxDeliver, at : Nat \ {0},
                                   inserting : BOOLEAN]]
      BY <2>1 DEF WorkerType
    <3>2. worker'[w].ev = worker[w].ev /\ worker'[w].at = worker[w].at /\ worker'[w].n = worker[w].n
      BY <2>1 DEF WorkerType
    <3>3. \A v \in Workers : v # w => worker'[v] = worker[v]
      BY <2>1 DEF WorkerType
    <3> QED
      BY <1>6, <3>1, <3>2, <3>3 DEF Stamp, AtFinding, WorkerType, Busy, Over
  <2> QED
    BY <1>2, <1>6, <2>1 DEF Stamp
<1>7. CASE Crash
  <2>1. worker' \in [Workers -> [ev : Events \cup {Idle}, n : 0..MaxDeliver, at : Nat \ {0},
                                 inserting : BOOLEAN]]
    BY <1>3, <1>7 DEF Crash
  <2>2. \A w \in Workers : worker'[w].ev = Idle /\ ~worker'[w].inserting
    BY <1>7 DEF Crash, Free
  <2> QED
    BY <2>1, <2>2 DEF WorkerType, Busy, Over
<1> QED
  BY <1>1, <1>2, <1>4, <1>5, <1>6, <1>7
  DEF Next, Deliver, Repeat, InsertAlert, InsertFails, Acknowledge, Correlate, Store, Age,
      Redeliver, WindowOver, Close, vars

LEMMA MemoryStep == TypeInv /\ CountInv /\ [Next]_vars => MemoryType'
<1> SUFFICES ASSUME TypeInv, CountInv, [Next]_vars PROVE MemoryType'
  OBVIOUS
<1> USE DEF TypeInv
<1>1. CASE UNCHANGED <<correlation, alerts>>
  BY <1>1 DEF MemoryType, correlation, memory
<1>2. ASSUME UNCHANGED correlation, alerts \subseteq alerts' PROVE MemoryType'
  <2>1. UNCHANGED <<buffer, incident, unsaved, life, rows>>
    BY <1>2 DEF correlation, memory
  <2>2. buffer \in [1..Rules -> SUBSET alerts'] /\ incident \in [1..Rules -> SUBSET alerts']
    BY <1>2 DEF MemoryType
  <2> QED
    BY <2>1, <2>2 DEF MemoryType
<1>3. ASSUME NEW a \in pending, Correlate(a) PROVE MemoryType'
  <2>1. a \in alerts /\ a \in Alerts
    BY DEF TableType
  <2> QED
    BY <1>3, <2>1, AlertFields, ProcessType DEF Correlate
<1>4. ASSUME NEW k \in 1..Rules, Store(k) PROVE MemoryType'
  <2>1. /\ UNCHANGED <<buffer, incident, life, alerts>> /\ unsaved' = unsaved \ {k} /\ k \in unsaved
        /\ \/ UNCHANGED rows
           \/ rows' = rows \cup {[rule |-> k, life |-> life, alerts |-> incident[k],
                                  status |-> "open", atClose |-> {}]}
    BY <1>4 DEF Store, PersistIncident, PersistFails
  <2>2. life \in Nat /\ incident[k] \in SUBSET Alerts
    BY DEF MemoryType, TableType
  <2>3. [rule |-> k, life |-> life, alerts |-> incident[k], status |-> "open", atClose |-> {}] \in Row
    BY <2>2 DEF Row
  <2>4. rows' \subseteq Row /\ \A row \in rows' : row.life <= life'
    <3>1. rows' \subseteq Row
      BY <2>1, <2>3 DEF MemoryType
    <3>2. \A row \in rows' : row \in rows \/ row.life = life
      BY <2>1
    <3> QED
      BY <2>1, <2>2, <3>1, <3>2 DEF MemoryType
  <2> QED
    BY <2>1, <2>4 DEF MemoryType
<1>5. ASSUME NEW row \in rows, CloseIncident(row), UNCHANGED alerts PROVE MemoryType'
  <2> DEFINE at == IF row.life = life THEN incident[row.rule] ELSE {}
             new == [row EXCEPT !.status = "closed", !.atClose = at]
  <2>1. rows' = (rows \ {row}) \cup {new} /\ UNCHANGED <<buffer, incident, unsaved, life>>
    BY <1>5 DEF CloseIncident, memory
  <2>2. row \in Row /\ row.life <= life /\ row.rule \in 1..Rules
    BY DEF MemoryType, Row
  <2>3. incident[row.rule] \in SUBSET Alerts
    BY <2>2 DEF MemoryType, TableType
  <2>4. at \in SUBSET Alerts
    BY <2>3
  <2> HIDE DEF at
  <2>5. new \in Row /\ new.life = row.life
    BY <2>2, <2>4 DEF Row
  <2> HIDE DEF new
  <2>6. rows' \subseteq Row /\ \A r \in rows' : r.life <= life
    BY <2>1, <2>2, <2>5 DEF MemoryType
  <2> QED
    BY <1>5, <2>1, <2>6 DEF MemoryType
<1>6. ASSUME NEW k \in 1..Rules, Age(k) PROVE MemoryType'
  <2>1. PICK a \in buffer[k] : Expire(k, a)
    BY <1>6 DEF Age
  <2>2. buffer[k] \ {a} \in SUBSET alerts
    BY DEF MemoryType
  <2>3. buffer' \in [1..Rules -> SUBSET alerts]
    BY <2>1, <2>2 DEF Expire, MemoryType
  <2> QED
    BY <1>6, <2>1, <2>3 DEF Age, Expire, MemoryType
<1>7. CASE Crash
  <2>1. /\ buffer' = [k \in 1..Rules |-> {}] /\ incident' = [k \in 1..Rules |-> {}] /\ unsaved' = {}
        /\ life' = life + 1 /\ UNCHANGED <<rows, alerts>>
    BY <1>7 DEF Crash, NewEngine, EmptyMemory
  <2>2. \A row \in rows : row.life <= life'
    BY <2>1 DEF MemoryType, Row
  <2> QED
    BY <2>1, <2>2 DEF MemoryType
<1> QED
  BY <1>1, <1>2, <1>3, <1>4, <1>5, <1>6, <1>7
  DEF Next, Deliver, Receive, Repeat, Stamp, InsertAlert, InsertFails, Acknowledge, Redeliver,
      WindowOver, Close, vars

LEMMA TableStep == TypeInv /\ [Next]_vars => TableType'
<1> SUFFICES ASSUME TypeInv, [Next]_vars PROVE TableType'
  OBVIOUS
<1> USE DEF TypeInv
<1>1. faults' \in 0..MaxFaults
  <2>1. Fault => faults' \in 0..MaxFaults
    BY PipelineAssumption DEF Fault, TableType
  <2>2. UNCHANGED faults => faults' \in 0..MaxFaults
    BY DEF TableType
  <2> QED
    BY <2>1, <2>2 DEF Next, Deliver, Receive, Repeat, Stamp, InsertAlert, InsertFails, Acknowledge,
       Correlate, Store, Age, Redeliver, WindowOver, Close, Crash, vars
<1>2. edits' \in 0..MaxEdits
  <2>1. Edit => edits' \in 0..MaxEdits
    BY PipelineAssumption DEF Edit, TableType
  <2>2. UNCHANGED edits => edits' \in 0..MaxEdits
    BY DEF TableType
  <2> QED
    BY <2>1, <2>2 DEF Next, Deliver, Receive, Repeat, Stamp, InsertAlert, InsertFails, Acknowledge,
       Correlate, Store, Age, Redeliver, WindowOver, Close, Crash, vars
<1> DEFINE Known == UNION {{Findings[e][i].title : i \in DOMAIN Findings[e]} : e \in Events}
<1>3. dedupCache' \subseteq Known
  <2>1. dedupCache' \subseteq dedupCache => dedupCache' \subseteq Known
    BY DEF TableType
  <2>2. ASSUME NEW w \in Workers, Stamp(w) PROVE dedupCache' \subseteq Known
    <3>1. worker[w].ev \in Events /\ worker[w].at \in DOMAIN Findings[worker[w].ev]
      BY <2>2, AtAFinding DEF Stamp, AtFinding
    <3>2. Finding(w).title \in Known
      BY <3>1 DEF Finding
    <3> QED
      BY <2>2, <3>2 DEF Stamp, TableType
  <2> HIDE DEF Known
  <2> QED
    BY <2>1, <2>2 DEF Next, Deliver, Receive, Repeat, InsertAlert, InsertFails, Acknowledge,
       Correlate, Store, Age, Redeliver, WindowOver, Close, Crash, vars
<1>4. alerts' \subseteq Alerts /\ pending' \subseteq alerts'
  <2>1. CASE UNCHANGED alerts /\ pending' \subseteq pending
    BY <2>1 DEF TableType
  <2>2. ASSUME NEW w \in Workers, InsertAlert(w) PROVE alerts' \subseteq Alerts /\ pending' \subseteq alerts'
    <3>1. /\ worker[w].ev \in Events /\ worker[w].at \in DOMAIN Findings[worker[w].ev]
          /\ worker[w].n \in 1..MaxDeliver
      BY <2>2, AtAFinding DEF InsertAlert, WorkerType
    <3>2. Alert(worker[w].ev, worker[w].n, worker[w].at) \in Alerts
      BY <3>1, AlertsHas
    <3> QED
      BY <2>2, <3>2 DEF InsertAlert, Feeds, TableType
  <2> QED
    BY <2>1, <2>2 DEF Next, Deliver, Receive, Repeat, Stamp, InsertFails, Acknowledge,
       Correlate, Store, Age, Redeliver, WindowOver, Close, Crash, vars
<1> HIDE DEF Known
<1> QED
  BY <1>1, <1>2, <1>3, <1>4 DEF TableType, Known

----------------------------------------------------------------------------
(* The thresholds. *)

LEMMA CountStep ==
  TypeInv /\ CountInv /\ ThresholdRaises /\ [Next]_vars => (CountInv /\ ThresholdRaises)'
<1> SUFFICES ASSUME TypeInv, CountInv, ThresholdRaises, [Next]_vars
             PROVE  (CountInv /\ ThresholdRaises)'
  OBVIOUS
<1> USE DEF TypeInv
<1>1. CASE UNCHANGED <<buffer, incident>>
  BY <1>1 DEF CountInv, ThresholdRaises, Reaches
<1>2. ASSUME NEW a \in pending, Correlate(a) PROVE (CountInv /\ ThresholdRaises)'
  <2>1. a \in alerts /\ a \in Alerts
    BY DEF TableType
  <2> QED
    BY <1>2, <2>1, AlertFields, ProcessCounts DEF Correlate
<1>3. ASSUME NEW k \in 1..Rules, Age(k) PROVE (CountInv /\ ThresholdRaises)'
  BY <1>3, ExpireCounts DEF Age
<1>4. CASE Crash
  <2>1. /\ \A k \in 1..Rules : buffer'[k] = {} /\ incident'[k] = {}
    BY <1>4 DEF Crash, NewEngine, EmptyMemory
  <2>2. CountInv'
    BY <2>1, FS_EmptySet DEF CountInv
  <2>3. ASSUME NEW k \in 1..Rules PROVE ~Reaches(k, buffer'[k])
    <3>1. buffer'[k] = {} /\ MinEvents[k] \in Nat \ {0}
      BY <2>1, CorrelationAssumption
    <3>2. Cardinality(buffer'[k]) = 0
      BY <3>1, FS_EmptySet
    <3> QED
      BY <3>1, <3>2 DEF Reaches
  <2> QED
    BY <2>2, <2>3 DEF ThresholdRaises, Reaches
<1> QED
  BY <1>1, <1>2, <1>3, <1>4
  DEF Next, Deliver, Receive, Repeat, Stamp, InsertAlert, InsertFails, Acknowledge, Store, PersistIncident,
      PersistFails, Redeliver, WindowOver, Close, CloseIncident, correlation, memory, vars

----------------------------------------------------------------------------
(* No finding is counted twice. *)

\* The worker was inserting the same finding before.
Still(v) ==
  worker'[v].inserting =>
    /\ worker[v].inserting
    /\ worker'[v].ev = worker[v].ev /\ worker'[v].at = worker[v].at

\* A step that puts nothing into memory, stamps and clears nothing, starts no insert
\* and leaves what is over for good.
LEMMA OnceKept ==
  ASSUME TypeInv, OnceInv, UNCHANGED <<dedupCache, aged>>,
         \A a \in Alerts : InMemory(a)' => InMemory(a),
         \A e \in Events : deliveries[e] > 0 => deliveries'[e] > 0,
         \A a \in Alerts : InMemory(a) /\ Final(a.ev) => Final(a.ev)',
         \A v \in Workers : Still(v),
         HandInv'
  PROVE  OnceInv'
<1>1. StampedInv'
  BY AlertFields DEF OnceInv, StampedInv
<1>2. UniqueInv'
  BY DEF OnceInv, UniqueInv
<1>3. ASSUME NEW v \in Workers, Young(v)'
      PROVE  Young(v) /\ Finding(v)' = Finding(v)
             /\ worker'[v].ev = worker[v].ev /\ worker'[v].at = worker[v].at
  BY <1>3 DEF Still, Finding, Young
<1>4. InsertInv'
  <2>1. ASSUME NEW w \in Workers, Young(w)'
        PROVE  /\ Finding(w)'.title \in dedupCache'
               /\ \A v \in Workers :
                    Young(v)' /\ Finding(v)'.title = Finding(w)'.title => v = w
               /\ \A a \in Alerts : InMemory(a)' => ~(a.ev = worker'[w].ev /\ a.at = worker'[w].at)
    BY <1>3, <2>1 DEF OnceInv, InsertInv
  <2> QED
    BY <2>1 DEF InsertInv
<1> QED
  BY <1>1, <1>2, <1>4 DEF OnceInv

\* No delivery begins, and no worker takes up another one.
LEMMA SameEvents ==
  ASSUME TypeInv, OnceInv, UNCHANGED <<stream, waiting>>,
         \A v \in Workers : worker'[v].ev \in {worker[v].ev, Idle}
  PROVE  /\ \A e \in Events : deliveries[e] > 0 => deliveries'[e] > 0
         /\ \A e \in Events : Final(e) => Final(e)'
         /\ HandInv'
<1>1. UNCHANGED <<msg, deliveries>>
  BY DEF stream
<1>2. \A e \in Events : InHand(e)' => InHand(e)
  BY PipelineAssumption DEF InHand
<1> QED
  BY <1>1, <1>2 DEF OnceInv, HandInv, Final

\* Memory of the engine and of the goroutines as it was.
LEMMA SameMemory ==
  ASSUME UNCHANGED <<correlation, pending>>
  PROVE  \A a \in Alerts : InMemory(a)' <=> InMemory(a)
  BY DEF InMemory, correlation, memory

LEMMA DeliverOnce ==
  ASSUME TypeInv, OnceInv, NEW e \in Events, Deliver(e)
  PROVE  OnceInv'
<1>1. /\ msg[e] = "ready" /\ msg' = [msg EXCEPT ![e] = "out"]
      /\ deliveries' = [deliveries EXCEPT ![e] = @ + 1]
      /\ UNCHANGED <<correlation, worker, dedupCache, pending, aged>>
  BY DEF Deliver, HandOut
<1>2. \A d \in Events : deliveries'[d] >= deliveries[d] /\ deliveries[d] \in Nat /\ deliveries'[d] \in Nat
  BY <1>1, StreamAssumption DEF TypeInv, StreamTypeOK
<1>3. deliveries'[e] > 0
  BY <1>1, StreamAssumption DEF TypeInv, StreamTypeOK
<1>4. \A d \in Events : d # e => (InHand(d)' <=> InHand(d)) /\ msg'[d] = msg[d]
  BY <1>1 DEF Deliver, InHand, TypeInv, StreamTypeOK
<1>5. \A d \in Events : Final(d) => Final(d)'
  BY <1>1, <1>4 DEF Final
<1>6. \A d \in Events : deliveries[d] > 0 => deliveries'[d] > 0
  BY <1>2
<1>7. HandInv'
  BY <1>3, <1>4, <1>6 DEF OnceInv, HandInv
<1>8. \A v \in Workers : Still(v)
  BY <1>1 DEF Still
<1>9. \A a \in Alerts : InMemory(a)' => InMemory(a)
  BY <1>1, SameMemory
<1>10. \A a \in Alerts : InMemory(a) /\ Final(a.ev) => Final(a.ev)'
  BY <1>5, AlertFields
<1> QED
  BY <1>1, <1>6, <1>7, <1>8, <1>9, <1>10, OnceKept

\* A delivery passes from the buffer to a worker.
LEMMA ReceiveOnce ==
  ASSUME TypeInv, OnceInv, NEW w \in Workers, NEW d \in waiting, Receive(w, d)
  PROVE  OnceInv'
<1>1. UNCHANGED <<msg, deliveries, correlation, dedupCache, pending, aged>> /\ waiting' \subseteq waiting
  BY DEF Receive, stream
<1>2. /\ worker'[w].ev = d[1] /\ ~worker'[w].inserting
      /\ \A v \in Workers : v # w => worker'[v] = worker[v]
  BY DEF Receive, TypeInv, WorkerType, Free
<1>3. \A e \in Events : InHand(e)' => InHand(e)
  BY <1>1, <1>2 DEF InHand
<1>4. \A e \in Events : Final(e) => Final(e)'
  BY <1>1, <1>3 DEF Final
<1>5. HandInv'
  BY <1>1, <1>3 DEF OnceInv, HandInv
<1>6. \A v \in Workers : Still(v)
  BY <1>2 DEF Still
<1>7. \A a \in Alerts : InMemory(a)' => InMemory(a)
  BY <1>1, SameMemory
<1>8. \A a \in Alerts : InMemory(a) /\ Final(a.ev) => Final(a.ev)'
  BY <1>4, AlertFields
<1> QED
  BY <1>1, <1>5, <1>6, <1>7, <1>8, OnceKept

\* The next finding, whatever became of this one.
LEMMA SkipOnce ==
  ASSUME TypeInv, OnceInv, NEW w \in Workers, NextFinding(w),
         UNCHANGED <<stream, correlation, waiting, dedupCache, pending, aged>>
  PROVE  OnceInv'
<1>1. /\ worker'[w].ev = worker[w].ev /\ ~worker'[w].inserting
      /\ \A v \in Workers : v # w => worker'[v] = worker[v]
  BY NextFindingEffect DEF TypeInv
<1>2. \A v \in Workers : Still(v) /\ worker'[v].ev \in {worker[v].ev, Idle}
  BY <1>1 DEF Still
<1>3. \A a \in Alerts : InMemory(a)' => InMemory(a)
  BY SameMemory
<1>4. /\ \A e \in Events : deliveries[e] > 0 => deliveries'[e] > 0
      /\ \A e \in Events : Final(e) => Final(e)'
      /\ HandInv'
  BY <1>2, SameEvents
<1>5. \A a \in Alerts : InMemory(a) /\ Final(a.ev) => Final(a.ev)'
  BY <1>4, AlertFields
<1> QED
  BY <1>2, <1>3, <1>4, <1>5, OnceKept

\* A title that was not stamped has no alert in memory of the event the worker has.
LEMMA StampOnce ==
  ASSUME TypeInv, OnceInv, NEW w \in Workers, Stamp(w)
  PROVE  OnceInv'
<1> DEFINE t == Finding(w).title
<1>1. /\ Busy(w) /\ t \notin dedupCache /\ dedupCache' = dedupCache \cup {t}
      /\ UNCHANGED <<stream, correlation, waiting, pending, aged>>
  BY DEF Stamp, AtFinding, IsDuplicate
<1>2. worker[w].ev \in Events /\ worker[w].at \in DOMAIN Findings[worker[w].ev]
  BY AtAFinding DEF Stamp, AtFinding, TypeInv
<1>3. /\ worker'[w].ev = worker[w].ev
      /\ worker'[w].inserting => worker'[w].at = worker[w].at
      /\ \A v \in Workers : v # w => worker'[v] = worker[v]
  <2>1. CASE NextFinding(w)
    BY <2>1, NextFindingEffect DEF TypeInv
  <2>2. CASE worker' = [worker EXCEPT ![w].inserting = TRUE]
    BY <2>2 DEF TypeInv, WorkerType
  <2> QED
    BY <2>1, <2>2 DEF Stamp
<1>4. <<worker[w].ev, worker[w].at>> \notin aged =>
        \A a \in Alerts : InMemory(a) => ~(a.ev = worker[w].ev /\ a.at = worker[w].at)
  <2> SUFFICES ASSUME NEW a \in Alerts, InMemory(a), a.ev = worker[w].ev, a.at = worker[w].at,
                      <<worker[w].ev, worker[w].at>> \notin aged
               PROVE  FALSE
    OBVIOUS
  <2>1. Title(a.ev, a.at) = t
    BY DEF Title, Finding
  <2>2. ~Final(a.ev)
    BY DEF Final, InHand
  <2> QED
    BY <1>1, <2>1, <2>2 DEF OnceInv, StampedInv
<1>5. \A a \in Alerts : InMemory(a)' <=> InMemory(a)
  BY <1>1, SameMemory
<1>6. /\ \A e \in Events : deliveries[e] > 0 => deliveries'[e] > 0
      /\ \A e \in Events : Final(e) => Final(e)'
      /\ HandInv'
  <2>1. \A v \in Workers : worker'[v].ev \in {worker[v].ev, Idle}
    BY <1>3
  <2> QED
    BY <1>1, <2>1, SameEvents
<1>7. StampedInv'
  BY <1>1, <1>5, <1>6, AlertFields DEF OnceInv, StampedInv
<1>8. UniqueInv'
  BY <1>1, <1>5 DEF OnceInv, UniqueInv
<1>9. worker'[w].inserting => Finding(w)' = Finding(w)
  BY <1>3 DEF Finding
<1>10. \A v \in Workers : v # w => Finding(v)' = Finding(v)
  BY <1>3 DEF Finding
<1>11. \A v \in Workers : v # w =>
         (Young(v)' <=> Young(v)) /\ (Young(v) => Finding(v).title \in dedupCache)
  BY <1>1, <1>3 DEF OnceInv, InsertInv, Young
<1>12. Young(w)' => worker'[w].inserting /\ <<worker[w].ev, worker[w].at>> \notin aged
  BY <1>1, <1>3 DEF Young
<1> HIDE DEF t
<1>13. ASSUME NEW v \in Workers, Young(v)'
       PROVE  /\ Finding(v)'.title \in dedupCache'
              /\ \A u \in Workers :
                   Young(u)' /\ Finding(u)'.title = Finding(v)'.title => u = v
              /\ \A a \in Alerts : InMemory(a)' => ~(a.ev = worker'[v].ev /\ a.at = worker'[v].at)
  <2>1. CASE v = w
    <3>1. Finding(w)'.title = t
      BY <1>9, <1>12, <1>13, <2>1 DEF t
    <3>2. \A a \in Alerts : InMemory(a)' => ~(a.ev = worker'[v].ev /\ a.at = worker'[v].at)
      BY <1>3, <1>4, <1>5, <1>12, <1>13, <2>1
    <3> QED
      BY <1>1, <1>10, <1>11, <2>1, <3>1, <3>2
  <2>2. CASE v # w
    <3>1. worker'[v] = worker[v] /\ Finding(v)' = Finding(v) /\ Young(v)
          /\ Finding(v).title \in dedupCache
      BY <1>3, <1>10, <1>11, <1>13, <2>2
    <3>2. ASSUME NEW u \in Workers, Young(u)', Finding(u)'.title = Finding(v)'.title
          PROVE  u = v
      <4>1. CASE u = w
        <5>1. Finding(u)'.title = t
          BY <1>9, <1>12, <3>2, <4>1 DEF t
        <5> QED
          BY <1>1, <3>1, <3>2, <5>1
      <4>2. CASE u # w
        <5>1. Young(u) /\ Finding(u)' = Finding(u)
          BY <1>10, <1>11, <3>2, <4>2
        <5> QED
          BY <3>1, <3>2, <5>1 DEF OnceInv, InsertInv
      <4> QED
        BY <4>1, <4>2
    <3>3. \A a \in Alerts : InMemory(a)' => ~(a.ev = worker'[v].ev /\ a.at = worker'[v].at)
      BY <1>5, <3>1 DEF OnceInv, InsertInv
    <3> QED
      BY <1>1, <3>1, <3>2, <3>3
  <2> QED
    BY <2>1, <2>2
<1>14. InsertInv'
  BY <1>13 DEF InsertInv
<1> QED
  BY <1>6, <1>7, <1>8, <1>14 DEF OnceInv

\* The alert is the first in memory of its finding, or its stamp expired too soon.
LEMMA InsertOnce ==
  ASSUME TypeInv, OnceInv, NEW w \in Workers, InsertAlert(w)
  PROVE  OnceInv'
<1> DEFINE b == Alert(worker[w].ev, worker[w].n, worker[w].at)
<1>1. /\ worker[w].inserting /\ Busy(w) /\ ~Over(w) /\ NextFinding(w)
      /\ UNCHANGED <<stream, correlation, waiting, dedupCache, aged>>
      /\ pending' \subseteq pending \cup {b}
  BY DEF InsertAlert, Feeds, TypeInv, WorkerType
<1>2. /\ worker[w].ev \in Events /\ worker[w].at \in DOMAIN Findings[worker[w].ev]
      /\ worker[w].n \in 1..MaxDeliver
  BY <1>1, AtAFinding DEF TypeInv
<1>3. b \in Alerts /\ b.ev = worker[w].ev /\ b.at = worker[w].at
  BY <1>2, AlertsHas
<1>4. Title(b.ev, b.at) = Finding(w).title
  BY <1>3 DEF Title, Finding
<1> HIDE DEF b
<1>5. \A a \in Alerts : InMemory(a)' => InMemory(a) \/ a = b
  BY <1>1 DEF InMemory, correlation, memory
<1>6. /\ worker'[w].ev = worker[w].ev /\ ~worker'[w].inserting
      /\ \A v \in Workers : v # w => worker'[v] = worker[v]
  BY <1>1, NextFindingEffect DEF TypeInv
<1>7. /\ \A e \in Events : deliveries[e] > 0 => deliveries'[e] > 0
      /\ \A e \in Events : Final(e) => Final(e)'
      /\ HandInv'
  <2>1. \A v \in Workers : worker'[v].ev \in {worker[v].ev, Idle}
    BY <1>6
  <2> QED
    BY <1>1, <2>1, SameEvents
<1>8. StampedInv'
  <2> SUFFICES ASSUME NEW a \in Alerts, InMemory(a)'
               PROVE  /\ deliveries'[a.ev] > 0
                      /\ \/ Title(a.ev, a.at) \in dedupCache' \/ Final(a.ev)'
                         \/ <<a.ev, a.at>> \in aged'
    BY DEF StampedInv
  <2>1. CASE InMemory(a)
    BY <1>1, <1>7, <2>1, AlertFields DEF OnceInv, StampedInv
  <2>2. CASE a = b
    <3>1. deliveries'[b.ev] > 0
      BY <1>1, <1>2, <1>3, <1>7 DEF OnceInv, HandInv, InHand
    <3>2. Title(b.ev, b.at) \in dedupCache' \/ <<b.ev, b.at>> \in aged'
      BY <1>1, <1>3, <1>4 DEF OnceInv, InsertInv, Young
    <3> QED
      BY <2>2, <3>1, <3>2
  <2> QED
    BY <1>5, <2>1, <2>2
<1>9. \A a \in Alerts : InMemory(a) /\ <<b.ev, b.at>> \notin aged => ~(a.ev = b.ev /\ a.at = b.at)
  BY <1>1, <1>3 DEF OnceInv, InsertInv, Young
<1>10. UniqueInv'
  <2> SUFFICES ASSUME NEW a \in Alerts, NEW c \in Alerts, InMemory(a)', InMemory(c)',
                      a.ev = c.ev, a.at = c.at, <<a.ev, a.at>> \notin aged
               PROVE  a = c
    BY <1>1 DEF UniqueInv
  <2>1. CASE a = b \/ c = b
    BY <1>5, <1>9, <2>1
  <2>2. CASE a # b /\ c # b
    BY <1>5, <2>2 DEF OnceInv, UniqueInv
  <2> QED
    BY <2>1, <2>2
<1>11. ASSUME NEW v \in Workers, Young(v)'
       PROVE  /\ Finding(v)'.title \in dedupCache'
              /\ \A u \in Workers :
                   Young(u)' /\ Finding(u)'.title = Finding(v)'.title => u = v
              /\ \A a \in Alerts : InMemory(a)' => ~(a.ev = worker'[v].ev /\ a.at = worker'[v].at)
  <2>1. v # w
    BY <1>6, <1>11 DEF Young
  <2>2. /\ worker'[v] = worker[v] /\ Young(v) /\ Finding(v)' = Finding(v)
        /\ \A u \in Workers : Young(u)' => Young(u) /\ Finding(u)' = Finding(u)
    BY <1>1, <1>6, <1>11, <2>1 DEF Finding, Young
  <2>3. ~(b.ev = worker[v].ev /\ b.at = worker[v].at)
    <3>1. CASE Young(w)
      <4>1. Finding(v).title # Finding(w).title
        BY <2>1, <2>2, <3>1 DEF OnceInv, InsertInv
      <4> QED
        BY <1>4, <4>1 DEF Title, Finding
    <3>2. CASE ~Young(w)
      BY <1>1, <1>3, <2>2, <3>2 DEF Young
    <3> QED
      BY <3>1, <3>2
  <2>4. Finding(v).title \in dedupCache
        /\ \A a \in Alerts : InMemory(a) => ~(a.ev = worker[v].ev /\ a.at = worker[v].at)
    BY <2>2 DEF OnceInv, InsertInv
  <2>5. \A u \in Workers : Young(u)' /\ Finding(u)'.title = Finding(v)'.title => u = v
    BY <2>2 DEF OnceInv, InsertInv
  <2> QED
    BY <1>1, <1>5, <2>2, <2>3, <2>4, <2>5
<1>12. InsertInv'
  BY <1>11 DEF InsertInv
<1> QED
  BY <1>7, <1>8, <1>10, <1>12 DEF OnceInv

\* An acknowledgement or its loss: an event that is over stays so.
LEMMA AcknowledgeOnce ==
  ASSUME TypeInv, OnceInv, NEW w \in Workers, Acknowledge(w)
  PROVE  OnceInv'
<1>1. /\ worker[w].ev \in Events
      /\ worker'[w].ev = Idle /\ ~worker'[w].inserting
      /\ \A v \in Workers : v # w => worker'[v] = worker[v]
      /\ UNCHANGED <<correlation, waiting, dedupCache, pending, deliveries, aged>>
  BY DEF Acknowledge, Over, Busy, TypeInv, WorkerType, Free, Ack, stream
<1>2. \A e \in Events : msg[e] \in {"done", "dead"} => msg'[e] \in {"done", "dead"}
  BY <1>1 DEF Acknowledge, Ack, stream, TypeInv, StreamTypeOK
<1>3. \A e \in Events : (InHand(e)' => InHand(e)) /\ (Final(e) => Final(e)')
  <2>1. \A e \in Events : InHand(e)' => InHand(e)
    BY <1>1, PipelineAssumption DEF InHand
  <2> QED
    BY <1>2, <2>1 DEF Final
<1>4. HandInv'
  BY <1>1, <1>3 DEF OnceInv, HandInv
<1>5. \A v \in Workers : Still(v)
  BY <1>1 DEF Still
<1>6. \A a \in Alerts : InMemory(a)' => InMemory(a)
  BY <1>1, SameMemory
<1>7. \A a \in Alerts : InMemory(a) /\ Final(a.ev) => Final(a.ev)'
  BY <1>3, AlertFields
<1> QED
  BY <1>1, <1>4, <1>5, <1>6, <1>7, OnceKept

LEMMA RedeliverOnce ==
  ASSUME TypeInv, OnceInv, NEW e \in Events, Redeliver(e)
  PROVE  OnceInv'
<1>1. /\ msg[e] = "out"
      /\ UNCHANGED <<correlation, waiting, dedupCache, pending, deliveries, worker, aged>>
      /\ \A d \in Events : d # e => msg'[d] = msg[d]
  BY DEF Redeliver, AckWaitOver, TypeInv, StreamTypeOK
<1>2. \A d \in Events : Final(d) => Final(d)'
  BY <1>1 DEF Final, InHand
<1>3. HandInv' /\ \A v \in Workers : Still(v)
  BY <1>1 DEF Still, OnceInv, HandInv, InHand
<1>4. \A a \in Alerts : InMemory(a)' => InMemory(a)
  BY <1>1, SameMemory
<1>5. \A a \in Alerts : InMemory(a) /\ Final(a.ev) => Final(a.ev)'
  BY <1>2, AlertFields
<1> QED
  BY <1>1, <1>3, <1>4, <1>5, OnceKept

\* The events that carry the title are over for good or were never delivered, or the
\* stamp has expired too soon for them.
LEMMA WindowOnce ==
  ASSUME TypeInv, OnceInv, NEW t, WindowOver(t)
  PROVE  OnceInv'
<1>1. /\ UNCHANGED <<correlation, waiting, pending, worker, msg, deliveries>>
      /\ dedupCache' = dedupCache \ {t} /\ aged' = aged \cup AgedBy(t)
  BY DEF WindowOver, stream
<1>2. \A a \in Alerts : InMemory(a)' <=> InMemory(a)
  BY <1>1, SameMemory
<1>3. ASSUME NEW e \in Events, NEW i \in DOMAIN Findings[e], Title(e, i) = t, UnderWay(e)
      PROVE  <<e, i>> \in AgedBy(t)
  BY <1>3 DEF AgedBy, Title
<1>4. HandInv' /\ \A e \in Events : Final(e)' <=> Final(e)
  BY <1>1 DEF OnceInv, HandInv, InHand, Final
<1>5. ASSUME NEW a \in Alerts, InMemory(a), Title(a.ev, a.at) = t
      PROVE  Final(a.ev) \/ <<a.ev, a.at>> \in aged'
  <2>1. a.ev \in Events /\ a.at \in DOMAIN Findings[a.ev] /\ deliveries[a.ev] > 0
    BY <1>5, AlertFields DEF OnceInv, StampedInv
  <2>2. CASE UnderWay(a.ev)
    BY <1>1, <1>3, <1>5, <2>1, <2>2
  <2>3. CASE ~UnderWay(a.ev)
    BY <2>1, <2>3 DEF UnderWay, Final, TypeInv, StreamTypeOK
  <2> QED
    BY <2>2, <2>3
<1>6. StampedInv'
  <2> SUFFICES ASSUME NEW a \in Alerts, InMemory(a)
               PROVE  /\ deliveries[a.ev] > 0
                      /\ \/ Title(a.ev, a.at) \in dedupCache' \/ Final(a.ev)
                         \/ <<a.ev, a.at>> \in aged'
    BY <1>1, <1>2, <1>4, AlertFields DEF StampedInv
  <2> QED
    BY <1>1, <1>5 DEF OnceInv, StampedInv
<1>7. UniqueInv'
  BY <1>1, <1>2 DEF OnceInv, UniqueInv
<1>8. ASSUME NEW w \in Workers, Young(w)'
      PROVE  Young(w) /\ Finding(w)' = Finding(w) /\ Finding(w).title \in dedupCache'
  <2>1. Young(w) /\ Finding(w)' = Finding(w) /\ <<worker[w].ev, worker[w].at>> \notin AgedBy(t)
    BY <1>1, <1>8 DEF Young, Finding
  <2>2. Busy(w) /\ worker[w].ev \in Events /\ worker[w].at \in DOMAIN Findings[worker[w].ev]
    BY <2>1, AtAFinding DEF TypeInv, WorkerType, Young
  <2>3. UnderWay(worker[w].ev)
    BY <2>2 DEF UnderWay, InHand, OnceInv, HandInv
  <2>4. Finding(w).title # t
    BY <1>3, <2>1, <2>2, <2>3 DEF Title, Finding
  <2> QED
    BY <1>1, <2>1, <2>4 DEF OnceInv, InsertInv
<1>9. InsertInv'
  <2>1. ASSUME NEW w \in Workers, Young(w)'
        PROVE  /\ Finding(w)'.title \in dedupCache'
               /\ \A v \in Workers :
                    Young(v)' /\ Finding(v)'.title = Finding(w)'.title => v = w
               /\ \A a \in Alerts : InMemory(a)' => ~(a.ev = worker'[w].ev /\ a.at = worker'[w].at)
    BY <1>1, <1>2, <1>8, <2>1 DEF OnceInv, InsertInv
  <2> QED
    BY <2>1 DEF InsertInv
<1> QED
  BY <1>4, <1>6, <1>7, <1>9 DEF OnceInv

\* Steps of the correlation engine move alerts within memory.
LEMMA EngineOnce ==
  ASSUME TypeInv, OnceInv, UNCHANGED <<stream, waiting, worker, dedupCache, aged>>,
         \A a \in Alerts : InMemory(a)' => InMemory(a)
  PROVE  OnceInv'
<1>1. \A v \in Workers : Still(v) /\ worker'[v].ev \in {worker[v].ev, Idle}
  BY DEF Still
<1>2. /\ \A e \in Events : deliveries[e] > 0 => deliveries'[e] > 0
      /\ \A e \in Events : Final(e) => Final(e)'
      /\ HandInv'
  BY <1>1, SameEvents
<1>3. \A a \in Alerts : InMemory(a) /\ Final(a.ev) => Final(a.ev)'
  BY <1>2, AlertFields
<1> QED
  BY <1>1, <1>2, <1>3, OnceKept

LEMMA OnceStep == TypeInv /\ CountInv /\ OnceInv /\ [Next]_vars => OnceInv'
<1> SUFFICES ASSUME TypeInv, CountInv, OnceInv, [Next]_vars PROVE OnceInv'
  OBVIOUS
<1>1. ASSUME NEW w \in Workers, Repeat(w) \/ InsertFails(w) PROVE OnceInv'
  BY <1>1, SkipOnce DEF Repeat, InsertFails
<1>2. ASSUME NEW a \in pending, Correlate(a) PROVE OnceInv'
  <2>1. a \in alerts /\ a \in Alerts
    BY DEF TypeInv, TableType
  <2>2. ASSUME NEW k \in 1..Rules
        PROVE  buffer'[k] \subseteq buffer[k] \cup {a}
               /\ incident'[k] \subseteq buffer[k] \cup incident[k] \cup {a}
    <3>1. ProcessAlert(a) /\ a.rules \subseteq 1..Rules
      BY <1>2, <2>1, AlertFields DEF Correlate
    <3> QED
      BY <2>1, <3>1, ProcessEffect DEF TypeInv
  <2>3. \A c \in Alerts : InMemory(c)' => InMemory(c)
    BY <1>2, <2>2 DEF InMemory, Correlate
  <2> QED
    BY <1>2, <2>3, EngineOnce DEF Correlate
<1>3. ASSUME NEW k \in 1..Rules, Store(k) PROVE OnceInv'
  <2>1. \A c \in Alerts : InMemory(c)' => InMemory(c)
    BY <1>3 DEF InMemory, Store, PersistIncident, PersistFails
  <2> QED
    BY <1>3, <2>1, EngineOnce DEF Store
<1>4. ASSUME NEW k \in 1..Rules, Age(k) PROVE OnceInv'
  <2>1. UNCHANGED incident /\ \A j \in 1..Rules : buffer'[j] \subseteq buffer[j]
    BY <1>4 DEF Age, Expire, TypeInv, MemoryType
  <2>2. \A c \in Alerts : InMemory(c)' => InMemory(c)
    BY <1>4, <2>1 DEF InMemory, Age
  <2> QED
    BY <1>4, <2>2, EngineOnce DEF Age
<1>5. CASE Close
  <2>1. \A c \in Alerts : InMemory(c)' => InMemory(c)
    BY <1>5 DEF InMemory, Close, CloseIncident, memory
  <2> QED
    BY <1>5, <2>1, EngineOnce DEF Close
<1>6. CASE Crash
  <2>1. \A c \in Alerts : ~InMemory(c)'
    BY <1>6 DEF InMemory, Crash, NewEngine, EmptyMemory
  <2>2. waiting' = {} /\ \A w \in Workers : ~worker'[w].inserting /\ worker'[w].ev = Idle
    BY <1>6 DEF Crash, Free
  <2>3. HandInv'
    BY <2>2, PipelineAssumption DEF HandInv, InHand
  <2> QED
    BY <2>1, <2>2, <2>3 DEF OnceInv, StampedInv, UniqueInv, InsertInv, Young
<1>7. CASE UNCHANGED vars
  <2>1. UNCHANGED <<stream, correlation, waiting, worker, dedupCache, pending, aged>>
    BY <1>7 DEF vars
  <2>2. \A c \in Alerts : InMemory(c)' => InMemory(c)
    BY <2>1, SameMemory
  <2> QED
    BY <2>1, <2>2, EngineOnce
<1> QED
  BY <1>1, <1>2, <1>3, <1>4, <1>5, <1>6, <1>7, DeliverOnce, ReceiveOnce, StampOnce, InsertOnce,
     AcknowledgeOnce, RedeliverOnce, WindowOnce DEF Next

----------------------------------------------------------------------------
(* The evidence of an incident. *)

LEMMA EvidenceStep == IInv /\ [Next]_vars => EvidenceHolds'
<1> SUFFICES ASSUME IInv, [Next]_vars PROVE EvidenceHolds'
  OBVIOUS
<1> USE DEF IInv, TypeInv
<1> DEFINE Rests(row) == /\ row.alerts \subseteq alerts
                         /\ Cardinality(row.alerts) >= MinEvents[row.rule]
                         /\ \A a, b \in row.alerts :
                              a.ev = b.ev /\ a.at = b.at /\ <<a.ev, a.at>> \notin aged => a = b
<1>1. alerts \subseteq alerts' /\ aged \subseteq aged'
  BY DEF Next, Deliver, Receive, Repeat, Stamp, InsertAlert, InsertFails, Acknowledge, Correlate,
     Store, Age, Redeliver, WindowOver, Close, Crash, vars
<1>2. \A row \in rows : Rests(row)
  BY DEF EvidenceHolds
<1>3. ASSUME \A row \in rows' : Rests(row) PROVE EvidenceHolds'
  BY <1>1, <1>3 DEF EvidenceHolds
<1>4. CASE UNCHANGED rows
  BY <1>2, <1>3, <1>4
<1>5. ASSUME NEW k \in 1..Rules, PersistIncident(k) PROVE EvidenceHolds'
  <2> DEFINE new == [rule |-> k, life |-> life, alerts |-> incident[k], status |-> "open",
                     atClose |-> {}]
  <2>1. rows' = rows \cup {new}
    BY <1>5 DEF PersistIncident
  <2>2. incident[k] # {} /\ incident[k] \subseteq alerts
    BY <1>5 DEF PersistIncident, MemoryType
  <2>3. incident[k] \in SUBSET Alerts /\ \A a \in incident[k] : InMemory(a)
    BY <2>2 DEF TableType, InMemory
  <2>4. Cardinality(incident[k]) >= MinEvents[k]
    BY <2>2 DEF CountInv
  <2>5. \A a, b \in incident[k] :
          a.ev = b.ev /\ a.at = b.at /\ <<a.ev, a.at>> \notin aged => a = b
    BY <2>3 DEF OnceInv, UniqueInv
  <2>6. new.rule = k /\ new.alerts = incident[k]
    OBVIOUS
  <2> HIDE DEF new
  <2>7. Rests(new)
    BY <2>2, <2>4, <2>5, <2>6
  <2> HIDE DEF Rests
  <2> QED
    BY <1>2, <1>3, <2>1, <2>7
<1>6. ASSUME NEW row \in rows, CloseIncident(row) PROVE EvidenceHolds'
  <2> DEFINE at == IF row.life = life THEN incident[row.rule] ELSE {}
             new == [row EXCEPT !.status = "closed", !.atClose = at]
  <2>1. rows' = (rows \ {row}) \cup {new}
    BY <1>6 DEF CloseIncident
  <2> HIDE DEF at
  <2>2. new.rule = row.rule /\ new.alerts = row.alerts
    BY DEF MemoryType, Row
  <2> HIDE DEF new
  <2>3. Rests(new)
    BY <1>2, <2>2
  <2> HIDE DEF Rests
  <2> QED
    BY <1>2, <1>3, <2>1, <2>3
<1> QED
  BY <1>4, <1>5, <1>6
  DEF Next, Deliver, Receive, Repeat, Stamp, InsertAlert, InsertFails, Acknowledge, Correlate,
      ProcessAlert, Store, PersistFails, Age, Expire, Redeliver, WindowOver, Close, Crash,
      NewEngine, correlation, vars

----------------------------------------------------------------------------
(* The theorems. *)

LEMMA IInvStep == IInv /\ [Next]_vars => IInv'
  BY StreamStep, WaitStep, WorkerStep, MemoryStep, TableStep, CountStep, OnceStep, EvidenceStep
  DEF IInv, TypeInv

LEMMA IInvHolds == Spec => []IInv
  BY InitIInv, IInvStep, PTL DEF Spec

\* Through every interleaving of deliveries, workers, goroutines, closings and crashes,
\* stream, engine, workers and tables are well formed (handleEvent).
THEOREM PipelineTypes == Spec => []TypeOK
<1>1. IInv => TypeOK
  <2> SUFFICES ASSUME IInv PROVE TypeOK
    OBVIOUS
  <2> USE DEF IInv, TypeInv
  <2>1. buffer \in [1..Rules -> SUBSET Alerts] /\ incident \in [1..Rules -> SUBSET Alerts]
    BY DEF MemoryType, TableType
  <2>2. \A row \in rows : /\ row.rule \in 1..Rules /\ row.life \in 0..life
                          /\ row.alerts \subseteq Alerts /\ row.status \in {"open", "closed"}
    BY DEF MemoryType, Row
  <2>3. CorrelationTypeOK(Alerts)
    BY <2>1, <2>2 DEF CorrelationTypeOK, MemoryType
  <2> QED
    BY <2>3 DEF TypeOK, WaitType, WorkerType, TableType
<1> QED
  BY <1>1, IInvHolds, PTL

\* A rule whose window holds as many alerts as its threshold has an incident, for
\* every rule list and every set of thresholds (ProcessAlert).
THEOREM FullWindowRaises == Spec => []ThresholdRaises
<1>1. IInv => ThresholdRaises
  BY DEF IInv
<1> QED
  BY <1>1, IInvHolds, PTL

\* A stored incident rests on as many alerts of the table as its rule asks for, and no
\* two of them are of one finding unless its stamp expired with a delivery under way,
\* for every number of workers, events and deliveries (isDuplicate,
\* createAlertFromSigma, ProcessAlert and persistIncident together).
THEOREM EvidenceSuffices == Spec => []EvidenceHolds
<1>1. IInv => EvidenceHolds
  BY DEF IInv
<1> QED
  BY <1>1, IInvHolds, PTL

=============================================================================
