-------------------------- MODULE DetectionProofs --------------------------
(***************************************************************************)
(* Proofs about the two components that decide how many alerts an analyst  *)
(* sees.                                                                   *)
(*                                                                         *)
(* Part 1, DetectionEngine: its state is well formed, a replica raises a   *)
(* title once within the window, and an event that is acknowledged was     *)
(* looked at to its last finding.                                          *)
(*                                                                         *)
(* Part 2, AlertDedup: its state is well formed, following the merges from *)
(* any alert ends at one that is still there, a server never closes an     *)
(* alert that an analyst had decided about before the query, and           *)
(* duplicates leave the window merged.                                     *)
(***************************************************************************)
EXTENDS DetectionEngine, AlertDedup, FiniteSetTheorems, TLAPS

(***************************************************************************)
(* Part 1: the detection engine.                                           *)
(***************************************************************************)

Found == [kind : Kinds, title : Titles, quiet : BOOLEAN]

(* What the type invariant needs to be inductive: a message is only ready again
   below MaxDeliver, and the maps are finite, or their sizes would say nothing. *)

WorkerType ==
  /\ worker \in [Workers -> [ev : Events \cup {Idle}, at : Nat \ {0}, saving : BOOLEAN]]
  /\ \A w \in Workers :
       /\ Busy(w) => worker[w].at <= Len(Findings[worker[w].ev]) + 1
       /\ worker[w].saving => Busy(w) /\ worker[w].ev \notin Malformed /\ ~AllDone(w)

Below == \A e \in Events : msg[e] = "ready" => deliveries[e] < MaxDeliver

MapType(m) ==
  /\ m \in [Replicas -> SUBSET Titles]
  /\ \A r \in Replicas : IsFiniteSet(m[r]) /\ Cardinality(m[r]) <= MapCap + 1

WaitType == waiting \in [Replicas -> Seq(Events)] /\ waits \in 0..MaxWaits

LateType == late \subseteq {w \in Workers : worker[w].saving}

HistoryType ==
  /\ stopping \subseteq Replicas /\ faults \in 0..MaxFaults
  /\ fresh \in [Replicas -> [Titles -> Nat]]
  /\ capped \subseteq Replicas
  /\ settled \in [Events -> SUBSET Nat]

TypeInv ==
  /\ StreamTypeOK /\ Below
  /\ WaitType /\ WorkerType /\ LateType
  /\ MapType(dedup) /\ MapType(seen)
  /\ HistoryType

\* The worker is about to save an alert of a rule with this title, for a stamp that
\* is not too old.
Saves(w, t) ==
  worker[w].saving /\ w \notin late /\ Finding(w).kind = "rule" /\ Finding(w).title = t

\* A stamp has let through at most one alert, saved or being saved, and there is none
\* without a stamp.
WindowInv ==
  \A r \in Replicas \ capped, t \in Titles :
    /\ fresh[r][t] <= 1
    /\ fresh[r][t] # 0 => t \in dedup[r]
    /\ \A w \in Workers : Home[w] = r /\ Saves(w, t) =>
         /\ t \in dedup[r] /\ fresh[r][t] = 0
         /\ \A v \in Workers : Home[v] = r /\ Saves(v, t) => v = w

\* A worker has dealt with the findings before the one it is at.
Behind ==
  \A w \in Workers : Busy(w) /\ worker[w].ev \notin Malformed =>
    1..(worker[w].at - 1) \subseteq settled[worker[w].ev]

Within == \A e \in Events : settled[e] \subseteq 1..Len(Findings[e])

AccountInv == Behind /\ Within /\ Accounted

IInv == TypeInv /\ WindowInv /\ AccountInv

----------------------------------------------------------------------------
(* The operators. *)

\* isDuplicateAlert and markBaselineSeen keep their maps at most one above the cap.
LEMMA RememberBounded ==
  ASSUME NEW S \in SUBSET Titles, IsFiniteSet(S), Cardinality(S) <= MapCap + 1,
         NEW t \in Titles
  PROVE  /\ Remember(S, t) \in SUBSET Titles
         /\ IsFiniteSet(Remember(S, t)) /\ Cardinality(Remember(S, t)) <= MapCap + 1
<1>1. MapCap \in Nat
  BY EngineAssumption
<1>2. Cardinality(S) \in Nat
  BY FS_CardinalityType
<1>3. CASE Cardinality(S) > MapCap
  <2>1. IsFiniteSet({t}) /\ Cardinality({t}) = 1
    BY FS_Singleton
  <2>2. 1 <= MapCap + 1
    BY <1>1
  <2>3. Remember(S, t) = {t}
    BY <1>3 DEF Remember
  <2> QED
    BY <2>1, <2>2, <2>3
<1>4. CASE ~(Cardinality(S) > MapCap)
  <2>1. IsFiniteSet(S \cup {t})
    BY FS_AddElement
  <2>2. Cardinality(S \cup {t}) <= Cardinality(S) + 1
    BY <1>2, FS_AddElement
  <2>3. Cardinality(S \cup {t}) \in Nat
    BY <2>1, FS_CardinalityType
  <2> QED
    BY <1>1, <1>2, <1>4, <2>1, <2>2, <2>3 DEF Remember
<1> QED
  BY <1>3, <1>4

\* The findings of an event are a sequence.
LEMMA FindingsType ==
  ASSUME NEW e \in Events
  PROVE  /\ Findings[e] \in Seq(Found) /\ Len(Findings[e]) \in Nat
         /\ DOMAIN Findings[e] = 1..Len(Findings[e])
<1>1. Findings \in [Events -> Seq(Found)]
  BY EngineAssumption DEF Found
<1>2. Findings[e] \in Seq(Found)
  BY <1>1
<1> QED
  BY <1>2

\* What a worker that is not past the last finding is at.
LEMMA AtAFinding ==
  ASSUME WorkerType, NEW w \in Workers, Busy(w), ~AllDone(w)
  PROVE  /\ worker[w].ev \in Events /\ worker[w].at \in 1..Len(Findings[worker[w].ev])
         /\ Finding(w) \in Found
<1>1. worker[w].ev \in Events
  BY DEF WorkerType, Busy
<1>2. Findings[worker[w].ev] \in Seq(Found) /\ Len(Findings[worker[w].ev]) \in Nat
  BY <1>1, FindingsType
<1>3. worker[w].at \in Nat \ {0}
  BY DEF WorkerType
<1>4. worker[w].at \in 1..Len(Findings[worker[w].ev])
  BY <1>2, <1>3 DEF AllDone
<1> QED
  BY <1>1, <1>2, <1>4 DEF Finding

----------------------------------------------------------------------------
(* The state is well formed. *)

LEMMA InitIInv == Init => IInv
<1> SUFFICES ASSUME Init PROVE IInv
  OBVIOUS
<1> USE DEF Init, StreamInit
<1>1. MapCap \in Nat /\ MaxFaults \in Nat /\ MaxDeliver \in Nat \ {0}
  BY EngineAssumption, StreamAssumption
<1>2. StreamTypeOK /\ Below
  BY <1>1 DEF StreamTypeOK, Below
<1>3. WaitType /\ WorkerType /\ LateType
  <2>1. WaitType
    BY EngineAssumption DEF WaitType
  <2>2. WorkerType /\ LateType
    BY DEF WorkerType, LateType, Free, Busy
  <2> QED
    BY <2>1, <2>2
<1>4. MapType(dedup) /\ MapType(seen)
  BY <1>1, FS_EmptySet DEF MapType
<1>5. HistoryType
  BY <1>1 DEF HistoryType
<1>6. WindowInv
  BY DEF WindowInv, Saves, Free
<1>7. AccountInv
  BY DEF AccountInv, Behind, Within, Accounted, Busy, Free
<1> QED
  BY <1>2, <1>3, <1>4, <1>5, <1>6, <1>7 DEF IInv, TypeInv

LEMMA StreamStep == TypeInv /\ [Next]_vars => (StreamTypeOK /\ Below)'
<1> SUFFICES ASSUME TypeInv, [Next]_vars PROVE (StreamTypeOK /\ Below)'
  OBVIOUS
<1> USE DEF TypeInv, StreamTypeOK, Below
<1>1. MaxDeliver \in Nat \ {0}
  BY StreamAssumption
<1>2. ASSUME NEW e \in Events, HandOut(e) PROVE (StreamTypeOK /\ Below)'
  BY <1>1, <1>2 DEF HandOut
<1>3. ASSUME NEW e \in Events, Ack(e) PROVE (StreamTypeOK /\ Below)'
  BY <1>3 DEF Ack
<1>4. ASSUME NEW e \in Events, Nak(e) \/ AckWaitOver(e) PROVE (StreamTypeOK /\ Below)'
  BY <1>1, <1>4 DEF Nak, AckWaitOver, Again
<1>5. CASE UNCHANGED stream
  BY <1>5 DEF stream
<1>6. ASSUME NEW w \in Workers, Step(w) PROVE (StreamTypeOK /\ Below)'
  <2>1. CASE Refuse(w)
    BY <2>1, <1>4, <1>5, EngineAssumption DEF Refuse
  <2>2. CASE Acknowledge(w)
    <3>1. worker[w].ev \in Events
      BY <2>2 DEF Acknowledge, Over, Busy, WorkerType
    <3> QED
      BY <2>2, <3>1, <1>3, <1>5 DEF Acknowledge
  <2> QED
    BY <1>5, <1>6, <2>1, <2>2 DEF Step, Receive, Drop, Consider, Save, SaveFails
<1> QED
  BY <1>2, <1>4, <1>5, <1>6
  DEF Next, Deliver, Redeliver, Stop, Exit, Crash, Gone, WindowOver, vars

\* The buffers hold events.
LEMMA WaitStep == TypeInv /\ [Next]_vars => WaitType'
<1> SUFFICES ASSUME TypeInv, [Next]_vars PROVE WaitType'
  OBVIOUS
<1> USE DEF TypeInv, WaitType
<1>1. waits' \in 0..MaxWaits
  <2>1. MaxWaits \in Nat
    BY EngineAssumption
  <2>2. ASSUME NEW e \in Events, Redeliver(e) PROVE waits' \in 0..MaxWaits
    <3>1. UNCHANGED waits \/ (waits < MaxWaits /\ waits' = waits + 1)
      BY <2>2 DEF Redeliver
    <3> QED
      BY <2>1, <3>1
  <2> QED
    BY <2>2 DEF Next, Step, Deliver, Receive, Refuse, Drop, Consider, Save, SaveFails,
       Acknowledge, Stop, Exit, Crash, Gone, WindowOver, vars
<1>2. ASSUME NEW r \in Replicas, NEW e \in Events, Deliver(r, e)
      PROVE  waiting' \in [Replicas -> Seq(Events)]
  <2>1. Append(waiting[r], e) \in Seq(Events)
    OBVIOUS
  <2> QED
    BY <1>2, <2>1 DEF Deliver
<1>3. ASSUME NEW w \in Workers, Receive(w)
      PROVE  waiting' \in [Replicas -> Seq(Events)]
  <2>1. Home[w] \in Replicas
    BY EngineAssumption
  <2>2. waiting[Home[w]] \in Seq(Events) /\ waiting[Home[w]] # <<>>
    BY <1>3, <2>1 DEF Receive
  <2>3. Tail(waiting[Home[w]]) \in Seq(Events)
    BY <2>2
  <2> QED
    BY <1>3, <2>1, <2>3 DEF Receive
<1>4. ASSUME NEW r \in Replicas, Gone(r)
      PROVE  waiting' \in [Replicas -> Seq(Events)]
  <2>1. <<>> \in Seq(Events)
    OBVIOUS
  <2> QED
    BY <1>4, <2>1 DEF Gone
<1>5. waiting' \in [Replicas -> Seq(Events)]
  BY <1>2, <1>3, <1>4 DEF Next, Step, Refuse, Drop, Consider, Save, SaveFails, Acknowledge,
     Redeliver, Stop, Exit, Crash, WindowOver, vars
<1> QED
  BY <1>1, <1>5

\* Settle moves a worker past the finding it is at, and no further than the last.
LEMMA SettleType ==
  ASSUME WorkerType, HistoryType, NEW w \in Workers, Busy(w),
         worker[w].ev \notin Malformed, ~AllDone(w), Settle(w)
  PROVE  WorkerType' /\ settled' \in [Events -> SUBSET Nat]
<1>1. worker[w].ev \in Events /\ worker[w].at \in 1..Len(Findings[worker[w].ev])
  BY AtAFinding
<1>2. Len(Findings[worker[w].ev]) \in Nat
  BY <1>1, FindingsType
<1>3. settled' \in [Events -> SUBSET Nat]
  BY <1>1 DEF Settle, HistoryType
<1>4. worker' = [worker EXCEPT ![w] = [worker[w] EXCEPT !.at = worker[w].at + 1, !.saving = FALSE]]
  BY DEF Settle, WorkerType
<1>5. worker' \in [Workers -> [ev : Events \cup {Idle}, at : Nat \ {0}, saving : BOOLEAN]]
  <2>1. worker[w] \in [ev : Events \cup {Idle}, at : Nat \ {0}, saving : BOOLEAN]
    BY DEF WorkerType
  <2>2. worker[w].at + 1 \in Nat \ {0}
    BY <2>1
  <2>3. [worker[w] EXCEPT !.at = worker[w].at + 1, !.saving = FALSE]
          \in [ev : Events \cup {Idle}, at : Nat \ {0}, saving : BOOLEAN]
    BY <2>1, <2>2
  <2> QED
    BY <1>4, <2>3 DEF WorkerType
<1>6. \A v \in Workers : v # w => worker'[v] = worker[v]
  BY <1>4 DEF WorkerType
<1>7. worker'[w] = [worker[w] EXCEPT !.at = worker[w].at + 1, !.saving = FALSE]
  BY <1>4 DEF WorkerType
<1>8. worker'[w].ev = worker[w].ev /\ worker'[w].at = worker[w].at + 1 /\ ~worker'[w].saving
  BY <1>7 DEF WorkerType
<1> QED
  <2>1. ASSUME NEW v \in Workers
        PROVE  /\ Busy(v)' => worker'[v].at <= Len(Findings[worker'[v].ev]) + 1
               /\ worker'[v].saving =>
                    Busy(v)' /\ worker'[v].ev \notin Malformed /\ ~AllDone(v)'
    <3>1. CASE v = w
      BY <1>1, <1>2, <1>8, <3>1 DEF Busy, AllDone
    <3>2. CASE v # w
      BY <1>6, <3>2 DEF WorkerType, Busy, AllDone
    <3> QED
      BY <3>1, <3>2
  <2> QED
    BY <1>3, <1>5, <2>1 DEF WorkerType

\* What a worker receives is an event.
LEMMA FirstWaiting ==
  ASSUME TypeInv, NEW w \in Workers, waiting[Home[w]] # <<>>
  PROVE  Head(waiting[Home[w]]) \in Events
<1>1. waiting[Home[w]] \in Seq(Events)
  BY EngineAssumption DEF TypeInv, WaitType
<1> QED
  BY <1>1

LEMMA WorkerStep == TypeInv /\ [Next]_vars => WorkerType'
<1> SUFFICES ASSUME TypeInv, [Next]_vars PROVE WorkerType'
  OBVIOUS
<1> USE DEF TypeInv
<1>1. CASE UNCHANGED worker
  BY <1>1 DEF WorkerType, Busy, AllDone
<1>2. ASSUME NEW w \in Workers, NEW e \in Events \cup {Idle},
             worker' = [worker EXCEPT ![w] = [Free EXCEPT !.ev = e]]
      PROVE  WorkerType'
  <2>1. e # Idle => Len(Findings[e]) \in Nat
    BY FindingsType
  <2>2. worker' \in [Workers -> [ev : Events \cup {Idle}, at : Nat \ {0}, saving : BOOLEAN]]
    <3>1. Free \in [ev : Events \cup {Idle}, at : Nat \ {0}, saving : BOOLEAN]
      BY DEF Free
    <3>2. [Free EXCEPT !.ev = e] \in [ev : Events \cup {Idle}, at : Nat \ {0}, saving : BOOLEAN]
      BY <3>1
    <3> QED
      BY <1>2, <3>2 DEF WorkerType
  <2>3. worker'[w].ev = e /\ worker'[w].at = 1 /\ ~worker'[w].saving
    BY <1>2 DEF WorkerType, Free
  <2>4. \A v \in Workers : v # w => worker'[v] = worker[v]
    BY <1>2 DEF WorkerType
  <2> QED
    BY <1>2, <2>1, <2>2, <2>3, <2>4 DEF WorkerType, Busy, AllDone
<1>3. ASSUME NEW w \in Workers, worker' = [worker EXCEPT ![w] = Free] PROVE WorkerType'
  BY <1>3 DEF WorkerType, Busy, AllDone, Free
<1>4. ASSUME NEW w \in Workers, Step(w) PROVE WorkerType'
  <2>0. CASE Receive(w)
    BY <1>2, <2>0, FirstWaiting DEF Receive
  <2>1. CASE Refuse(w) \/ Acknowledge(w)
    BY <1>3, <2>1 DEF Refuse, Acknowledge
  <2>2. CASE Drop(w)
    BY <2>2, SettleType DEF Drop, AtFinding
  <2>3. CASE Consider(w)
    <3>1. CASE Settle(w)
      BY <2>3, <3>1, SettleType DEF Consider, AtFinding
    <3>2. CASE worker' = [worker EXCEPT ![w].saving = TRUE]
      BY <2>3, <3>2 DEF Consider, AtFinding, WorkerType, Busy, AllDone
    <3> QED
      BY <2>3, <3>1, <3>2 DEF Consider
  <2>4. CASE Save(w) \/ SaveFails(w)
    BY <2>4, SettleType DEF Save, SaveFails, WorkerType
  <2> QED
    BY <1>4, <2>0, <2>1, <2>2, <2>3, <2>4 DEF Step
<1>6. ASSUME NEW r \in Replicas, Gone(r) PROVE WorkerType'
  BY <1>6 DEF Gone, WorkerType, Busy, AllDone, Free
<1> QED
  BY <1>1, <1>4, <1>6
  DEF Next, Deliver, Redeliver, Stop, Exit, Crash, WindowOver, vars

\* A worker is late only while it saves.
LEMMA LateStep == TypeInv /\ [Next]_vars => LateType'
<1> SUFFICES ASSUME TypeInv, [Next]_vars PROVE LateType'
  OBVIOUS
<1> USE DEF TypeInv, LateType
<1>1. CASE UNCHANGED <<late, worker>>
  BY <1>1
<1>2. ASSUME NEW w \in Workers, Settle(w) PROVE LateType'
  <2>1. \A v \in Workers : v # w => worker'[v] = worker[v]
    BY <1>2 DEF Settle, WorkerType
  <2> QED
    BY <1>2, <2>1 DEF Settle
<1>3. ASSUME NEW w \in Workers, ~worker[w].saving, UNCHANGED late,
             \A v \in Workers : v # w => worker'[v] = worker[v]
      PROVE  LateType'
  BY <1>3
<1>4. ASSUME NEW w \in Workers, Receive(w) \/ Refuse(w) \/ Acknowledge(w) PROVE LateType'
  <2>1. UNCHANGED late /\ \A v \in Workers : v # w => worker'[v] = worker[v]
    BY <1>4 DEF Receive, Refuse, Acknowledge, WorkerType
  <2>2. ~worker[w].saving
    BY <1>4 DEF Receive, Refuse, Acknowledge, Over, WorkerType
  <2> QED
    BY <1>3, <2>1, <2>2
<1>5. ASSUME NEW w \in Workers, Consider(w) PROVE LateType'
  <2>1. CASE worker' = [worker EXCEPT ![w].saving = TRUE] /\ UNCHANGED <<settled, late>>
    <3>1. \A v \in Workers : v # w => worker'[v] = worker[v]
      BY <2>1 DEF WorkerType
    <3>2. ~worker[w].saving
      BY <1>5 DEF Consider, AtFinding
    <3> QED
      BY <1>3, <2>1, <3>1, <3>2
  <2> QED
    BY <1>2, <1>5, <2>1 DEF Consider
<1>6. ASSUME NEW r \in Replicas, NEW t \in Titles, WindowOver(r, t) PROVE LateType'
  BY <1>6 DEF WindowOver
<1>7. ASSUME NEW r \in Replicas, Gone(r) PROVE LateType'
  BY <1>7 DEF Gone
<1> QED
  BY <1>1, <1>2, <1>4, <1>5, <1>6, <1>7
  DEF Next, Step, Drop, Save, SaveFails, Deliver, Redeliver, Stop, Exit, Crash, vars

LEMMA MapStep == TypeInv /\ [Next]_vars => MapType(dedup)' /\ MapType(seen)'
<1> SUFFICES ASSUME TypeInv, [Next]_vars PROVE MapType(dedup)' /\ MapType(seen)'
  OBVIOUS
<1> USE DEF TypeInv
<1>1. MapCap \in Nat
  BY EngineAssumption
<1>2. CASE UNCHANGED <<dedup, seen>>
  BY <1>2 DEF MapType
<1>3. ASSUME NEW m, NEW n, MapType(m), NEW r \in Replicas, NEW S \in SUBSET Titles,
             IsFiniteSet(S), Cardinality(S) <= MapCap + 1, n = [m EXCEPT ![r] = S]
      PROVE  MapType(n)
  BY <1>3 DEF MapType
<1>4. ASSUME NEW w \in Workers, Consider(w) PROVE MapType(dedup)' /\ MapType(seen)'
  <2>1. Home[w] \in Replicas /\ Finding(w).title \in Titles
    BY <1>4, AtAFinding, EngineAssumption DEF Consider, AtFinding, Found
  <2>2. ASSUME NEW m, MapType(m)
        PROVE  MapType([m EXCEPT ![Home[w]] = Remember(@, Finding(w).title)])
    <3>1. /\ Remember(m[Home[w]], Finding(w).title) \in SUBSET Titles
          /\ IsFiniteSet(Remember(m[Home[w]], Finding(w).title))
          /\ Cardinality(Remember(m[Home[w]], Finding(w).title)) <= MapCap + 1
      BY <2>1, <2>2, RememberBounded DEF MapType
    <3> QED
      BY <1>3, <2>1, <2>2, <3>1
  <2>3. MapType(dedup')
    BY <1>4, <2>2 DEF Consider
  <2>4. MapType(seen')
    BY <1>4, <2>2 DEF Consider
  <2> QED
    BY <2>3, <2>4 DEF MapType
<1>5. ASSUME NEW r \in Replicas, NEW t \in Titles, WindowOver(r, t)
      PROVE  MapType(dedup)' /\ MapType(seen)'
  <2>1. IsFiniteSet(dedup[r]) /\ Cardinality(dedup[r]) <= MapCap + 1
    BY DEF MapType
  <2>2. IsFiniteSet(dedup[r] \ {t}) /\ Cardinality(dedup[r] \ {t}) <= Cardinality(dedup[r])
    BY <2>1, FS_Subset
  <2>3. Cardinality(dedup[r]) \in Nat /\ Cardinality(dedup[r] \ {t}) \in Nat
    BY <2>1, <2>2, FS_CardinalityType
  <2>4. Cardinality(dedup[r] \ {t}) <= MapCap + 1
    BY <1>1, <2>1, <2>2, <2>3
  <2>5. dedup[r] \ {t} \in SUBSET Titles
    BY DEF MapType
  <2>6. MapType(dedup')
    BY <1>3, <1>5, <2>2, <2>4, <2>5 DEF WindowOver
  <2> QED
    BY <1>5, <2>6 DEF MapType, WindowOver
<1>6. ASSUME NEW r \in Replicas, Gone(r) PROVE MapType(dedup)' /\ MapType(seen)'
  <2>1. IsFiniteSet({}) /\ Cardinality({}) = 0
    BY FS_EmptySet
  <2>2. 0 <= MapCap + 1
    BY <1>1
  <2>3. MapType(dedup') /\ MapType(seen')
    BY <1>6, <1>3, <2>1, <2>2 DEF Gone
  <2> QED
    BY <2>3 DEF MapType
<1> QED
  BY <1>2, <1>4, <1>5, <1>6
  DEF Next, Step, Deliver, Receive, Refuse, Drop, Save, SaveFails, Acknowledge, Redeliver, Stop, Exit,
      Crash, vars

LEMMA HistoryStep == TypeInv /\ [Next]_vars => HistoryType'
<1> SUFFICES ASSUME TypeInv, [Next]_vars PROVE HistoryType'
  OBVIOUS
<1> USE DEF TypeInv
<1>1. faults' \in 0..MaxFaults
  <2>1. Fault => faults' \in 0..MaxFaults
    BY EngineAssumption DEF Fault, HistoryType
  <2>2. UNCHANGED faults => faults' \in 0..MaxFaults
    BY DEF HistoryType
  <2> QED
    BY <2>1, <2>2 DEF Next, Step, Deliver, Receive, Refuse, Drop, Consider, Save, SaveFails, Acknowledge,
       Redeliver, Stop, Exit, Crash, WindowOver, vars
<1>2. stopping' \subseteq Replicas
  BY DEF HistoryType, Next, Step, Deliver, Receive, Refuse, Drop, Consider, Save, SaveFails, Acknowledge,
       Redeliver, Stop, Exit, Crash, WindowOver, vars
<1>3. settled' \in [Events -> SUBSET Nat]
  <2>1. UNCHANGED settled => settled' \in [Events -> SUBSET Nat]
    BY DEF HistoryType
  <2>2. ASSUME NEW w \in Workers, Step(w) PROVE settled' \in [Events -> SUBSET Nat]
    <3>1. CASE Drop(w) \/ Consider(w)
      BY <2>1, <3>1, SettleType DEF Drop, Consider, AtFinding
    <3>2. CASE Save(w) \/ SaveFails(w)
      BY <3>2, SettleType DEF Save, SaveFails, WorkerType
    <3> QED
      BY <2>1, <2>2, <3>1, <3>2 DEF Step, Receive, Refuse, Acknowledge
  <2> QED
    BY <2>1, <2>2 DEF Next, Deliver, Redeliver, Stop, Exit, Crash, Gone, WindowOver, vars
<1>4. fresh' \in [Replicas -> [Titles -> Nat]] /\ capped' \subseteq Replicas
  <2>1. CASE UNCHANGED <<fresh, capped>>
    BY <2>1 DEF HistoryType
  <2>2. ASSUME NEW w \in Workers, Consider(w)
        PROVE  fresh' \in [Replicas -> [Titles -> Nat]] /\ capped' \subseteq Replicas
    <3>1. Home[w] \in Replicas
      BY EngineAssumption
    <3>2. \A S : Kept(Home[w], S) \in [Titles -> Nat]
      BY <3>1 DEF Kept, HistoryType
    <3> QED
      BY <2>2, <3>1, <3>2 DEF Consider, HistoryType
  <2>3. ASSUME NEW w \in Workers, Save(w)
        PROVE  fresh' \in [Replicas -> [Titles -> Nat]] /\ capped' \subseteq Replicas
    <3>1. Home[w] \in Replicas /\ Finding(w).title \in Titles
      BY <2>3, AtAFinding, EngineAssumption DEF Save, WorkerType, Found
    <3> QED
      BY <2>3, <3>1 DEF Save, HistoryType
  <2>4. ASSUME NEW r \in Replicas, Gone(r)
        PROVE  fresh' \in [Replicas -> [Titles -> Nat]] /\ capped' \subseteq Replicas
    BY <2>4 DEF Gone, HistoryType
  <2>5. ASSUME NEW r \in Replicas, NEW t \in Titles, WindowOver(r, t)
        PROVE  fresh' \in [Replicas -> [Titles -> Nat]] /\ capped' \subseteq Replicas
    BY <2>5 DEF WindowOver, HistoryType
  <2> QED
    BY <2>1, <2>2, <2>3, <2>4, <2>5 DEF Next, Step, Deliver, Receive, Refuse, Drop, SaveFails, Acknowledge,
       Redeliver, Stop, Exit, Crash, vars
<1> QED
  BY <1>1, <1>2, <1>3, <1>4 DEF HistoryType

----------------------------------------------------------------------------
(* Once within the window. *)

\* A step that stamps, counts and clears nothing and starts no saving.
LEMMA WindowKept ==
  ASSUME WindowInv, UNCHANGED <<dedup, fresh, capped>>,
         \A w \in Workers, t \in Titles : Saves(w, t)' => Saves(w, t)
  PROVE  WindowInv'
  BY DEF WindowInv

\* A worker that has settled its finding saves nothing, the others go on.
LEMMA SettleSaves ==
  ASSUME WorkerType, NEW w \in Workers, Settle(w)
  PROVE  /\ \A t \in Titles : ~Saves(w, t)'
         /\ \A v \in Workers, t \in Titles : v # w => (Saves(v, t)' <=> Saves(v, t))
<1>1. ~worker'[w].saving
  BY DEF Settle, WorkerType
<1>2. \A v \in Workers : v # w => worker'[v] = worker[v]
  BY DEF Settle, WorkerType
<1>3. late' = late \ {w}
  BY DEF Settle
<1> QED
  BY <1>1, <1>2, <1>3 DEF Saves, Finding

LEMMA WindowStep == TypeInv /\ WindowInv /\ [Next]_vars => WindowInv'
<1> SUFFICES ASSUME TypeInv, WindowInv, [Next]_vars PROVE WindowInv'
  OBVIOUS
<1> USE DEF TypeInv
<1>1. ASSUME NEW w \in Workers, Receive(w) PROVE WindowInv'
  <2>1. /\ ~worker'[w].saving
        /\ \A v \in Workers : v # w => worker'[v] = worker[v]
    BY <1>1 DEF Receive, WorkerType, Free
  <2> QED
    BY <1>1, <2>1, WindowKept DEF Receive, Saves, Finding
<1>2. ASSUME NEW w \in Workers, Refuse(w) \/ Acknowledge(w) PROVE WindowInv'
  <2>1. /\ ~worker'[w].saving
        /\ \A v \in Workers : v # w => worker'[v] = worker[v]
    BY <1>2 DEF Refuse, Acknowledge, WorkerType, Free
  <2> QED
    BY <1>2, <2>1, WindowKept DEF Refuse, Acknowledge, Saves, Finding
<1>3. ASSUME NEW w \in Workers, Drop(w) \/ SaveFails(w) PROVE WindowInv'
  BY <1>3, SettleSaves, WindowKept DEF Drop, SaveFails
<1>4. ASSUME NEW w \in Workers, Consider(w) PROVE WindowInv'
  <2> DEFINE r == Home[w]
             t == Finding(w).title
  <2>1. r \in Replicas /\ t \in Titles /\ Finding(w) \in Found
    BY <1>4, AtAFinding, EngineAssumption DEF Consider, AtFinding, Found
  <2>2. /\ \A v \in Workers, u \in Titles : v # w => (Saves(v, u)' <=> Saves(v, u))
        /\ \A u \in Titles : Saves(w, u)' => u = t /\ Finding(w).kind = "rule"
    <3>1. CASE Settle(w)
      BY <3>1, SettleSaves
    <3>2. CASE worker' = [worker EXCEPT ![w].saving = TRUE] /\ UNCHANGED <<settled, late>>
      <4>1. \A v \in Workers : v # w => worker'[v] = worker[v]
        BY <3>2 DEF WorkerType
      <4>2. Finding(w)' = Finding(w)
        BY <3>2 DEF WorkerType, Finding
      <4> QED
        BY <3>2, <4>1, <4>2 DEF Saves, Finding
    <3> QED
      BY <1>4, <3>1, <3>2 DEF Consider
  <2>3. ASSUME NEW u \in Titles PROVE ~Saves(w, u)
    BY <1>4 DEF Consider, AtFinding, Saves
  <2>4. CASE Finding(w).kind # "rule"
    BY <1>4, <2>2, <2>3, <2>4, WindowKept DEF Consider
  <2>5. CASE Finding(w).kind = "rule"
    <3>1. t \notin dedup[r]
      BY <1>4, <2>5 DEF Consider, Repeats
    <3>2. /\ dedup' = [dedup EXCEPT ![r] = Remember(@, t)]
          /\ fresh' = [fresh EXCEPT ![r] = Kept(r, dedup'[r] \ {t})]
          /\ capped' = IF dedup[r] \subseteq dedup'[r] THEN capped ELSE capped \cup {r}
      BY <1>4, <2>5 DEF Consider
    <3>3. capped \subseteq capped'
      BY <3>2
    <3>4. ASSUME NEW q \in Replicas, q # r
          PROVE  dedup'[q] = dedup[q] /\ fresh'[q] = fresh[q]
      BY <3>2, <3>4 DEF MapType, HistoryType
    <3>5. dedup'[r] = Remember(dedup[r], t)
      BY <2>1, <3>2 DEF MapType
    <3>6. r \notin capped' => dedup'[r] = dedup[r] \cup {t}
      BY <3>2, <3>5, <3>1 DEF Remember
    <3>7. ASSUME NEW u \in Titles
          PROVE  fresh'[r][u] = IF u \in dedup'[r] \ {t} THEN fresh[r][u] ELSE 0
      BY <2>1, <3>2 DEF Kept, HistoryType
    <3> HIDE DEF r, t
    <3>8. ASSUME NEW q \in Replicas \ capped', NEW u \in Titles
          PROVE  /\ fresh'[q][u] <= 1
                 /\ fresh'[q][u] # 0 => u \in dedup'[q]
                 /\ \A v \in Workers : Home[v] = q /\ Saves(v, u)' =>
                      /\ u \in dedup'[q] /\ fresh'[q][u] = 0
                      /\ \A x \in Workers : Home[x] = q /\ Saves(x, u)' => x = v
      <4>1. q \in Replicas \ capped
        BY <3>3
      <4>2. CASE q # r
        BY <2>2, <3>4, <4>1, <4>2 DEF WindowInv, r
      <4>3. CASE q = r /\ u # t
        <5>1. u \in dedup'[r] <=> u \in dedup[r]
          BY <3>6, <4>3
        <5>2. fresh'[r][u] = fresh[r][u]
          BY <3>7, <4>1, <4>3, <5>1 DEF WindowInv
        <5> QED
          BY <2>2, <4>1, <4>3, <5>1, <5>2 DEF WindowInv
      <4>4. CASE q = r /\ u = t
        <5>1. t \in dedup'[r] /\ fresh'[r][t] = 0
          BY <3>6, <3>7, <4>4
        <5>2. \A v \in Workers : Home[v] = r => ~Saves(v, t)
          BY <2>1, <3>1, <4>1, <4>4 DEF WindowInv
        <5> QED
          BY <2>2, <4>4, <5>1, <5>2
      <4> QED
        BY <4>2, <4>3, <4>4
    <3> QED
      BY <3>8 DEF WindowInv
  <2> QED
    BY <2>4, <2>5
<1>5. ASSUME NEW w \in Workers, Save(w) PROVE WindowInv'
  <2>1. Home[w] \in Replicas /\ Finding(w).title \in Titles
    BY <1>5, AtAFinding, EngineAssumption DEF Save, WorkerType, Found
  <2>2. /\ \A u \in Titles : ~Saves(w, u)'
        /\ \A v \in Workers, u \in Titles : v # w => (Saves(v, u)' <=> Saves(v, u))
    BY <1>5, SettleSaves DEF Save
  <2>3. CASE ~(Finding(w).kind = "rule" /\ w \notin late)
    <3>1. fresh' = fresh
      BY <1>5, <2>3 DEF Save
    <3> QED
      BY <1>5, <2>2, <3>1, WindowKept DEF Save
  <2>4. CASE Finding(w).kind = "rule" /\ w \notin late
    <3>1. Saves(w, Finding(w).title)
      BY <1>5, <2>4 DEF Save, Saves
    <3>2. UNCHANGED <<dedup, capped>>
      BY <1>5 DEF Save
    <3>3. fresh'[Home[w]][Finding(w).title] = fresh[Home[w]][Finding(w).title] + 1
      BY <1>5, <2>1, <2>4 DEF Save, HistoryType
    <3>4. \A q \in Replicas, u \in Titles :
            q # Home[w] \/ u # Finding(w).title => fresh'[q][u] = fresh[q][u]
      BY <1>5, <2>1, <2>4 DEF Save, HistoryType
    <3>5. ASSUME NEW q \in Replicas \ capped, NEW u \in Titles
          PROVE  /\ fresh'[q][u] <= 1
                 /\ fresh'[q][u] # 0 => u \in dedup[q]
                 /\ \A v \in Workers : Home[v] = q /\ Saves(v, u)' =>
                      /\ u \in dedup[q] /\ fresh'[q][u] = 0
                      /\ \A x \in Workers : Home[x] = q /\ Saves(x, u)' => x = v
      <4>1. CASE q # Home[w] \/ u # Finding(w).title
        <5>1. fresh'[q][u] = fresh[q][u]
          BY <3>4, <4>1
        <5> QED
          BY <2>2, <5>1 DEF WindowInv
      <4>2. CASE q = Home[w] /\ u = Finding(w).title
        <5>1. fresh[q][u] = 0 /\ u \in dedup[q]
          BY <3>1, <4>2 DEF WindowInv
        <5>2. \A v \in Workers : Home[v] = q => ~Saves(v, u)'
          BY <2>2, <3>1, <4>2 DEF WindowInv
        <5> QED
          BY <3>3, <4>2, <5>1, <5>2
      <4> QED
        BY <4>1, <4>2
    <3> QED
      BY <3>2, <3>5 DEF WindowInv
  <2> QED
    BY <2>3, <2>4
<1>6. ASSUME NEW r \in Replicas, NEW t \in Titles, WindowOver(r, t) PROVE WindowInv'
  <2>1. UNCHANGED <<worker, capped>> /\ late \subseteq late'
    BY <1>6 DEF WindowOver
  <2>2. \A v \in Workers, u \in Titles : Saves(v, u)' => Saves(v, u)
    BY <2>1 DEF Saves, Finding
  <2>3. \A v \in Workers : Home[v] = r => ~Saves(v, t)'
    BY <1>6 DEF WindowOver, Saves, Finding
  <2>4. \A q \in Replicas, u \in Titles : q # r \/ u # t =>
          fresh'[q][u] = fresh[q][u] /\ (u \in dedup'[q] <=> u \in dedup[q])
    BY <1>6 DEF WindowOver, MapType, HistoryType
  <2>5. fresh'[r][t] = 0
    BY <1>6 DEF WindowOver, HistoryType
  <2>6. ASSUME NEW q \in Replicas \ capped, NEW u \in Titles
        PROVE  /\ fresh'[q][u] <= 1
               /\ fresh'[q][u] # 0 => u \in dedup'[q]
               /\ \A v \in Workers : Home[v] = q /\ Saves(v, u)' =>
                    /\ u \in dedup'[q] /\ fresh'[q][u] = 0
                    /\ \A x \in Workers : Home[x] = q /\ Saves(x, u)' => x = v
    <3>1. CASE q # r \/ u # t
      BY <2>2, <2>4, <3>1 DEF WindowInv
    <3>2. CASE q = r /\ u = t
      BY <2>3, <2>5, <3>2
    <3> QED
      BY <3>1, <3>2
  <2> QED
    BY <2>1, <2>6 DEF WindowInv
<1>7. ASSUME NEW r \in Replicas, Gone(r) PROVE WindowInv'
  <2>1. \A w \in Workers : worker'[w] = IF Home[w] = r THEN Free ELSE worker[w]
    BY <1>7 DEF Gone
  <2>2. \A w \in Workers, u \in Titles :
          IF Home[w] = r THEN ~Saves(w, u)' ELSE Saves(w, u)' <=> Saves(w, u)
    BY <1>7, <2>1 DEF Gone, Saves, Finding, Free
  <2>3. \A u \in Titles : fresh'[r][u] = 0
    BY <1>7 DEF Gone, HistoryType
  <2>4. \A q \in Replicas : q # r => /\ fresh'[q] = fresh[q] /\ dedup'[q] = dedup[q]
                                    /\ (q \in capped' <=> q \in capped)
    BY <1>7 DEF Gone, HistoryType, MapType
  <2>5. ASSUME NEW q \in Replicas \ capped', NEW u \in Titles
        PROVE  /\ fresh'[q][u] <= 1
               /\ fresh'[q][u] # 0 => u \in dedup'[q]
               /\ \A v \in Workers : Home[v] = q /\ Saves(v, u)' =>
                    /\ u \in dedup'[q] /\ fresh'[q][u] = 0
                    /\ \A x \in Workers : Home[x] = q /\ Saves(x, u)' => x = v
    <3>1. CASE q # r
      BY <2>2, <2>4, <3>1 DEF WindowInv
    <3>2. CASE q = r
      BY <2>2, <2>3, <3>2
    <3> QED
      BY <3>1, <3>2
  <2> QED
    BY <2>5 DEF WindowInv
<1>8. CASE UNCHANGED <<worker, late, dedup, fresh, capped>>
  BY <1>8, WindowKept DEF Saves, Finding
<1> QED
  BY <1>1, <1>2, <1>3, <1>4, <1>5, <1>6, <1>7, <1>8
  DEF Next, Step, Deliver, Redeliver, Stop, Exit, Crash, vars

----------------------------------------------------------------------------
(* Acknowledged events were looked at. *)

LEMMA SettleAccount ==
  ASSUME TypeInv, AccountInv, NEW w \in Workers, Busy(w), worker[w].ev \notin Malformed,
         ~AllDone(w), Settle(w), UNCHANGED stream
  PROVE  AccountInv'
<1> USE DEF TypeInv
<1> DEFINE e == worker[w].ev
           i == worker[w].at
<1>1. e \in Events /\ i \in 1..Len(Findings[e])
  BY AtAFinding
<1>2. Len(Findings[e]) \in Nat /\ DOMAIN Findings[e] = 1..Len(Findings[e])
  BY <1>1, FindingsType
<1>3. settled'[e] = settled[e] \cup {i}
  BY <1>1 DEF Settle, HistoryType
<1>4. \A d \in Events : d # e => settled'[d] = settled[d]
  BY <1>1 DEF Settle, HistoryType
<1>5. worker'[w].ev = e /\ worker'[w].at = i + 1
  BY DEF Settle, WorkerType
<1>6. \A v \in Workers : v # w => worker'[v] = worker[v]
  BY DEF Settle, WorkerType
<1>7. \A d \in Events : settled[d] \subseteq settled'[d]
  BY <1>3, <1>4
<1> HIDE DEF e, i
<1>8. Behind'
  <2>1. ASSUME NEW v \in Workers, Busy(v)', worker'[v].ev \notin Malformed
        PROVE  1..(worker'[v].at - 1) \subseteq settled'[worker'[v].ev]
    <3>1. CASE v = w
      <4>1. 1..(i - 1) \subseteq settled[e]
        BY DEF AccountInv, Behind, e, i
      <4>2. ASSUME NEW k \in 1..i PROVE k \in settled'[e]
        <5>1. k = i \/ k \in 1..(i - 1)
          BY <1>1, <1>2
        <5> QED
          BY <1>3, <4>1, <5>1
      <4>3. worker'[v].at - 1 = i /\ worker'[v].ev = e
        BY <1>1, <1>2, <1>5, <3>1
      <4> QED
        BY <4>2, <4>3
    <3>2. CASE v # w
      <4>1. worker'[v] = worker[v] /\ worker[v].ev \in Events
        BY <1>6, <2>1, <3>2 DEF WorkerType, Busy
      <4>2. 1..(worker[v].at - 1) \subseteq settled[worker[v].ev]
        BY <2>1, <4>1 DEF AccountInv, Behind, Busy
      <4> QED
        BY <1>7, <4>1, <4>2
    <3> QED
      BY <3>1, <3>2
  <2> QED
    BY <2>1 DEF Behind
<1>9. Within'
  BY <1>1, <1>3, <1>4 DEF AccountInv, Within
<1>10. Accounted'
  <2>1. ASSUME NEW d \in Events, msg'[d] = "done"
        PROVE  d \notin Malformed /\ settled'[d] = DOMAIN Findings[d]
    <3>1. d \notin Malformed /\ settled[d] = DOMAIN Findings[d]
      BY <2>1 DEF AccountInv, Accounted, stream
    <3> QED
      BY <1>1, <1>2, <1>3, <1>4, <3>1
  <2> QED
    BY <2>1 DEF Accounted
<1> QED
  BY <1>8, <1>9, <1>10 DEF AccountInv

\* A step in which no worker goes on, and no message becomes "done".
LEMMA AccountKept ==
  ASSUME AccountInv, UNCHANGED settled,
         \A e \in Events : msg'[e] = "done" => msg[e] = "done",
         \A w \in Workers : worker'[w] = worker[w] \/ worker'[w].ev = Idle
                              \/ worker'[w].at = 1
  PROVE  AccountInv'
<1>1. Behind'
  BY DEF AccountInv, Behind, Busy
<1>2. Within' /\ Accounted'
  BY DEF AccountInv, Within, Accounted
<1> QED
  BY <1>1, <1>2 DEF AccountInv

LEMMA AccountStep == TypeInv /\ AccountInv /\ [Next]_vars => AccountInv'
<1> SUFFICES ASSUME TypeInv, AccountInv, [Next]_vars PROVE AccountInv'
  OBVIOUS
<1> USE DEF TypeInv
<1>1. ASSUME NEW w \in Workers, Drop(w) \/ Save(w) \/ SaveFails(w) PROVE AccountInv'
  BY <1>1, SettleAccount DEF Drop, Save, SaveFails, AtFinding, WorkerType
<1>2. ASSUME NEW w \in Workers, Consider(w) PROVE AccountInv'
  <2>1. CASE Settle(w)
    BY <1>2, <2>1, SettleAccount DEF Consider, AtFinding
  <2>2. CASE worker' = [worker EXCEPT ![w].saving = TRUE] /\ UNCHANGED <<settled, late>>
    <3>1. \A v \in Workers : worker'[v].ev = worker[v].ev /\ worker'[v].at = worker[v].at
      BY <2>2 DEF WorkerType
    <3>2. UNCHANGED <<msg, settled>>
      BY <1>2, <2>2 DEF Consider, stream
    <3> QED
      BY <3>1, <3>2 DEF AccountInv, Behind, Within, Accounted, Busy
  <2> QED
    BY <1>2, <2>1, <2>2 DEF Consider
<1>3. ASSUME NEW w \in Workers, Receive(w) PROVE AccountInv'
  <2>1. worker'[w].at = 1 /\ \A v \in Workers : v # w => worker'[v] = worker[v]
    BY <1>3 DEF Receive, WorkerType, Free
  <2> QED
    BY <1>3, <2>1, AccountKept DEF Receive, stream
<1>9. ASSUME NEW r \in Replicas, NEW e \in Events, Deliver(r, e) PROVE AccountInv'
  <2>1. \A d \in Events : msg'[d] = "done" => msg[d] = "done"
    BY <1>9 DEF Deliver, HandOut, StreamTypeOK
  <2> QED
    BY <1>9, <2>1, AccountKept DEF Deliver
<1>4. ASSUME NEW w \in Workers, Refuse(w) PROVE AccountInv'
  <2>1. \A v \in Workers : worker'[v] = worker[v] \/ worker'[v].ev = Idle
    BY <1>4 DEF Refuse, WorkerType, Free
  <2>2. \A d \in Events : msg'[d] = "done" => msg[d] = "done"
    BY <1>4, EngineAssumption DEF Refuse, Nak, Again, StreamTypeOK, stream
  <2> QED
    BY <1>4, <2>1, <2>2, AccountKept DEF Refuse
<1>5. ASSUME NEW w \in Workers, Acknowledge(w) PROVE AccountInv'
  <2> DEFINE e == worker[w].ev
  <2>1. \A v \in Workers : worker'[v] = worker[v] \/ worker'[v].ev = Idle
    BY <1>5 DEF Acknowledge, WorkerType, Free
  <2>2. CASE UNCHANGED stream
    BY <1>5, <2>1, <2>2, AccountKept DEF Acknowledge, stream
  <2>3. CASE Ack(e)
    <3>1. e \in Events /\ e \notin Malformed /\ worker[w].at > Len(Findings[e])
      BY <1>5 DEF Acknowledge, Over, Busy, WorkerType, AllDone
    <3>2. Len(Findings[e]) \in Nat /\ DOMAIN Findings[e] = 1..Len(Findings[e])
      BY <3>1, FindingsType
    <3>3. worker[w].at \in Nat /\ worker[w].at <= Len(Findings[e]) + 1
      BY <1>5 DEF Acknowledge, Over, WorkerType
    <3>4. 1..Len(Findings[e]) \subseteq settled[e]
      <4>1. worker[w].at - 1 = Len(Findings[e])
        BY <3>1, <3>2, <3>3
      <4>2. 1..(worker[w].at - 1) \subseteq settled[e]
        BY <1>5 DEF Acknowledge, Over, AccountInv, Behind
      <4> QED
        BY <4>1, <4>2
    <3>5. settled[e] = DOMAIN Findings[e]
      BY <3>1, <3>2, <3>4 DEF AccountInv, Within
    <3>6. \A d \in Events : msg'[d] = "done" => msg[d] = "done" \/ d = e
      BY <2>3, <3>1 DEF Ack, StreamTypeOK
    <3>7. UNCHANGED settled
      BY <1>5 DEF Acknowledge
    <3> HIDE DEF e
    <3>8. Behind'
      BY <2>1, <3>7 DEF AccountInv, Behind, Busy
    <3>9. Within' /\ Accounted'
      BY <3>1, <3>5, <3>6, <3>7 DEF AccountInv, Within, Accounted
    <3> QED
      BY <3>8, <3>9 DEF AccountInv
  <2> QED
    BY <1>5, <2>2, <2>3 DEF Acknowledge
<1>6. ASSUME NEW e \in Events, Redeliver(e) PROVE AccountInv'
  <2>1. \A d \in Events : msg'[d] = "done" => msg[d] = "done"
    BY <1>6 DEF Redeliver, AckWaitOver, Again, StreamTypeOK
  <2> QED
    BY <1>6, <2>1, AccountKept DEF Redeliver
<1>7. ASSUME NEW r \in Replicas, Gone(r) PROVE AccountInv'
  BY <1>7, AccountKept DEF Gone, Free, stream
<1>8. CASE UNCHANGED <<stream, worker, settled>>
  BY <1>8, AccountKept DEF stream
<1> QED
  BY <1>1, <1>2, <1>3, <1>4, <1>5, <1>6, <1>7, <1>8, <1>9
  DEF Next, Step, Stop, Exit, Crash, WindowOver, vars

----------------------------------------------------------------------------
(* The theorems. *)

LEMMA IInvHolds == Spec => []IInv
<1>1. IInv /\ [Next]_vars => IInv'
  BY StreamStep, WaitStep, WorkerStep, LateStep, MapStep, HistoryStep, WindowStep, AccountStep DEF IInv, TypeInv
<1> QED
  BY InitIInv, <1>1, PTL DEF Spec

\* The workers, the maps and the messages are always well formed: no worker runs
\* past its event, none saves for an event that does not parse, and neither map
\* grows more than one above its cap (processEventData, isDuplicateAlert,
\* markBaselineSeen).
THEOREM DetectionTypes == Spec => []TypeOK
<1>1. IInv => TypeOK
  BY DEF IInv, TypeInv, TypeOK, WaitType, WorkerType, LateType, MapType, HistoryType
<1> QED
  BY IInvHolds, <1>1, PTL

\* With any number of replicas, workers, events and redeliveries, and however long
\* SaveAlert takes, each stamp of a title lets one alert through while the map is
\* below its cap (isDuplicateAlert stamps the title in the step that finds it
\* missing).  An alert that is stored after its window counts for its own stamp.
THEOREM RaisedOncePerWindow == Spec => []OncePerWindow
<1>1. IInv => OncePerWindow
  BY DEF IInv, WindowInv, OncePerWindow
<1> QED
  BY IInvHolds, <1>1, PTL

\* Whatever crashes, stops and is redelivered, an event is acknowledged only after
\* each of its findings was saved, dropped, suppressed or logged as failed, and one
\* that does not parse never is (Start, processMessage).
THEOREM AcknowledgedLast == Spec => []Accounted
<1>1. IInv => Accounted
  BY DEF IInv, AccountInv
<1> QED
  BY IInvHolds, <1>1, PTL

(***************************************************************************)
(* Part 2: the deduplication of alerts.                                    *)
(*                                                                         *)
(* Alerts that were raised have a rank of their own (RankInv).  Every      *)
(* group keeps an alert that is better than each of its duplicates, or its *)
(* twin (GroupInv), and so every merge leads to a better alert or to a     *)
(* twin (MergeInv): a chain of merges cannot come back, however the        *)
(* servers interleave, unless it passes through twins.                     *)
(*                                                                         *)
(* The title query works in one severity, so one order serves both.        *)
(*                                                                         *)
(* That duplicates are merged is an argument about time (TimeInv): two     *)
(* alerts that are closer than the window less the interval of the ticker  *)
(* are both in the window at the first tick after the second one, and the  *)
(* group of both stays open until it is merged.  It needs the queries to   *)
(* return every group, which their LIMIT allows when there are no more     *)
(* groups than that (WithinLimit).                                         *)
(***************************************************************************)

\* k is a better survivor than a: the order of the technique query, and of the title
\* query within one severity.  Of twins the technique query may take either.
Better(k, a) ==
  \/ Severity[k] > Severity[a]
  \/ Severity[k] = Severity[a] /\ rank[k] < rank[a]
  \/ k # a /\ Twins(k, a)

\* The groups that a server has still to merge.
Open(r) == todo[r] \cup {cur[r]}

\* A server between two rounds holds no group.
IdleInv == \A r \in Servers : pc[r] = "idle" => todo[r] = {} /\ cur[r] = NoGroup

\* Ranks number the alerts in the order in which they were raised.
RankInv ==
  /\ \A a \in Alerts : rank[a] <= Cardinality(Raised)
  /\ \A a, b \in Alerts : rank[a] > 0 /\ rank[a] = rank[b] => a = b

\* An open group keeps an alert that is better than each of its duplicates.
GroupInv ==
  \A r \in Servers : \A g \in Open(r) : \A d \in g.dups :
    rank[d] > 0 /\ rank[g.keep] > 0 /\ Better(g.keep, d)

\* An alert is merged into a better one.
MergeInv ==
  \A a \in Alerts :
    into[a] # None => rank[a] > 0 /\ rank[into[a]] > 0 /\ Better(into[a], a)

\* A duplicate that is no longer open was merged, or decided about after the query.
DecisionInv ==
  \A r \in Servers : \A g \in Open(r) : \A d \in g.dups :
    status[d] = "open" \/ into[d] # None \/ d \in recent[r]

\* b came after a, and so soon that both are in the window at the tick after b.
Close(a, b, window) == created[a] <= created[b] /\ created[b] - created[a] <= window - Interval

\* The server has both alerts in a group that it has still to merge.
Held(r, a, b) == \E g \in Open(r) : {a, b} \subseteq g.dups \cup {g.keep}

\* As long as nothing slipped, no ticker is late and a round takes no time.
ClockInv ==
  /\ \A a \in Alerts : created[a] <= now
  /\ \A r \in Servers : ticked[r] <= now
  /\ slips = 0 => \A r \in Servers : /\ now - ticked[r] <= Interval
                                     /\ pc[r] # "idle" => ticked[r] = now

\* Two alerts of one technique that are both open after a tick: the round is under way,
\* and once its technique query has answered they are in a group of it.
TechniqueInv ==
  slips = 0 =>
    \A r \in Servers : \A a, b \in Alerts :
      CrossEngine(a, b) /\ Close(a, b, TechniqueWindow) /\ BothOpen(a, b) /\ ticked[r] > created[b]
      => /\ pc[r] # "idle" /\ now <= created[a] + TechniqueWindow
         /\ pc[r] = "technique" => Held(r, a, b)

\* Two alerts of one title that carry no key and are both open after a tick are in a
\* group of the title query, with which the round begins.
TitleInv ==
  slips = 0 =>
    \A r \in Servers : \A a, b \in Alerts :
      /\ Repeated(a, b) /\ Close(a, b, TitleWindow) /\ BothOpen(a, b)
      /\ key[a] = "null" /\ key[b] = "null" /\ ticked[r] > created[b]
      => pc[r] = "title" /\ now <= created[a] + TitleWindow /\ Held(r, a, b)

\* The inductive invariants: what is safe at any time, and what the clock adds to it.
DInv == DedupTypeOK /\ IdleInv /\ RankInv /\ GroupInv /\ MergeInv /\ DecisionInv
TimeInv == ClockInv /\ TechniqueInv /\ TitleInv

-----------------------------------------------------------------------------
(* The alert that a group keeps. *)

\* A function from a set that is not empty to the naturals has a least value.
LEMMA LeastValue ==
  ASSUME NEW f, NEW G, G # {}, \A a \in G : f[a] \in Nat
  PROVE  \E a \in G : \A b \in G : f[a] <= f[b]
  <1> DEFINE T == {f[a] : a \in G}
             R == OpToRel(<, Nat)
  <1>1. T \subseteq Nat /\ T # {}
    OBVIOUS
  <1>2. \E x \in T : \A y \in T : <<y, x>> \notin R
    <2> HIDE DEF T, R
    <2>1. IsWellFoundedOn(R, Nat)
      BY NatLessThanWellFounded DEF R
    <2> QED BY <1>1, <2>1, WFMin
  <1>3. PICK x \in T : \A y \in T : <<y, x>> \notin R
    BY <1>2
  <1>4. \A y \in T : ~(y < x)
    <2> SUFFICES ASSUME NEW y \in T, y < x PROVE FALSE
      OBVIOUS
    <2>1. <<y, x>> \in Nat \X Nat
      BY <1>1
    <2>2. <<y, x>> \in R
      BY <2>1 DEF OpToRel
    <2> QED BY <1>3, <2>2
  <1>5. \A y \in T : x <= y
    BY <1>1, <1>4
  <1>6. PICK a \in G : x = f[a]
    OBVIOUS
  <1> QED BY <1>5, <1>6

\* The title query keeps the alert that was raised first.
LEMMA TitleKeepLeast ==
  ASSUME DedupTypeOK, NEW G \in SUBSET Alerts, G # {}
  PROVE  TitleKeep(G) \in G /\ \A b \in G : rank[TitleKeep(G)] <= rank[b]
  <1>1. \A a \in G : rank[a] \in Nat
    <2>1. rank \in [Alerts -> 0..Cardinality(Alerts)]
      BY DEF DedupTypeOK
    <2> QED BY <2>1
  <1>2. \E a \in G : \A b \in G : rank[a] <= rank[b]
    BY <1>1, LeastValue
  <1> QED BY <1>2 DEF TitleKeep

\* In every group there is a first of the most severe alerts.
LEMMA BestExists ==
  ASSUME DedupTypeOK, NEW G \in SUBSET Alerts, G # {}
  PROVE  \E k \in G : \A b \in G :
           Severity[k] > Severity[b] \/ (Severity[k] = Severity[b] /\ rank[k] <= rank[b])
  <1> DEFINE slack == [a \in G |-> 10 - Severity[a]]
  <1>0. \A a \in G : Severity[a] \in 1..10
    BY DedupAssumption
  <1>1. \A a \in G : slack[a] \in Nat /\ slack[a] = 10 - Severity[a]
    BY <1>0
  <1>2. \E s \in G : \A b \in G : slack[s] <= slack[b]
    <2> HIDE DEF slack
    <2> QED BY <1>1, LeastValue
  <1>3. PICK s \in G : \A b \in G : slack[s] <= slack[b]
    BY <1>2
  <1>4. \A b \in G : Severity[s] >= Severity[b]
    <2> HIDE DEF slack
    <2> QED BY <1>0, <1>1, <1>3
  <1> DEFINE H == {a \in G : Severity[a] = Severity[s]}
  <1>5. H # {} /\ \A a \in H : rank[a] \in Nat
    <2>1. rank \in [Alerts -> 0..Cardinality(Alerts)]
      BY DEF DedupTypeOK
    <2> QED BY <2>1
  <1>6. \E a \in H : \A b \in H : rank[a] <= rank[b]
    <2> HIDE DEF H
    <2> QED BY <1>5, LeastValue
  <1>7. PICK k \in H : \A b \in H : rank[k] <= rank[b]
    BY <1>6
  <1>8. \A b \in G : Severity[k] > Severity[b] \/ (Severity[k] = Severity[b] /\ rank[k] <= rank[b])
    BY <1>0, <1>4, <1>7
  <1>9. k \in G
    OBVIOUS
  <1> QED BY <1>8, <1>9

\* The technique query finds an alert to keep, and keeps one of the group.
LEMMA TechniqueKeepSome ==
  ASSUME DedupTypeOK, NEW G \in SUBSET Alerts
  PROVE  TechniqueKeep(G) \subseteq G /\ (G # {} => TechniqueKeep(G) # {})
  BY BestExists DEF TechniqueKeep

-----------------------------------------------------------------------------
(* The groups that the queries return. *)

\* What a group is when a query returns it.
Sound(g) ==
  /\ g \in Group /\ g.keep \notin g.dups
  /\ rank[g.keep] > 0
  /\ \A d \in g.dups : status[d] = "open" /\ rank[d] > 0 /\ Better(g.keep, d)

\* An alert that is no worse than another, different one is better than that.
LEMMA NoWorseIsBetter ==
  ASSUME DedupTypeOK, RankInv, NEW k \in Alerts, NEW d \in Alerts, k # d, rank[k] > 0,
         \/ Severity[k] > Severity[d]
         \/ Severity[k] = Severity[d] /\ rank[k] <= rank[d]
         \/ Twins(k, d)
  PROVE  Better(k, d)
  <1>1. rank[k] \in Nat /\ rank[d] \in Nat
    <2>1. rank \in [Alerts -> 0..Cardinality(Alerts)]
      BY DEF DedupTypeOK
    <2> QED BY <2>1
  <1>2. rank[k] # rank[d]
    BY DEF RankInv
  <1> QED BY <1>1, <1>2 DEF Better

\* Both queries return sound groups.
LEMMA TitleGroupsSound ==
  ASSUME DedupTypeOK, RankInv, NEW g \in TitleGroups
  PROVE  Sound(g)
  <1>1. PICK a \in TitleRows :
          LET G == {b \in TitleRows : SameTitle(a, b)}
          IN  g = [keep |-> TitleKeep(G), dups |-> G \ {TitleKeep(G)}]
    BY DEF TitleGroups
  <1> DEFINE G == {b \in TitleRows : SameTitle(a, b)}
  <1>2. G \in SUBSET Alerts /\ G # {}
    BY DEF TitleRows, Raised, SameTitle
  <1>3. \A b \in G : Severity[b] = Severity[a] /\ status[b] = "open" /\ rank[b] > 0 /\ b \in Alerts
    BY DEF TitleRows, Raised, SameTitle
  <1>4. g = [keep |-> TitleKeep(G), dups |-> G \ {TitleKeep(G)}]
    BY <1>1
  <1> HIDE DEF G
  <1>5. TitleKeep(G) \in G /\ \A b \in G : rank[TitleKeep(G)] <= rank[b]
    BY <1>2, TitleKeepLeast
  <1>6. g.keep = TitleKeep(G) /\ g.dups = G \ {TitleKeep(G)}
    BY <1>4
  <1>7. g \in Group /\ g.keep \notin g.dups /\ rank[g.keep] > 0
    BY <1>2, <1>3, <1>4, <1>5, <1>6 DEF Group
  <1>8. ASSUME NEW d \in g.dups
        PROVE  status[d] = "open" /\ rank[d] > 0 /\ Better(g.keep, d)
    <2>1. d \in G /\ d # g.keep /\ g.keep \in G
      BY <1>5, <1>6
    <2>2. Severity[g.keep] = Severity[d] /\ rank[g.keep] <= rank[d]
      BY <1>3, <1>5, <1>6, <2>1
    <2> QED BY <1>3, <2>1, <2>2, NoWorseIsBetter
  <1> QED BY <1>7, <1>8 DEF Sound

\* A group of an answer to the technique query: a set of rows of one technique with
\* one of them to keep.
LEMMA TechniqueGroupForm ==
  ASSUME DedupTypeOK, NEW groups \in TechniqueGroups, NEW g \in groups
  PROVE  /\ g.keep \in TechniqueRows
         /\ LET G == {b \in TechniqueRows : SameTechnique(g.keep, b)}
            IN  /\ g = [keep |-> g.keep, dups |-> G \ {g.keep}] /\ g.keep \in TechniqueKeep(G)
                /\ \A first \in [TechniqueSets -> Alerts] :
                     groups = {[keep |-> first[H], dups |-> H \ {first[H]}] : H \in TechniqueSets}
                     /\ (\A H \in TechniqueSets : first[H] \in TechniqueKeep(H))
                     => G \in TechniqueSets /\ g.keep = first[G]
  <1> SUFFICES ASSUME NEW first \in [TechniqueSets -> Alerts],
                      groups = {[keep |-> first[H], dups |-> H \ {first[H]}] : H \in TechniqueSets},
                      \A H \in TechniqueSets : first[H] \in TechniqueKeep(H)
               PROVE  /\ g.keep \in TechniqueRows
                      /\ LET G == {b \in TechniqueRows : SameTechnique(g.keep, b)}
                         IN  /\ g = [keep |-> g.keep, dups |-> G \ {g.keep}]
                             /\ g.keep \in TechniqueKeep(G)
                             /\ G \in TechniqueSets /\ g.keep = first[G]
    BY DEF TechniqueGroups
  <1>1. PICK H \in TechniqueSets : g = [keep |-> first[H], dups |-> H \ {first[H]}]
    OBVIOUS
  <1>2. PICK a \in TechniqueRows : H = {b \in TechniqueRows : SameTechnique(a, b)}
    BY DEF TechniqueSets
  <1>3. H \in SUBSET Alerts
    BY <1>2 DEF TechniqueRows, Raised
  <1>4. g.keep = first[H] /\ g.keep \in H
    BY <1>1, <1>3, TechniqueKeepSome
  <1>5. g.keep \in TechniqueRows /\ SameTechnique(a, g.keep)
    BY <1>2, <1>4
  <1>6. H = {b \in TechniqueRows : SameTechnique(g.keep, b)}
    BY <1>2, <1>5 DEF SameTechnique
  <1> QED BY <1>1, <1>4, <1>5, <1>6

LEMMA TechniqueGroupsSound ==
  ASSUME DedupTypeOK, RankInv, NEW groups \in TechniqueGroups, NEW g \in groups
  PROVE  Sound(g)
  <1> DEFINE G == {b \in TechniqueRows : SameTechnique(g.keep, b)}
  <1>1. /\ g.keep \in TechniqueRows /\ g = [keep |-> g.keep, dups |-> G \ {g.keep}]
        /\ g.keep \in TechniqueKeep(G)
    BY TechniqueGroupForm
  <1>2. G \in SUBSET Alerts
    BY DEF TechniqueRows, Raised
  <1>3. \A b \in G : status[b] = "open" /\ rank[b] > 0 /\ b \in Alerts
    BY DEF TechniqueRows, Raised
  <1>4. g.keep \in G
    BY <1>1, <1>2, TechniqueKeepSome
  <1> HIDE DEF G
  <1>5. g.dups = G \ {g.keep}
    BY <1>1
  <1>6. g \in Group
    BY <1>1, <1>2, <1>4 DEF Group
  <1>7. ASSUME NEW d \in g.dups
        PROVE  status[d] = "open" /\ rank[d] > 0 /\ Better(g.keep, d)
    <2>1. d \in G /\ d # g.keep
      BY <1>5
    <2>2. \/ Severity[g.keep] > Severity[d]
          \/ Severity[g.keep] = Severity[d] /\ rank[g.keep] <= rank[d]
          \/ Twins(g.keep, d)
      BY <1>1, <2>1 DEF TechniqueKeep
    <2> QED BY <1>3, <1>4, <2>1, <2>2, NoWorseIsBetter
  <1> QED BY <1>3, <1>4, <1>5, <1>6, <1>7 DEF Sound

\* Some of the groups become the server's work, and a query that fails is a slip.
LEMMA ReturnsSome ==
  ASSUME NEW r, NEW groups, Returns(r, groups)
  PROVE  \E T \in SUBSET groups :
           /\ todo' = [todo EXCEPT ![r] = T]
           /\ \/ T \in MaxOf(groups, Limit) /\ slips' = slips
              \/ Slip
  <1>1. CASE todo' \in {[todo EXCEPT ![r] = T] : T \in MaxOf(groups, Limit)} /\ UNCHANGED slips
    <2>1. PICK T \in MaxOf(groups, Limit) : todo' = [todo EXCEPT ![r] = T]
      BY <1>1
    <2>2. T \in SUBSET groups
      BY DEF MaxOf
    <2> QED BY <1>1, <2>1, <2>2
  <1>2. CASE Slip /\ todo' \in {[todo EXCEPT ![r] = T] : T \in SUBSET groups}
    BY <1>2
  <1> QED BY <1>1, <1>2 DEF Returns

\* A query with no more groups than its limit returns all of them.
LEMMA MaxOfAll ==
  ASSUME NEW S, IsFiniteSet(S), Cardinality(S) <= Limit, NEW T \in MaxOf(S, Limit)
  PROVE  T = S
  <1>1. Cardinality(S) \in Nat /\ Limit \in Nat
    BY FS_CardinalityType, DedupAssumption
  <1>2. Min({Limit, Cardinality(S)}) = Cardinality(S)
    <2> DEFINE c == Cardinality(S)
    <2> HIDE DEF c
    <2>1. c \in Nat /\ c <= Limit
      BY <1>1 DEF c
    <2>2. c \in {Limit, c} /\ \A y \in {Limit, c} : c <= y
      BY <1>1, <2>1
    <2>3. \A x \in {Limit, c} : (\A y \in {Limit, c} : x <= y) => x = c
      BY <1>1, <2>1
    <2>4. Min({Limit, c}) = c
      BY <2>2, <2>3 DEF Min
    <2> QED BY <2>4 DEF c
  <1>3. T \in SUBSET S /\ Cardinality(T) = Cardinality(S)
    BY <1>2 DEF MaxOf
  <1> QED BY <1>3, FS_Subset

\* What the two queries group by, and the condition under which their LIMIT cuts
\* nothing off: no more combinations of these values than rows in the answer.
TitleOf(a) == <<Rule[a], Severity[a], Source[a], Agent[a]>>
TechniqueOf(a) == <<Technique[a], Agent[a]>>
WithinLimit ==
  /\ Cardinality({TitleOf(a) : a \in Alerts}) <= Limit
  /\ Cardinality({TechniqueOf(a) : a \in Alerts}) <= Limit

\* A function of alerts has finitely many values, among them the two keys.
LEMMA ImageFinite ==
  ASSUME NEW f
  PROVE  IsFiniteSet({f[a] : a \in Alerts})
  <1> DEFINE T == {f[a] : a \in Alerts}
             g == [a \in Alerts |-> f[a]]
  <1>1. g \in Surjection(Alerts, T)
    BY DEF Surjection
  <1> HIDE DEF g, T
  <1>2. IsFiniteSet(T)
    BY <1>1, FS_Surjection, DedupAssumption
  <1> QED BY <1>2 DEF T

LEMMA KeysFinite ==
  IsFiniteSet({TitleOf(a) : a \in Alerts}) /\ IsFiniteSet({TechniqueOf(a) : a \in Alerts})
  <1>1. {TitleOf(a) : a \in Alerts} = {[x \in Alerts |-> TitleOf(x)][a] : a \in Alerts}
    OBVIOUS
  <1>2. {TechniqueOf(a) : a \in Alerts} = {[x \in Alerts |-> TechniqueOf(x)][a] : a \in Alerts}
    OBVIOUS
  <1>3. IsFiniteSet({[x \in Alerts |-> TitleOf(x)][a] : a \in Alerts})
    BY ImageFinite
  <1>4. IsFiniteSet({[x \in Alerts |-> TechniqueOf(x)][a] : a \in Alerts})
    BY ImageFinite
  <1> QED BY <1>1, <1>2, <1>3, <1>4

\* Groups that a key tells apart are no more than the keys.
LEMMA FewGroups ==
  ASSUME NEW S, NEW Keys, IsFiniteSet(Keys), Cardinality(Keys) <= Limit,
         NEW f \in [S -> Keys], \A g, h \in S : f[g] = f[h] => g = h
  PROVE  IsFiniteSet(S) /\ Cardinality(S) <= Limit
  <1>1. f \in Injection(S, Keys)
    BY DEF Injection, IsInjective
  <1>2. IsFiniteSet(S) /\ Cardinality(S) <= Cardinality(Keys)
    BY <1>1, FS_Injection
  <1>3. Cardinality(S) \in Nat /\ Cardinality(Keys) \in Nat /\ Limit \in Nat
    BY <1>2, FS_CardinalityType, DedupAssumption
  <1> QED BY <1>2, <1>3

\* One group for each key, so the LIMIT of neither query cuts any off.
LEMMA TitleGroupsFew ==
  ASSUME DedupTypeOK, WithinLimit
  PROVE  IsFiniteSet(TitleGroups) /\ Cardinality(TitleGroups) <= Limit
  <1> DEFINE Keys == {TitleOf(a) : a \in Alerts}
             of == [g \in TitleGroups |-> TitleOf(g.keep)]
  <1>1. ASSUME NEW g \in TitleGroups
        PROVE  /\ g.keep \in TitleRows
               /\ LET G == {b \in TitleRows : SameTitle(g.keep, b)}
                  IN  g = [keep |-> TitleKeep(G), dups |-> G \ {TitleKeep(G)}]
    <2>1. PICK a \in TitleRows :
            LET G == {b \in TitleRows : SameTitle(a, b)}
            IN  g = [keep |-> TitleKeep(G), dups |-> G \ {TitleKeep(G)}]
      BY DEF TitleGroups
    <2> DEFINE G == {b \in TitleRows : SameTitle(a, b)}
    <2>2. G \in SUBSET Alerts /\ G # {}
      BY DEF TitleRows, Raised, SameTitle
    <2>3. g = [keep |-> TitleKeep(G), dups |-> G \ {TitleKeep(G)}]
      BY <2>1
    <2>4. TitleKeep(G) \in G
      <3> HIDE DEF G
      <3> QED BY <2>2, TitleKeepLeast
    <2>5. g.keep \in G
      <3> HIDE DEF G
      <3> QED BY <2>3, <2>4
    <2>6. G = {b \in TitleRows : SameTitle(g.keep, b)}
      BY <2>5 DEF SameTitle
    <2>7. g.keep \in TitleRows
      BY <2>5
    <2> HIDE DEF G
    <2> QED BY <2>3, <2>6, <2>7
  <1>2. of \in [TitleGroups -> Keys]
    <2>1. ASSUME NEW g \in TitleGroups PROVE g.keep \in Alerts
      BY <1>1 DEF TitleRows, Raised
    <2> QED BY <2>1
  <1>3. ASSUME NEW g \in TitleGroups, NEW h \in TitleGroups, of[g] = of[h]
        PROVE  g = h
    <2>1. TitleOf(g.keep) = TitleOf(h.keep)
      BY <1>3
    <2>2. \A b : SameTitle(g.keep, b) <=> SameTitle(h.keep, b)
      BY <2>1 DEF TitleOf, SameTitle
    <2>3. {b \in TitleRows : SameTitle(g.keep, b)} = {b \in TitleRows : SameTitle(h.keep, b)}
      BY <2>2
    <2> QED BY <1>1, <2>3
  <1>4. IsFiniteSet(Keys) /\ Cardinality(Keys) <= Limit
    BY KeysFinite DEF WithinLimit
  <1> HIDE DEF of, Keys
  <1> QED BY <1>2, <1>3, <1>4, FewGroups

LEMMA TechniqueGroupsFew ==
  ASSUME DedupTypeOK, WithinLimit, NEW groups \in TechniqueGroups
  PROVE  IsFiniteSet(groups) /\ Cardinality(groups) <= Limit
  <1> DEFINE Keys == {TechniqueOf(a) : a \in Alerts}
             of == [g \in groups |-> TechniqueOf(g.keep)]
             Rows(a) == {b \in TechniqueRows : SameTechnique(a, b)}
  <1>0. PICK first \in [TechniqueSets -> Alerts] :
          /\ groups = {[keep |-> first[H], dups |-> H \ {first[H]}] : H \in TechniqueSets}
          /\ \A H \in TechniqueSets : first[H] \in TechniqueKeep(H)
    BY DEF TechniqueGroups
  <1>1. ASSUME NEW g \in groups
        PROVE  /\ g.keep \in TechniqueRows /\ g.keep = first[Rows(g.keep)]
               /\ g = [keep |-> g.keep, dups |-> Rows(g.keep) \ {g.keep}]
    BY <1>0, TechniqueGroupForm
  <1>2. of \in [groups -> Keys]
    <2>1. ASSUME NEW g \in groups PROVE g.keep \in Alerts
      BY <1>1 DEF TechniqueRows, Raised
    <2> QED BY <2>1
  <1>3. ASSUME NEW g \in groups, NEW h \in groups, of[g] = of[h]
        PROVE  g = h
    <2>1. TechniqueOf(g.keep) = TechniqueOf(h.keep)
      BY <1>3
    <2>2. \A b : SameTechnique(g.keep, b) <=> SameTechnique(h.keep, b)
      BY <2>1 DEF TechniqueOf, SameTechnique
    <2>3. Rows(g.keep) = Rows(h.keep)
      BY <2>2
    <2>4. g.keep = h.keep
      BY <1>1, <2>3
    <2> HIDE DEF Rows
    <2> QED BY <1>1, <2>3, <2>4
  <1>4. IsFiniteSet(Keys) /\ Cardinality(Keys) <= Limit
    BY KeysFinite DEF WithinLimit
  <1> HIDE DEF of, Keys
  <1> QED BY <1>2, <1>3, <1>4, FewGroups

\* HAVING COUNT(*) > 1 holds of a group with two different alerts.
LEMMA TwoElements ==
  ASSUME NEW S, IsFiniteSet(S), NEW x \in S, NEW y \in S, x # y
  PROVE  Cardinality(S) > 1
  <1>1. IsFiniteSet({x}) /\ Cardinality({x}) = 1
    BY FS_Singleton
  <1>2. IsFiniteSet({x, y}) /\ Cardinality({x, y}) = 2
    <2>1. {x, y} = {x} \cup {y} /\ y \notin {x}
      OBVIOUS
    <2>2. IsFiniteSet({x} \cup {y}) /\ Cardinality({x} \cup {y}) = 1 + 1
      BY <1>1, <2>1, FS_AddElement
    <2> QED BY <2>1, <2>2
  <1>3. Cardinality({x, y}) <= Cardinality(S)
    <2>1. {x, y} \in SUBSET S
      OBVIOUS
    <2> QED BY <2>1, FS_Subset
  <1>4. Cardinality(S) \in Nat
    BY FS_CardinalityType
  <1> QED BY <1>2, <1>3, <1>4

\* Two rows that the title query sees, and that count as the same, are in one group.
LEMMA TitlePairGrouped ==
  ASSUME DedupTypeOK, NEW a \in TitleRows, NEW b \in TitleRows, SameTitle(a, b), a # b
  PROVE  \E g \in TitleGroups : {a, b} \subseteq g.dups \cup {g.keep}
  <1> DEFINE G == {x \in TitleRows : SameTitle(a, x)}
             k == TitleKeep(G)
             g == [keep |-> k, dups |-> G \ {k}]
  <1>1. G \in SUBSET Alerts /\ a \in G /\ b \in G
    BY DEF TitleRows, Raised, SameTitle
  <1>2. Cardinality(G) > 1
    <2> HIDE DEF G
    <2>1. IsFiniteSet(G)
      BY <1>1, FS_Subset, DedupAssumption
    <2> QED BY <1>1, <2>1, TwoElements
  <1>3. g \in TitleGroups
    BY <1>2 DEF TitleGroups
  <1>4. {a, b} \subseteq g.dups \cup {g.keep}
    <2> HIDE DEF G, k
    <2> QED BY <1>1
  <1> HIDE DEF g
  <1> QED BY <1>3, <1>4

\* The same for the technique query and rows of different titles.
LEMMA TechniquePairGrouped ==
  ASSUME DedupTypeOK, NEW a \in TechniqueRows, NEW b \in TechniqueRows, SameTechnique(a, b),
         Title(a) # Title(b), NEW groups \in TechniqueGroups
  PROVE  \E g \in groups : {a, b} \subseteq g.dups \cup {g.keep}
  <1> DEFINE G == {x \in TechniqueRows : SameTechnique(a, x)}
             TitleKeys == {Title(x) : x \in G}
             All == {[x \in Alerts |-> Title(x)][y] : y \in Alerts}
  <1>1. G \in SUBSET Alerts /\ a \in G /\ b \in G
    BY DEF TechniqueRows, Raised, SameTechnique
  <1>2. TitleKeys \in SUBSET All /\ Title(a) \in TitleKeys /\ Title(b) \in TitleKeys
    <2> HIDE DEF G
    <2> QED BY <1>1
  <1>3. Cardinality(TitleKeys) > 1
    <2>1. IsFiniteSet(All)
      BY ImageFinite
    <2> HIDE DEF TitleKeys, All
    <2>2. IsFiniteSet(TitleKeys)
      BY <1>2, <2>1, FS_Subset
    <2> QED BY <1>2, <2>2, TwoElements
  <1>4. G \in TechniqueSets
    BY <1>3 DEF TechniqueSets
  <1> HIDE DEF G
  <1>5. PICK first : groups = {[keep |-> first[H], dups |-> H \ {first[H]}] : H \in TechniqueSets}
    BY DEF TechniqueGroups
  <1> DEFINE g == [keep |-> first[G], dups |-> G \ {first[G]}]
  <1>6. g \in groups
    BY <1>4, <1>5
  <1>7. {a, b} \subseteq g.dups \cup {g.keep}
    BY <1>1
  <1> HIDE DEF g
  <1> QED BY <1>6, <1>7

-----------------------------------------------------------------------------
(* The type invariant. *)

\* The next rank is one more than the number of alerts, and within bounds.
LEMMA RaisedCount ==
  /\ IsFiniteSet(Raised) /\ Cardinality(Raised) \in Nat
  /\ Cardinality(Alerts) \in Nat
  /\ \A a \in Alerts \ Raised :
       /\ Cardinality(Raised \cup {a}) = Cardinality(Raised) + 1
       /\ Cardinality(Raised) + 1 <= Cardinality(Alerts)
  <1>1. Raised \in SUBSET Alerts
    BY DEF Raised
  <1>2. IsFiniteSet(Raised)
    BY <1>1, FS_Subset, DedupAssumption
  <1>3. Cardinality(Raised) \in Nat /\ Cardinality(Alerts) \in Nat
    BY <1>2, FS_CardinalityType, DedupAssumption
  <1>4. ASSUME NEW a \in Alerts \ Raised
        PROVE  /\ Cardinality(Raised \cup {a}) = Cardinality(Raised) + 1
               /\ Cardinality(Raised \cup {a}) <= Cardinality(Alerts)
    <2>1. Cardinality(Raised \cup {a}) = Cardinality(Raised) + 1
      BY <1>2, FS_AddElement
    <2>2. Raised \cup {a} \in SUBSET Alerts
      BY <1>1
    <2> QED BY <2>1, <2>2, FS_Subset, DedupAssumption
  <1> QED BY <1>2, <1>3, <1>4

\* Slips are counted up to their bound.
LEMMA SlipType ==
  ASSUME slips \in 0..MaxSlips, Slip \/ slips' = slips
  PROVE  slips' \in 0..MaxSlips
  BY DedupAssumption DEF Slip

\* The work of a server after a query consists of sound groups.
LEMMA QueryTypes ==
  ASSUME DedupTypeOK, NEW r \in Servers, NEW T, \A g \in T : Sound(g),
         todo' = [todo EXCEPT ![r] = T], cur' = cur
  PROVE  /\ todo' \in [Servers -> SUBSET Group] /\ cur' \in [Servers -> Group \cup {NoGroup}]
         /\ \A q \in Servers : \A g \in todo'[q] \cup {cur'[q]} : g.keep \notin g.dups
  <1>1. T \in SUBSET Group /\ \A g \in T : g.keep \notin g.dups
    BY DEF Sound
  <1>2. todo \in [Servers -> SUBSET Group] /\ cur \in [Servers -> Group \cup {NoGroup}]
    BY DEF DedupTypeOK
  <1>3. todo' \in [Servers -> SUBSET Group]
    BY <1>1, <1>2
  <1>4. ASSUME NEW q \in Servers, NEW g \in todo'[q] \cup {cur'[q]}
        PROVE  g.keep \notin g.dups
    <2>1. \A h \in todo[q] \cup {cur[q]} : h.keep \notin h.dups
      BY DEF DedupTypeOK
    <2> QED BY <1>1, <1>2, <1>4, <2>1
  <1> QED BY <1>2, <1>3, <1>4

\* Marking a survivor, and closing a duplicate, keep the state well formed.
LEMMA MarkTypes ==
  ASSUME DedupTypeOK, NEW r \in Servers, Mark(r)
  PROVE  DedupTypeOK'
  <1>1. PICK g \in todo[r] :
          /\ todo' = [todo EXCEPT ![r] = @ \ {g}]
          /\ cur' = [cur EXCEPT ![r] = g]
          /\ \/ key' = [key EXCEPT ![g.keep] = pc[r]] /\ UNCHANGED slips
             \/ Slip /\ UNCHANGED key
    BY DEF Mark
  <1>2. /\ todo \in [Servers -> SUBSET Group] /\ cur \in [Servers -> Group \cup {NoGroup}]
        /\ \A q \in Servers : \A h \in todo[q] \cup {cur[q]} : h.keep \notin h.dups
    BY DEF DedupTypeOK
  <1>3. g \in Group /\ g.keep \notin g.dups
    BY <1>2
  <1>4. todo' \in [Servers -> SUBSET Group] /\ cur' \in [Servers -> Group \cup {NoGroup}]
    BY <1>1, <1>2, <1>3
  <1>5. \A q \in Servers : \A h \in todo'[q] \cup {cur'[q]} : h.keep \notin h.dups
    BY <1>1, <1>2, <1>3
  <1>6. key' \in [Alerts -> {"null", "title", "technique"}]
    <2>1. pc[r] \in {"title", "technique"}
      BY DEF Mark, DedupTypeOK
    <2>2. key \in [Alerts -> {"null", "title", "technique"}]
      BY DEF DedupTypeOK
    <2> QED BY <1>1, <2>1, <2>2
  <1>7. slips' \in 0..MaxSlips
    BY <1>1, SlipType DEF DedupTypeOK
  <1> QED BY <1>4, <1>5, <1>6, <1>7 DEF Mark, DedupTypeOK

\* What is left of the group that a server merges after it closed one alert of it.
LEMMA CloseGroup ==
  ASSUME DedupTypeOK, NEW r \in Servers, NEW a, CloseDuplicate(r, a)
  PROVE  /\ cur[r] \in Group /\ a \in cur[r].dups /\ a \in Alerts
         /\ \E n \in Group \cup {NoGroup} :
              /\ cur' = [cur EXCEPT ![r] = n]
              /\ \/ n = NoGroup /\ cur[r].dups = {a}
                 \/ n \in Group /\ n.keep = cur[r].keep /\ n.dups = cur[r].dups \ {a}
  <1>1. cur \in [Servers -> Group \cup {NoGroup}] /\ a \in cur[r].dups
    BY DEF DedupTypeOK, CloseDuplicate
  <1>2. cur[r] \in Group
    BY <1>1 DEF NoGroup
  <1>3. a \in Alerts
    BY <1>1, <1>2 DEF Group
  <1> DEFINE n == [keep |-> cur[r].keep, dups |-> cur[r].dups \ {a}]
  <1>4. cur' = [cur EXCEPT ![r] = IF cur[r].dups = {a} THEN NoGroup ELSE n]
    BY <1>1 DEF CloseDuplicate
  <1>5. n \in Group /\ n.keep = cur[r].keep /\ n.dups = cur[r].dups \ {a}
    BY <1>2 DEF Group
  <1> HIDE DEF n
  <1>6. CASE cur[r].dups = {a}
    <2>1. cur' = [cur EXCEPT ![r] = NoGroup]
      BY <1>4, <1>6
    <2> QED BY <1>1, <1>2, <1>3, <1>6, <2>1
  <1>7. CASE cur[r].dups # {a}
    <2>1. cur' = [cur EXCEPT ![r] = n]
      BY <1>4, <1>7
    <2> QED BY <1>1, <1>2, <1>3, <1>5, <2>1
  <1> QED BY <1>6, <1>7

LEMMA CloseTypes ==
  ASSUME DedupTypeOK, IdleInv, NEW r \in Servers, NEW a, CloseDuplicate(r, a)
  PROVE  DedupTypeOK'
  <1>1. PICK n \in Group \cup {NoGroup} :
          /\ cur' = [cur EXCEPT ![r] = n]
          /\ \/ n = NoGroup /\ cur[r].dups = {a}
             \/ n \in Group /\ n.keep = cur[r].keep /\ n.dups = cur[r].dups \ {a}
    BY CloseGroup
  <1>2. cur[r] \in Group /\ a \in Alerts /\ cur[r].keep \in Alerts
    BY CloseGroup DEF Group
  <1>3. /\ cur \in [Servers -> Group \cup {NoGroup}]
        /\ \A q \in Servers : \A h \in todo[q] \cup {cur[q]} : h.keep \notin h.dups
    BY DEF DedupTypeOK
  <1>4. cur' \in [Servers -> Group \cup {NoGroup}]
    BY <1>1, <1>3
  <1>5. n.keep \notin n.dups
    <2>1. cur[r].keep \notin cur[r].dups
      BY <1>3
    <2> QED BY <1>1, <2>1 DEF NoGroup
  <1>6. todo' = todo
    BY DEF CloseDuplicate
  <1>7. \A q \in Servers : \A h \in todo'[q] \cup {cur'[q]} : h.keep \notin h.dups
    BY <1>1, <1>3, <1>5, <1>6
  <1>8. /\ status' \in [Alerts -> {"open", "investigating", "resolved"}]
        /\ key' \in [Alerts -> {"null", "title", "technique"}]
        /\ into' \in [Alerts -> Alerts \cup {None}]
    <2>1. /\ status \in [Alerts -> {"open", "investigating", "resolved"}]
          /\ key \in [Alerts -> {"null", "title", "technique"}]
          /\ into \in [Alerts -> Alerts \cup {None}]
      BY DEF DedupTypeOK
    <2>2. CASE Resolve(r, a)
      <3>1. pc[r] \in {"title", "technique"}
        <4>1. cur[r] # NoGroup
          BY CloseGroup DEF NoGroup
        <4> QED BY <4>1 DEF IdleInv, DedupTypeOK
      <3> QED BY <1>2, <2>1, <2>2, <3>1 DEF Resolve
    <2>3. CASE UNCHANGED <<status, key, into>>
      BY <2>1, <2>3
    <2> QED BY <2>2, <2>3 DEF CloseDuplicate
  <1>9. slips' \in 0..MaxSlips
    BY SlipType DEF CloseDuplicate, DedupTypeOK
  <1> QED BY <1>4, <1>6, <1>7, <1>8, <1>9 DEF CloseDuplicate, DedupTypeOK

\* Every step keeps the state well formed.
LEMMA NextTypes ==
  ASSUME DedupTypeOK, IdleInv, RankInv, DedupNext
  PROVE  DedupTypeOK'
  <1>1. CASE Tick
    <2>1. slips' \in 0..MaxSlips
      BY <1>1, SlipType DEF Tick, DedupTypeOK
    <2>2. now' \in 0..MaxTime
      BY <1>1, DedupAssumption DEF Tick, DedupTypeOK
    <2>3. UNCHANGED <<rank, tied, created, status, key, into, pc, todo, cur, ticked, edits,
                      touched, recent>>
      BY <1>1 DEF Tick, table, pass
    <2> QED BY <2>1, <2>2, <2>3 DEF DedupTypeOK
  <1>2. ASSUME NEW a \in Alerts, RaiseAlert(a) PROVE DedupTypeOK'
    <2>1. rank' \in [Alerts -> 0..Cardinality(Alerts)]
      <3>1. rank \in [Alerts -> 0..Cardinality(Alerts)]
        BY DEF DedupTypeOK
      <3>2. a \in Alerts \ Raised
        BY <1>2 DEF RaiseAlert, Raised
      <3>3. Cardinality(Raised) + 1 <= Cardinality(Alerts)
        BY <3>2, RaisedCount
      <3>4. Cardinality(Raised) + 1 \in 0..Cardinality(Alerts)
        BY <3>3, RaisedCount
      <3> QED BY <1>2, <3>1, <3>4 DEF RaiseAlert
    <2>2. created' \in [Alerts -> 0..MaxTime] /\ tied' \subseteq Alerts
      BY <1>2 DEF RaiseAlert, DedupTypeOK
    <2>3. UNCHANGED <<now, status, key, into, pc, todo, cur, ticked, edits, slips, touched, recent>>
      BY <1>2 DEF RaiseAlert, pass
    <2> QED BY <2>1, <2>2, <2>3 DEF DedupTypeOK
  <1>3. ASSUME NEW a \in Alerts, NEW s \in {"open", "investigating", "resolved"}, SetStatus(a, s)
        PROVE  DedupTypeOK'
    <2>1. status' \in [Alerts -> {"open", "investigating", "resolved"}]
      BY <1>3 DEF SetStatus, DedupTypeOK
    <2>2. into' \in [Alerts -> Alerts \cup {None}]
      BY <1>3 DEF SetStatus, DedupTypeOK
    <2>3. touched' \subseteq Alerts /\ recent' \in [Servers -> SUBSET Alerts]
      BY <1>3 DEF SetStatus, DedupTypeOK
    <2>4. edits' \in 0..MaxEdits
      BY <1>3, DedupAssumption DEF SetStatus, DedupTypeOK
    <2>5. UNCHANGED <<now, rank, tied, created, key, pc, todo, cur, ticked, slips>>
      BY <1>3 DEF SetStatus, pass
    <2> QED BY <2>1, <2>2, <2>3, <2>4, <2>5 DEF DedupTypeOK
  <1>4. ASSUME NEW r \in Servers, TitleQuery(r) \/ TechniqueQuery(r) PROVE DedupTypeOK'
    <2>1. PICK T :
            /\ \A g \in T : Sound(g)
            /\ todo' = [todo EXCEPT ![r] = T] /\ (Slip \/ slips' = slips)
      <3>1. CASE TitleQuery(r)
        BY <3>1, ReturnsSome, TitleGroupsSound DEF TitleQuery
      <3>2. CASE TechniqueQuery(r)
        <4>1. PICK groups \in TechniqueGroups : Returns(r, groups)
          BY <3>2 DEF TechniqueQuery
        <4>2. \A x \in groups : Sound(x)
          BY TechniqueGroupsSound
        <4> QED BY <4>1, <4>2, ReturnsSome
      <3> QED BY <1>4, <3>1, <3>2
    <2>2. cur' = cur
      BY <1>4 DEF TitleQuery, TechniqueQuery
    <2>3. /\ todo' \in [Servers -> SUBSET Group] /\ cur' \in [Servers -> Group \cup {NoGroup}]
          /\ \A q \in Servers : \A g \in todo'[q] \cup {cur'[q]} : g.keep \notin g.dups
      BY <2>1, <2>2, QueryTypes
    <2>4. slips' \in 0..MaxSlips
      BY <2>1, SlipType DEF DedupTypeOK
    <2>5. pc' \in [Servers -> {"idle", "title", "technique"}]
      BY <1>4 DEF TitleQuery, TechniqueQuery, DedupTypeOK
    <2>6. ticked' \in [Servers -> 0..MaxTime]
      BY <1>4 DEF TitleQuery, TechniqueQuery, DedupTypeOK
    <2>7. recent' \in [Servers -> SUBSET Alerts]
      BY <1>4 DEF TitleQuery, TechniqueQuery, DedupTypeOK
    <2>8. UNCHANGED <<now, rank, tied, created, status, key, into, edits, touched>>
      BY <1>4 DEF TitleQuery, TechniqueQuery, table
    <2> QED BY <2>3, <2>4, <2>5, <2>6, <2>7, <2>8 DEF DedupTypeOK
  <1>5. ASSUME NEW r \in Servers, TickOver(r) PROVE DedupTypeOK'
    <2>1. pc' \in [Servers -> {"idle", "title", "technique"}]
      BY <1>5 DEF TickOver, DedupTypeOK
    <2> QED BY <1>5, <2>1 DEF TickOver, table, DedupTypeOK
  <1>6. ASSUME NEW r \in Servers, Restart(r) PROVE DedupTypeOK'
    <2>1. /\ pc' \in [Servers -> {"idle", "title", "technique"}]
          /\ ticked' \in [Servers -> 0..MaxTime]
      BY <1>6 DEF Restart, DedupTypeOK
    <2>2. /\ todo' \in [Servers -> SUBSET Group] /\ cur' \in [Servers -> Group \cup {NoGroup}]
      BY <1>6 DEF Restart, DedupTypeOK
    <2>3. \A q \in Servers : \A g \in todo'[q] \cup {cur'[q]} : g.keep \notin g.dups
      BY <1>6 DEF Restart, DedupTypeOK, NoGroup
    <2>4. slips' \in 0..MaxSlips
      BY <1>6, SlipType DEF Restart, DedupTypeOK
    <2> QED BY <1>6, <2>1, <2>2, <2>3, <2>4 DEF Restart, table, DedupTypeOK
  <1> QED BY <1>1, <1>2, <1>3, <1>4, <1>5, <1>6, MarkTypes, CloseTypes DEF DedupNext

-----------------------------------------------------------------------------
(* Idle servers and ranks. *)

\* A round ends only when its groups are merged, or with the server.
LEMMA NextIdle ==
  ASSUME DedupTypeOK, IdleInv, DedupNext
  PROVE  IdleInv'
  <1>0. /\ pc \in [Servers -> {"idle", "title", "technique"}]
        /\ todo \in [Servers -> SUBSET Group] /\ cur \in [Servers -> Group \cup {NoGroup}]
    BY DEF DedupTypeOK
  <1>1. CASE UNCHANGED <<pc, todo, cur>>
    BY <1>1 DEF IdleInv
  <1>2. ASSUME NEW r \in Servers, TitleQuery(r) \/ TechniqueQuery(r) PROVE IdleInv'
    <2>1. PICK s \in {"title", "technique"} : pc' = [pc EXCEPT ![r] = s]
      BY <1>2 DEF TitleQuery, TechniqueQuery
    <2>2. \A q \in Servers \ {r} : todo'[q] = todo[q] /\ cur'[q] = cur[q]
      <3>1. PICK T : todo' = [todo EXCEPT ![r] = T]
        BY <1>2, ReturnsSome DEF TitleQuery, TechniqueQuery
      <3> QED BY <1>0, <1>2, <3>1 DEF TitleQuery, TechniqueQuery
    <2> QED BY <1>0, <2>1, <2>2 DEF IdleInv
  <1>3. ASSUME NEW r \in Servers, TickOver(r) PROVE IdleInv'
    BY <1>0, <1>3 DEF TickOver, PassOver, IdleInv
  <1>4. ASSUME NEW r \in Servers, Mark(r) PROVE IdleInv'
    BY <1>0, <1>4 DEF Mark, IdleInv
  <1>5. ASSUME NEW r \in Servers, Restart(r) PROVE IdleInv'
    BY <1>0, <1>5 DEF Restart, IdleInv
  <1>6. ASSUME NEW r \in Servers, NEW a \in Alerts, CloseDuplicate(r, a) PROVE IdleInv'
    <2>1. cur[r] # NoGroup
      BY <1>6, CloseGroup DEF NoGroup
    <2>2. PICK n : cur' = [cur EXCEPT ![r] = n]
      BY <1>6, CloseGroup
    <2>3. UNCHANGED <<pc, todo>>
      BY <1>6 DEF CloseDuplicate
    <2> QED BY <1>0, <2>1, <2>2, <2>3 DEF IdleInv
  <1>7. CASE \/ Tick \/ \E a \in Alerts : RaiseAlert(a)
             \/ \E a \in Alerts, s \in {"open", "investigating", "resolved"} : SetStatus(a, s)
    BY <1>1, <1>7 DEF Tick, RaiseAlert, SetStatus, pass
  <1> QED BY <1>2, <1>3, <1>4, <1>5, <1>6, <1>7 DEF DedupNext

\* Every step leaves the ranks alone, or gives the next one to a new alert.
LEMMA NextRanks ==
  ASSUME DedupNext
  PROVE  UNCHANGED <<rank, tied>> \/ \E a \in Alerts : RaiseAlert(a)
  BY DEF DedupNext, Tick, SetStatus, TitleQuery, TechniqueQuery, TickOver, Mark, Restart,
     CloseDuplicate, table

\* A new alert comes after all others.
LEMMA RaiseRank ==
  ASSUME DedupTypeOK, RankInv, NEW a \in Alerts, RaiseAlert(a)
  PROVE  /\ rank[a] = 0 /\ rank'[a] = Cardinality(Raised) + 1
         /\ \A b \in Alerts \ {a} : rank'[b] = rank[b]
         /\ RankInv'
  <1>1. rank \in [Alerts -> 0..Cardinality(Alerts)]
    BY DEF DedupTypeOK
  <1>2. rank[a] = 0 /\ rank' = [rank EXCEPT ![a] = Cardinality(Raised) + 1]
    BY DEF RaiseAlert
  <1>3. rank'[a] = Cardinality(Raised) + 1 /\ \A b \in Alerts \ {a} : rank'[b] = rank[b]
    BY <1>1, <1>2
  <1>4. Cardinality(Raised) \in Nat /\ a \in Alerts \ Raised
    BY <1>2, RaisedCount DEF Raised
  <1>5. Raised' = Raised \cup {a}
    BY <1>3, <1>4 DEF Raised
  <1>6. Cardinality(Raised') = Cardinality(Raised) + 1
    BY <1>4, <1>5, RaisedCount
  <1>7. \A b \in Alerts : rank[b] \in Nat
    BY <1>1, RaisedCount
  <1>8. \A b \in Alerts : rank'[b] <= Cardinality(Raised')
    BY <1>3, <1>4, <1>6, <1>7 DEF RankInv
  <1>9. \A b, c \in Alerts : rank'[b] > 0 /\ rank'[b] = rank'[c] => b = c
    BY <1>3, <1>4, <1>7 DEF RankInv
  <1> QED BY <1>2, <1>3, <1>8, <1>9 DEF RankInv

\* Ranks stay different from each other.
LEMMA NextRankInv ==
  ASSUME DedupTypeOK, RankInv, DedupNext
  PROVE  RankInv'
  <1>1. CASE rank' = rank
    BY <1>1 DEF RankInv, Raised
  <1> QED BY <1>1, NextRanks, RaiseRank

\* A raised alert keeps its rank, and with it its place in the order.
LEMMA BetterKept ==
  ASSUME DedupTypeOK, RankInv, DedupNext
  PROVE  /\ \A a \in Alerts : rank[a] > 0 => rank'[a] = rank[a]
         /\ \A k, a \in Alerts : rank[k] > 0 /\ rank[a] > 0 /\ Better(k, a) => Better(k, a)'
  <1>1. \A a \in Alerts : rank[a] > 0 => rank'[a] = rank[a]
    BY NextRanks, RaiseRank
  <1>2. ASSUME NEW k \in Alerts, NEW a \in Alerts, rank[k] > 0, rank[a] > 0, Twins(k, a)
        PROVE  Twins(k, a)'
    <2>1. CASE UNCHANGED <<rank, tied>>
      BY <1>2, <2>1 DEF Twins, Raised
    <2>2. ASSUME NEW x \in Alerts, RaiseAlert(x) PROVE Twins(k, a)'
      <3>1. /\ rank[x] = 0 /\ rank'[x] = Cardinality(Raised) + 1 /\ tied \subseteq tied'
            /\ \A b \in Alerts \ {x} : rank'[b] = rank[b]
        BY <2>2, RaiseRank DEF RaiseAlert
      <3>2. /\ rank[k] <= Cardinality(Raised) /\ rank[a] <= Cardinality(Raised)
            /\ Cardinality(Raised) \in Nat
        BY RaisedCount DEF RankInv
      <3>3. rank'[k] = rank[k] /\ rank'[a] = rank[a] /\ rank[k] \in Nat /\ rank[a] \in Nat
        BY <1>1, <1>2, RaisedCount DEF DedupTypeOK
      <3>4. ASSUME NEW c \in Raised', Severity[c] = Severity[k],
                   \/ rank'[k] < rank'[c] /\ rank'[c] <= rank'[a]
                   \/ rank'[a] < rank'[c] /\ rank'[c] <= rank'[k]
            PROVE  c \in tied'
        <4>1. c \in Alerts /\ c # x
          BY <3>1, <3>2, <3>3, <3>4 DEF Raised
        <4>2. rank'[c] = rank[c] /\ c \in Raised
          BY <3>1, <4>1 DEF Raised
        <4>3. c \in tied
          BY <1>2, <3>3, <3>4, <4>2 DEF Twins
        <4> QED BY <3>1, <4>3
      <3> QED BY <1>2, <3>4 DEF Twins
    <2> QED BY <2>1, <2>2, NextRanks
  <1> QED BY <1>1, <1>2 DEF Better

-----------------------------------------------------------------------------
(* Groups at work, and what becomes of alerts. *)

\* A server's groups come from its query, or are what is left of the ones it had.  An
\* answer to a query replaces nothing, and starts a new account of decisions.
LEMMA NextOpen ==
  ASSUME DedupTypeOK, IdleInv, RankInv, DedupNext,
         NEW q \in Servers, NEW g \in Open(q)', g.dups # {}
  PROVE  \/ Sound(g) /\ UNCHANGED <<rank, tied, status>>
         \/ /\ recent[q] \subseteq recent'[q]
            /\ \E h \in Open(q) : g.keep = h.keep /\ g.dups \subseteq h.dups
  <1>0. /\ todo \in [Servers -> SUBSET Group] /\ cur \in [Servers -> Group \cup {NoGroup}]
        /\ recent \in [Servers -> SUBSET Alerts]
    BY DEF DedupTypeOK
  <1>1. CASE UNCHANGED <<todo, cur>> /\ recent[q] \subseteq recent'[q]
    BY <1>1 DEF Open
  <1>2. ASSUME NEW r \in Servers, TitleQuery(r) \/ TechniqueQuery(r)
        PROVE  \/ Sound(g) /\ UNCHANGED <<rank, tied, status>>
               \/ recent[q] \subseteq recent'[q] /\ g \in Open(q)
    <2>1. PICK T : (\A x \in T : Sound(x)) /\ todo' = [todo EXCEPT ![r] = T]
      <3>1. CASE TitleQuery(r)
        BY <3>1, ReturnsSome, TitleGroupsSound DEF TitleQuery
      <3>2. CASE TechniqueQuery(r)
        <4>1. PICK groups \in TechniqueGroups : Returns(r, groups)
          BY <3>2 DEF TechniqueQuery
        <4>2. \A x \in groups : Sound(x)
          BY TechniqueGroupsSound
        <4> QED BY <4>1, <4>2, ReturnsSome
      <3> QED BY <1>2, <3>1, <3>2
    <2>2. /\ cur' = cur /\ recent' = [recent EXCEPT ![r] = {}]
          /\ UNCHANGED <<rank, tied, status>>
      BY <1>2 DEF TitleQuery, TechniqueQuery, table
    <2>3. cur[r] = NoGroup
      BY <1>2 DEF TitleQuery, Due, TechniqueQuery, PassOver, IdleInv
    <2>4. CASE q = r
      <3>1. g \in T \cup {NoGroup}
        BY <1>0, <2>1, <2>2, <2>3, <2>4 DEF Open
      <3>2. g # NoGroup
        BY DEF NoGroup
      <3> QED BY <2>1, <2>2, <3>1, <3>2
    <2>5. CASE q # r
      BY <1>0, <2>1, <2>2, <2>5 DEF Open
    <2> QED BY <2>4, <2>5
  <1>3. ASSUME NEW r \in Servers, Mark(r)
        PROVE  recent[q] \subseteq recent'[q] /\ g \in Open(q)
    <2>1. PICK x \in todo[r] : todo' = [todo EXCEPT ![r] = @ \ {x}] /\ cur' = [cur EXCEPT ![r] = x]
      BY <1>3 DEF Mark
    <2>2. recent' = recent
      BY <1>3 DEF Mark
    <2> QED BY <1>0, <2>1, <2>2 DEF Open
  <1>4. ASSUME NEW r \in Servers, Restart(r)
        PROVE  recent[q] \subseteq recent'[q] /\ g \in Open(q)
    <2>1. /\ todo' = [todo EXCEPT ![r] = {}] /\ cur' = [cur EXCEPT ![r] = NoGroup]
          /\ recent' = recent
      BY <1>4 DEF Restart
    <2>2. g # NoGroup
      BY DEF NoGroup
    <2> QED BY <1>0, <2>1, <2>2 DEF Open
  <1>5. ASSUME NEW r \in Servers, NEW a \in Alerts, CloseDuplicate(r, a)
        PROVE  /\ recent[q] \subseteq recent'[q]
               /\ \E h \in Open(q) : g.keep = h.keep /\ g.dups \subseteq h.dups
    <2>1. PICK n \in Group \cup {NoGroup} :
            /\ cur' = [cur EXCEPT ![r] = n]
            /\ \/ n = NoGroup
               \/ n \in Group /\ n.keep = cur[r].keep /\ n.dups = cur[r].dups \ {a}
      BY <1>5, CloseGroup
    <2>2. UNCHANGED <<todo, recent>>
      BY <1>5 DEF CloseDuplicate
    <2>3. g # NoGroup
      BY DEF NoGroup
    <2>4. g \in Open(q) \/ (q = r /\ g = n)
      BY <1>0, <2>1, <2>2 DEF Open
    <2>5. cur[q] \in Open(q)
      BY DEF Open
    <2>6. CASE q = r /\ g = n
      BY <2>1, <2>2, <2>3, <2>5, <2>6
    <2> QED BY <2>2, <2>4, <2>6
  <1>6. CASE \/ Tick \/ \E a \in Alerts : RaiseAlert(a)
             \/ \E a \in Alerts, s \in {"open", "investigating", "resolved"} : SetStatus(a, s)
             \/ \E r \in Servers : TickOver(r)
    <2>1. UNCHANGED <<todo, cur>>
      BY <1>6 DEF Tick, RaiseAlert, SetStatus, TickOver, pass
    <2>2. recent[q] \subseteq recent'[q]
      BY <1>0, <1>6 DEF Tick, RaiseAlert, SetStatus, TickOver
    <2> QED BY <1>1, <2>1, <2>2
  <1> QED BY <1>2, <1>3, <1>4, <1>5, <1>6 DEF DedupNext

\* A step leaves an alert alone, closes it as a duplicate, or is a decision on it.
LEMMA NextRow ==
  ASSUME DedupTypeOK, DedupNext, NEW d \in Alerts
  PROVE  \/ status'[d] = status[d] /\ into'[d] = into[d]
         \/ \E r \in Servers :
              /\ cur[r] \in Group /\ d \in cur[r].dups
              /\ status'[d] = "resolved" /\ into'[d] = cur[r].keep
         \/ /\ into'[d] = None /\ d \in touched'
            /\ \A q \in Servers : d \in recent'[q]
  <1>0. /\ status \in [Alerts -> {"open", "investigating", "resolved"}]
        /\ into \in [Alerts -> Alerts \cup {None}]
    BY DEF DedupTypeOK
  <1>1. ASSUME NEW a \in Alerts, NEW s, SetStatus(a, s)
        PROVE  \/ status'[d] = status[d] /\ into'[d] = into[d]
               \/ /\ into'[d] = None /\ d \in touched'
                  /\ \A q \in Servers : d \in recent'[q]
    BY <1>0, <1>1 DEF SetStatus
  <1>2. ASSUME NEW r \in Servers, NEW a \in Alerts, CloseDuplicate(r, a)
        PROVE  \/ status'[d] = status[d] /\ into'[d] = into[d]
               \/ /\ cur[r] \in Group /\ d \in cur[r].dups
                  /\ status'[d] = "resolved" /\ into'[d] = cur[r].keep
    <2>1. cur[r] \in Group /\ a \in cur[r].dups
      BY <1>2, CloseGroup
    <2>2. Resolve(r, a) \/ UNCHANGED <<status, into>>
      BY <1>2 DEF CloseDuplicate
    <2> QED BY <1>0, <2>1, <2>2 DEF Resolve
  <1>3. CASE UNCHANGED <<status, into>>
    BY <1>3
  <1>4. CASE \/ Tick \/ \E a \in Alerts : RaiseAlert(a)
             \/ \E r \in Servers : TitleQuery(r) \/ TechniqueQuery(r) \/ TickOver(r)
                                   \/ Mark(r) \/ Restart(r)
    BY <1>3, <1>4 DEF Tick, RaiseAlert, TitleQuery, TechniqueQuery, TickOver, Mark, Restart, table
  <1> QED BY <1>1, <1>2, <1>4 DEF DedupNext

\* An open group is made of alerts.
LEMMA OpenType ==
  ASSUME DedupTypeOK, NEW r \in Servers, NEW g \in Open(r), NEW d \in g.dups
  PROVE  g \in Group /\ g.keep \in Alerts /\ d \in Alerts /\ g.keep # None
  <1>1. g \in Group
    BY DEF DedupTypeOK, Open, NoGroup
  <1> QED BY <1>1, DedupAssumption DEF Group

\* Every step leaves open groups with the best of their alerts to keep.
LEMMA NextGroupInv ==
  ASSUME DedupTypeOK, DedupTypeOK', IdleInv, RankInv, GroupInv, DedupNext
  PROVE  GroupInv'
  <1> SUFFICES ASSUME NEW r \in Servers, NEW g \in Open(r)', NEW d \in g.dups
               PROVE  (rank[d] > 0 /\ rank[g.keep] > 0 /\ Better(g.keep, d))'
    BY DEF GroupInv
  <1>1. CASE Sound(g) /\ UNCHANGED <<rank, tied, status>>
    BY <1>1 DEF Sound, Better, Twins, Raised
  <1>2. CASE \E h \in Open(r) : g.keep = h.keep /\ g.dups \subseteq h.dups
    <2>1. PICK h \in Open(r) : g.keep = h.keep /\ g.dups \subseteq h.dups
      BY <1>2
    <2>2. rank[d] > 0 /\ rank[h.keep] > 0 /\ Better(h.keep, d)
      BY <2>1 DEF GroupInv
    <2>3. h.keep \in Alerts /\ d \in Alerts
      BY <2>1, OpenType
    <2> QED BY <2>1, <2>2, <2>3, BetterKept
  <1> QED BY <1>1, <1>2, NextOpen

\* Every merge is into a better alert.
LEMMA NextMergeInv ==
  ASSUME DedupTypeOK, RankInv, GroupInv, MergeInv, DedupNext
  PROVE  MergeInv'
  <1> SUFFICES ASSUME NEW d \in Alerts, into'[d] # None
               PROVE  /\ rank'[d] > 0 /\ rank'[into'[d]] > 0
                      /\ Better(into[d], d)'
    BY DEF MergeInv
  <1>1. CASE into'[d] = into[d]
    <2>1. rank[d] > 0 /\ rank[into[d]] > 0 /\ Better(into[d], d) /\ into[d] \in Alerts
      BY <1>1 DEF MergeInv, DedupTypeOK
    <2>2. rank'[d] = rank[d] /\ rank'[into[d]] = rank[into[d]] /\ Better(into[d], d)'
      <3>1. \A k \in Alerts : rank[k] > 0 /\ Better(k, d) => Better(k, d)'
        BY <2>1, BetterKept
      <3>2. \A k : k = into'[d] => (Better(k, d)' <=> Better(into[d], d)')
        BY DEF Better, Twins
      <3> QED BY <1>1, <2>1, <3>1, <3>2, BetterKept
    <2> QED BY <1>1, <2>1, <2>2
  <1>2. ASSUME NEW r \in Servers, cur[r] \in Group, d \in cur[r].dups, into'[d] = cur[r].keep
        PROVE  /\ rank'[d] > 0 /\ rank'[into'[d]] > 0
               /\ Better(into[d], d)'
    <2>1. cur[r] \in Open(r) /\ cur[r].keep \in Alerts
      BY <1>2 DEF Open, Group
    <2>2. rank[d] > 0 /\ rank[cur[r].keep] > 0 /\ Better(cur[r].keep, d)
      BY <1>2, <2>1 DEF GroupInv
    <2>3. /\ rank'[d] = rank[d] /\ rank'[cur[r].keep] = rank[cur[r].keep]
          /\ Better(into[d], d)'
      <3>1. \A k \in Alerts : rank[k] > 0 /\ Better(k, d) => Better(k, d)'
        BY <2>2, BetterKept
      <3>2. \A k : k = into'[d] => (Better(k, d)' <=> Better(into[d], d)')
        BY DEF Better, Twins
      <3> QED BY <1>2, <2>1, <2>2, <3>1, <3>2, BetterKept
    <2> QED BY <1>2, <2>2, <2>3
  <1> QED BY <1>1, <1>2, NextRow

\* A status changes under an open group only by a merge or a decision.
LEMMA NextDecisionInv ==
  ASSUME DedupTypeOK, DedupTypeOK', IdleInv, RankInv, DecisionInv, DedupNext
  PROVE  DecisionInv'
  <1> SUFFICES ASSUME NEW q \in Servers, NEW g \in Open(q)', NEW d \in g.dups
               PROVE  status'[d] = "open" \/ into'[d] # None \/ d \in recent'[q]
    BY DEF DecisionInv
  <1>1. CASE Sound(g) /\ UNCHANGED <<rank, tied, status>>
    BY <1>1 DEF Sound
  <1>2. CASE /\ recent[q] \subseteq recent'[q]
             /\ \E h \in Open(q) : g.keep = h.keep /\ g.dups \subseteq h.dups
    <2>1. PICK h \in Open(q) : g.keep = h.keep /\ g.dups \subseteq h.dups
      BY <1>2
    <2>2. d \in Alerts
      BY <2>1, OpenType
    <2>3. status[d] = "open" \/ into[d] # None \/ d \in recent[q]
      BY <2>1 DEF DecisionInv
    <2>4. ASSUME NEW r \in Servers, cur[r] \in Group, into'[d] = cur[r].keep
          PROVE  into'[d] # None
      BY <2>4, DedupAssumption DEF Group
    <2> QED BY <1>2, <2>2, <2>3, <2>4, NextRow
  <1> QED BY <1>1, <1>2, NextOpen

-----------------------------------------------------------------------------
(* Time, and the pairs that a tick must merge. *)

\* The counter of slips never falls, and a slip raises it.
LEMMA NextSlips ==
  ASSUME DedupTypeOK, DedupTypeOK', DedupNext, slips' = 0
  PROVE  slips = 0 /\ slips' = slips /\ ~Slip
  <1>1. slips \in Nat
    BY DedupAssumption DEF DedupTypeOK
  <1>2. ~Slip
    BY <1>1 DEF Slip
  <1>3. slips' = slips \/ Slip
    <2>1. ASSUME NEW r \in Servers, TitleQuery(r) \/ TechniqueQuery(r) PROVE slips' = slips \/ Slip
      BY <2>1, ReturnsSome DEF TitleQuery, TechniqueQuery
    <2> QED BY <2>1 DEF DedupNext, Tick, RaiseAlert, SetStatus, TickOver, Mark, Restart,
                        CloseDuplicate
  <1> QED BY <1>2, <1>3

\* Without a slip, time passes only when no server is in a round and none is due.
LEMMA NextClock ==
  ASSUME DedupTypeOK, DedupTypeOK', ClockInv, DedupNext
  PROVE  ClockInv'
  <1>0. /\ now \in Nat /\ ticked \in [Servers -> 0..MaxTime] /\ created \in [Alerts -> 0..MaxTime]
        /\ pc \in [Servers -> {"idle", "title", "technique"}]
        /\ Interval \in Nat /\ MaxTime \in Nat
    BY DedupAssumption DEF DedupTypeOK
  <1>1. CASE Tick
    <2>1. now' = now + 1 /\ UNCHANGED <<created, pc, ticked>>
      BY <1>1 DEF Tick, table, pass
    <2>2. ASSUME slips' = 0, NEW r \in Servers
          PROVE  now' - ticked'[r] <= Interval /\ pc'[r] = "idle"
      <3>1. pc[r] = "idle"
        BY <1>1, <2>2, NextSlips DEF Tick
      <3>2. ~Due(r)
        BY <1>1 DEF Tick
      <3> QED BY <1>0, <2>1, <3>1, <3>2 DEF Due
    <2>3. \A a \in Alerts : created'[a] <= now'
      BY <1>0, <2>1 DEF ClockInv
    <2>4. \A r \in Servers : ticked'[r] <= now'
      BY <1>0, <2>1 DEF ClockInv
    <2> QED BY <2>2, <2>3, <2>4 DEF ClockInv
  <1>2. ASSUME NEW a \in Alerts, RaiseAlert(a) PROVE ClockInv'
    <2>1. /\ created' = [created EXCEPT ![a] = now] /\ UNCHANGED <<now, pc, ticked, slips>>
      BY <1>2 DEF RaiseAlert, pass
    <2>2. \A x \in Alerts : created'[x] <= now'
      BY <1>0, <2>1 DEF ClockInv
    <2> QED BY <2>1, <2>2 DEF ClockInv
  <1>3. CASE UNCHANGED <<now, created, pc, ticked>>
    <2>1. slips' = 0 => slips = 0
      BY NextSlips
    <2> QED BY <1>3, <2>1 DEF ClockInv
  <1>4. ASSUME NEW r \in Servers,
               TitleQuery(r) \/ TechniqueQuery(r) \/ TickOver(r) \/ Restart(r)
        PROVE  ClockInv'
    <2>1. /\ UNCHANGED <<now, created>>
          /\ \A q \in Servers \ {r} : ticked'[q] = ticked[q] /\ pc'[q] = pc[q]
      BY <1>0, <1>4 DEF TitleQuery, TechniqueQuery, TickOver, Restart, table
    <2>2. ticked'[r] = now \/ (ticked'[r] = ticked[r] /\ (pc'[r] = "idle" \/ pc[r] # "idle"))
      BY <1>0, <1>4 DEF TitleQuery, TechniqueQuery, TickOver, Restart
    <2>3. slips' = 0 => slips = 0
      BY NextSlips
    <2>4. \A q \in Servers : ticked[q] \in Nat
      BY <1>0
    <2>5. \A q \in Servers : ticked'[q] <= now'
      BY <1>0, <2>1, <2>2, <2>4 DEF ClockInv
    <2>6. ASSUME slips' = 0, NEW q \in Servers
          PROVE  now' - ticked'[q] <= Interval /\ (pc'[q] # "idle" => ticked'[q] = now')
      BY <1>0, <2>1, <2>2, <2>3, <2>4, <2>6 DEF ClockInv
    <2> QED BY <2>1, <2>5, <2>6 DEF ClockInv
  <1>5. CASE \/ \E a \in Alerts, s \in {"open", "investigating", "resolved"} : SetStatus(a, s)
             \/ \E r \in Servers : Mark(r) \/ \E a \in Alerts : CloseDuplicate(r, a)
    BY <1>3, <1>5 DEF SetStatus, Mark, CloseDuplicate, pass
  <1> QED BY <1>1, <1>2, <1>4, <1>5 DEF DedupNext

\* Two alerts that are open, untouched and older than a tick were so before the step.
LEMMA PairBefore ==
  ASSUME DedupTypeOK, ClockInv, DedupNext,
         NEW q \in Servers, NEW a \in Alerts, NEW b \in Alerts,
         {a, b} \subseteq Raised' \ touched', BothOpen(a, b)',
         created'[a] <= created'[b], ticked'[q] > created'[b]
  PROVE  /\ {a, b} \subseteq Raised \ touched /\ BothOpen(a, b)
         /\ created'[a] = created[a] /\ created'[b] = created[b]
  <1>0. /\ now \in Nat /\ ticked \in [Servers -> 0..MaxTime] /\ created \in [Alerts -> 0..MaxTime]
        /\ rank \in [Alerts -> 0..Cardinality(Alerts)] /\ MaxTime \in Nat
    BY DedupAssumption DEF DedupTypeOK
  <1>1. touched \subseteq touched'
    BY DEF DedupNext, Tick, RaiseAlert, SetStatus, TitleQuery, TechniqueQuery, TickOver, Mark,
       Restart, CloseDuplicate
  <1>2. BothOpen(a, b)
    BY NextRow DEF BothOpen
  <1>3. CASE UNCHANGED <<rank, created>>
    BY <1>1, <1>2, <1>3 DEF Raised
  <1>4. ASSUME NEW x \in Alerts, RaiseAlert(x)
        PROVE  /\ {a, b} \subseteq Raised \ touched
               /\ created'[a] = created[a] /\ created'[b] = created[b]
    <2>1. /\ rank' = [rank EXCEPT ![x] = Cardinality(Raised) + 1]
          /\ created' = [created EXCEPT ![x] = now] /\ ticked' = ticked
      BY <1>4 DEF RaiseAlert, pass
    <2>2. ticked[q] \in Nat /\ created[a] \in Nat /\ created[b] \in Nat
      BY <1>0
    <2>3. ticked[q] <= now /\ created[b] <= now
      BY DEF ClockInv
    <2>4. x # b
      BY <1>0, <2>1, <2>2, <2>3
    <2>5. x # a
      BY <1>0, <2>1, <2>2, <2>3, <2>4
    <2>6. rank'[a] = rank[a] /\ rank'[b] = rank[b]
      BY <1>0, <2>1, <2>4, <2>5
    <2> QED BY <1>0, <1>1, <2>1, <2>4, <2>5, <2>6 DEF Raised
  <1>5. UNCHANGED <<rank, created>> \/ \E x \in Alerts : RaiseAlert(x)
    BY DEF DedupNext, Tick, SetStatus, TitleQuery, TechniqueQuery, TickOver, Mark, Restart,
       CloseDuplicate, table
  <1> QED BY <1>2, <1>3, <1>4, <1>5

\* What the other steps leave alone when nothing slips.
LEMMA OtherSteps ==
  ASSUME DedupTypeOK, DedupNext, ~Slip, NEW q \in Servers,
         ~Tick, ~TitleQuery(q), ~TechniqueQuery(q), ~TickOver(q)
  PROVE  now' = now /\ pc'[q] = pc[q] /\ ticked'[q] = ticked[q]
  <1>0. pc \in [Servers -> {"idle", "title", "technique"}] /\ ticked \in [Servers -> 0..MaxTime]
    BY DEF DedupTypeOK
  <1>1. ASSUME NEW r \in Servers, TitleQuery(r) \/ TechniqueQuery(r) \/ TickOver(r)
        PROVE  now' = now /\ pc'[q] = pc[q] /\ ticked'[q] = ticked[q]
    BY <1>0, <1>1 DEF TitleQuery, TechniqueQuery, TickOver
  <1> QED BY <1>1 DEF DedupNext, RaiseAlert, SetStatus, Mark, Restart, CloseDuplicate, pass

\* A pair in one of a server's groups stays in it while both are open.
LEMMA HeldKept ==
  ASSUME DedupTypeOK, DedupNext, ~Slip, NEW q \in Servers, NEW a \in Alerts, NEW b \in Alerts,
         a # b, BothOpen(a, b)', Held(q, a, b), ~TitleQuery(q), ~TechniqueQuery(q)
  PROVE  Held(q, a, b)'
  <1>0. /\ todo \in [Servers -> SUBSET Group] /\ cur \in [Servers -> Group \cup {NoGroup}]
        /\ status \in [Alerts -> {"open", "investigating", "resolved"}]
    BY DEF DedupTypeOK
  <1>1. CASE todo'[q] = todo[q] /\ cur'[q] = cur[q]
    BY <1>1 DEF Held, Open
  <1>2. ASSUME NEW r \in Servers, TitleQuery(r) \/ TechniqueQuery(r)
        PROVE  todo'[q] = todo[q] /\ cur'[q] = cur[q]
    <2>1. r # q
      BY <1>2
    <2>2. PICK T : todo' = [todo EXCEPT ![r] = T]
      BY <1>2, ReturnsSome DEF TitleQuery, TechniqueQuery
    <2>3. cur' = cur
      BY <1>2 DEF TitleQuery, TechniqueQuery
    <2> QED BY <1>0, <2>1, <2>2, <2>3
  <1>3. PICK g \in Open(q) : {a, b} \subseteq g.dups \cup {g.keep}
    BY DEF Held
  <1>4. g # NoGroup
    BY <1>3, DedupAssumption DEF NoGroup
  <1>5. ASSUME NEW r \in Servers, Mark(r) PROVE g \in Open(q)'
    <2>1. PICK x \in todo[r] : todo' = [todo EXCEPT ![r] = @ \ {x}] /\ cur' = [cur EXCEPT ![r] = x]
      BY <1>5 DEF Mark
    <2>2. cur[r] = NoGroup
      BY <1>5 DEF Mark
    <2> QED BY <1>0, <1>4, <2>1, <2>2 DEF Open
  <1>6. ASSUME NEW r \in Servers, NEW x \in Alerts, CloseDuplicate(r, x) PROVE Held(q, a, b)'
    <2>1. PICK n \in Group \cup {NoGroup} :
            /\ cur' = [cur EXCEPT ![r] = n]
            /\ \/ n = NoGroup /\ cur[r].dups = {x}
               \/ n \in Group /\ n.keep = cur[r].keep /\ n.dups = cur[r].dups \ {x}
      BY <1>6, CloseGroup
    <2>2. todo' = todo /\ status' = [status EXCEPT ![x] = "resolved"]
      BY <1>6 DEF CloseDuplicate, Resolve
    <2>3. x # a /\ x # b
      BY <1>0, <2>2 DEF BothOpen
    <2>4. CASE g \in todo[q] \/ q # r
      BY <1>0, <1>3, <2>1, <2>2, <2>4 DEF Held, Open
    <2>5. CASE q = r /\ g = cur[r]
      <3>1. cur[r].dups # {x}
        BY <1>3, <2>3, <2>5
      <3>2. {a, b} \subseteq n.dups \cup {n.keep}
        BY <1>3, <2>1, <2>3, <2>5, <3>1
      <3>3. n \in Open(q)'
        BY <1>0, <2>1, <2>5 DEF Open
      <3> QED BY <3>2, <3>3 DEF Held
    <2> QED BY <1>3, <2>4, <2>5 DEF Open
  <1>7. CASE \/ Tick \/ \E x \in Alerts : RaiseAlert(x)
             \/ \E x \in Alerts, s \in {"open", "investigating", "resolved"} : SetStatus(x, s)
             \/ \E r \in Servers : TickOver(r)
    BY <1>1, <1>7 DEF Tick, RaiseAlert, SetStatus, TickOver, pass
  <1>8. CASE \E r \in Servers : Mark(r)
    BY <1>3, <1>5, <1>8 DEF Held
  <1> QED BY <1>1, <1>2, <1>6, <1>7, <1>8 DEF DedupNext, Restart

\* The technique pass does not let go of a pair before it is merged.
LEMMA NextTechnique ==
  ASSUME WithinLimit, DedupTypeOK, DedupTypeOK', ClockInv, TechniqueInv, DedupNext
  PROVE  TechniqueInv'
  <1> DEFINE W == TechniqueWindow
  <1> SUFFICES ASSUME slips' = 0, NEW q \in Servers, NEW a \in Alerts, NEW b \in Alerts,
                      CrossEngine(a, b)', Close(a, b, W)', BothOpen(a, b)',
                      ticked'[q] > created'[b]
               PROVE  /\ pc'[q] # "idle" /\ now' <= created'[a] + W
                      /\ pc'[q] = "technique" => Held(q, a, b)'
    BY DEF TechniqueInv
  <1>0. /\ now \in Nat /\ ticked[q] \in Nat /\ created[a] \in Nat /\ created[b] \in Nat
        /\ Interval \in Nat /\ W \in Nat
        /\ pc \in [Servers -> {"idle", "title", "technique"}] /\ todo \in [Servers -> SUBSET Group]
        /\ ticked \in [Servers -> 0..MaxTime]
    BY DedupAssumption DEF DedupTypeOK
  <1>1. slips = 0 /\ ~Slip
    BY NextSlips
  <1>2. /\ {a, b} \subseteq Raised \ touched /\ BothOpen(a, b)
        /\ created'[a] = created[a] /\ created'[b] = created[b]
    BY PairBefore DEF CrossEngine, Close
  <1>3. CrossEngine(a, b) /\ Close(a, b, W) /\ a # b
    BY <1>2 DEF CrossEngine, SameTechnique, Close
  <1>4. ticked[q] > created[b]
          => /\ pc[q] # "idle" /\ now <= created[a] + W
             /\ pc[q] = "technique" => Held(q, a, b)
    BY <1>1, <1>2, <1>3 DEF TechniqueInv
  <1>5. CASE Tick
    <2>1. pc[q] = "idle" /\ ticked'[q] = ticked[q]
      BY <1>1, <1>5 DEF Tick, pass
    <2> QED BY <1>2, <1>4, <2>1
  <1>6. CASE TitleQuery(q)
    <2>1. pc[q] = "idle" /\ pc'[q] = "title" /\ now' = now
      BY <1>0, <1>6 DEF TitleQuery, Due
    <2>2. ticked[q] <= created[b]
      BY <1>0, <1>4, <2>1
    <2>3. now - ticked[q] <= Interval
      BY <1>1 DEF ClockInv
    <2>4. now <= created[a] + W
      BY <1>0, <1>3, <2>2, <2>3 DEF Close
    <2> QED BY <1>2, <2>1, <2>4
  <1>7. CASE TechniqueQuery(q)
    <2>1. /\ pc[q] = "title" /\ pc'[q] = "technique" /\ now' = now
          /\ ticked'[q] = ticked[q]
      BY <1>0, <1>7 DEF TechniqueQuery
    <2>2. now <= created[a] + W
      BY <1>2, <1>4, <2>1
    <2>3. a \in TechniqueRows /\ b \in TechniqueRows
      BY <1>0, <1>2, <1>3, <2>2 DEF TechniqueRows, CrossEngine, SameTechnique, BothOpen, Close
    <2>3a. PICK groups \in TechniqueGroups : Returns(q, groups)
      BY <1>7 DEF TechniqueQuery
    <2>4. PICK g \in groups : {a, b} \subseteq g.dups \cup {g.keep}
      BY <1>3, <2>3, TechniquePairGrouped DEF CrossEngine
    <2>5. todo' = [todo EXCEPT ![q] = groups]
      <3>1. PICK T \in MaxOf(groups, Limit) : todo' = [todo EXCEPT ![q] = T]
        BY <1>1, <2>3a, ReturnsSome
      <3> QED BY <3>1, TechniqueGroupsFew, MaxOfAll
    <2>6. g \in Open(q)'
      BY <1>0, <2>5 DEF Open
    <2> QED BY <1>2, <2>1, <2>2, <2>4, <2>6 DEF Held
  <1>8. CASE TickOver(q)
    <2>1. pc[q] = "technique" /\ todo[q] = {} /\ cur[q] = NoGroup /\ ticked'[q] = ticked[q]
      BY <1>8 DEF TickOver, PassOver
    <2>2. ~Held(q, a, b)
      BY <2>1, DedupAssumption DEF Held, Open, NoGroup
    <2> QED BY <1>2, <1>4, <2>1, <2>2
  <1>9. CASE ~Tick /\ ~TitleQuery(q) /\ ~TechniqueQuery(q) /\ ~TickOver(q)
    <2>1. now' = now /\ pc'[q] = pc[q] /\ ticked'[q] = ticked[q]
      BY <1>1, <1>9, OtherSteps
    <2>2. Held(q, a, b) => Held(q, a, b)'
      BY <1>1, <1>3, <1>9, HeldKept
    <2> QED BY <1>2, <1>4, <2>1, <2>2
  <1> QED BY <1>5, <1>6, <1>7, <1>8, <1>9

\* No step takes the mark off an alert.
LEMMA KeyKept ==
  ASSUME DedupTypeOK, IdleInv, DedupNext, NEW a \in Alerts, key'[a] = "null"
  PROVE  key[a] = "null"
  <1>0. key \in [Alerts -> {"null", "title", "technique"}]
    BY DEF DedupTypeOK
  <1>1. ASSUME NEW r \in Servers, Mark(r) PROVE key[a] = "null"
    <2>1. pc[r] \in {"title", "technique"}
      BY <1>1 DEF Mark, DedupTypeOK
    <2> QED BY <1>0, <1>1, <2>1 DEF Mark
  <1>2. ASSUME NEW r \in Servers, NEW x \in Alerts, CloseDuplicate(r, x) PROVE key[a] = "null"
    <2>1. cur[r] # NoGroup
      BY <1>2, CloseGroup DEF NoGroup
    <2>2. pc[r] \in {"title", "technique"}
      BY <2>1 DEF IdleInv, DedupTypeOK
    <2> QED BY <1>0, <1>2, <2>2 DEF CloseDuplicate, Resolve
  <1>3. CASE UNCHANGED key
    BY <1>3
  <1> QED BY <1>1, <1>2, <1>3 DEF DedupNext, Tick, RaiseAlert, SetStatus, TitleQuery,
     TechniqueQuery, TickOver, Restart, table

\* Nor does the title pass.
LEMMA NextTitle ==
  ASSUME WithinLimit, DedupTypeOK, DedupTypeOK', IdleInv, ClockInv, TitleInv, DedupNext
  PROVE  TitleInv'
  <1> DEFINE W == TitleWindow
  <1> SUFFICES ASSUME slips' = 0, NEW q \in Servers, NEW a \in Alerts, NEW b \in Alerts,
                      Repeated(a, b)', Close(a, b, W)', BothOpen(a, b)',
                      key'[a] = "null", key'[b] = "null", ticked'[q] > created'[b]
               PROVE  /\ pc'[q] = "title" /\ now' <= created'[a] + W
                      /\ Held(q, a, b)'
    BY DEF TitleInv
  <1>0. /\ now \in Nat /\ ticked[q] \in Nat /\ created[a] \in Nat /\ created[b] \in Nat
        /\ Interval \in Nat /\ W \in Nat
        /\ pc \in [Servers -> {"idle", "title", "technique"}] /\ todo \in [Servers -> SUBSET Group]
        /\ ticked \in [Servers -> 0..MaxTime]
    BY DedupAssumption DEF DedupTypeOK
  <1>1. slips = 0 /\ ~Slip
    BY NextSlips
  <1>2. /\ {a, b} \subseteq Raised \ touched /\ BothOpen(a, b)
        /\ created'[a] = created[a] /\ created'[b] = created[b]
    BY PairBefore DEF Repeated, Close
  <1>3. Repeated(a, b) /\ Close(a, b, W) /\ a # b /\ key[a] = "null" /\ key[b] = "null"
    BY <1>2, KeyKept DEF Repeated, SameTitle, Close
  <1>4. ticked[q] > created[b] => pc[q] = "title" /\ now <= created[a] + W /\ Held(q, a, b)
    BY <1>1, <1>2, <1>3 DEF TitleInv
  <1>5. CASE Tick
    <2>1. pc[q] = "idle" /\ ticked'[q] = ticked[q]
      BY <1>1, <1>5 DEF Tick, pass
    <2> QED BY <1>2, <1>4, <2>1
  <1>6. CASE TitleQuery(q)
    <2>1. pc[q] = "idle" /\ pc'[q] = "title" /\ now' = now
      BY <1>0, <1>6 DEF TitleQuery, Due
    <2>2. ticked[q] <= created[b]
      BY <1>0, <1>4, <2>1
    <2>3. now - ticked[q] <= Interval
      BY <1>1 DEF ClockInv
    <2>4. now <= created[a] + W
      BY <1>0, <1>3, <2>2, <2>3 DEF Close
    <2>5. a \in TitleRows /\ b \in TitleRows
      BY <1>0, <1>2, <1>3, <2>4 DEF TitleRows, BothOpen, Close
    <2>6. PICK g \in TitleGroups : {a, b} \subseteq g.dups \cup {g.keep}
      BY <1>3, <2>5, TitlePairGrouped DEF Repeated
    <2>7. todo' = [todo EXCEPT ![q] = TitleGroups]
      <3>1. PICK T \in MaxOf(TitleGroups, Limit) : todo' = [todo EXCEPT ![q] = T]
        BY <1>1, <1>6, ReturnsSome DEF TitleQuery
      <3> QED BY <3>1, TitleGroupsFew, MaxOfAll
    <2>8. g \in Open(q)'
      BY <1>0, <2>7 DEF Open
    <2> QED BY <1>2, <2>1, <2>4, <2>6, <2>8 DEF Held
  <1>7. CASE TechniqueQuery(q) \/ TickOver(q)
    <2>1. todo[q] = {} /\ cur[q] = NoGroup /\ ticked'[q] = ticked[q]
      BY <1>0, <1>7 DEF TechniqueQuery, TickOver, PassOver
    <2>2. ~Held(q, a, b)
      BY <2>1, DedupAssumption DEF Held, Open, NoGroup
    <2> QED BY <1>2, <1>4, <2>1, <2>2
  <1>8. CASE ~Tick /\ ~TitleQuery(q) /\ ~TechniqueQuery(q) /\ ~TickOver(q)
    <2>1. now' = now /\ pc'[q] = pc[q] /\ ticked'[q] = ticked[q]
      BY <1>1, <1>8, OtherSteps
    <2>2. Held(q, a, b) => Held(q, a, b)'
      BY <1>1, <1>3, <1>8, HeldKept
    <2> QED BY <1>2, <1>4, <2>1, <2>2
  <1> QED BY <1>5, <1>6, <1>7, <1>8

-----------------------------------------------------------------------------
(* The theorems. *)

\* The invariants hold of an empty table and are kept by every step.
LEMMA InitDInv == DedupInit => DInv /\ TimeInv
  <1> SUFFICES ASSUME DedupInit PROVE DInv /\ TimeInv
    OBVIOUS
  <1>1. Cardinality(Alerts) \in Nat /\ Cardinality(Raised) \in Nat
    BY RaisedCount
  <1>2. /\ now \in 0..MaxTime /\ created \in [Alerts -> 0..MaxTime]
        /\ ticked \in [Servers -> 0..MaxTime]
        /\ edits \in 0..MaxEdits /\ slips \in 0..MaxSlips
    BY DedupAssumption DEF DedupInit
  <1>3. rank \in [Alerts -> 0..Cardinality(Alerts)] /\ tied \subseteq Alerts
    BY <1>1 DEF DedupInit
  <1>4. /\ status \in [Alerts -> {"open", "investigating", "resolved"}]
        /\ key \in [Alerts -> {"null", "title", "technique"}]
        /\ into \in [Alerts -> Alerts \cup {None}]
        /\ pc \in [Servers -> {"idle", "title", "technique"}]
        /\ touched \subseteq Alerts /\ recent \in [Servers -> SUBSET Alerts]
    BY DEF DedupInit
  <1>5. \A r \in Servers : todo[r] = {} /\ cur[r] = NoGroup /\ pc[r] = "idle"
    BY DEF DedupInit
  <1>6. /\ todo \in [Servers -> SUBSET Group] /\ cur \in [Servers -> Group \cup {NoGroup}]
        /\ \A r \in Servers : \A g \in todo[r] \cup {cur[r]} : g.keep \notin g.dups
    BY <1>5 DEF DedupInit, NoGroup
  <1>7. DedupTypeOK
    BY <1>2, <1>3, <1>4, <1>6 DEF DedupTypeOK
  <1>8. IdleInv
    BY <1>5 DEF IdleInv
  <1>9. RankInv
    BY <1>1 DEF DedupInit, RankInv
  <1>10. \A r \in Servers : \A g \in Open(r) : g.dups = {}
    BY <1>5 DEF Open, NoGroup
  <1>11. GroupInv /\ DecisionInv
    BY <1>10 DEF GroupInv, DecisionInv
  <1>12. MergeInv
    BY DEF DedupInit, MergeInv
  <1>13. ClockInv
    BY DedupAssumption DEF DedupInit, ClockInv
  <1>14. TechniqueInv /\ TitleInv
    BY DEF DedupInit, TechniqueInv, TitleInv
  <1> QED BY <1>7, <1>8, <1>9, <1>11, <1>12, <1>13, <1>14 DEF DInv, TimeInv

LEMMA NextDInv == DInv /\ [DedupNext]_dedupVars => DInv'
  <1> SUFFICES ASSUME DInv, [DedupNext]_dedupVars PROVE DInv'
    OBVIOUS
  <1>1. CASE DedupNext
    <2>1. DedupTypeOK'
      BY <1>1, NextTypes DEF DInv
    <2> QED BY <1>1, <2>1, NextIdle, NextRankInv, NextGroupInv, NextMergeInv, NextDecisionInv
            DEF DInv
  <1>2. CASE UNCHANGED dedupVars
    BY <1>2 DEF dedupVars, table, pass, DInv, DedupTypeOK, IdleInv, RankInv, Raised, GroupInv,
                MergeInv, DecisionInv, Better, Twins, Open
  <1> QED BY <1>1, <1>2

LEMMA NextTimeInv ==
  ASSUME WithinLimit
  PROVE  DInv /\ DInv' /\ TimeInv /\ [DedupNext]_dedupVars => TimeInv'
  <1> SUFFICES ASSUME DInv, DInv', TimeInv, [DedupNext]_dedupVars PROVE TimeInv'
    OBVIOUS
  <1>1. CASE DedupNext
    BY <1>1, NextClock, NextTechnique, NextTitle DEF DInv, TimeInv
  <1>2. CASE UNCHANGED dedupVars
    <2>1. ClockInv'
      BY <1>2 DEF dedupVars, table, pass, TimeInv, ClockInv
    <2>2. TechniqueInv'
      BY <1>2 DEF dedupVars, table, pass, TimeInv, TechniqueInv, CrossEngine, Raised, Close,
                  BothOpen, Held, Open
    <2>3. TitleInv'
      BY <1>2 DEF dedupVars, table, pass, TimeInv, TitleInv, Repeated, Raised, Close,
                  BothOpen, Held, Open
    <2> QED BY <2>1, <2>2, <2>3 DEF TimeInv
  <1> QED BY <1>1, <1>2

\* Among merged alerts one of the highest severity that was raised first is merged into
\* an alert outside the set, or into a twin: no other chain of notes comes back to
\* where it began.
LEMMA MergeSurvivor == DInv => SurvivorRemains
  <1> SUFFICES ASSUME DInv PROVE SurvivorRemains
    OBVIOUS
  <1> DEFINE Merged == {a \in Alerts : into[a] # None}
  <1>0. /\ rank \in [Alerts -> 0..Cardinality(Alerts)] /\ into \in [Alerts -> Alerts \cup {None}]
        /\ Severity \in [Alerts -> 1..10]
    BY DedupAssumption DEF DInv, DedupTypeOK
  <1>1. \A a \in Merged : into[a] \in Alerts /\ Better(into[a], a)
    BY <1>0 DEF DInv, MergeInv
  <1>2. \A a \in Merged : Severity[into[a]] >= Severity[a]
    BY <1>0, <1>1 DEF Better, Twins
  <1>3. ASSUME NEW S \in SUBSET Merged, S # {}
        PROVE  (\E a \in S : into[a] \notin S) \/ (\E a, b \in S : a # b /\ Twins(a, b))
    <2>1. S \in SUBSET Alerts
      OBVIOUS
    <2> HIDE DEF Merged
    <2>2. PICK k \in S : \A b \in S :
            Severity[k] > Severity[b] \/ (Severity[k] = Severity[b] /\ rank[k] <= rank[b])
      BY <1>3, <2>1, BestExists DEF DInv
    <2>3. into[k] \in Alerts /\ Better(into[k], k)
      BY <1>1, <2>2
    <2>4. rank[k] \in Nat /\ rank[into[k]] \in Nat
      BY <1>0, <2>1, <2>2, <2>3, RaisedCount
    <2>5. Severity[k] \in Nat /\ Severity[into[k]] \in Nat
      BY <1>0, <2>1, <2>2, <2>3
    <2>6. into[k] \notin S \/ (into[k] # k /\ Twins(into[k], k))
      BY <2>2, <2>3, <2>4, <2>5 DEF Better
    <2> QED BY <2>2, <2>6
  <1> QED BY <1>2, <1>3 DEF SurvivorRemains

\* A tick less than an interval old began after both were there, and is over for them.
LEMMA TimeMerges == DInv /\ TimeInv => DuplicatesMerged
  <1> SUFFICES ASSUME DInv, TimeInv, slips = 0, NEW a \in Alerts, NEW b \in Alerts, BothOpen(a, b)
               PROVE  /\ ~(CrossEngine(a, b) /\ Passed(a, b, TechniqueWindow))
                      /\ ~(/\ Repeated(a, b) /\ Passed(a, b, TitleWindow)
                           /\ key[a] = "null" /\ key[b] = "null")
    BY DEF DuplicatesMerged
  <1>0. /\ now \in Nat /\ created[a] \in Nat /\ created[b] \in Nat
        /\ Interval \in Nat /\ TechniqueWindow \in Nat /\ TitleWindow \in Nat
    BY DedupAssumption DEF DInv, DedupTypeOK
  <1>1. PICK r \in Servers : ticked[r] \in Nat
    BY DedupAssumption DEF DInv, DedupTypeOK
  <1>2. now - ticked[r] <= Interval
    BY DEF TimeInv, ClockInv
  <1>3. ASSUME NEW w \in Nat, Passed(a, b, w)
        PROVE  Close(a, b, w) /\ ticked[r] > created[b] /\ ~(now <= created[a] + w)
    BY <1>0, <1>1, <1>2, <1>3 DEF Passed, Close
  <1>4. ~(CrossEngine(a, b) /\ Passed(a, b, TechniqueWindow))
    BY <1>0, <1>3 DEF TimeInv, TechniqueInv
  <1>5. ~(/\ Repeated(a, b) /\ Passed(a, b, TitleWindow)
          /\ key[a] = "null" /\ key[b] = "null")
    BY <1>0, <1>3 DEF TimeInv, TitleInv
  <1> QED BY <1>4, <1>5

\* The table and the ticks are well formed for any number of servers and alerts.
THEOREM DedupTypes == DedupSpec => []DedupTypeOK
  <1>1. DInv => DedupTypeOK
    BY DEF DInv
  <1> QED BY InitDInv, NextDInv, <1>1, PTL DEF DedupSpec

\* For any number of servers, alerts, restarts and failing statements, whoever follows
\* the notes of closed duplicates arrives at an alert that is no less severe and that
\* deduplication has not closed, unless the notes pass through alerts of one severity
\* and one created_at (the keep_id of both queries and the UPDATEs).
THEOREM SurvivorsRemain == DedupSpec => []SurvivorRemains
  BY InitDInv, NextDInv, MergeSurvivor, PTL DEF DedupSpec

\* For any number of servers a decision is overwritten only by a pass whose query came
\* before it (the UPDATE by id against the status = 'open' of the query).
THEOREM DecisionsHold == DedupSpec => DecisionHolds
  <1>1. ASSUME DInv, [DedupNext]_dedupVars
        PROVE  [\A a \in Alerts :
                  into[a] = None /\ into'[a] # None /\ status[a] # "open"
                  => \E r \in Servers : a \in cur[r].dups /\ a \in recent[r]]_dedupVars
    <2> SUFFICES ASSUME DedupNext, NEW a \in Alerts,
                        into[a] = None, into'[a] # None, status[a] # "open"
                 PROVE  \E r \in Servers : a \in cur[r].dups /\ a \in recent[r]
      BY <1>1
    <2>1. PICK r \in Servers : a \in cur[r].dups
      BY <1>1, NextRow DEF DInv
    <2>2. cur[r] \in Open(r)
      BY DEF Open
    <2>3. a \in recent[r]
      BY <1>1, <2>1, <2>2 DEF DInv, DecisionInv
    <2> QED BY <2>1, <2>3
  <1> QED BY InitDInv, NextDInv, <1>1, PTL DEF DedupSpec, DecisionHolds

\* For any number of servers and alerts, and for any windows: alerts of one technique
\* that arrive within its window less an interval, and repeats of a title that nothing
\* has marked, are merged before they leave the window, as long as nothing fails and
\* the LIMIT of the queries cuts no group off.
THEOREM DuplicatesAreMerged ==
  ASSUME WithinLimit
  PROVE  DedupSpec => []DuplicatesMerged
  <1>1. DInv /\ DInv' /\ TimeInv /\ [DedupNext]_dedupVars => TimeInv'
    BY NextTimeInv
  <1> QED BY InitDInv, NextDInv, <1>1, TimeMerges, PTL DEF DedupSpec

=============================================================================
