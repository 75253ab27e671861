-------------------------- MODULE RingBufferProofs --------------------------
(***************************************************************************)
(* Durability and ordering of the offline spool, for every value of the    *)
(* constants.                                                              *)
(***************************************************************************)
EXTENDS RingBuffer, TLAPS

(***************************************************************************)
(* The strengthening that makes Durable and WriteOrder inductive.          *)
(*   - Ids are handed out in order, so every file is older than nextId.    *)
(*   - While the process runs, a file above tail is one that a failed      *)
(*     listing overlooked, and the only other file that may lie at tail is *)
(*     one that a failed write left behind: the next write at tail         *)
(*     replaces nothing that is owed, and is newer than every file below   *)
(*     it.                                                                 *)
(*   - recover has passed the files below the ones it has yet to visit,    *)
(*     and the window it has built so far holds them.                      *)
(***************************************************************************)
IdsHandedOut == \A i \in DOMAIN disk : disk[i].id < nextId

BelowTail == Running => \A i \in DOMAIN disk : i <= tail \/ disk[i].id < since

\* What is owed was written since the last listing that failed.
SinceInv == since <= nextId /\ \A x \in owed : since <= x

Visited == DOMAIN disk \ todo

RecoverInv ==
  /\ pc # "recover" => todo = {}
  /\ pc = "recover" =>
       /\ \A i \in Visited : head <= i /\ i < tail
       /\ \A i \in Visited, j \in todo : i < j

\* WriteOrder, of any directory.
Ordered(d) == \A i, j \in DOMAIN d : i < j /\ d[j].id >= since => d[i].id < d[j].id

\* Durable, as a statement about files.
KeptInv ==
  /\ Running => \A x \in owed : \E i \in DOMAIN disk :
                   head <= i /\ i < tail /\ disk[i].whole /\ disk[i].id = x
  /\ \A x \in owed : \E i \in DOMAIN disk : disk[i].whole /\ disk[i].id = x

IInv ==
  /\ TypeOK
  /\ WriteOrder
  /\ IdsHandedOut
  /\ BelowTail
  /\ SinceInv
  /\ RecoverInv
  /\ KeptInv

-----------------------------------------------------------------------------
\* The files writeSegment can leave behind are segment records.
LEMMA SegmentTypes ==
  ASSUME NEW id \in Nat, NEW len \in Nat
  PROVE  /\ WholeSegment(id, len) \in Segment
         /\ WholeSegment(id, len).id = id
         /\ WholeSegment(id, len).whole = TRUE
         /\ TornSegment(id) \in Segment
         /\ TornSegment(id).id = id
         /\ TornSegment(id).whole = FALSE
  BY BufferAssumption DEF WholeSegment, TornSegment, Segment

\* KeptInv is Durable with the set of ids spelled out.
LEMMA KeptIsDurable == TypeOK /\ KeptInv => Durable
  BY DEF TypeOK, KeptInv, Durable, Readable, Window, Running

-----------------------------------------------------------------------------
LEMMA InitIInv == Init => IInv
  <1> SUFFICES ASSUME Init PROVE IInv
    OBVIOUS
  <1>1. DOMAIN disk = {}
    BY DEF Init
  <1> QED
    BY <1>1 DEF Init, IInv, TypeOK, WriteOrder, IdsHandedOut, BelowTail, SinceInv, RecoverInv,
              Visited, KeptInv, PCs

-----------------------------------------------------------------------------
\* Removing the file at head, by eviction or by Ack, keeps the invariant: the
\* owed batches in the other files of the window stay there, because the batch
\* that is no longer owed is the only one that could lose its file.
LEMMA RemoveHeadIInv ==
  ASSUME IInv, RemoveHead, head < tail,
         pc \in {"write", "ack"}, pc' = pc, arg' \in Nat,
         UNCHANGED <<tail, peakFiles, todo, nextId, since>>
  PROVE  IInv'
  <1>1. /\ head' = head + 1 /\ used' \in Int /\ faults' \in Nat
        /\ owed' \subseteq owed
        /\ head \in DOMAIN disk => disk[head].id \notin owed'
    BY BufferAssumption DEF RemoveHead, IInv, TypeOK, Segment
  <1>2. disk' = disk \/ disk' = Without(disk, {head})
    BY DEF RemoveHead
  <1>3. /\ DOMAIN disk' \subseteq DOMAIN disk
        /\ DOMAIN disk \ {head} \subseteq DOMAIN disk'
        /\ \A i \in DOMAIN disk' : disk'[i] = disk[i]
    BY <1>2 DEF Without
  <1>4. disk' \in [DOMAIN disk' -> Segment]
    BY <1>2, <1>3 DEF IInv, TypeOK, Without
  <1>5. TypeOK'
    BY <1>1, <1>3, <1>4 DEF IInv, TypeOK, RecoverInv
  <1>6. (WriteOrder /\ IdsHandedOut /\ BelowTail /\ SinceInv /\ RecoverInv)'
    BY <1>1, <1>3 DEF IInv, TypeOK, WriteOrder, IdsHandedOut, BelowTail, SinceInv, RecoverInv,
                      Running
  <1>7. KeptInv'
    <2> SUFFICES ASSUME NEW x \in owed'
                 PROVE  \E i \in DOMAIN disk' :
                          head' <= i /\ i < tail' /\ disk'[i].whole /\ disk'[i].id = x
      BY <1>5 DEF KeptInv, Running
    <2>1. PICK i \in DOMAIN disk :
            head <= i /\ i < tail /\ disk[i].whole /\ disk[i].id = x
      BY <1>1 DEF IInv, KeptInv, Running
    <2>2. i # head
      BY <1>1, <2>1
    <2> QED
      BY <1>1, <1>3, <2>1, <2>2 DEF IInv, TypeOK
  <1> QED
    BY <1>5, <1>6, <1>7 DEF IInv

\* A file put at tail, torn or whole, is newer than every file below it and
\* takes the place of no owed batch.
LEMMA PutAtTail ==
  ASSUME IInv, pc = "write",
         NEW seg \in Segment, seg.id = nextId
  PROVE  LET d == Put(disk, tail, seg) IN
         /\ DOMAIN d \subseteq Nat /\ d \in [DOMAIN d -> Segment]
         /\ Ordered(d)
         /\ \A i \in DOMAIN d : d[i].id < nextId + 1
         /\ \A i \in DOMAIN d : i <= tail \/ d[i].id < since
         /\ tail \in DOMAIN d /\ d[tail] = seg
         /\ \A x \in owed : \E i \in DOMAIN d :
              head <= i /\ i < tail /\ d[i].whole /\ d[i].id = x
  <1> DEFINE d == Put(disk, tail, seg)
  <1> HIDE DEF d
  <1>1. /\ DOMAIN d = DOMAIN disk \cup {tail}
        /\ d[tail] = seg
        /\ \A i \in DOMAIN disk : i # tail => d[i] = disk[i]
    BY DEF d, Put
  <1>2. d = [i \in DOMAIN d |-> d[i]]
    BY DEF d, Put
  <1>3. /\ \A i \in DOMAIN disk : /\ i <= tail \/ disk[i].id < since
                                  /\ disk[i].id < nextId /\ disk[i] \in Segment
        /\ since \in Nat /\ since <= nextId /\ tail \in Nat /\ head \in Nat /\ nextId \in Nat /\ DOMAIN disk \subseteq Nat
        /\ \A i \in DOMAIN disk : disk[i].id \in Nat
    BY DEF IInv, TypeOK, BelowTail, SinceInv, IdsHandedOut, Running, Segment
  <1>4. DOMAIN d \subseteq Nat /\ d \in [DOMAIN d -> Segment]
    <2>1. \A i \in DOMAIN d : d[i] \in Segment
      BY <1>1, <1>3
    <2> QED
      BY <1>1, <1>2, <1>3, <2>1
  <1>5. Ordered(d)
    BY <1>1, <1>3 DEF IInv, WriteOrder, Ordered
  <1>6. \A i \in DOMAIN d : d[i].id < nextId + 1
    BY <1>1, <1>3
  <1>7. \A x \in owed : \E i \in DOMAIN d :
          head <= i /\ i < tail /\ d[i].whole /\ d[i].id = x
    <2> SUFFICES ASSUME NEW x \in owed
                 PROVE  \E i \in DOMAIN d :
                          head <= i /\ i < tail /\ d[i].whole /\ d[i].id = x
      OBVIOUS
    <2>1. PICK i \in DOMAIN disk :
            head <= i /\ i < tail /\ disk[i].whole /\ disk[i].id = x
      BY DEF IInv, KeptInv, Running
    <2> QED
      BY <1>1, <1>3, <2>1
  <1> QED
    BY <1>1, <1>3, <1>4, <1>5, <1>6, <1>7 DEF d

-----------------------------------------------------------------------------
LEMMA StepIInv == IInv /\ [Next]_vars => IInv'
  <1> SUFFICES ASSUME IInv, [Next]_vars PROVE IInv'
    OBVIOUS
  <1> USE BufferAssumption
  <1>1. ASSUME NEW len \in Lens, Write(len) PROVE IInv'
    BY <1>1 DEF Write, history, IInv, TypeOK, WriteOrder, IdsHandedOut, BelowTail, SinceInv,
                RecoverInv, Visited, KeptInv, Running, PCs
  <1>2. CASE DropOldest
    <2>1. head < tail /\ RemoveHead /\ pc = "write" /\ pc' = pc /\ arg' \in Nat
          /\ UNCHANGED <<tail, peakFiles, todo, nextId, since>>
      BY <1>2 DEF DropOldest, NeedsRoom, IInv, TypeOK
    <2> QED
      BY <2>1, RemoveHeadIInv
  <1>3. CASE WriteSegment
    <2> DEFINE seg == WholeSegment(nextId, arg)
    <2> HIDE DEF seg
    <2>1. seg \in Segment /\ seg.id = nextId /\ seg.whole
      BY SegmentTypes DEF seg, IInv, TypeOK
    <2>2. /\ pc = "write" /\ disk' = Put(disk, tail, seg)
          /\ tail' = tail + 1 /\ head' = head /\ nextId' = nextId + 1
          /\ owed' = owed \cup {nextId} /\ pc' = "idle" /\ arg' = 0 /\ todo' = todo
          /\ faults' = faults /\ used' \in Int /\ peakFiles' \in Nat /\ since' = since
      BY <1>3 DEF WriteSegment, seg, IInv, TypeOK, Needed
    <2>3. /\ DOMAIN disk' \subseteq Nat /\ disk' \in [DOMAIN disk' -> Segment]
          /\ Ordered(disk')
          /\ \A i \in DOMAIN disk' : disk'[i].id < nextId + 1
          /\ \A i \in DOMAIN disk' : i <= tail \/ disk'[i].id < since
          /\ tail \in DOMAIN disk' /\ disk'[tail] = seg
          /\ \A x \in owed : \E i \in DOMAIN disk' :
               head <= i /\ i < tail /\ disk'[i].whole /\ disk'[i].id = x
      BY <2>1, <2>2, PutAtTail
    <2>4. TypeOK'
      BY <2>2, <2>3 DEF IInv, TypeOK, PCs, RecoverInv
    <2>5. (WriteOrder /\ IdsHandedOut /\ BelowTail /\ SinceInv /\ RecoverInv)'
      BY <2>2, <2>3, <2>4 DEF IInv, TypeOK, WriteOrder, IdsHandedOut, BelowTail,
                              SinceInv, Ordered, RecoverInv, Running
    <2>6. \A x \in owed' : \E i \in DOMAIN disk' :
            head' <= i /\ i < tail' /\ disk'[i].whole /\ disk'[i].id = x
      BY <2>1, <2>2, <2>3 DEF IInv, TypeOK
    <2>7. KeptInv'
      BY <2>6 DEF KeptInv
    <2> QED
      BY <2>4, <2>5, <2>7 DEF IInv
  <1>4. CASE WriteFails
    <2> DEFINE seg == TornSegment(nextId)
    <2> HIDE DEF seg
    <2>1. seg \in Segment /\ seg.id = nextId
      BY SegmentTypes DEF seg, IInv, TypeOK
    <2>2. /\ pc = "write" /\ (disk' = disk \/ disk' = Put(disk, tail, seg))
          /\ nextId' = nextId + 1 /\ pc' = "idle" /\ arg' = 0 /\ faults' \in Nat
          /\ UNCHANGED <<head, tail, used, peakFiles, todo, owed, since>>
      BY <1>4 DEF WriteFails, seg, IInv, TypeOK
    <2>3. /\ DOMAIN disk' \subseteq Nat /\ disk' \in [DOMAIN disk' -> Segment]
          /\ Ordered(disk')
          /\ \A i \in DOMAIN disk' : disk'[i].id < nextId + 1
          /\ \A i \in DOMAIN disk' : i <= tail \/ disk'[i].id < since
          /\ \A x \in owed : \E i \in DOMAIN disk' :
               head <= i /\ i < tail /\ disk'[i].whole /\ disk'[i].id = x
      <3>1. CASE disk' = disk
        BY <2>2, <3>1 DEF IInv, TypeOK, WriteOrder, IdsHandedOut, BelowTail, KeptInv,
                          Ordered, Running, Segment
      <3>2. CASE disk' = Put(disk, tail, seg)
        BY <2>1, <2>2, <3>2, PutAtTail
      <3> QED
        BY <2>2, <3>1, <3>2
    <2>4. TypeOK'
      BY <2>2, <2>3 DEF IInv, TypeOK, PCs, RecoverInv
    <2>5. (WriteOrder /\ IdsHandedOut /\ BelowTail /\ SinceInv /\ RecoverInv)'
      BY <2>2, <2>3, <2>4 DEF IInv, TypeOK, WriteOrder, IdsHandedOut, BelowTail,
                              SinceInv, Ordered, RecoverInv, Running
    <2>6. KeptInv'
      BY <2>2, <2>3 DEF KeptInv
    <2> QED
      BY <2>4, <2>5, <2>6 DEF IInv
  <1>5. ASSUME NEW n \in AckSizes, Ack(n) PROVE IInv'
    BY <1>5 DEF Ack, history, IInv, TypeOK, WriteOrder, IdsHandedOut, BelowTail, SinceInv,
                RecoverInv, Visited, KeptInv, Running, PCs
  <1>6. CASE AckOne
    <2>1. head < tail /\ RemoveHead /\ pc = "ack" /\ pc' = pc /\ arg' \in Nat
          /\ UNCHANGED <<tail, peakFiles, todo, nextId, since>>
      BY <1>6 DEF AckOne, IInv, TypeOK
    <2> QED
      BY <2>1, RemoveHeadIInv
  <1>7. CASE AckEnd
    <2>1. CASE Drained
      <3>1. \A x \in owed : FALSE
        BY <1>7, <2>1 DEF AckEnd, Drained, IInv, TypeOK, KeptInv, Running
      <3>2. disk' = Without(disk, DOMAIN disk) /\ DOMAIN disk' = {}
        BY <1>7, <2>1 DEF AckEnd, Without
      <3>3. disk' \in [DOMAIN disk' -> Segment]
        BY <3>2 DEF Without
      <3>4. /\ head' = 0 /\ tail' = 0 /\ used' = 0 /\ peakFiles' = 0
            /\ pc' = "idle" /\ arg' = 0 /\ todo' = todo /\ nextId' = nextId
            /\ owed' = owed /\ since' = since /\ faults' = faults /\ todo = {}
        BY <1>7, <2>1 DEF AckEnd, history, IInv, RecoverInv
      <3> QED
        BY <3>1, <3>2, <3>3, <3>4 DEF IInv, TypeOK, WriteOrder, IdsHandedOut, BelowTail,
                                      SinceInv, RecoverInv, KeptInv, PCs
    <2>2. CASE ~Drained
      BY <1>7, <2>2 DEF AckEnd, history, IInv, TypeOK, WriteOrder, IdsHandedOut,
                        BelowTail, SinceInv, RecoverInv, Visited, KeptInv, Running, PCs
    <2> QED
      BY <2>1, <2>2
  <1>8. CASE AckEndRemoveAllFails
    <2>1. \A x \in owed : FALSE
      BY <1>8 DEF AckEndRemoveAllFails, Drained, IInv, TypeOK, KeptInv, Running
    <2>2. PICK S \in SUBSET DOMAIN disk : disk' = Without(disk, S)
      BY <1>8 DEF AckEndRemoveAllFails
    <2>3. /\ DOMAIN disk' \subseteq DOMAIN disk
          /\ \A i \in DOMAIN disk' : disk'[i] = disk[i]
      BY <2>2 DEF Without
    <2>4. disk' \in [DOMAIN disk' -> Segment]
      BY <2>2, <2>3 DEF IInv, TypeOK, Without
    <2>5. /\ pc = "ack" /\ pc' = "idle" /\ arg' = 0 /\ faults' \in Nat
          /\ UNCHANGED <<head, tail, used, peakFiles, todo, nextId, owed, since>>
      BY <1>8 DEF AckEndRemoveAllFails, history, IInv, TypeOK
    <2> QED
      BY <2>1, <2>3, <2>4, <2>5 DEF IInv, TypeOK, WriteOrder, IdsHandedOut, BelowTail,
                                    SinceInv, RecoverInv, KeptInv, Running, PCs
  <1>9. CASE Crash
    <2>1. /\ pc' = "down" /\ head' = 0 /\ tail' = 0 /\ used' = 0 /\ peakFiles' = 0
          /\ arg' = 0 /\ todo' = {} /\ owed' = owed /\ since' = since /\ faults' \in Nat
          /\ nextId' \in Nat /\ nextId <= nextId'
          /\ pc = "write" => nextId' = nextId + 1
      BY <1>9 DEF Crash, IInv, TypeOK
    <2>2. /\ DOMAIN disk' \subseteq Nat /\ disk' \in [DOMAIN disk' -> Segment]
          /\ Ordered(disk')
          /\ \A i \in DOMAIN disk' : disk'[i].id < nextId'
          /\ \A x \in owed : \E i \in DOMAIN disk' : disk'[i].whole /\ disk'[i].id = x
      <3>1. CASE disk' = disk
        <4>1. \A i \in DOMAIN disk : disk[i].id \in Nat /\ disk[i].id < nextId
          BY DEF IInv, TypeOK, Segment, IdsHandedOut
        <4>2. nextId \in Nat
          BY DEF IInv, TypeOK
        <4>3. \A i \in DOMAIN disk' : disk'[i].id < nextId'
          BY <2>1, <3>1, <4>1, <4>2
        <4> QED
          BY <3>1, <4>3 DEF IInv, TypeOK, WriteOrder, Ordered, KeptInv
      <3>2. ASSUME NEW seg \in {TornSegment(nextId), WholeSegment(nextId, arg)},
                   pc = "write", disk' = Put(disk, tail, seg)
            PROVE  /\ DOMAIN disk' \subseteq Nat /\ disk' \in [DOMAIN disk' -> Segment]
                   /\ Ordered(disk')
                   /\ \A i \in DOMAIN disk' : disk'[i].id < nextId'
                   /\ \A x \in owed : \E i \in DOMAIN disk' :
                        disk'[i].whole /\ disk'[i].id = x
        <4>1. seg \in Segment /\ seg.id = nextId
          <5>1. nextId \in Nat /\ arg \in Nat
            BY DEF IInv, TypeOK
          <5>2. CASE seg = TornSegment(nextId)
            BY <5>1, <5>2, SegmentTypes
          <5>3. CASE seg = WholeSegment(nextId, arg)
            BY <5>1, <5>3, SegmentTypes
          <5> QED
            BY <5>2, <5>3, <3>2
        <4> QED
          BY <2>1, <3>2, <4>1, PutAtTail
      <3>3. ASSUME NEW S \in SUBSET DOMAIN disk, disk' = Without(disk, S),
                   pc = "ack", Drained
            PROVE  /\ DOMAIN disk' \subseteq Nat /\ disk' \in [DOMAIN disk' -> Segment]
                   /\ Ordered(disk')
                   /\ \A i \in DOMAIN disk' : disk'[i].id < nextId'
                   /\ \A x \in owed : \E i \in DOMAIN disk' :
                        disk'[i].whole /\ disk'[i].id = x
        <4>1. \A x \in owed : FALSE
          BY <3>3 DEF Drained, IInv, TypeOK, KeptInv, Running
        <4>2. /\ DOMAIN disk' \subseteq DOMAIN disk
              /\ \A i \in DOMAIN disk' : disk'[i] = disk[i]
          BY <3>3 DEF Without
        <4>3. disk' \in [DOMAIN disk' -> Segment]
          BY <3>3, <4>2 DEF IInv, TypeOK, Without
        <4>4. \A i \in DOMAIN disk : disk[i].id \in Nat /\ disk[i].id < nextId
          BY DEF IInv, TypeOK, Segment, IdsHandedOut
        <4>5. nextId \in Nat
          BY DEF IInv, TypeOK
        <4> QED
          BY <2>1, <4>1, <4>2, <4>3, <4>4, <4>5 DEF IInv, TypeOK, WriteOrder, Ordered
      <3> QED
        BY <1>9, <3>1, <3>2, <3>3 DEF Crash
    <2> QED
      BY <2>1, <2>2 DEF IInv, TypeOK, WriteOrder, Ordered, IdsHandedOut, BelowTail, SinceInv, RecoverInv,
                        KeptInv, Running, PCs
  <1>10. CASE RecoverBegin
    BY <1>10 DEF RecoverBegin, history, IInv, TypeOK, WriteOrder, IdsHandedOut,
                 BelowTail, SinceInv, RecoverInv, Visited, KeptInv, Running, PCs
  <1>14. CASE RecoverFails
    BY <1>14 DEF RecoverFails, IInv, TypeOK, WriteOrder, IdsHandedOut, BelowTail, SinceInv,
                 RecoverInv, KeptInv, Running, PCs, Segment
  <1>11. CASE RecoverEntry
    <2>1. PICK i \in todo :
            /\ \A j \in todo : i <= j
            /\ head' = IF todo = DOMAIN disk THEN i ELSE head
            /\ tail' = i + 1
            /\ used' = used + disk[i].size + 8
            /\ todo' = todo \ {i}
      BY <1>11 DEF RecoverEntry
    <2>2. pc = "recover" /\ UNCHANGED <<disk, peakFiles, pc, arg, nextId, owed, since, faults>>
      BY <1>11 DEF RecoverEntry, history
    <2>3. i \in DOMAIN disk /\ DOMAIN disk \subseteq Nat /\ disk[i].size \in Nat
      BY <2>1 DEF IInv, TypeOK, Segment
    <2>4. head' \in Nat /\ tail' \in Nat /\ head' <= i
      BY <2>1, <2>2, <2>3 DEF IInv, TypeOK, RecoverInv, Visited
    <2>5. \A k \in DOMAIN disk' \ todo' : head' <= k /\ k < tail'
      BY <2>1, <2>2, <2>3, <2>4 DEF IInv, TypeOK, RecoverInv, Visited
    <2>6. \A k \in DOMAIN disk' \ todo', j \in todo' : k < j
      BY <2>1, <2>2, <2>3 DEF IInv, TypeOK, RecoverInv, Visited
    <2>7. TypeOK'
      BY <2>1, <2>2, <2>3, <2>4 DEF IInv, TypeOK
    <2> QED
      BY <2>2, <2>5, <2>6, <2>7 DEF IInv, WriteOrder, IdsHandedOut, BelowTail, SinceInv, RecoverInv,
                                    Visited, KeptInv, Running
  <1>12. CASE RecoverEnd
    <2>1. Visited = DOMAIN disk
      BY <1>12 DEF RecoverEnd, Visited
    <2> QED
      BY <1>12, <2>1 DEF RecoverEnd, history, IInv, TypeOK, WriteOrder, IdsHandedOut,
                         BelowTail, SinceInv, RecoverInv, KeptInv, Running, PCs
  <1>13. CASE UNCHANGED vars
    BY <1>13 DEF vars, IInv, TypeOK, WriteOrder, IdsHandedOut, BelowTail, SinceInv, RecoverInv,
                 Visited, KeptInv, Running
  <1> QED
    BY <1>1, <1>2, <1>3, <1>4, <1>5, <1>6, <1>7, <1>8, <1>9, <1>10, <1>11, <1>12, <1>13,
       <1>14 DEF Next

-----------------------------------------------------------------------------
\* The inductive invariant holds in every reachable state.
LEMMA SpoolInvariant == Spec => []IInv
  BY InitIInv, StepIInv, PTL DEF Spec

\* The spool's counters and files keep their types, head <= tail included.
THEOREM TypeCorrect == Spec => []TypeOK
  <1>1. IInv => TypeOK
    BY DEF IInv
  <1> QED
    BY <1>1, SpoolInvariant, PTL

\* A batch that Write accepted is in a readable file of the drained window until
\* it is acked or dropped as the oldest, through failed I/O and restarts.
THEOREM SpoolDurable == Spec => []Durable
  <1>1. IInv => Durable
    BY KeptIsDurable DEF IInv
  <1> QED
    BY <1>1, SpoolInvariant, PTL

\* The files of the spool are in the order of the Write calls.
THEOREM SpoolOrdered == Spec => []WriteOrder
  <1>1. IInv => WriteOrder
    BY DEF IInv
  <1> QED
    BY <1>1, SpoolInvariant, PTL

\* Write leaves at most maxFiles segments in the window.
THEOREM SpoolCountCapped == Spec => CountCapped
  <1>1. IInv /\ [Next]_vars
          => [tail' = tail + 1 /\ pc = "write" => tail' - head' <= MaxFiles]_vars
    <2> SUFFICES ASSUME IInv, [Next]_vars, tail' = tail + 1, pc = "write"
                 PROVE  tail' - head' <= MaxFiles
      OBVIOUS
    <2>1. WriteSegment
      BY DEF IInv, TypeOK, Next, Write, DropOldest, WriteFails, Ack, AckOne, AckEnd,
             AckEndRemoveAllFails, Crash, RecoverBegin, RecoverFails, RecoverEntry, RecoverEnd, vars
    <2> QED
      BY <2>1, BufferAssumption DEF WriteSegment, NeedsRoom, IInv, TypeOK
  <1> QED
    BY <1>1, SpoolInvariant, PTL DEF Spec, CountCapped

-----------------------------------------------------------------------------
\* Until the first I/O error or process death every file of the window is there and
\* whole; eviction, acks and shrinking do not make a hole.
CleanInv ==
  faults = 0 => Running /\ \A i \in Window : i \in DOMAIN disk /\ disk[i].whole

LEMMA CleanStep == IInv /\ CleanInv /\ [Next]_vars => CleanInv'
  <1> SUFFICES ASSUME IInv, CleanInv, [Next]_vars, faults' = 0
               PROVE  pc' \in {"idle", "write", "ack"}
                      /\ \A i \in head'..(tail' - 1) : i \in DOMAIN disk' /\ disk'[i].whole
    BY DEF CleanInv, Running, Window
  <1>1. faults = 0 /\ faults' # faults + 1
    BY DEF IInv, TypeOK, Next, Write, DropOldest, RemoveHead, WriteSegment, WriteFails, Ack, AckOne,
           AckEnd, AckEndRemoveAllFails, Crash, RecoverBegin, RecoverFails, RecoverEntry, RecoverEnd, vars
  <1>2. /\ pc \in {"idle", "write", "ack"}
        /\ \A i \in head..(tail - 1) : i \in DOMAIN disk /\ disk[i].whole
        /\ head \in Nat /\ tail \in Nat /\ head <= tail
    BY <1>1 DEF CleanInv, Running, Window, IInv, TypeOK
  <1>3. CASE DropOldest \/ AckOne
    <2>1. /\ head' = head + 1 /\ tail' = tail /\ pc' = pc /\ disk' = Without(disk, {head})
      BY <1>1, <1>3 DEF DropOldest, AckOne, RemoveHead
    <2> QED
      BY <1>2, <2>1 DEF Without
  <1>4. CASE WriteSegment
    <2>1. /\ disk' = Put(disk, tail, WholeSegment(nextId, arg))
          /\ head' = head /\ tail' = tail + 1 /\ pc' = "idle"
      BY <1>4 DEF WriteSegment
    <2>2. WholeSegment(nextId, arg).whole
      BY SegmentTypes DEF IInv, TypeOK
    <2> QED
      BY <1>2, <2>1, <2>2 DEF Put
  <1>5. CASE AckEnd
    <2>1. CASE Drained
      BY <1>5, <2>1 DEF AckEnd
    <2>2. CASE ~Drained
      BY <1>2, <1>5, <2>2 DEF AckEnd
    <2> QED
      BY <2>1, <2>2
  <1>6. CASE \/ \E len \in Lens : Write(len)
             \/ \E n \in AckSizes : Ack(n)
             \/ UNCHANGED vars
    BY <1>2, <1>6 DEF Write, Ack, vars
  <1>7. CASE WriteFails \/ AckEndRemoveAllFails \/ Crash \/ RecoverFails
    BY <1>1, <1>7 DEF WriteFails, AckEndRemoveAllFails, Crash, RecoverFails
  <1>8. CASE RecoverBegin \/ RecoverEntry \/ RecoverEnd
    BY <1>2, <1>8 DEF RecoverBegin, RecoverEntry, RecoverEnd
  <1> QED
    BY <1>3, <1>4, <1>5, <1>6, <1>7, <1>8 DEF Next

\* As long as no I/O fails and no process dies, ReadBatch(n) returns the n oldest
\* segments, or all of them, for every cap and every mix of lengths.
THEOREM SpoolReadable == Spec => []FaultFreeReadable
  <1>1. Init => CleanInv
    BY DEF Init, CleanInv, Running, Window
  <1>2. IInv /\ CleanInv => FaultFreeReadable
    <2> SUFFICES ASSUME IInv, CleanInv, faults = 0, NEW n \in AckSizes
                 PROVE  ReadBatch(n) = {i \in Window : i < head + n}
      BY DEF FaultFreeReadable
    <2>1. /\ \A i \in head..(tail - 1) : i \in DOMAIN disk /\ disk[i].whole
          /\ head \in Nat /\ tail \in Nat
      BY DEF CleanInv, Window, IInv, TypeOK
    <2>2. \A i \in head..(tail - 1), j \in Int : j \in head..i => j \in head..(tail - 1)
      BY <2>1
    <2>3. \A i \in head..(tail - 1) : \A j \in head..i : j \in DOMAIN disk /\ disk[j].whole
      BY <2>1, <2>2
    <2> QED
      BY <2>3 DEF ReadBatch, Window
  <1> QED
    BY <1>1, <1>2, CleanStep, SpoolInvariant, PTL DEF Spec

-----------------------------------------------------------------------------
\* The file at head holds the oldest batch that is owed, or none that is owed:
\* removing it is a step of the abstract spool, or no step.
LEMMA RemoveHeadIsOldest ==
  ASSUME IInv, RemoveHead, pc \in {"write", "ack"}
  PROVE  \E R \in Queue!Oldest(owed) : owed' = owed \ R
  <1> DEFINE R == IF head \in DOMAIN disk THEN owed \cap {disk[head].id} ELSE {}
  <1>1. owed' = owed \ R
    BY DEF RemoveHead
  <1>2. ASSUME NEW r \in R, NEW x \in owed \ R
        PROVE  r < x
    <2>1. head \in DOMAIN disk /\ r = disk[head].id /\ x # r
      BY <1>2
    <2>2. PICK i \in DOMAIN disk : head <= i /\ disk[i].id = x
      BY <1>2 DEF IInv, KeptInv, Running
    <2>3. head < i
      BY <2>1, <2>2 DEF IInv, TypeOK
    <2> QED
      BY <1>2, <2>1, <2>2, <2>3 DEF IInv, WriteOrder, SinceInv
  <1>3. R \in Queue!Oldest(owed)
    BY <1>2 DEF Queue!Oldest
  <1> QED
    BY <1>1, <1>3

\* Every step of RingBuffer is a step of Spool, or leaves its state alone.
LEMMA StepImplements ==
  ASSUME IInv, [Next]_vars
  PROVE  [Queue!Next]_<<owed, nextId>>
  <1> USE DEF Queue!Next, Queue!Accept, Queue!Refuse, Queue!Remove, Queue!Forget
  <1>0. {} \in Queue!Oldest(owed)
    BY DEF Queue!Oldest
  <1>1. CASE DropOldest
    BY <1>1, RemoveHeadIsOldest DEF DropOldest
  <1>2. CASE AckOne
    BY <1>2, RemoveHeadIsOldest DEF AckOne
  <1>3. CASE WriteSegment
    <2>1. owed' = (owed \ {}) \cup {nextId} /\ nextId' = nextId + 1
      BY <1>3 DEF WriteSegment
    <2> QED
      BY <1>0, <2>1
  <1>4. CASE WriteFails \/ Crash
    <2>1. owed' = owed \ {} /\ nextId' \in {nextId, nextId + 1}
      BY <1>4 DEF WriteFails, Crash
    <2> QED
      BY <1>0, <2>1
  <1>5. CASE \/ \E len \in Lens : Write(len)
             \/ \E n \in AckSizes : Ack(n)
             \/ AckEnd \/ AckEndRemoveAllFails
             \/ RecoverBegin \/ RecoverEntry \/ RecoverEnd \/ UNCHANGED vars
    BY <1>5 DEF Write, Ack, AckEnd, AckEndRemoveAllFails, RecoverBegin, RecoverEntry,
                RecoverEnd, vars, history
  <1>6. CASE RecoverFails
    BY <1>6 DEF RecoverFails
  <1> QED
    BY <1>1, <1>2, <1>3, <1>4, <1>5, <1>6 DEF Next

\* RingBuffer implements Spool for every size of the caps, every mix of batch
\* lengths and every sequence of I/O errors and restarts: batches leave the spool
\* oldest first.
THEOREM SpoolImplemented == Spec => ImplementsSpool
  <1>1. Init => Queue!Init
    BY DEF Init, Queue!Init
  <1> QED
    BY <1>1, StepImplements, SpoolInvariant, PTL DEF Spec, ImplementsSpool, Queue!Spec

=============================================================================
