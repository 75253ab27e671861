------------------------ MODULE AgentTransportProofs ------------------------
(***************************************************************************)
(* For any number of senders, batches, outages and late goroutines of      *)
(* earlier streams: the agent is never wedged, what is lost is lost to the *)
(* spool's capacity, drains replay in order, and a result travels once and *)
(* is lost only with its batch.                                            *)
(***************************************************************************)
EXTENDS AgentTransport, FiniteSetTheorems, TLAPS

(* Control.  From Connect to closeConn, whoever has cleared `connected' has
   cancelled the scope or is about to; before that nobody looks. *)

Signalled ==
  \/ cancelled
  \/ captured
  \/ \E s \in Senders : sender[s].pc = "cancel" /\ sender[s].st = "current"

WedgeInv ==
  rpc \in {"open", "drain", "replay", "ack", "wait"} /\ ~connected => Signalled

CopyInv == rpc \in {"replay", "ack"} => snap # <<>>

(* Batches.  A sender holds a batch of its own, one that has been nowhere. *)

Placed == sent \cup Range(written) \cup refused

HeldInv ==
  /\ \A s \in Senders : sender[s].pc = "idle" <=> sender[s].batch = 0
  /\ \A s \in Senders : sender[s].batch \notin Placed
  /\ \A s, u \in Senders : sender[s].batch # 0 /\ sender[s].batch = sender[u].batch => s = u

(* The spool is always the end of what was written, as nothing enters or leaves it
   elsewhere; drainBuffer's copy is a stretch of it that begins where the replayed
   batches end, and at or before the place where the spool begins now. *)

Left == Len(written) - Len(spool)

\* The batches that drainBuffer has sent and acknowledged.
Drained == IF rpc = "ack" THEN Len(replayed) - 1 ELSE Len(replayed)

WrittenInv == \A k, l \in DOMAIN written : written[k] = written[l] => k = l

EndOf(q, w) ==
  /\ Len(q) <= Len(w)
  /\ \A i \in 1..Len(q) : q[i] = w[Len(w) - Len(q) + i]

SpoolInv == EndOf(spool, written)

CopyAt(p) ==
  /\ p + Len(snap) <= Len(written)
  /\ \A i \in 1..Len(snap) : snap[i] = written[p + i]
  /\ \A i \in 1..Drained : \E k \in 1..p : written[k] = replayed[i]
  /\ rpc = "ack" => replayed # <<>> /\ replayed[Len(replayed)] = written[p + 1]

DrainInv ==
  /\ \E p \in 0..Left : CopyAt(p)
  /\ Range(replayed) \subseteq sent
  /\ Left <= evictions + Drained

(* Results.  Those that a batch carries wait nowhere else; a batch that is refused
   gives them back. *)

Carriers == InFlight \cup sent \cup Range(written)

ResultInv ==
  /\ pendingAcks \subseteq 1..results
  /\ \A b \in Carriers : carried[b] \subseteq 1..results /\ carried[b] \cap pendingAcks = {}
  /\ \A b, d \in Carriers : b # d => carried[b] \cap carried[d] = {}

QueueInv == HeldInv /\ WrittenInv /\ SpoolInv /\ DrainInv /\ ReplayInOrder

IInv == TypeOK /\ CopyInv /\ WedgeInv /\ QueueInv /\ ResultInv /\ ResultsKept

-----------------------------------------------------------------------------
(* Sequences. *)

LEMMA AppendFacts ==
  ASSUME NEW S, NEW s \in Seq(S), NEW x \in S
  PROVE  /\ Append(s, x) \in Seq(S) /\ Len(Append(s, x)) = Len(s) + 1 /\ Len(s) \in Nat
         /\ DOMAIN s = 1..Len(s) /\ DOMAIN Append(s, x) = 1..(Len(s) + 1)
         /\ \A i \in 1..Len(s) : Append(s, x)[i] = s[i]
         /\ Append(s, x)[Len(s) + 1] = x
  OBVIOUS

LEMMA TailFacts ==
  ASSUME NEW S, NEW s \in Seq(S), s # <<>>
  PROVE  /\ Tail(s) \in Seq(S) /\ Len(Tail(s)) = Len(s) - 1 /\ Len(s) \in Nat \ {0}
         /\ \A i \in 1..(Len(s) - 1) : Tail(s)[i] = s[i + 1]
         /\ Head(s) = s[1] /\ Head(s) \in S
  OBVIOUS

LEMMA RangeAppend ==
  ASSUME NEW S, NEW s \in Seq(S), NEW x \in S
  PROVE  Range(Append(s, x)) = Range(s) \cup {x}
<1>1. Range(Append(s, x)) \subseteq Range(s) \cup {x}
  BY AppendFacts DEF Range
<1>2. Range(s) \cup {x} \subseteq Range(Append(s, x))
  BY AppendFacts DEF Range
<1> QED
  BY <1>1, <1>2

LEMMA MakeRoomFacts ==
  ASSUME NEW S, NEW q \in Seq(S), Len(q) <= SpoolCap
  PROVE  /\ MakeRoom(q) \in Seq(S) /\ Len(MakeRoom(q)) < SpoolCap
         /\ MakeRoom(q) = IF Len(q) >= SpoolCap THEN Tail(q) ELSE q
         /\ Len(q) >= SpoolCap => q # <<>>
<1>1. SpoolCap \in Nat \ {0} /\ Len(q) \in Nat
  BY TransportAssumption
<1>2. CASE Len(q) >= SpoolCap
  <2>1. q # <<>>
    BY <1>1, <1>2
  <2> QED
    BY <1>1, <1>2, <2>1, TailFacts DEF MakeRoom
<1>3. CASE ~(Len(q) >= SpoolCap)
  BY <1>1, <1>3 DEF MakeRoom
<1> QED
  BY <1>2, <1>3

\* Taking the oldest batch leaves the end of what was written, and so does
\* writing one more.
LEMMA EndOfTail ==
  ASSUME NEW S, NEW q \in Seq(S), NEW w \in Seq(S), EndOf(q, w), q # <<>>
  PROVE  EndOf(Tail(q), w)
<1>1. Len(q) \in Nat /\ Len(w) \in Nat
  OBVIOUS
<1>2. ASSUME NEW i \in 1..(Len(q) - 1)
      PROVE  Tail(q)[i] = w[Len(w) - (Len(q) - 1) + i]
  <2>1. i + 1 \in 1..Len(q) /\ Len(w) - (Len(q) - 1) + i = Len(w) - Len(q) + (i + 1)
    BY <1>1
  <2> QED
    BY <2>1, TailFacts DEF EndOf
<1> QED
  BY <1>1, <1>2, TailFacts DEF EndOf

LEMMA EndOfAppend ==
  ASSUME NEW S, NEW q \in Seq(S), NEW w \in Seq(S), NEW x \in S, EndOf(q, w)
  PROVE  EndOf(Append(q, x), Append(w, x))
<1>1. Len(q) \in Nat /\ Len(w) \in Nat /\ Len(q) <= Len(w)
  BY DEF EndOf
<1>2. ASSUME NEW i \in 1..(Len(q) + 1)
      PROVE  Append(q, x)[i] = Append(w, x)[Len(w) + 1 - (Len(q) + 1) + i]
  <2>1. CASE i = Len(q) + 1
    <3>1. Len(w) + 1 - (Len(q) + 1) + i = Len(w) + 1
      BY <1>1, <2>1
    <3> QED
      BY <2>1, <3>1, AppendFacts
  <2>2. CASE i \in 1..Len(q)
    <3>1. /\ Len(w) + 1 - (Len(q) + 1) + i = Len(w) - Len(q) + i
          /\ Len(w) - Len(q) + i \in 1..Len(w)
      BY <1>1, <2>2
    <3>2. q[i] = w[Len(w) - Len(q) + i]
      BY <2>2 DEF EndOf
    <3>3. Append(q, x)[i] = q[i]
      BY <2>2, AppendFacts
    <3>4. Append(w, x)[Len(w) - Len(q) + i] = w[Len(w) - Len(q) + i]
      BY <3>1, AppendFacts
    <3> QED
      BY <3>1, <3>2, <3>3, <3>4
  <2> QED
    BY <1>1, <2>1, <2>2
<1>3. /\ Len(Append(q, x)) = Len(q) + 1 /\ Len(Append(w, x)) = Len(w) + 1
      /\ Len(q) + 1 <= Len(w) + 1
  BY <1>1, AppendFacts
<1> QED
  <2> DEFINE a == Append(q, x)
             b == Append(w, x)
  <2>1. /\ Len(a) = Len(q) + 1 /\ Len(b) = Len(w) + 1 /\ Len(q) + 1 <= Len(w) + 1
        /\ \A i \in 1..(Len(q) + 1) : a[i] = b[Len(w) + 1 - (Len(q) + 1) + i]
    BY <1>2, <1>3, Zenon
  <2> HIDE DEF a, b
  <2>2. ASSUME NEW i \in 1..Len(a) PROVE a[i] = b[Len(b) - Len(a) + i]
    BY <2>1
  <2>3. Len(a) <= Len(b)
    BY <2>1
  <2>4. EndOf(a, b)
    BY <2>2, <2>3 DEF EndOf
  <2> QED
    BY <2>4 DEF a, b

-----------------------------------------------------------------------------
LEMMA IdleType == Idle \in Sender
<1>1. 0 \in 0..MaxBatches
  BY TransportAssumption
<1> QED
  BY <1>1 DEF Idle, Sender, SenderPCs

-----------------------------------------------------------------------------
(* The state is well formed, and drainBuffer's copy is not empty while it sends. *)

LEMMA InitIInv == Init => IInv
<1> SUFFICES ASSUME Init PROVE IInv
  OBVIOUS
<1> USE DEF Init
<1>1. TypeOK
  <2>1. sender \in [Senders -> Sender] /\ carried \in [Batches -> SUBSET Results]
    BY IdleType
  <2>2. <<>> \in Seq(Batches) /\ Len(<<>>) = 0
    OBVIOUS
  <2>3. /\ 0 \in 0..MaxStale /\ 0 \in 0..MaxResults /\ 0 \in 0..MaxOutages
        /\ 0 \in 0..MaxFaults /\ 0 <= SpoolCap /\ 0 <= BatchSize
    BY TransportAssumption
  <2> QED
    BY <2>1, <2>2, <2>3 DEF TypeOK, LoopPCs
<1>2. Range(<<>>) = {} /\ Len(<<>>) = 0
  BY DEF Range
<1>3. HeldInv
  BY <1>2 DEF HeldInv, Placed, Idle
<1>4. WrittenInv /\ SpoolInv /\ ReplayInOrder
  BY <1>2 DEF WrittenInv, SpoolInv, EndOf, ReplayInOrder
<1>5. DrainInv
  <2>1. Left = 0 /\ Drained = 0
    BY <1>2 DEF Left, Drained
  <2>2. CopyAt(0)
    BY <1>2, <2>1 DEF CopyAt
  <2> QED
    BY <1>2, <2>1, <2>2 DEF DrainInv
<1>6. ResultInv /\ ResultsKept
  <2>1. InFlight = {}
    BY DEF InFlight, Idle
  <2>2. 1..results = {}
    OBVIOUS
  <2> QED
    BY <1>2, <2>1, <2>2 DEF ResultInv, ResultsKept, Carriers
<1>7. CopyInv /\ WedgeInv
  BY DEF CopyInv, WedgeInv
<1> QED
  BY <1>1, <1>3, <1>4, <1>5, <1>6, <1>7 DEF IInv, QueueInv

\* The steps that touch no batch, no result and not the spool.
Elsewhere ==
  /\ UNCHANGED <<snap, spool, written, replayed, sent, refused, silent, evictions>>
  /\ UNCHANGED <<pendingAcks, carried, results>>
  /\ \A s \in Senders : /\ sender'[s].batch = sender[s].batch
                        /\ sender'[s].pc = "idle" <=> sender[s].pc = "idle"
  /\ rpc' = "ack" <=> rpc = "ack"
  /\ rpc' = "replay" => rpc = "replay"

LEMMA StepCases ==
  ASSUME TypeOK, [Next]_vars
  PROVE  \/ Elsewhere
         \/ DrainRead \/ DrainSend \/ DrainSendFails \/ DrainAck
         \/ SendAck
         \/ \E s \in Senders : \/ SendEvents(s) \/ LiveSend(s)
                               \/ BufferBatch(s) \/ BufferBatchFails(s)
<1> USE DEF Elsewhere, connVars, loopVars, envVars, ackVars, recvVars, spoolVars, logVars
<1>1. CASE UNCHANGED vars \/ Outage \/ NetworkReturns \/ Receive
  BY <1>1 DEF vars, Outage, NetworkReturns, Receive, ReceiveFails, StaleReceiveFails,
     RecvWatchdog, ReceiverCancels
<1>2. CASE Begin
  BY <1>2 DEF Begin, TypeOK, Sender
<1>3. CASE Dial \/ DialFails \/ Connect \/ OpenStream \/ OpenStreamFails
           \/ WaitForDisconnect \/ CloseConn \/ Wake
  BY <1>3 DEF Dial, DialFails, Connect, OpenStream, OpenStreamFails, WaitForDisconnect,
     CloseConn, Wake
<1>4. ASSUME NEW s \in Senders, \/ ReadStream(s) \/ LiveSendBlocks(s) \/ LiveSendTimeout(s)
                                \/ LiveSendFails(s) \/ SenderCancels(s)
      PROVE  Elsewhere
  <2>1. UNCHANGED <<snap, spool, written, replayed, sent, refused, silent, evictions, pendingAcks,
                    carried, results, rpc>>
    BY <1>4 DEF ReadStream, LiveSendBlocks, LiveSendTimeout, LiveSendFails, SenderCancels
  <2>2. \A u \in Senders : /\ sender'[u].batch = sender[u].batch
                           /\ sender'[u].pc = "idle" <=> sender[u].pc = "idle"
    <3>1. CASE ReadStream(s)
      BY <3>1 DEF ReadStream, TypeOK, Sender
    <3>2. CASE LiveSendBlocks(s)
      BY <3>2 DEF LiveSendBlocks, TypeOK, Sender
    <3>3. CASE LiveSendFails(s)
      BY <3>3 DEF LiveSendFails, TypeOK, Sender
    <3>4. CASE SenderCancels(s)
      BY <3>4 DEF SenderCancels, TypeOK, Sender
    <3> QED
      BY <1>4, <3>1, <3>2, <3>3, <3>4 DEF LiveSendTimeout
  <2> QED
    BY <2>1, <2>2
<1> QED
  BY <1>1, <1>2, <1>3, <1>4 DEF Next, Loop, Continue

FlagType ==
  /\ connected \in BOOLEAN /\ cancelled \in BOOLEAN /\ hasStream \in BOOLEAN
  /\ receiving \in BOOLEAN /\ captured \in BOOLEAN /\ netUp \in BOOLEAN
  /\ mustRest \in BOOLEAN /\ snapFull \in BOOLEAN

CounterType ==
  /\ stale \in 0..MaxStale /\ rpc \in LoopPCs /\ transport \in {"up", "closed", "half", "lost"}
  /\ results \in 0..MaxResults /\ outages \in 0..MaxOutages
  /\ faults \in 0..MaxFaults /\ evictions \in Nat

LEMMA FlagTypes ==
  ASSUME FlagType, Outlasts \in BOOLEAN, [Next]_vars
  PROVE  FlagType'
<1> USE DEF FlagType, connVars, loopVars, envVars, ackVars, recvVars, spoolVars, logVars
<1>1. CASE UNCHANGED vars
  BY <1>1 DEF vars
<1>2. CASE Begin \/ Dial \/ DialFails \/ Connect \/ OpenStream \/ OpenStreamFails
  BY <1>2, Zenon DEF Begin, Dial, DialFails, Connect, OpenStream, OpenStreamFails
<1>3. CASE DrainRead
  BY <1>3, Zenon DEF DrainRead
<1>4. CASE DrainSend \/ DrainSendFails \/ DrainAck
  BY <1>4, Zenon DEF DrainSend, DrainSendFails, DrainAck, Disconnect
<1>5. CASE WaitForDisconnect \/ CloseConn \/ Wake
  BY <1>5, Zenon DEF WaitForDisconnect, CloseConn, Wake
<1>6. CASE Receive
  BY <1>6, Zenon DEF Receive, ReceiveFails, StaleReceiveFails, RecvWatchdog, ReceiverCancels,
     SignalDisconnect, Cancel
<1>7. ASSUME NEW s \in Senders, SendEvents(s) \/ BufferBatch(s) \/ BufferBatchFails(s)
      PROVE  FlagType'
  BY <1>7, Zenon DEF SendEvents, BufferBatch, BufferBatchFails
<1>8. ASSUME NEW s \in Senders, ReadStream(s) \/ LiveSend(s) \/ LiveSendBlocks(s)
      PROVE  FlagType'
  BY <1>8, Zenon DEF ReadStream, LiveSend, LiveSendBlocks
<1>9. ASSUME NEW s \in Senders, LiveSendTimeout(s) \/ LiveSendFails(s) \/ SenderCancels(s)
      PROVE  FlagType'
  BY <1>9, Zenon DEF LiveSendTimeout, LiveSendFails, SenderCancels, Disconnect,
     SignalDisconnect, Cancel
<1>10. CASE SendAck \/ Outage \/ NetworkReturns
  BY <1>10, Zenon DEF SendAck, Outage, NetworkReturns
<1> QED
  BY <1>1, <1>2, <1>3, <1>4, <1>5, <1>6, <1>7, <1>8, <1>9, <1>10 DEF Next, Loop, Continue

LEMMA CounterTypes ==
  ASSUME CounterType, [Next]_vars
  PROVE  CounterType'
<1> USE TransportAssumption
    DEF CounterType, LoopPCs, connVars, loopVars, envVars, ackVars, recvVars, spoolVars, logVars
<1>1. CASE UNCHANGED vars
  BY <1>1 DEF vars
<1>2. CASE Begin \/ Dial \/ DialFails \/ Connect \/ OpenStream \/ OpenStreamFails
  BY <1>2 DEF Begin, Dial, DialFails, Connect, OpenStream, OpenStreamFails
<1>3. CASE DrainRead \/ DrainSend \/ DrainSendFails \/ DrainAck
  BY <1>3 DEF DrainRead, DrainSend, DrainSendFails, DrainAck
<1>5. CASE WaitForDisconnect \/ CloseConn \/ Wake
  BY <1>5 DEF WaitForDisconnect, CloseConn, Wake
<1>6. CASE Receive
  BY <1>6 DEF Receive, ReceiveFails, StaleReceiveFails, RecvWatchdog, ReceiverCancels
<1>7. ASSUME NEW s \in Senders, SendEvents(s) PROVE CounterType'
  BY <1>7 DEF SendEvents
<1>8. ASSUME NEW s \in Senders, BufferBatch(s) \/ BufferBatchFails(s) PROVE CounterType'
  <2>1. evictions' \in Nat
    BY <1>8 DEF BufferBatch, BufferBatchFails
  <2>2. faults' \in 0..MaxFaults
    BY <1>8 DEF BufferBatch, BufferBatchFails
  <2>3. UNCHANGED <<stale, rpc, transport, results, outages>>
    BY <1>8 DEF BufferBatch, BufferBatchFails, Requeue
  <2> QED
    BY <2>1, <2>2, <2>3
<1>9. ASSUME NEW s \in Senders,
             \/ ReadStream(s) \/ LiveSend(s) \/ LiveSendBlocks(s)
             \/ LiveSendTimeout(s) \/ LiveSendFails(s) \/ SenderCancels(s)
      PROVE  CounterType'
  BY <1>9 DEF ReadStream, LiveSend, LiveSendBlocks, LiveSendTimeout, LiveSendFails,
     SenderCancels
<1>10. CASE SendAck \/ NetworkReturns
  BY <1>10 DEF SendAck, NetworkReturns
<1>11. CASE Outage
  <2>1. outages' \in 0..MaxOutages /\ UNCHANGED <<stale, rpc, results, faults, evictions>>
    BY <1>11 DEF Outage
  <2>2. transport' \in {"up", "closed", "half", "lost"}
    BY <1>11 DEF Outage
  <2> QED
    BY <2>1, <2>2
<1> QED
  BY <1>1, <1>2, <1>3, <1>5, <1>6, <1>7, <1>8, <1>9, <1>10, <1>11 DEF Next, Loop, Continue

LEMMA SenderTypes ==
  ASSUME TypeOK, [Next]_vars
  PROVE  sender' \in [Senders -> Sender]
<1> USE DEF TypeOK, SenderPCs
<1>1. CASE UNCHANGED sender
  BY <1>1
<1>2. CASE Begin
  BY <1>2 DEF Begin, Sender
<1>3. ASSUME NEW s \in Senders, SendEvents(s) PROVE sender' \in [Senders -> Sender]
  <2>1. PICK b \in Batches :
          sender' = [sender EXCEPT ![s] =
            [Idle EXCEPT !.pc = IF connected THEN "stream" ELSE "buffer", !.batch = b]]
    BY <1>3 DEF SendEvents
  <2>2. b \in 0..MaxBatches
    BY TransportAssumption DEF Batches
  <2>3. [Idle EXCEPT !.pc = IF connected THEN "stream" ELSE "buffer", !.batch = b] \in Sender
    BY <2>2, IdleType DEF Sender
  <2> QED
    BY <2>1, <2>3
<1>4. ASSUME NEW s \in Senders, Continue(s) PROVE sender' \in [Senders -> Sender]
  <2>1. CASE LiveSend(s) \/ BufferBatch(s) \/ BufferBatchFails(s)
    BY <2>1, IdleType DEF LiveSend, BufferBatch, BufferBatchFails
  <2>2. CASE ReadStream(s) \/ LiveSendBlocks(s) \/ LiveSendFails(s) \/ SenderCancels(s)
    <3>1. sender[s] \in Sender
      OBVIOUS
    <3>2. CASE ReadStream(s)
      <4> DEFINE r == [sender[s] EXCEPT !.st = IF hasStream THEN "current" ELSE "none",
                                        !.pc = IF hasStream THEN "send" ELSE "buffer"]
      <4>1. sender' = [sender EXCEPT ![s] = r]
        BY <3>2 DEF ReadStream, Sender
      <4>2. r \in Sender
        BY <3>1 DEF Sender
      <4> QED
        BY <4>1, <4>2
    <3>3. CASE LiveSendBlocks(s)
      <4> DEFINE r == [sender[s] EXCEPT !.pc = "blocked"]
      <4>1. sender' = [sender EXCEPT ![s] = r]
        BY <3>3 DEF LiveSendBlocks, Sender
      <4>2. r \in Sender
        BY <3>1 DEF Sender
      <4> QED
        BY <4>1, <4>2
    <3>4. CASE LiveSendFails(s)
      <4> DEFINE r == [sender[s] EXCEPT !.pc = "cancel", !.st = "current", !.live = TRUE]
      <4>1. sender' = [sender EXCEPT ![s] = r]
        BY <3>4 DEF LiveSendFails, Sender
      <4>2. r \in Sender
        BY <3>1 DEF Sender
      <4> QED
        BY <4>1, <4>2
    <3>5. CASE SenderCancels(s)
      <4> DEFINE r == [sender[s] EXCEPT !.pc = "buffer", !.st = "none"]
      <4>1. sender' = [sender EXCEPT ![s] = r]
        BY <3>5 DEF SenderCancels, Sender
      <4>2. r \in Sender
        BY <3>1 DEF Sender
      <4> QED
        BY <4>1, <4>2
    <3> QED
      BY <2>2, <3>2, <3>3, <3>4, <3>5
  <2> QED
    BY <1>1, <1>4, <2>1, <2>2 DEF Continue, LiveSendTimeout
<1> QED
  BY <1>1, <1>2, <1>3, <1>4
  DEF Next, vars, connVars, loopVars, envVars, ackVars, recvVars, spoolVars, logVars,
      Loop, Receive, Dial, DialFails, Connect, OpenStream, OpenStreamFails,
      DrainRead, DrainSend, DrainSendFails, DrainAck, WaitForDisconnect, CloseConn, Wake,
      ReceiveFails, StaleReceiveFails, RecvWatchdog, ReceiverCancels, SendAck, Outage,
      NetworkReturns

\* MakeRoom keeps the spool within SpoolCap, ReadBatch the copy within BatchSize.
LEMMA SequenceTypes ==
  ASSUME TypeOK, CopyInv, HeldInv, [Next]_vars
  PROVE  /\ (spool \in Seq(Batches) /\ Len(spool) <= SpoolCap)'
         /\ (snap \in Seq(Batches) /\ Len(snap) <= BatchSize /\ CopyInv)'
         /\ (written \in Seq(Batches) /\ replayed \in Seq(Batches))'
         /\ (sent \subseteq Batches /\ refused \subseteq Batches)'
         /\ (pendingAcks \subseteq Results /\ carried \in [Batches -> SUBSET Results])'
<1> USE TransportAssumption DEF TypeOK, CopyInv, connVars, loopVars, envVars, ackVars, spoolVars,
        logVars, recvVars
<1>1. CASE Elsewhere
  BY <1>1 DEF Elsewhere
<1>2. CASE DrainRead
  <2>1. UNCHANGED <<spool, written, replayed, sent, refused, pendingAcks, carried>>
    BY <1>2 DEF DrainRead
  <2>2. snap' \in Seq(Batches) /\ Len(snap') <= BatchSize
    <3> DEFINE n == IF Len(spool) < BatchSize THEN Len(spool) ELSE BatchSize
    <3>1. n \in 0..Len(spool) /\ n <= BatchSize
      OBVIOUS
    <3>2. SubSeq(spool, 1, n) \in Seq(Batches) /\ Len(SubSeq(spool, 1, n)) = n
      BY <3>1
    <3>3. <<>> \in Seq(Batches) /\ Len(<<>>) = 0
      OBVIOUS
    <3>4. snap' = <<>> \/ snap' = SubSeq(spool, 1, n)
      BY <1>2 DEF DrainRead
    <3> HIDE DEF n
    <3>5. CASE snap' = <<>>
      BY <3>3, <3>5
    <3>6. CASE snap' = SubSeq(spool, 1, n)
      BY <3>1, <3>2, <3>6
    <3> QED
      BY <3>4, <3>5, <3>6
  <2>3. CopyInv'
    BY <1>2 DEF DrainRead
  <2> QED
    BY <2>1, <2>2, <2>3
<1>3. CASE DrainSend
  <2>1. Head(snap) \in Batches
    BY <1>3, TailFacts DEF DrainSend
  <2>2. sent' = sent \cup {Head(snap)} /\ replayed' = Append(replayed, Head(snap))
        /\ UNCHANGED <<spool, snap, written, refused, pendingAcks, carried>>
    BY <1>3 DEF DrainSend
  <2> QED
    BY <1>3, <2>1, <2>2, AppendFacts DEF DrainSend
<1>4. CASE DrainSendFails
  BY <1>4 DEF DrainSendFails
<1>5. CASE DrainAck
  <2>1. Tail(snap) \in Seq(Batches) /\ Len(Tail(snap)) <= BatchSize
    BY <1>5, TailFacts DEF DrainAck
  <2>2. AckOne(spool) \in Seq(Batches) /\ Len(AckOne(spool)) <= SpoolCap
    <3>1. CASE spool = <<>>
      BY <3>1 DEF AckOne
    <3>2. CASE spool # <<>>
      BY <3>2, TailFacts DEF AckOne
    <3> QED
      BY <3>1, <3>2
  <2>3. /\ spool' = AckOne(spool) /\ snap' = Tail(snap)
        /\ UNCHANGED <<written, replayed, sent, refused, pendingAcks, carried>>
        /\ CopyInv'
    BY <1>5 DEF DrainAck, AfterReplay
  <2> QED
    BY <2>1, <2>2, <2>3
<1>6. CASE SendAck
  <2>1. results + 1 \in Results
    BY <1>6 DEF SendAck, Results
  <2> QED
    BY <1>6, <2>1 DEF SendAck
<1>7. ASSUME NEW s \in Senders, SendEvents(s)
      PROVE  /\ pendingAcks' \subseteq Results /\ carried' \in [Batches -> SUBSET Results]
             /\ UNCHANGED <<spool, snap, rpc, written, replayed, sent, refused>>
  BY <1>7 DEF SendEvents
<1>8. ASSUME NEW s \in Senders, sender[s].pc # "idle" PROVE sender[s].batch \in Batches
  BY <1>8 DEF HeldInv, Sender, Batches
<1>9. ASSUME NEW s \in Senders, LiveSend(s)
      PROVE  /\ sent' \subseteq Batches
             /\ UNCHANGED <<spool, snap, rpc, written, replayed, refused, pendingAcks, carried>>
  BY <1>8, <1>9 DEF LiveSend
<1>10. ASSUME NEW s \in Senders, BufferBatch(s)
       PROVE  /\ (spool \in Seq(Batches) /\ Len(spool) <= SpoolCap)'
              /\ written' \in Seq(Batches)
              /\ UNCHANGED <<snap, rpc, replayed, sent, refused, pendingAcks, carried>>
  <2>1. sender[s].batch \in Batches
    BY <1>8, <1>10 DEF BufferBatch
  <2>2. MakeRoom(spool) \in Seq(Batches) /\ Len(MakeRoom(spool)) < SpoolCap
    BY MakeRoomFacts
  <2>3. /\ Append(MakeRoom(spool), sender[s].batch) \in Seq(Batches)
        /\ Len(Append(MakeRoom(spool), sender[s].batch)) <= SpoolCap
    BY <2>1, <2>2, AppendFacts
  <2> QED
    BY <1>10, <2>1, <2>3, AppendFacts DEF BufferBatch
<1>11. ASSUME NEW s \in Senders, BufferBatchFails(s)
       PROVE  /\ (spool \in Seq(Batches) /\ Len(spool) <= SpoolCap)'
              /\ refused' \subseteq Batches /\ pendingAcks' \subseteq Results
              /\ UNCHANGED <<snap, rpc, written, replayed, sent, carried>>
  <2>1. sender[s].batch \in Batches
    BY <1>8, <1>11 DEF BufferBatchFails
  <2>2. MakeRoom(spool) \in Seq(Batches) /\ Len(MakeRoom(spool)) < SpoolCap
    BY MakeRoomFacts
  <2>3. spool' = MakeRoom(spool) /\ refused' = refused \cup {sender[s].batch}
        /\ UNCHANGED <<snap, rpc, written, replayed, sent, carried>>
    BY <1>11 DEF BufferBatchFails, Requeue
  <2>4. pendingAcks' \subseteq Results
    BY <1>11, <2>1 DEF BufferBatchFails, Requeue
  <2> QED
    BY <2>1, <2>2, <2>3, <2>4
<1> QED
  BY <1>1, <1>2, <1>3, <1>4, <1>5, <1>6, <1>7, <1>9, <1>10, <1>11, StepCases

LEMMA SilentTypes ==
  ASSUME TypeOK, [Next]_vars
  PROVE  (silent \subseteq refused)'
<1> USE DEF TypeOK, connVars, loopVars, envVars, ackVars, spoolVars, logVars, recvVars
<1>1. ASSUME NEW s \in Senders, BufferBatchFails(s) PROVE (silent \subseteq refused)'
  BY <1>1 DEF BufferBatchFails
<1>2. CASE UNCHANGED <<silent, refused>>
  BY <1>2
<1> QED
  BY <1>1, <1>2, StepCases DEF Elsewhere, DrainRead, DrainSend, DrainSendFails, DrainAck, SendAck,
     SendEvents, LiveSend, BufferBatch

LEMMA TypeStep ==
  ASSUME TypeOK, CopyInv, HeldInv, [Next]_vars
  PROVE  TypeOK' /\ CopyInv'
<1>1. FlagType' /\ CounterType'
  BY FlagTypes, CounterTypes, TransportAssumption DEF TypeOK, FlagType, CounterType
<1> QED
  BY <1>1, SenderTypes, SequenceTypes, SilentTypes DEF TypeOK, FlagType, CounterType

-----------------------------------------------------------------------------
(* Never wedged. *)

LEMMA WedgeStep ==
  ASSUME TypeOK, WedgeInv, [Next]_vars
  PROVE  WedgeInv'
<1> USE DEF WedgeInv, Signalled, connVars, loopVars, envVars, ackVars, recvVars, spoolVars,
        logVars
<1>1. CASE UNCHANGED <<connected, cancelled, captured, rpc, sender>>
  BY <1>1
<1>2. CASE Begin \/ Dial \/ DialFails \/ Connect \/ OpenStream \/ OpenStreamFails
  BY <1>2 DEF Begin, Dial, DialFails, Connect, OpenStream, OpenStreamFails
<1>3. CASE DrainRead \/ DrainSend \/ DrainSendFails \/ DrainAck
  BY <1>3 DEF DrainRead, DrainSend, DrainSendFails, DrainAck, Disconnect
<1>4. CASE WaitForDisconnect \/ CloseConn \/ Wake
  BY <1>4 DEF WaitForDisconnect, CloseConn, Wake
<1>5. CASE Receive
  BY <1>5 DEF Receive, ReceiveFails, StaleReceiveFails, RecvWatchdog, ReceiverCancels,
     SignalDisconnect, Cancel
<1>6. ASSUME NEW s \in Senders, SendEvents(s) \/ Continue(s) PROVE WedgeInv'
  <2>1. \A u \in Senders : u # s => sender'[u] = sender[u]
    BY <1>6 DEF SendEvents, Continue, ReadStream, LiveSend, LiveSendBlocks, LiveSendTimeout,
       LiveSendFails, SenderCancels, BufferBatch, BufferBatchFails, TypeOK
  <2>2. UNCHANGED <<rpc, captured>>
    BY <1>6 DEF SendEvents, Continue, ReadStream, LiveSend, LiveSendBlocks, LiveSendTimeout,
       LiveSendFails, SenderCancels, BufferBatch, BufferBatchFails
  <2>3. CASE LiveSendTimeout(s)
    BY <2>2, <2>3 DEF LiveSendTimeout, Disconnect
  <2>4. CASE LiveSendFails(s)
    <3>1. sender'[s].pc = "cancel" /\ sender'[s].st = "current"
      BY <2>4 DEF LiveSendFails, TypeOK, Sender
    <3> QED
      BY <3>1
  <2>5. CASE SenderCancels(s)
    <3>1. connected' = connected /\ (cancelled \/ sender[s].st = "current" => cancelled')
      BY <2>5 DEF SenderCancels, Cancel
    <3> QED
      BY <2>1, <2>2, <3>1
  <2>6. CASE \/ SendEvents(s) \/ ReadStream(s) \/ LiveSend(s) \/ LiveSendBlocks(s)
             \/ BufferBatch(s) \/ BufferBatchFails(s)
    <3>1. sender[s].pc # "cancel" /\ UNCHANGED <<connected, cancelled>>
      BY <2>6 DEF SendEvents, ReadStream, LiveSend, LiveSendBlocks, BufferBatch,
         BufferBatchFails
    <3> QED
      BY <2>1, <2>2, <3>1
  <2> QED
    BY <1>6, <2>3, <2>4, <2>5, <2>6 DEF Continue
<1> QED
  BY <1>1, <1>2, <1>3, <1>4, <1>5, <1>6
  DEF Next, Loop, vars, SendAck, Outage, NetworkReturns

-----------------------------------------------------------------------------
(* The batches that senders hold. *)

LEMMA CopyWritten ==
  ASSUME TypeOK, DrainInv
  PROVE  Range(snap) \subseteq Range(written)
<1>1. PICK p \in 0..Left : CopyAt(p)
  BY DEF DrainInv
<1>2. ASSUME NEW i \in 1..Len(snap) PROVE snap[i] \in Range(written)
  <2>1. p + i \in 1..Len(written)
    BY <1>1 DEF CopyAt, TypeOK, Left
  <2> QED
    <3>1. snap[i] = written[p + i]
      BY <1>1 DEF CopyAt
    <3>2. p + i \in DOMAIN written
      BY <2>1 DEF TypeOK
    <3> QED
      BY <3>1, <3>2 DEF Range
<1> QED
  BY <1>2 DEF Range, TypeOK

LEMMA HeadWritten ==
  ASSUME TypeOK, CopyInv, DrainInv, rpc \in {"replay", "ack"}
  PROVE  Head(snap) \in Range(written) /\ Head(snap) \in Batches
<1>1. snap # <<>> /\ snap \in Seq(Batches)
  BY DEF CopyInv, TypeOK
<1>2. 1 \in DOMAIN snap /\ Head(snap) = snap[1] /\ Head(snap) \in Batches
  BY <1>1
<1> QED
  BY <1>2, CopyWritten DEF Range

\* A call of SendEvents ends, and its batch is somewhere.
LEMMA Handed ==
  ASSUME TypeOK, HeldInv, NEW s \in Senders, sender[s].pc # "idle",
         sender' = [sender EXCEPT ![s] = Idle], Placed' = Placed \cup {sender[s].batch}
  PROVE  HeldInv'
<1>1. sender'[s].pc = "idle" /\ sender'[s].batch = 0
  BY DEF TypeOK, Idle
<1>2. \A u \in Senders : u # s => sender'[u] = sender[u]
  BY DEF TypeOK
<1>3. sender[s].batch # 0
  BY DEF HeldInv
<1>4. \A u \in Senders : u # s => sender[u].batch # sender[s].batch
  BY <1>3 DEF HeldInv
<1>5. 0 \notin Placed'
  <2>1. 0 \notin sent /\ 0 \notin refused /\ 0 \notin Range(written)
    <3>1. 0 \notin Batches
      BY TransportAssumption DEF Batches
    <3>2. Range(written) \subseteq Batches
      BY DEF TypeOK, Range
    <3> QED
      BY <3>1, <3>2 DEF TypeOK
  <2> QED
    BY <1>3, <2>1 DEF Placed
<1> QED
  BY <1>1, <1>2, <1>4, <1>5 DEF HeldInv

LEMMA HeldStep ==
  ASSUME TypeOK, CopyInv, HeldInv, DrainInv, [Next]_vars
  PROVE  HeldInv'
<1> USE DEF connVars, loopVars, envVars, ackVars, recvVars, spoolVars, logVars
<1>1. CASE Elsewhere
  BY <1>1 DEF Elsewhere, HeldInv, Placed
<1>2. CASE DrainRead \/ DrainSendFails \/ DrainAck \/ SendAck
  <2>1. UNCHANGED <<sender, sent, written, refused>>
    BY <1>2 DEF DrainRead, DrainSendFails, DrainAck, SendAck
  <2> QED
    BY <2>1 DEF HeldInv, Placed
<1>3. CASE DrainSend
  <2>1. UNCHANGED <<sender, written, refused>> /\ sent' = sent \cup {Head(snap)}
    BY <1>3 DEF DrainSend
  <2>2. Placed' = Placed
    BY <1>3, <2>1, HeadWritten DEF Placed, DrainSend
  <2> QED
    BY <2>1, <2>2 DEF HeldInv
<1>4. ASSUME NEW s \in Senders, SendEvents(s) PROVE HeldInv'
  <2>1. PICK b \in Batches \ Accepted :
          sender' = [sender EXCEPT ![s] =
            [Idle EXCEPT !.pc = IF connected THEN "stream" ELSE "buffer", !.batch = b]]
    BY <1>4 DEF SendEvents
  <2>2. sender'[s].pc # "idle" /\ sender'[s].batch = b
    BY <2>1 DEF TypeOK, Idle
  <2>3. \A u \in Senders : u # s => sender'[u] = sender[u]
    BY <2>1 DEF TypeOK
  <2>4. b # 0 /\ b \notin Placed
    BY TransportAssumption DEF Batches, Accepted, Placed
  <2>5. \A u \in Senders : sender[u].batch # b
    BY <2>4 DEF Accepted, InFlight
  <2>6. Placed' = Placed
    BY <1>4 DEF SendEvents, Placed
  <2> QED
    BY <2>2, <2>3, <2>4, <2>5, <2>6 DEF HeldInv
<1>5. ASSUME NEW s \in Senders, LiveSend(s) PROVE HeldInv'
  <2>1. Placed' = Placed \cup {sender[s].batch}
    BY <1>5 DEF LiveSend, Placed
  <2> QED
    BY <1>5, <2>1, Handed DEF LiveSend
<1>6. ASSUME NEW s \in Senders, BufferBatch(s) PROVE HeldInv'
  <2>1. sender[s].batch \in Batches
    BY <1>6 DEF BufferBatch, HeldInv, TypeOK, Sender, Batches
  <2>2. Range(written') = Range(written) \cup {sender[s].batch}
    BY <1>6, <2>1, RangeAppend DEF BufferBatch, TypeOK
  <2>3. Placed' = Placed \cup {sender[s].batch}
    BY <1>6, <2>2 DEF BufferBatch, Placed
  <2> QED
    BY <1>6, <2>3, Handed DEF BufferBatch
<1>7. ASSUME NEW s \in Senders, BufferBatchFails(s) PROVE HeldInv'
  <2>1. Placed' = Placed \cup {sender[s].batch}
    BY <1>7 DEF BufferBatchFails, Placed
  <2> QED
    BY <1>7, <2>1, Handed DEF BufferBatchFails
<1> QED
  BY <1>1, <1>2, <1>3, <1>4, <1>5, <1>6, <1>7, StepCases

-----------------------------------------------------------------------------
(* The spool and its replay. *)

LineInv == WrittenInv /\ SpoolInv /\ DrainInv /\ ReplayInOrder

LEMMA Lengths ==
  ASSUME TypeOK, SpoolInv
  PROVE  /\ Len(spool) \in Nat /\ Len(written) \in Nat /\ Len(snap) \in Nat
         /\ Len(replayed) \in Nat /\ Left \in Nat
         /\ DOMAIN written = 1..Len(written) /\ DOMAIN replayed = 1..Len(replayed)
  BY DEF TypeOK, SpoolInv, EndOf, Left

LEMMA LineKept ==
  ASSUME LineInv, UNCHANGED <<snap, spool, written, replayed, evictions>>, sent \subseteq sent',
         rpc' = "ack" <=> rpc = "ack"
  PROVE  LineInv'
<1>1. Left' = Left /\ Drained' = Drained
  BY DEF Left, Drained
<1>2. ASSUME NEW p, CopyAt(p) PROVE CopyAt(p)'
  BY <1>1, <1>2 DEF CopyAt
<1>3. \E p \in 0..Left' : CopyAt(p)'
  BY <1>1, <1>2 DEF LineInv, DrainInv
<1>4. DrainInv'
  BY <1>1, <1>3 DEF LineInv, DrainInv
<1> QED
  BY <1>4 DEF LineInv, WrittenInv, SpoolInv, ReplayInOrder

LEMMA DrainReadLine ==
  ASSUME TypeOK, LineInv, DrainRead
  PROVE  LineInv'
<1> USE Lengths, TransportAssumption DEF LineInv
<1> DEFINE n == IF Len(spool) < BatchSize THEN Len(spool) ELSE BatchSize
<1>1. UNCHANGED <<spool, written, replayed, evictions, sent>> /\ rpc # "ack" /\ rpc' # "ack"
  BY DEF DrainRead, spoolVars, logVars
<1>2. Left' = Left /\ Drained' = Drained /\ Drained = Len(replayed)
  BY <1>1 DEF Left, Drained
<1>3. n \in 0..Len(spool)
  OBVIOUS
<1>4. Len(snap') \in 0..Len(spool) /\ \A i \in 1..Len(snap') : snap'[i] = spool[i]
  <2>1. Len(<<>>) = 0 /\ 1..0 = {}
    OBVIOUS
  <2>2. /\ Len(SubSeq(spool, 1, n)) = n
        /\ \A i \in 1..n : SubSeq(spool, 1, n)[i] = spool[i]
    BY <1>3 DEF TypeOK
  <2>3. snap' = <<>> \/ snap' = SubSeq(spool, 1, n)
    BY DEF DrainRead
  <2> HIDE DEF n
  <2>4. CASE snap' = <<>>
    BY <2>1, <2>4
  <2>5. CASE snap' = SubSeq(spool, 1, n)
    BY <1>3, <2>2, <2>5
  <2> QED
    BY <2>3, <2>4, <2>5
<1>5. CopyAt(Left)'
  <2>1. Left + Len(snap') <= Len(written)
    BY <1>4 DEF Left
  <2>2. \A i \in 1..Len(snap') : snap'[i] = written[Left + i]
    <3>1. ASSUME NEW i \in 1..Len(snap') PROVE snap'[i] = written[Left + i]
      <4>1. i \in 1..Len(spool)
        BY <1>4
      <4>2. spool[i] = written[Len(written) - Len(spool) + i]
        BY <4>1 DEF SpoolInv, EndOf
      <4> QED
        BY <1>4, <4>2 DEF Left
    <3> QED
      BY <3>1
  <2>3. \A i \in 1..Drained : \E k \in 1..Left : written[k] = replayed[i]
    BY DEF DrainInv, CopyAt
  <2> QED
    BY <1>1, <1>2, <2>1, <2>2, <2>3 DEF CopyAt
<1>6. DrainInv'
  <2>1. \E p \in 0..Left' : CopyAt(p)'
    BY <1>2, <1>5
  <2> QED
    BY <1>1, <1>2, <2>1 DEF DrainInv
<1> QED
  BY <1>1, <1>6 DEF WrittenInv, SpoolInv, ReplayInOrder

LEMMA DrainSendLine ==
  ASSUME TypeOK, CopyInv, LineInv, DrainSend
  PROVE  LineInv'
<1> USE Lengths DEF LineInv
<1> DEFINE b == Head(snap)
<1>1. /\ UNCHANGED <<snap, spool, written, evictions>> /\ rpc = "replay" /\ rpc' = "ack"
      /\ sent' = sent \cup {b} /\ replayed' = Append(replayed, b)
  BY DEF DrainSend, spoolVars
<1>2. PICK p \in 0..Left : CopyAt(p)
  BY DEF DrainInv
<1>3. b \in Batches /\ b = snap[1] /\ Len(snap) >= 1
  <2>1. snap # <<>> /\ snap \in Seq(Batches)
    BY <1>1 DEF CopyInv, TypeOK
  <2> QED
    BY <2>1, TailFacts
<1>4. /\ Len(replayed') = Len(replayed) + 1 /\ DOMAIN replayed' = 1..(Len(replayed) + 1)
      /\ replayed'[Len(replayed) + 1] = b
      /\ \A i \in 1..Len(replayed) : replayed'[i] = replayed[i]
  BY <1>1, <1>3, AppendFacts DEF TypeOK
<1>5. b = written[p + 1] /\ p + 1 \in 1..Len(written)
  BY <1>2, <1>3 DEF CopyAt
<1> HIDE DEF b
<1>6. Left' = Left /\ Drained' = Drained /\ Drained = Len(replayed)
  BY <1>1, <1>4 DEF Left, Drained
<1>7. CopyAt(p)'
  <2>1. \A i \in 1..Drained : \E k \in 1..p : written[k] = replayed'[i]
    BY <1>2, <1>4, <1>6 DEF CopyAt
  <2>2. replayed' # <<>> /\ replayed'[Len(replayed')] = written[p + 1]
    BY <1>4, <1>5
  <2> QED
    BY <1>1, <1>2, <1>6, <2>1, <2>2 DEF CopyAt
<1>8. DrainInv'
  <2>1. \E q \in 0..Left' : CopyAt(q)'
    BY <1>6, <1>7
  <2>2. Range(replayed') \subseteq sent'
    BY <1>1, <1>3, RangeAppend DEF DrainInv, TypeOK
  <2> QED
    BY <1>1, <1>6, <2>1, <2>2 DEF DrainInv
<1>9. ReplayInOrder'
  <2>1. ASSUME NEW i \in 1..(Len(replayed) + 1), NEW j \in 1..(Len(replayed) + 1), i < j
        PROVE  \E k, l \in DOMAIN written :
                 k < l /\ written[k] = replayed'[i] /\ written[l] = replayed'[j]
    <3>1. CASE j = Len(replayed) + 1
      <4>1. i \in 1..Len(replayed)
        BY <2>1, <3>1
      <4>2. PICK k \in 1..p : written[k] = replayed[i]
        BY <1>2, <1>6, <4>1 DEF CopyAt
      <4>3. k \in DOMAIN written /\ p + 1 \in DOMAIN written /\ k < p + 1
        BY <1>5
      <4> QED
        BY <1>4, <1>5, <3>1, <4>1, <4>2, <4>3
    <3>2. CASE j # Len(replayed) + 1
      <4>1. i \in 1..Len(replayed) /\ j \in 1..Len(replayed)
        BY <2>1, <3>2
      <4> QED
        BY <1>4, <2>1, <4>1 DEF ReplayInOrder
    <3> QED
      BY <3>1, <3>2
  <2> QED
    BY <1>1, <1>4, <2>1 DEF ReplayInOrder
<1> QED
  BY <1>1, <1>8, <1>9 DEF WrittenInv, SpoolInv

LEMMA DrainSendFailsLine ==
  ASSUME TypeOK, LineInv, DrainSendFails
  PROVE  LineInv'
<1> USE Lengths DEF LineInv
<1>1. /\ UNCHANGED <<spool, written, replayed, evictions, sent>>
      /\ rpc # "ack" /\ rpc' # "ack" /\ snap' = <<>>
  BY DEF DrainSendFails, spoolVars, logVars
<1>2. Left' = Left /\ Drained' = Drained
  BY <1>1 DEF Left, Drained
<1>3. Len(<<>>) = 0
  OBVIOUS
<1>4. ASSUME NEW p \in 0..Left, CopyAt(p) PROVE CopyAt(p)'
  <2>1. p + 0 <= Len(written)
    BY DEF Left
  <2> QED
    BY <1>1, <1>2, <1>3, <1>4, <2>1 DEF CopyAt
<1>5. DrainInv'
  <2>1. \E p \in 0..Left' : CopyAt(p)'
    BY <1>2, <1>4 DEF DrainInv
  <2> QED
    BY <1>1, <1>2, <2>1 DEF DrainInv
<1> QED
  BY <1>1, <1>5 DEF WrittenInv, SpoolInv, ReplayInOrder

LEMMA DrainAckLine ==
  ASSUME TypeOK, CopyInv, LineInv, DrainAck
  PROVE  LineInv'
<1> USE Lengths DEF LineInv
<1>1. /\ UNCHANGED <<written, replayed, evictions, sent>>
      /\ rpc = "ack" /\ rpc' # "ack" /\ snap' = Tail(snap) /\ spool' = AckOne(spool)
  BY DEF DrainAck, spoolVars, logVars, AfterReplay
<1>2. PICK p \in 0..Left : CopyAt(p)
  BY DEF DrainInv
<1>3. /\ Len(snap) \in Nat \ {0} /\ Len(snap') = Len(snap) - 1
      /\ \A i \in 1..(Len(snap) - 1) : snap'[i] = snap[i + 1]
  <2>1. snap # <<>> /\ snap \in Seq(Batches)
    BY <1>1 DEF CopyInv, TypeOK
  <2> QED
    BY <1>1, <2>1, TailFacts
<1>4. SpoolInv' /\ Left' \in {Left, Left + 1} /\ p + 1 <= Left'
  <2>1. CASE spool = <<>>
    <3>1. spool' = spool /\ Len(spool) = 0
      BY <1>1, <2>1 DEF AckOne
    <3>2. p + Len(snap) <= Len(written)
      BY <1>2 DEF CopyAt
    <3> QED
      BY <1>1, <1>3, <3>1, <3>2 DEF SpoolInv, Left
  <2>2. CASE spool # <<>>
    <3>1. spool' = Tail(spool)
      BY <1>1, <2>2 DEF AckOne
    <3>2. Len(spool') = Len(spool) - 1
      BY <2>2, <3>1, TailFacts DEF TypeOK
    <3>3. EndOf(Tail(spool), written)
      BY <2>2, EndOfTail DEF SpoolInv, TypeOK
    <3>4. Left' = Left + 1
      BY <1>1, <3>2 DEF Left
    <3>5. SpoolInv'
      BY <1>1, <3>1, <3>3 DEF SpoolInv
    <3> QED
      BY <3>4, <3>5
  <2> QED
    BY <2>1, <2>2
<1>5. Drained' = Len(replayed) /\ Drained = Len(replayed) - 1
  BY <1>1 DEF Drained
<1>6. Len(replayed) \in Nat \ {0} /\ replayed[Len(replayed)] = written[p + 1]
  BY <1>1, <1>2 DEF CopyAt, TypeOK
<1>7. CopyAt(p + 1)'
  <2>1. p + 1 + Len(snap') <= Len(written')
    BY <1>1, <1>2, <1>3 DEF CopyAt
  <2>2. ASSUME NEW i \in 1..Len(snap') PROVE snap'[i] = written'[p + 1 + i]
    <3>0. i \in 1..(Len(snap) - 1)
      BY <1>3
    <3>1. i + 1 \in 1..Len(snap) /\ snap'[i] = snap[i + 1] /\ p + 1 + i = p + (i + 1)
      BY <1>3, <3>0
    <3> QED
      BY <1>1, <1>2, <3>1 DEF CopyAt
  <2>3. ASSUME NEW i \in 1..Len(replayed)
        PROVE  \E k \in 1..(p + 1) : written[k] = replayed[i]
    <3>1. CASE i = Len(replayed)
      BY <1>6, <3>1
    <3>2. CASE i # Len(replayed)
      <4>0. i \in 1..(Len(replayed) - 1)
        <5> DEFINE n == Len(replayed)
        <5>1. n \in Nat /\ i \in 1..n /\ i # n
          BY <1>6, <3>2
        <5> HIDE DEF n
        <5>2. i \in 1..(n - 1)
          BY <5>1
        <5> QED
          BY <5>2 DEF n
      <4>1. i \in 1..Drained
        BY <1>5, <4>0
      <4>2. PICK k \in 1..p : written[k] = replayed[i]
        BY <1>2, <4>1 DEF CopyAt
      <4> QED
        BY <4>2
    <3> QED
      BY <3>1, <3>2
  <2> QED
    BY <1>1, <1>5, <2>1, <2>2, <2>3 DEF CopyAt
<1>8. DrainInv'
  <2>1. \E q \in 0..Left' : CopyAt(q)'
    BY <1>4, <1>7
  <2>2. Left' <= evictions' + Drained'
    BY <1>1, <1>4, <1>5, <1>6 DEF DrainInv, TypeOK
  <2> QED
    BY <1>1, <2>1, <2>2 DEF DrainInv
<1> QED
  BY <1>1, <1>4, <1>8 DEF WrittenInv, ReplayInOrder

\* The loop in Write that drops the oldest batch.
LEMMA MakeRoomLine ==
  ASSUME TypeOK, SpoolInv,
         evictions' = IF Len(spool) >= SpoolCap THEN evictions + 1 ELSE evictions
  PROVE  /\ EndOf(MakeRoom(spool), written)
         /\ Len(MakeRoom(spool)) \in {Len(spool), Len(spool) - 1}
         /\ Len(written) - Len(MakeRoom(spool)) - evictions' = Left - evictions
         /\ MakeRoom(spool) \in Seq(Batches)
<1> USE Lengths
<1>1. spool \in Seq(Batches) /\ Len(spool) <= SpoolCap /\ evictions \in Nat
  BY DEF TypeOK
<1>2. MakeRoom(spool) \in Seq(Batches)
  BY <1>1, MakeRoomFacts
<1>3. CASE Len(spool) >= SpoolCap
  <2>1. MakeRoom(spool) = Tail(spool) /\ spool # <<>>
    BY <1>1, <1>3, MakeRoomFacts
  <2>2. EndOf(Tail(spool), written)
    BY <1>1, <2>1, EndOfTail DEF SpoolInv, TypeOK
  <2>3. Len(Tail(spool)) = Len(spool) - 1
    BY <1>1, <2>1, TailFacts
  <2> QED
    BY <1>1, <1>2, <1>3, <2>1, <2>2, <2>3 DEF Left
<1>4. CASE ~(Len(spool) >= SpoolCap)
  <2>1. MakeRoom(spool) = spool
    BY <1>4 DEF MakeRoom
  <2> QED
    BY <1>1, <1>4, <2>1 DEF Left, SpoolInv
<1> QED
  BY <1>3, <1>4

LEMMA BufferFailsLine ==
  ASSUME TypeOK, LineInv, NEW s \in Senders, BufferBatchFails(s)
  PROVE  LineInv'
<1> USE Lengths DEF LineInv
<1>1. /\ UNCHANGED <<snap, written, replayed, sent, rpc>> /\ spool' = MakeRoom(spool)
      /\ evictions' = IF Len(spool) >= SpoolCap THEN evictions + 1 ELSE evictions
  BY DEF BufferBatchFails, loopVars, logVars
<1>2. evictions' \in Nat /\ evictions \in Nat /\ Len(spool') \in Nat
  BY <1>1, MakeRoomLine DEF TypeOK
<1>3. SpoolInv' /\ Left' \in {Left, Left + 1} /\ Left' - evictions' = Left - evictions
  BY <1>1, <1>2, MakeRoomLine DEF SpoolInv, Left
<1>4. Drained' = Drained /\ Drained \in Int
  BY <1>1 DEF Drained
<1>5. ASSUME NEW p, CopyAt(p) PROVE CopyAt(p)'
  BY <1>1, <1>4, <1>5 DEF CopyAt
<1>6. DrainInv'
  <2>1. \E p \in 0..Left' : CopyAt(p)'
    BY <1>3, <1>5 DEF DrainInv
  <2>2. Left' <= evictions' + Drained'
    BY <1>2, <1>3, <1>4 DEF DrainInv
  <2> QED
    BY <1>1, <2>1, <2>2 DEF DrainInv
<1> QED
  BY <1>1, <1>3, <1>6 DEF WrittenInv, ReplayInOrder

LEMMA BufferLine ==
  ASSUME TypeOK, CopyInv, HeldInv, LineInv, NEW s \in Senders, BufferBatch(s)
  PROVE  LineInv'
<1> USE Lengths DEF LineInv
<1> DEFINE b == sender[s].batch
           q == MakeRoom(spool)
<1>1. /\ UNCHANGED <<snap, replayed, sent, rpc>>
      /\ spool' = Append(q, b) /\ written' = Append(written, b)
      /\ evictions' = IF Len(spool) >= SpoolCap THEN evictions + 1 ELSE evictions
  BY DEF BufferBatch, loopVars, logVars
<1>2. b \in Batches /\ b \notin Range(written)
  BY DEF BufferBatch, HeldInv, Placed, TypeOK, Sender, Batches
<1>3. evictions' \in Nat /\ evictions \in Nat /\ q \in Seq(Batches) /\ Len(q) \in Nat
  BY <1>1, MakeRoomLine DEF TypeOK
<1>4. /\ EndOf(q, written) /\ Len(q) \in {Len(spool), Len(spool) - 1}
      /\ Len(written) - Len(q) - evictions' = Left - evictions
  BY <1>1, MakeRoomLine
<1> HIDE DEF b, q
<1>5. /\ Len(written') = Len(written) + 1 /\ DOMAIN written' = 1..(Len(written) + 1)
      /\ written'[Len(written) + 1] = b
      /\ \A k \in 1..Len(written) : written'[k] = written[k]
  BY <1>1, <1>2, AppendFacts DEF TypeOK
<1>6. Len(spool') = Len(q) + 1
  BY <1>1, <1>2, <1>3, AppendFacts
<1>7. SpoolInv'
  <2>1. EndOf(Append(q, b), Append(written, b))
    BY <1>2, <1>3, <1>4, EndOfAppend DEF TypeOK
  <2> QED
    BY <1>1, <2>1 DEF SpoolInv
<1>8. Left' \in {Left, Left + 1} /\ Left' - evictions' = Left - evictions
  <2>1. Left' = Len(written) - Len(q)
    BY <1>3, <1>5, <1>6 DEF Left
  <2>2. Len(written) - Len(q) \in {Left, Left + 1}
    BY <1>3, <1>4 DEF Left
  <2> QED
    BY <1>4, <2>1, <2>2
<1>9. WrittenInv'
  <2>1. ASSUME NEW k \in 1..(Len(written) + 1), NEW l \in 1..(Len(written) + 1),
               written'[k] = written'[l]
        PROVE  k = l
    <3>1. CASE k \in 1..Len(written) /\ l \in 1..Len(written)
      BY <1>5, <2>1, <3>1 DEF WrittenInv
    <3>2. CASE k = Len(written) + 1 \/ l = Len(written) + 1
      <4>1. \A i \in 1..Len(written) : written[i] # b
        BY <1>2 DEF Range
      <4> QED
        BY <1>5, <2>1, <3>2, <4>1
    <3> QED
      BY <3>1, <3>2
  <2> QED
    BY <1>5, <2>1 DEF WrittenInv
<1>10. Drained' = Drained /\ Drained \in Int
  BY <1>1 DEF Drained
<1>11. ASSUME NEW p \in 0..Left, CopyAt(p) PROVE CopyAt(p)'
  <2>1. p + Len(snap) <= Len(written) /\ p <= Len(written)
    BY <1>11 DEF CopyAt, Left
  <2>2. \A i \in 1..Len(snap) : snap[i] = written'[p + i]
    <3>1. \A i \in 1..Len(snap) : p + i \in 1..Len(written)
      BY <2>1
    <3> QED
      BY <1>5, <1>11, <3>1 DEF CopyAt
  <2>3. \A i \in 1..Drained : \E k \in 1..p : written'[k] = replayed[i]
    <3>1. \A k \in 1..p : k \in 1..Len(written)
      BY <2>1
    <3> QED
      BY <1>5, <1>11, <3>1 DEF CopyAt
  <2>4. rpc = "ack" => replayed # <<>> /\ replayed[Len(replayed)] = written'[p + 1]
    <3>1. rpc = "ack" => Len(snap) # 0
      BY DEF CopyInv, TypeOK
    <3>2. rpc = "ack" => p + 1 \in 1..Len(written)
      BY <2>1, <3>1
    <3> QED
      BY <1>5, <1>11, <3>2 DEF CopyAt
  <2>5. p + Len(snap') <= Len(written')
    BY <1>1, <1>5, <2>1
  <2> QED
    BY <1>1, <1>10, <2>2, <2>3, <2>4, <2>5 DEF CopyAt
<1>12. DrainInv'
  <2>1. \E p \in 0..Left' : CopyAt(p)'
    BY <1>8, <1>11 DEF DrainInv
  <2>2. Left' <= evictions' + Drained'
    BY <1>3, <1>8, <1>10 DEF DrainInv
  <2> QED
    BY <1>1, <2>1, <2>2 DEF DrainInv
<1>13. ReplayInOrder'
  <2>1. \A k \in DOMAIN written : k \in DOMAIN written' /\ written'[k] = written[k]
    BY <1>5
  <2> QED
    BY <1>1, <2>1 DEF ReplayInOrder
<1> QED
  BY <1>7, <1>9, <1>12, <1>13

LEMMA LineStep ==
  ASSUME TypeOK, CopyInv, HeldInv, LineInv, [Next]_vars
  PROVE  LineInv'
<1>1. CASE Elsewhere
  BY <1>1, LineKept DEF Elsewhere
<1>2. CASE SendAck
  BY <1>2, LineKept DEF SendAck, loopVars, spoolVars, logVars
<1>3. ASSUME NEW s \in Senders, SendEvents(s) \/ LiveSend(s) PROVE LineInv'
  BY <1>3, LineKept DEF SendEvents, LiveSend, loopVars, spoolVars, logVars
<1> QED
  BY <1>1, <1>2, <1>3, DrainReadLine, DrainSendLine, DrainSendFailsLine, DrainAckLine,
     BufferLine, BufferFailsLine, StepCases

-----------------------------------------------------------------------------
(* Command results. *)

LEMMA ResultKept ==
  ASSUME ResultInv, Carriers' \subseteq Carriers, UNCHANGED <<pendingAcks, carried, results>>
  PROVE  ResultInv'
  BY DEF ResultInv

\* A batch that leaves the hands of its sender, whose other batches are not affected.
LEMMA HandsFree ==
  ASSUME TypeOK, HeldInv, NEW s \in Senders, sender' = [sender EXCEPT ![s] = Idle]
  PROVE  /\ InFlight' \subseteq InFlight
         /\ sender[s].pc # "idle" => /\ sender[s].batch \notin InFlight'
                                     /\ sender[s].batch \in InFlight
<1>1. sender'[s].batch = 0
  BY DEF TypeOK, Idle
<1>2. \A u \in Senders : u # s => sender'[u] = sender[u]
  BY DEF TypeOK
<1> QED
  BY <1>1, <1>2 DEF HeldInv, InFlight

LEMMA ResultStep ==
  ASSUME TypeOK, CopyInv, HeldInv, DrainInv, ResultInv, [Next]_vars
  PROVE  ResultInv'
<1> USE DEF connVars, loopVars, envVars, ackVars, recvVars, spoolVars, logVars
<1>1. CASE Elsewhere
  <2>1. InFlight' = InFlight
    BY <1>1 DEF Elsewhere, InFlight
  <2> QED
    BY <1>1, <2>1, ResultKept DEF Elsewhere, Carriers
<1>2. CASE DrainRead \/ DrainSendFails \/ DrainAck
  <2>1. UNCHANGED <<sender, sent, written, pendingAcks, carried, results>>
    BY <1>2 DEF DrainRead, DrainSendFails, DrainAck
  <2> QED
    BY <2>1, ResultKept DEF Carriers, InFlight
<1>3. CASE DrainSend
  <2>1. UNCHANGED <<sender, written, pendingAcks, carried, results>>
        /\ sent' = sent \cup {Head(snap)}
    BY <1>3 DEF DrainSend
  <2>2. Head(snap) \in Range(written)
    BY <1>3, HeadWritten DEF DrainSend
  <2> QED
    BY <2>1, <2>2, ResultKept DEF Carriers, InFlight
<1>4. CASE SendAck
  <2>1. UNCHANGED <<sender, written, sent, carried>>
        /\ results' = results + 1 /\ pendingAcks' = pendingAcks \cup {results + 1}
    BY <1>4 DEF SendAck
  <2>2. Carriers' = Carriers
    BY <2>1 DEF Carriers, InFlight
  <2>3. results \in Nat /\ 1..results \subseteq 1..(results + 1) /\ results + 1 \notin 1..results
        /\ results + 1 \in 1..(results + 1)
    BY DEF TypeOK
  <2> QED
    BY <2>1, <2>2, <2>3 DEF ResultInv
<1>5. ASSUME NEW s \in Senders, SendEvents(s) PROVE ResultInv'
  <2>1. PICK b \in Batches \ Accepted :
          /\ carried' = [carried EXCEPT ![b] = pendingAcks]
          /\ sender' = [sender EXCEPT ![s] =
               [Idle EXCEPT !.pc = IF connected THEN "stream" ELSE "buffer", !.batch = b]]
    BY <1>5 DEF SendEvents
  <2>2. UNCHANGED <<sent, written, results>> /\ pendingAcks' = {}
    BY <1>5 DEF SendEvents
  <2>3. b \notin Carriers
    BY DEF Accepted, Carriers
  <2>4. Carriers' \subseteq Carriers \cup {b}
    <3>1. sender'[s].batch = b /\ \A u \in Senders : u # s => sender'[u] = sender[u]
      BY <2>1 DEF TypeOK, Idle
    <3> QED
      BY <2>2, <3>1 DEF Carriers, InFlight
  <2>5. carried'[b] = pendingAcks /\ \A d \in Batches : d # b => carried'[d] = carried[d]
    BY <2>1 DEF TypeOK
  <2>6. Carriers \subseteq Batches
    <3>1. InFlight \subseteq Batches
      BY TransportAssumption DEF InFlight, TypeOK, Sender, Batches
    <3>2. Range(written) \subseteq Batches
      BY DEF TypeOK, Range
    <3> QED
      BY <3>1, <3>2 DEF Carriers, TypeOK
  <2> QED
    BY <2>2, <2>3, <2>4, <2>5, <2>6 DEF ResultInv
<1>6. ASSUME NEW s \in Senders, LiveSend(s) PROVE ResultInv'
  <2>1. Carriers' \subseteq Carriers
    BY <1>6, HandsFree DEF LiveSend, Carriers
  <2> QED
    BY <1>6, <2>1, ResultKept DEF LiveSend
<1>7. ASSUME NEW s \in Senders, BufferBatch(s) PROVE ResultInv'
  <2>1. sender[s].batch \in Batches
    BY <1>7 DEF BufferBatch, HeldInv, TypeOK, Sender, Batches
  <2>2. Range(written') = Range(written) \cup {sender[s].batch}
    BY <1>7, <2>1, RangeAppend DEF BufferBatch, TypeOK
  <2>3. Carriers' \subseteq Carriers
    BY <1>7, <2>2, HandsFree DEF BufferBatch, Carriers
  <2> QED
    BY <1>7, <2>3, ResultKept DEF BufferBatch
<1>8. ASSUME NEW s \in Senders, BufferBatchFails(s) PROVE ResultInv'
  <2> DEFINE b == sender[s].batch
  <2>1. UNCHANGED <<sent, written, carried, results>>
        /\ sender' = [sender EXCEPT ![s] = Idle] /\ sender[s].pc # "idle"
    BY <1>8 DEF BufferBatchFails, Requeue
  <2>2. b \in Carriers /\ b \notin Carriers' /\ Carriers' \subseteq Carriers
    BY <2>1, HandsFree DEF Carriers, HeldInv, Placed
  <2>3. pendingAcks' \in {pendingAcks, pendingAcks \cup carried[b]}
    BY <1>8 DEF BufferBatchFails, Requeue
  <2> HIDE DEF b
  <2> QED
    BY <2>1, <2>2, <2>3 DEF ResultInv
<1> QED
  BY <1>1, <1>2, <1>3, <1>4, <1>5, <1>6, <1>7, <1>8, StepCases

\* What holds a result, or took it along when it was lost.
Holders == Carriers \cup silent

LEMMA StillHeld ==
  ASSUME ResultsKept, Holders \subseteq Holders', UNCHANGED <<pendingAcks, carried, results>>
  PROVE  ResultsKept'
  BY DEF ResultsKept, Holders, Carriers

\* A batch that leaves the hands of a sender takes nobody else's along.
LEMMA OthersInFlight ==
  ASSUME TypeOK, NEW s \in Senders, sender' = [sender EXCEPT ![s] = Idle]
  PROVE  InFlight \subseteq InFlight' \cup {sender[s].batch}
<1>1. \A u \in Senders : u # s => sender'[u] = sender[u]
  BY DEF TypeOK
<1> QED
  BY <1>1 DEF InFlight

LEMMA KeptStep ==
  ASSUME TypeOK, CopyInv, HeldInv, DrainInv, ResultsKept, [Next]_vars
  PROVE  ResultsKept'
<1> USE DEF connVars, loopVars, envVars, ackVars, recvVars, spoolVars, logVars
<1>1. CASE Elsewhere
  <2>1. InFlight' = InFlight
    BY <1>1 DEF Elsewhere, InFlight
  <2> QED
    BY <1>1, <2>1, StillHeld DEF Elsewhere, Holders, Carriers
<1>2. CASE DrainRead \/ DrainSendFails \/ DrainAck \/ DrainSend
  <2>1. /\ UNCHANGED <<sender, written, silent, pendingAcks, carried, results>>
        /\ sent \subseteq sent'
    BY <1>2 DEF DrainRead, DrainSendFails, DrainAck, DrainSend
  <2> QED
    BY <2>1, StillHeld DEF Holders, Carriers, InFlight
<1>4. CASE SendAck
  <2>1. UNCHANGED <<sender, written, sent, silent, carried>>
        /\ results' = results + 1 /\ pendingAcks' = pendingAcks \cup {results + 1}
    BY <1>4 DEF SendAck
  <2>2. \A r \in 1..(results + 1) : r \in 1..results \/ r = results + 1
    BY DEF TypeOK
  <2> QED
    BY <2>1, <2>2 DEF ResultsKept, InFlight
<1>5. ASSUME NEW s \in Senders, SendEvents(s) PROVE ResultsKept'
  <2>1. PICK b \in Batches \ Accepted :
          /\ carried' = [carried EXCEPT ![b] = pendingAcks]
          /\ sender' = [sender EXCEPT ![s] =
               [Idle EXCEPT !.pc = IF connected THEN "stream" ELSE "buffer", !.batch = b]]
    BY <1>5 DEF SendEvents
  <2>2. UNCHANGED <<sent, written, silent, results>> /\ sender[s].pc = "idle"
    BY <1>5 DEF SendEvents
  <2>3. b \notin Holders /\ b # 0
    BY TransportAssumption DEF Accepted, Holders, Carriers, TypeOK, Batches
  <2>4. Holders \subseteq Holders' /\ b \in Holders'
    <3>1. sender'[s].batch = b /\ \A u \in Senders : u # s => sender'[u] = sender[u]
      BY <2>1 DEF TypeOK, Idle
    <3>2. sender[s].batch = 0
      BY <2>2 DEF HeldInv
    <3>3. InFlight \subseteq InFlight' /\ b \in InFlight'
      BY <2>3, <3>1, <3>2 DEF InFlight
    <3> QED
      BY <2>2, <3>3 DEF Holders, Carriers
  <2>5. /\ carried'[b] = pendingAcks
        /\ \A d \in Holders : carried'[d] = carried[d]
    <3>1. \A d : d # b => carried'[d] = carried[d] \/ d \notin Batches
      BY <2>1 DEF TypeOK
    <3>2. Holders \subseteq Batches
      <4>1. InFlight \subseteq Batches
        BY TransportAssumption DEF InFlight, TypeOK, Sender, Batches
      <4>2. Range(written) \subseteq Batches
        BY DEF TypeOK, Range
      <4> QED
        BY <4>1, <4>2 DEF Holders, Carriers, TypeOK
    <3> QED
      BY <2>1, <2>3, <3>1, <3>2 DEF TypeOK
  <2> SUFFICES ASSUME NEW r \in 1..results
               PROVE  \E d \in Holders' : r \in carried'[d]
    BY <2>2 DEF ResultsKept, Holders, Carriers
  <2>6. CASE r \in pendingAcks
    BY <2>4, <2>5, <2>6
  <2>7. CASE \E d \in Holders : r \in carried[d]
    BY <2>4, <2>5, <2>7
  <2> QED
    BY <2>6, <2>7 DEF ResultsKept, Holders, Carriers
<1>6. ASSUME NEW s \in Senders, LiveSend(s) PROVE ResultsKept'
  <2>1. Holders \subseteq Holders'
    BY <1>6, OthersInFlight DEF LiveSend, Holders, Carriers
  <2> QED
    BY <1>6, <2>1, StillHeld DEF LiveSend
<1>7. ASSUME NEW s \in Senders, BufferBatch(s) PROVE ResultsKept'
  <2>1. sender[s].batch \in Batches
    BY <1>7 DEF BufferBatch, HeldInv, TypeOK, Sender, Batches
  <2>2. Range(written') = Range(written) \cup {sender[s].batch}
    BY <1>7, <2>1, RangeAppend DEF BufferBatch, TypeOK
  <2>3. Holders \subseteq Holders'
    BY <1>7, <2>2, OthersInFlight DEF BufferBatch, Holders, Carriers
  <2> QED
    BY <1>7, <2>3, StillHeld DEF BufferBatch
<1>8. ASSUME NEW s \in Senders, BufferBatchFails(s) PROVE ResultsKept'
  <2>1. UNCHANGED <<sent, written, carried, results>>
    BY <1>8 DEF BufferBatchFails, Requeue
  <2>2. InFlight \subseteq InFlight' \cup {sender[s].batch}
    BY <1>8, OthersInFlight DEF BufferBatchFails
  <2>3. CASE sender[s].live
    <3>1. silent' = silent /\ pendingAcks' = pendingAcks \cup carried[sender[s].batch]
      BY <1>8, <2>3 DEF BufferBatchFails, Requeue
    <3> QED
      BY <2>1, <2>2, <3>1 DEF ResultsKept
  <2>4. CASE ~sender[s].live
    <3>1. silent' = silent \cup {sender[s].batch} /\ pendingAcks' = pendingAcks
      BY <1>8, <2>4 DEF BufferBatchFails, Requeue
    <3> QED
      BY <2>1, <2>2, <3>1 DEF ResultsKept
  <2> QED
    BY <2>3, <2>4
<1> QED
  BY <1>1, <1>2, <1>4, <1>5, <1>6, <1>7, <1>8, StepCases

-----------------------------------------------------------------------------
(* The theorems. *)

LEMMA IInvHolds == Spec => []IInv
<1>1. IInv /\ [Next]_vars => IInv'
  BY TypeStep, WedgeStep, HeldStep, LineStep, ResultStep, KeptStep DEF IInv, QueueInv, LineInv
<1> QED
  BY InitIInv, <1>1, PTL DEF Spec

\* The connection's flags, the senders, the spool and the drain's copy are always
\* well formed: the spool never holds more than its capacity.
THEOREM TransportTypes == Spec => []TypeOK
<1>1. IInv => TypeOK
  BY DEF IInv
<1> QED
  BY IInvHolds, <1>1, PTL

\* With any number of senders and of late receivers, waitForDisconnect never waits
\* on a connection that SendEvents takes for lost, unless the scope is cancelled or
\* some signalDisconnect is between its critical section and its cancel().
THEOREM TransportNeverWedged == Spec => []NeverWedged
<1>1. IInv => NeverWedged
  BY DEF IInv, WedgeInv, Signalled, NeverWedged
<1> QED
  BY IInvHolds, <1>1, PTL

\* drainBuffer replays in the order of writing and none twice, whatever live writes
\* drop under it (ReadBatch copies, Ack(1) removes what is in front then).
THEOREM TransportReplaysInOrder == Spec => []ReplayInOrder
<1>1. IInv => ReplayInOrder
  BY DEF IInv, QueueInv
<1> QED
  BY IInvHolds, <1>1, PTL

\* The result of a command is reported by one batch at most, in any interleaving of
\* sends, requeueAcks and replays.
THEOREM TransportResultOnce == Spec => []ResultInOnePlace
<1>1. IInv => ResultInOnePlace
  <2>1. ASSUME IInv PROVE Alive \subseteq Carriers
    <3>1. ASSUME NEW i \in 1..Len(spool) PROVE spool[i] \in Range(written)
      <4>1. spool[i] = written[Len(written) - Len(spool) + i]
        BY <2>1 DEF IInv, QueueInv, SpoolInv, EndOf
      <4>2. Len(written) - Len(spool) + i \in DOMAIN written
        BY <2>1, Lengths DEF IInv, QueueInv, SpoolInv, EndOf
      <4> QED
        BY <4>1, <4>2 DEF Range
    <3>2. Range(spool) \subseteq Range(written)
      BY <2>1, <3>1 DEF Range, IInv, TypeOK
    <3> QED
      BY <3>2 DEF Alive, Carriers
  <2> QED
    BY <2>1 DEF IInv, ResultInv, ResultInOnePlace
<1> QED
  BY IInvHolds, <1>1, PTL

\* The batches that left the spool are those that Write dropped and those that a
\* drain acknowledged after sending as many; so no more are lost than were dropped.
LEMMA LostAreEvicted == IInv => LossBoundedByEvictions
<1> SUFFICES ASSUME IInv PROVE LossBoundedByEvictions
  OBVIOUS
<1> USE DEF IInv, QueueInv
<1> DEFINE L == Accepted \ (InFlight \cup sent \cup Range(spool) \cup refused)
           A == {written[k] : k \in 1..Left}
           B == {replayed[i] : i \in 1..Drained}
<1>1. PICK p \in 0..Left : CopyAt(p)
  BY DEF DrainInv
<1>2. /\ Left \in Nat /\ Drained \in Nat /\ Left <= Len(written) /\ Drained <= Len(replayed)
      /\ Len(written) \in Nat /\ Len(spool) \in Nat
      /\ DOMAIN written = 1..Len(written) /\ DOMAIN replayed = 1..Len(replayed)
  <2>1. rpc = "ack" => Len(replayed) # 0
    BY <1>1 DEF CopyAt, TypeOK
  <2> QED
    BY <2>1, Lengths DEF Left, Drained
<1>3. L \subseteq A \ sent
  <2>1. ASSUME NEW k \in 1..Len(written), written[k] \notin Range(spool) PROVE k \in 1..Left
    <3>1. SUFFICES ASSUME k > Left PROVE FALSE
      BY <1>2
    <3>2. k - Left \in 1..Len(spool) /\ Left + (k - Left) = k
      BY <1>2, <3>1 DEF Left
    <3>3. spool[k - Left] = written[k]
      BY <3>2 DEF SpoolInv, EndOf, Left
    <3>4. DOMAIN spool = 1..Len(spool)
      BY DEF TypeOK
    <3> QED
      BY <2>1, <3>2, <3>3, <3>4 DEF Range
  <2>2. ASSUME NEW x \in L PROVE x \in A \ sent
    <3>1. x \in Range(written) /\ x \notin Range(spool) /\ x \notin sent
      BY DEF Accepted
    <3>2. PICK k \in 1..Len(written) : x = written[k]
      BY <1>2, <3>1 DEF Range
    <3> QED
      BY <2>1, <3>1, <3>2
  <2> QED
    BY <2>2
<1>4. B \subseteq A
  <2>1. ASSUME NEW i \in 1..Drained PROVE replayed[i] \in A
    <3>1. PICK k \in 1..p : written[k] = replayed[i]
      BY <1>1 DEF CopyAt
    <3>2. k \in 1..Left
      BY <1>2
    <3> QED
      BY <3>1, <3>2
  <2> QED
    BY <2>1
<1>5. B \subseteq sent
  BY <1>2 DEF DrainInv, Range
<1>6. IsFiniteSet(A) /\ Cardinality(A) <= Left
  <2> DEFINE f == [k \in 1..Left |-> written[k]]
  <2>1. f \in Surjection(1..Left, A)
    BY DEF Surjection
  <2>2. IsFiniteSet(1..Left) /\ Cardinality(1..Left) = Left
    BY <1>2, FS_Interval
  <2> HIDE DEF f, A
  <2> QED
    BY <2>1, <2>2, FS_Surjection
<1>7. IsFiniteSet(B) /\ Cardinality(B) = Drained
  <2> DEFINE g == [i \in 1..Drained |-> replayed[i]]
  <2>1. g \in Surjection(1..Drained, B)
    BY DEF Surjection
  <2>2. ASSUME NEW i \in 1..Drained, NEW j \in 1..Drained, replayed[i] = replayed[j]
        PROVE  i = j
    <3>1. i \in DOMAIN replayed /\ j \in DOMAIN replayed
      BY <1>2
    <3>2. ~(i < j) /\ ~(j < i)
      BY <2>2, <3>1, <1>2 DEF ReplayInOrder, WrittenInv
    <3> QED
      BY <1>2, <3>2
  <2>3. g \in Injection(1..Drained, B)
    <3>1. g \in [1..Drained -> B]
      OBVIOUS
    <3>2. \A i, j \in 1..Drained : g[i] = g[j] => i = j
      BY <2>2
    <3> HIDE DEF g, B
    <3> QED
      BY <3>1, <3>2 DEF Injection, IsInjective
  <2>4. IsFiniteSet(1..Drained) /\ Cardinality(1..Drained) = Drained
    BY <1>2, FS_Interval
  <2> HIDE DEF g, B
  <2> QED
    BY <2>1, <2>3, <2>4, FS_Surjection
<1> HIDE DEF L, A, B
<1>8. A \cap B = B /\ L \subseteq A \ B
  BY <1>3, <1>4, <1>5
<1>9. IsFiniteSet(A \ B) /\ Cardinality(A \ B) = Cardinality(A) - Drained
  BY <1>6, <1>7, <1>8, FS_Difference
<1>10. Cardinality(L) <= Cardinality(A \ B) /\ IsFiniteSet(L)
  BY <1>8, <1>9, FS_Subset
<1>11. Cardinality(L) \in Nat /\ Cardinality(A) \in Nat
  BY <1>6, <1>10, FS_CardinalityType
<1>12. Left <= evictions + Drained /\ evictions \in Nat
  BY DEF DrainInv, TypeOK
<1>13. Cardinality(L) <= evictions
  BY <1>2, <1>6, <1>9, <1>10, <1>11, <1>12
<1> QED
  BY <1>13 DEF LossBoundedByEvictions, L

\* In any interleaving of live sends, drains and teardowns a batch that SendEvents
\* accepted is lost only because Write dropped one.
THEOREM TransportLossBounded == Spec => []LossBoundedByEvictions
  BY IInvHolds, LostAreEvicted, PTL

\* Through failing sends, failing spool writes and requeueAcks, for any number of
\* senders and results, a result is lost only with the batch that carries it; a batch
\* that was refused after a failed send gives its results back.
THEOREM TransportResultsKept == Spec => []ResultsKept
<1>1. IInv => ResultsKept
  BY DEF IInv
<1> QED
  BY IInvHolds, <1>1, PTL

=============================================================================
