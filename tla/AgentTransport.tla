--------------------------- MODULE AgentTransport ---------------------------
(***************************************************************************)
(* The agent's connection to the server (agent/internal/transport/         *)
(* grpc_client.go).  Collectors call SendEvents, which sends a batch on    *)
(* the current stream or writes it to the spool; RunWithReconnect dials,   *)
(* opens a stream, drains the spool, waits for the connection scope to be  *)
(* cancelled, tears down and starts again; receiveCommands and the         *)
(* watchdogs call signalDisconnect when the stream is dead.  All of them   *)
(* run concurrently and share `connected', `stream', `connCancel' and the  *)
(* spool, each under a mutex of its own; the steps below are the critical  *)
(* sections.                                                               *)
(*                                                                         *)
(* The spool is the abstract queue that RingBuffer implements: Write makes *)
(* room by dropping the oldest batch, ReadBatch copies from the front, Ack *)
(* removes from the front.  Of connection scopes only the current one is   *)
(* told apart from the earlier ones, which are all cancelled.              *)
(***************************************************************************)
EXTENDS Integers, Sequences, FiniteSets, SequencesExt

CONSTANTS
  Senders,      \* goroutines that call SendEvents
  SpoolCap,     \* how many batches the spool holds
  BatchSize,    \* batchSize of drainBuffer
  Outlasts,     \* TRUE: goroutines of a dead stream end within a backoff (5 s) and
                \* within stableConnThreshold, so that a session that they end is
                \* short-lived.  FALSE: nothing is assumed about time.
  MaxBatches,   \* bound on the calls of SendEvents, for TLC
  MaxResults,   \* bound on the calls of SendAck, for TLC
  MaxStale,     \* bound on receivers of earlier streams, for TLC
  MaxOutages,   \* bound on broken streams and lost networks, for TLC
  MaxFaults     \* bound on failing spool writes, for TLC

ASSUME TransportAssumption ==
  /\ SpoolCap \in Nat \ {0} /\ BatchSize \in Nat \ {0} /\ Outlasts \in BOOLEAN
  /\ MaxBatches \in Nat /\ MaxResults \in Nat /\ MaxStale \in Nat
  /\ MaxOutages \in Nat /\ MaxFaults \in Nat

VARIABLES
  connected,    \* c.connected
  hasStream,    \* c.stream is the stream of the current scope, not nil
  cancelled,    \* the context of the current scope is cancelled
  transport,    \* what carries the current stream: "up"; "closed" (the server closed
                \* the stream only); "half" (half-open: nothing gets through and
                \* nothing fails); "lost" (the connection failed)
  netUp,        \* environment: the server can be reached
  rpc,          \* where RunWithReconnect is
  mustRest,     \* the session is short-lived: back off before dialing again
  snap,         \* rawBatch: what drainBuffer has read and not yet sent
  snapFull,     \* len(rawBatch) = batchSize
  receiving,    \* receiveCommands of the current stream is running
  stale,        \* how many receiveCommands of earlier streams are running
  captured,     \* a receiver is about to cancel the current scope
  sender,       \* the call of SendEvents each sender is in
  spool,        \* the batches on disk, oldest first
  pendingAcks,  \* c.pendingAcks
  carried,      \* the acks that each batch carries
  results,      \* how many results SendAck was given
  outages, faults,
  sent,         \* history: batches for which stream.Send returned nil
  written,      \* history: batches written to the spool, in order
  replayed,     \* history: batches that drainBuffer sent, in order
  evictions,    \* history: how many batches Write dropped
  refused,      \* history: batches for which SendEvents returned an error
  silent        \* history: those of them whose results nobody put back

connVars == <<connected, hasStream, cancelled>>
loopVars == <<rpc, mustRest, snap, snapFull>>
envVars == <<transport, netUp, outages>>
ackVars == <<pendingAcks, carried, results>>
recvVars == <<receiving, stale, captured>>
spoolVars == <<spool, written, evictions, refused, silent, faults>>
logVars == <<sent, replayed>>
vars == <<connVars, loopVars, envVars, ackVars, spoolVars, logVars, recvVars, sender>>

Batches == 1..MaxBatches
Results == 1..MaxResults

LoopPCs == {"begin", "dial", "dialed", "open", "drain", "replay", "ack", "wait",
            "close", "sleep"}

\* A call of SendEvents.  `st' is the scope of the stream that it read, or the
\* scope that it is about to cancel; `live' tells the two places that call
\* bufferBatch apart.
SenderPCs == {"idle", "stream", "send", "blocked", "cancel", "buffer"}
Sender == [pc : SenderPCs, batch : 0..MaxBatches, st : {"none", "current", "earlier"},
           live : BOOLEAN]
Idle == [pc |-> "idle", batch |-> 0, st |-> "none", live |-> FALSE]

\* Batches that a sender still holds.
InFlight == {sender[s].batch : s \in Senders} \ {0}
Accepted == InFlight \cup sent \cup Range(written) \cup refused

\* Nothing of an earlier connection is about to call signalDisconnect.
Quiet ==
  /\ ~receiving /\ stale = 0 /\ ~captured
  /\ \A s \in Senders : sender[s].pc \notin {"send", "blocked", "cancel"}

Init ==
  /\ connected = FALSE /\ hasStream = FALSE /\ cancelled = TRUE
  /\ transport = "up" /\ netUp = TRUE /\ outages = 0 /\ faults = 0
  /\ rpc = "begin" /\ mustRest = FALSE /\ snap = <<>> /\ snapFull = FALSE
  /\ receiving = FALSE /\ stale = 0 /\ captured = FALSE
  /\ sender = [s \in Senders |-> Idle]
  /\ spool = <<>> /\ pendingAcks = {} /\ carried = [b \in Batches |-> {}] /\ results = 0
  /\ sent = {} /\ written = <<>> /\ replayed = <<>> /\ evictions = 0 /\ refused = {}
  /\ silent = {}

-----------------------------------------------------------------------------
(* The spool. *)

\* Defect: Write drops one batch more than it has to.
MakeRoomTwice(q) == IF Len(q) >= SpoolCap THEN SubSeq(q, 3, Len(q)) ELSE q

\* RingBuffer.Write: the queue after the drop-oldest loop.
MakeRoom(q) == IF Len(q) >= SpoolCap THEN Tail(q) ELSE q

\* RingBuffer.Ack(1).
AckOne(q) == IF q = <<>> THEN q ELSE Tail(q)

-----------------------------------------------------------------------------
(* signalDisconnect. *)

\* Its critical section; the caller then cancels the scope it captured there.
SignalDisconnect == connected' = FALSE /\ UNCHANGED <<hasStream, cancelled>>

\* Defect: the scope is not cancelled, only `connected' is cleared.
CancelNothing(st) == UNCHANGED connVars

\* cancel(): no effect if the scope is no longer the current one.
Cancel(st) ==
  /\ cancelled' = (cancelled \/ st = "current")
  /\ UNCHANGED <<connected, hasStream>>

\* Send on a stream can return nil.  It does so as long as the batch fits the
\* flow-control window, also when the transport has failed.
Usable(st) == st = "current" /\ ~cancelled

\* Send and Recv on a stream can return an error.
Dead(st) == ~Usable(st) \/ transport \in {"closed", "lost"}

\* sendMu is free: no send is blocked on a half-open stream.
SendMuFree == \A s \in Senders : sender[s].pc # "blocked"

\* A whole call of signalDisconnect.
Disconnect == connected' = FALSE /\ cancelled' = TRUE /\ UNCHANGED hasStream

-----------------------------------------------------------------------------
(* RunWithReconnect. *)

\* A new connection scope.  The one it replaces is cancelled, so a goroutine
\* that is still about to cancel that one does not matter any more.
Begin ==
  /\ rpc = "begin" /\ stale < MaxStale
  /\ cancelled' = FALSE /\ transport' = "up"
  /\ receiving' = FALSE /\ captured' = FALSE
  /\ stale' = IF receiving THEN stale + 1 ELSE stale
  /\ sender' = [s \in Senders |-> IF sender[s].st = "current"
                                   THEN [sender[s] EXCEPT !.st = "earlier"] ELSE sender[s]]
  /\ rpc' = "dial" /\ mustRest' = FALSE
  /\ UNCHANGED <<connected, hasStream, snap, snapFull, netUp, outages, ackVars, spoolVars, logVars>>

\* dialBlocking.
Dial ==
  /\ rpc = "dial" /\ ~cancelled /\ netUp
  /\ rpc' = "dialed"
  /\ UNCHANGED <<connVars, mustRest, snap, snapFull, envVars, ackVars, spoolVars, logVars,
                 recvVars, sender>>

DialFails ==
  /\ rpc = "dial" /\ (cancelled \/ ~netUp)
  /\ cancelled' = TRUE
  /\ rpc' = "sleep"
  /\ UNCHANGED <<connected, hasStream, mustRest, snap, snapFull, envVars, ackVars,
                 spoolVars, logVars, recvVars, sender>>

\* The end of Connect.
Connect ==
  /\ rpc = "dialed"
  /\ connected' = TRUE
  /\ rpc' = "open"
  /\ UNCHANGED <<hasStream, cancelled, mustRest, snap, snapFull, envVars, ackVars,
                 spoolVars, logVars, recvVars, sender>>

OpenStream ==
  /\ rpc = "open" /\ ~cancelled /\ netUp
  /\ hasStream' = TRUE /\ receiving' = TRUE
  /\ rpc' = "drain"
  /\ UNCHANGED <<connected, cancelled, mustRest, snap, snapFull, envVars, ackVars,
                 spoolVars, logVars, stale, captured, sender>>

OpenStreamFails ==
  /\ rpc = "open" /\ (cancelled \/ ~netUp)
  /\ cancelled' = TRUE
  /\ rpc' = "close" /\ mustRest' = TRUE
  /\ UNCHANGED <<connected, hasStream, snap, snapFull, envVars, ackVars, spoolVars,
                 logVars, recvVars, sender>>

\* drainBuffer: ctx is checked and ReadBatch copies the oldest batches.
DrainRead ==
  /\ rpc = "drain"
  /\ snap' = IF cancelled THEN <<>> ELSE SubSeq(spool, 1, IF Len(spool) < BatchSize
                                                           THEN Len(spool) ELSE BatchSize)
  /\ snapFull' = (Len(snap') = BatchSize)
  /\ rpc' = IF snap' = <<>> THEN "wait" ELSE "replay"
  /\ UNCHANGED <<connVars, mustRest, envVars, ackVars, spoolVars, logVars, recvVars, sender>>

\* drainBuffer sends the next batch of its copy.
DrainSend ==
  /\ rpc = "replay" /\ SendMuFree /\ Usable("current")
  /\ sent' = sent \cup {Head(snap)} /\ replayed' = Append(replayed, Head(snap))
  /\ rpc' = "ack"
  /\ UNCHANGED <<connVars, mustRest, snap, snapFull, envVars, ackVars, spoolVars, recvVars, sender>>

\* The send fails, or blocks until sendWithWatchdog gives up and calls
\* signalDisconnect.  The rest of the copy is forgotten.
DrainSendFails ==
  /\ rpc = "replay" /\ SendMuFree
  /\ \/ Dead("current") /\ UNCHANGED connVars
     \/ transport = "half" /\ Disconnect
  /\ snap' = <<>> /\ rpc' = "wait"
  /\ UNCHANGED <<mustRest, snapFull, envVars, ackVars, spoolVars, logVars, recvVars, sender>>

\* Defect: the copy is not advanced past the batch that was sent.
AfterReplayStuck(q) == q

\* The rest of the copy.
AfterReplay(q) == Tail(q)

\* buffer.Ack(1), which removes whatever batch is at the front now.
DrainAck ==
  /\ rpc = "ack"
  /\ spool' = AckOne(spool)
  /\ snap' = AfterReplay(snap)
  /\ rpc' = IF snap' # <<>> THEN "replay" ELSE IF snapFull THEN "drain" ELSE "wait"
  /\ UNCHANGED <<connVars, mustRest, snapFull, envVars, ackVars, written, evictions, refused,
                 silent, faults, logVars, recvVars, sender>>

\* waitForDisconnect returns: the scope was cancelled, or the connection's state
\* shows the failure.  A session that lasted long enough is not followed by a
\* backoff.
WaitForDisconnect ==
  /\ rpc = "wait" /\ (cancelled \/ transport = "lost")
  /\ cancelled' = TRUE
  /\ mustRest' \in {mustRest, TRUE}
  /\ rpc' = "close"
  /\ UNCHANGED <<connected, hasStream, snap, snapFull, envVars, ackVars, spoolVars,
                 logVars, recvVars, sender>>

\* closeConn.  Its two critical sections are one step: a sender that reads
\* c.stream between them finds the same dead stream as one that read it before.
CloseConn ==
  /\ rpc = "close"
  /\ connected' = FALSE /\ hasStream' = FALSE
  /\ rpc' = IF mustRest THEN "sleep" ELSE "begin"
  /\ UNCHANGED <<cancelled, mustRest, snap, snapFull, envVars, ackVars, spoolVars,
                 logVars, recvVars, sender>>

\* The backoff is over.
Wake ==
  /\ rpc = "sleep" /\ (Outlasts => Quiet)
  /\ rpc' = "begin"
  /\ UNCHANGED <<connVars, mustRest, snap, snapFull, envVars, ackVars, spoolVars, logVars,
                 recvVars, sender>>

-----------------------------------------------------------------------------
(* receiveCommands and its watchdog. *)

\* Recv of the current stream returns an error: signalDisconnect.
ReceiveFails ==
  /\ receiving /\ Dead("current")
  /\ SignalDisconnect
  /\ receiving' = FALSE /\ captured' = TRUE
  /\ UNCHANGED <<stale, loopVars, envVars, ackVars, spoolVars, logVars, sender>>

\* Recv of an earlier stream returns its error late: signalDisconnect clears
\* `connected' and captures the current scope all the same.
StaleReceiveFails ==
  /\ stale > 0 /\ stale' = stale - 1
  /\ SignalDisconnect
  /\ captured' = TRUE
  /\ mustRest' = (mustRest \/ Outlasts)
  /\ UNCHANGED <<receiving, rpc, snap, snapFull, envVars, ackVars, spoolVars, logVars, sender>>

\* runRecvWatchdog: nothing was received for too long.
RecvWatchdog ==
  /\ receiving /\ Usable("current") /\ transport = "half" /\ ~captured
  /\ SignalDisconnect
  /\ captured' = TRUE
  /\ UNCHANGED <<receiving, stale, loopVars, envVars, ackVars, spoolVars, logVars, sender>>

ReceiverCancels ==
  /\ captured /\ captured' = FALSE
  /\ Cancel("current")
  /\ UNCHANGED <<receiving, stale, loopVars, envVars, ackVars, spoolVars, logVars, sender>>

-----------------------------------------------------------------------------
(* SendEvents and SendAck. *)

\* SendEvents takes the pending acks into a new batch and reads `connected'.
SendEvents(s) ==
  /\ sender[s].pc = "idle"
  /\ \E b \in Batches \ Accepted :
       /\ \A d \in Batches \ Accepted : b <= d
       /\ carried' = [carried EXCEPT ![b] = pendingAcks]
       /\ sender' = [sender EXCEPT ![s] =
            [Idle EXCEPT !.pc = IF connected THEN "stream" ELSE "buffer", !.batch = b]]
  /\ pendingAcks' = {}
  /\ UNCHANGED <<connVars, loopVars, envVars, results, spoolVars, logVars, recvVars>>

\* It reads c.stream.
ReadStream(s) ==
  /\ sender[s].pc = "stream"
  /\ sender' = [sender EXCEPT ![s].st = IF hasStream THEN "current" ELSE "none",
                              ![s].pc = IF hasStream THEN "send" ELSE "buffer"]
  /\ UNCHANGED <<connVars, loopVars, envVars, ackVars, spoolVars, logVars, recvVars>>

LiveSend(s) ==
  /\ sender[s].pc = "send" /\ SendMuFree /\ Usable(sender[s].st)
  /\ sent' = sent \cup {sender[s].batch}
  /\ sender' = [sender EXCEPT ![s] = Idle]
  /\ UNCHANGED <<connVars, loopVars, envVars, ackVars, spoolVars, replayed, recvVars>>

\* Send blocks on a half-open stream, with sendMu held.
LiveSendBlocks(s) ==
  /\ sender[s].pc = "send" /\ SendMuFree /\ Usable(sender[s].st) /\ transport = "half"
  /\ sender' = [sender EXCEPT ![s].pc = "blocked"]
  /\ UNCHANGED <<connVars, loopVars, envVars, ackVars, spoolVars, logVars, recvVars>>

\* sendWithWatchdog gives up: signalDisconnect, which makes the blocked send
\* return an error, unless the stream is one of an earlier scope already.
LiveSendTimeout(s) ==
  /\ sender[s].pc = "blocked" /\ ~Dead(sender[s].st)
  /\ Disconnect
  /\ UNCHANGED <<loopVars, envVars, ackVars, spoolVars, logVars, recvVars, sender>>

\* Send returns an error: signalDisconnect, whatever scope is current now.
LiveSendFails(s) ==
  /\ Dead(sender[s].st)
  /\ sender[s].pc = "blocked" \/ (sender[s].pc = "send" /\ SendMuFree)
  /\ SignalDisconnect
  /\ sender' = [sender EXCEPT ![s].pc = "cancel", ![s].st = "current", ![s].live = TRUE]
  /\ mustRest' = (mustRest \/ (Outlasts /\ sender[s].st = "earlier"))
  /\ UNCHANGED <<rpc, snap, snapFull, envVars, ackVars, spoolVars, logVars, recvVars>>

SenderCancels(s) ==
  /\ sender[s].pc = "cancel"
  /\ Cancel(sender[s].st)
  /\ sender' = [sender EXCEPT ![s].pc = "buffer", ![s].st = "none"]
  /\ UNCHANGED <<loopVars, envVars, ackVars, spoolVars, logVars, recvVars>>

\* Defect: the acks go back to the queue although the batch was buffered.
BufferBatchRequeues(s) ==
  /\ sender[s].pc = "buffer"
  /\ spool' = Append(MakeRoom(spool), sender[s].batch)
  /\ written' = Append(written, sender[s].batch)
  /\ evictions' = IF Len(spool) >= SpoolCap THEN evictions + 1 ELSE evictions
  /\ pendingAcks' = pendingAcks \cup carried[sender[s].batch]
  /\ sender' = [sender EXCEPT ![s] = Idle]
  /\ UNCHANGED <<connVars, loopVars, envVars, carried, results, refused, silent, faults, logVars,
                 recvVars>>

\* Defect: a full spool makes the sender wait instead of dropping the oldest.
BufferBatchWaits(s) ==
  /\ sender[s].pc = "buffer" /\ Len(spool) < SpoolCap
  /\ spool' = Append(spool, sender[s].batch)
  /\ written' = Append(written, sender[s].batch)
  /\ sender' = [sender EXCEPT ![s] = Idle]
  /\ UNCHANGED <<connVars, loopVars, envVars, ackVars, evictions, refused, silent, faults, logVars,
                 recvVars>>

\* bufferBatch succeeds.
BufferBatch(s) ==
  /\ sender[s].pc = "buffer"
  /\ spool' = Append(MakeRoom(spool), sender[s].batch)
  /\ written' = Append(written, sender[s].batch)
  /\ evictions' = IF Len(spool) >= SpoolCap THEN evictions + 1 ELSE evictions
  /\ sender' = [sender EXCEPT ![s] = Idle]
  /\ UNCHANGED <<connVars, loopVars, envVars, ackVars, refused, silent, faults, logVars, recvVars>>

\* Defect: the path after a failed send does not put the results back either.
RequeueNot(s) == UNCHANGED ackVars

\* requeueAcks, which only the path after a failed send calls.
Requeue(s) ==
  /\ pendingAcks' = IF sender[s].live THEN pendingAcks \cup carried[sender[s].batch]
                                      ELSE pendingAcks
  /\ UNCHANGED <<carried, results>>

\* bufferBatch fails (after it made room): the batch is lost, and the caller is told.
BufferBatchFails(s) ==
  /\ sender[s].pc = "buffer"
  /\ faults < MaxFaults /\ faults' = faults + 1
  /\ spool' = MakeRoom(spool)
  /\ evictions' = IF Len(spool) >= SpoolCap THEN evictions + 1 ELSE evictions
  /\ refused' = refused \cup {sender[s].batch}
  /\ silent' = IF sender[s].live THEN silent ELSE silent \cup {sender[s].batch}
  /\ Requeue(s)
  /\ sender' = [sender EXCEPT ![s] = Idle]
  /\ UNCHANGED <<connVars, loopVars, envVars, written, logVars, recvVars>>

\* The executor reports the result of a command.
SendAck ==
  /\ results < MaxResults
  /\ results' = results + 1
  /\ pendingAcks' = pendingAcks \cup {results + 1}
  /\ UNCHANGED <<connVars, loopVars, envVars, carried, spoolVars, logVars, recvVars, sender>>

-----------------------------------------------------------------------------
(* The network. *)

\* The stream, its connection, or the whole network fails.
Outage ==
  /\ outages < MaxOutages /\ outages' = outages + 1
  /\ \/ transport' \in {"closed", "half"} /\ UNCHANGED netUp
     \/ transport' = "lost" /\ netUp' \in {netUp, FALSE}
  /\ UNCHANGED <<connVars, loopVars, ackVars, spoolVars, logVars, recvVars, sender>>

NetworkReturns ==
  /\ ~netUp /\ netUp' = TRUE
  /\ UNCHANGED <<connVars, loopVars, transport, outages, ackVars, spoolVars, logVars, recvVars, sender>>

Loop ==
  \/ Begin \/ Dial \/ DialFails \/ Connect \/ OpenStream \/ OpenStreamFails
  \/ DrainRead \/ DrainSend \/ DrainSendFails \/ DrainAck
  \/ WaitForDisconnect \/ CloseConn \/ Wake

Receive == ReceiveFails \/ StaleReceiveFails \/ RecvWatchdog \/ ReceiverCancels

\* The steps of a call of SendEvents after its first.
Continue(s) ==
  \/ ReadStream(s) \/ LiveSend(s) \/ LiveSendBlocks(s) \/ LiveSendTimeout(s) \/ LiveSendFails(s)
  \/ SenderCancels(s) \/ BufferBatch(s) \/ BufferBatchFails(s)

Next ==
  \/ Loop
  \/ Receive
  \/ \E s \in Senders : SendEvents(s) \/ Continue(s)
  \/ SendAck \/ Outage \/ NetworkReturns

\* Every goroutine gets to run, and the network comes back when it was lost.
\* Nothing makes a collector call SendEvents, or the network fail.
Fairness ==
  /\ WF_vars(Loop)
  /\ WF_vars(ReceiveFails) /\ WF_vars(StaleReceiveFails) /\ WF_vars(RecvWatchdog)
  /\ WF_vars(ReceiverCancels)
  /\ \A s \in Senders : WF_vars(Continue(s))
  /\ WF_vars(NetworkReturns)

Spec == Init /\ [][Next]_vars /\ Fairness

-----------------------------------------------------------------------------
\* Type invariant.
TypeOK ==
  /\ connected \in BOOLEAN /\ cancelled \in BOOLEAN /\ transport \in {"up", "closed", "half", "lost"} /\ netUp \in BOOLEAN
  /\ hasStream \in BOOLEAN /\ receiving \in BOOLEAN /\ captured \in BOOLEAN
  /\ stale \in 0..MaxStale
  /\ rpc \in LoopPCs /\ mustRest \in BOOLEAN /\ snapFull \in BOOLEAN
  /\ sender \in [Senders -> Sender]
  /\ spool \in Seq(Batches) /\ Len(spool) <= SpoolCap
  /\ snap \in Seq(Batches) /\ Len(snap) <= BatchSize
  /\ pendingAcks \subseteq Results /\ carried \in [Batches -> SUBSET Results]
  /\ results \in 0..MaxResults /\ outages \in 0..MaxOutages /\ faults \in 0..MaxFaults
  /\ sent \subseteq Batches /\ written \in Seq(Batches) /\ replayed \in Seq(Batches)
  /\ evictions \in Nat /\ refused \subseteq Batches /\ silent \subseteq refused

\* RunWithReconnect never waits on a connection that everybody else takes for
\* lost: if SendEvents sees `connected' FALSE (and buffers) while
\* waitForDisconnect blocks, the scope is cancelled, or a goroutine is about to
\* cancel it.  Otherwise the agent would buffer for ever and receive no
\* command, which is what signalDisconnect was written to prevent.
NeverWedged ==
  rpc = "wait" /\ ~connected =>
    \/ cancelled
    \/ captured
    \/ \E s \in Senders : sender[s].pc = "cancel" /\ sender[s].st = "current"

\* A batch that SendEvents accepted is lost only to the spool's capacity: there
\* are never more batches that are neither sent, nor on disk, nor with a sender
\* than Write has dropped, in any interleaving of live sends, drains and teardowns.
LossBoundedByEvictions ==
  Cardinality(Accepted \ (InFlight \cup sent \cup Range(spool) \cup refused)) <= evictions

\* drainBuffer replays the batches in the order in which they were spooled, and
\* none twice, also when drains are cut short and live writes push batches out.
ReplayInOrder ==
  \A i, j \in DOMAIN replayed : i < j =>
    \E k, l \in DOMAIN written : k < l /\ written[k] = replayed[i] /\ written[l] = replayed[j]

\* Batches that may still reach the server, or did.
Alive == InFlight \cup sent \cup Range(spool)

\* A command result is in one place only: it waits, or travels with one batch.
\* Retrying after a failed send never reports a result twice.
ResultInOnePlace ==
  /\ \A b \in Alive : carried[b] \cap pendingAcks = {}
  /\ \A b, d \in Alive : b # d => carried[b] \cap carried[d] = {}

\* The result of a command that the executor reported is never just gone: it waits,
\* or a batch carries it that was sent, spooled or is in a sender's hands, in any
\* interleaving of failing sends, failing spool writes and new batches that take what
\* waits.  The exception is a batch that the spool refused on the offline path, where
\* SendEvents returns the error and does not call requeueAcks.
ResultsKept ==
  \A r \in 1..results :
    \/ r \in pendingAcks
    \/ \E b \in InFlight \cup sent \cup Range(written) \cup silent : r \in carried[b]

\* The agent is connected and RunWithReconnect waits for that to end.
Online == rpc = "wait" /\ connected /\ hasStream /\ ~cancelled /\ transport = "up"

\* Once the network stops failing, the agent gets connected and stays connected:
\* late signalDisconnect calls of dead streams do not tear down one connection
\* after the other, and no step waits for another that never comes.
EventuallyOnline == <>[]Online

\* Every call of SendEvents returns.
SendReturns == \A s \in Senders : sender[s].pc # "idle" ~> sender[s].pc = "idle"

=============================================================================
