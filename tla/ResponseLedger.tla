--------------------------- MODULE ResponseLedger ---------------------------
(***************************************************************************)
(* The way of a response command from the API to the agent and of its      *)
(* result back into the row of response_actions that accounts for it:      *)
(*   - the gatekeeper and the handlers record the row, publish the command *)
(*     and update the row (server/internal/isolation/isolation.go,         *)
(*     store/rules.go, store/response_actions.go);                         *)
(*   - the bridge relays the command from the durable stream into a queue  *)
(*     in memory (server/cmd/ingestion/main.go, command_dispatcher.go);    *)
(*   - EventStream takes the queue and sends it down (ingestion/handler.go)*)
(*   - the agent executes and acknowledges; applyCommandAcks closes the row*)
(*   - a worker expires the rows that stay open (response_action_timeout). *)
(* All of these run in different processes, and each may stop between two  *)
(* of its steps.  The commands are addressed to one agent.                 *)
(***************************************************************************)
EXTENDS Integers, Sequences, SequencesExt

CONSTANTS
  Commands,    \* the commands issued
  Kind,        \* what each of them does: "isolate", "unisolate" or "kill_process"
  MaxFaults    \* bound on lost messages, failing calls and restarts, for TLC

Kinds == {"isolate", "unisolate", "kill_process"}
Nobody == "nobody"

ASSUME LedgerAssumption ==
  Kind \in [Commands -> Kinds] /\ Nobody \notin Commands /\ MaxFaults \in Nat

VARIABLES
  row,         \* status_text of each command's row; "none" if it was not recorded
  old,         \* the rows whose executed_at lies further back than the timeout
  issuer,      \* where the call that issues each command is
  stream,      \* the COMMANDS stream: messages not yet acknowledged, oldest first
  relaying,    \* the message whose callback is between relay and Ack
  unconfirmed, \* messages whose Ack got lost, before they are delivered again
  queue,       \* d.queues[agentID]
  cmds,        \* what EventStream has dequeued and not yet sent
  inbox,       \* commands on their way to the agent, or waiting there
  acks,        \* results on their way back: the command and whether it succeeded
  faults,
  published,   \* history: the commands in the order in which they were published
  executed,    \* history: the commands in the order in which the agent executed them
  outcomes,    \* history: the results of these executions
  answered,    \* history: commands whose result reached the row under its id while
               \* it was open and the call that issued the command had ended
  repeated     \* history: a message was delivered to the bridge twice

apiVars == <<issuer, published>>
bridgeVars == <<stream, relaying, unconfirmed, repeated>>
downVars == <<queue, cmds, inbox>>
agentVars == <<executed, outcomes>>
rowVars == <<row, old, answered>>
vars == <<apiVars, bridgeVars, downVars, agentVars, rowVars, acks, faults>>

Open == {"pending", "dispatched"}
Terminal == {"success", "failure", "timeout"}
Results == [cmd : Commands, ok : BOOLEAN]

Init ==
  /\ row = [c \in Commands |-> "none"] /\ old = {}
  /\ issuer = [c \in Commands |-> "record"] /\ published = <<>>
  /\ stream = <<>> /\ relaying = Nobody /\ unconfirmed = {} /\ repeated = FALSE
  /\ queue = <<>> /\ cmds = <<>> /\ inbox = <<>>
  /\ acks = {} /\ faults = 0
  /\ executed = <<>> /\ outcomes = {} /\ answered = {}

Fault == faults < MaxFaults /\ faults' = faults + 1

-----------------------------------------------------------------------------
(* The API server. *)

\* The row is recorded before the command is sent, so that its id can travel with
\* the command.
Record(c) ==
  /\ issuer[c] = "record"
  /\ row' = [row EXCEPT ![c] = "pending"]
  /\ issuer' = [issuer EXCEPT ![c] = "publish"]
  /\ UNCHANGED <<published, bridgeVars, downVars, agentVars, old, answered, acks, faults>>

\* The INSERT fails: the command is sent without a row.
RecordFails(c) ==
  /\ issuer[c] = "record" /\ Fault
  /\ issuer' = [issuer EXCEPT ![c] = "publish"]
  /\ UNCHANGED <<published, bridgeVars, downVars, agentVars, rowVars, acks>>

\* nc.Publish.
Send(c) ==
  /\ stream' = Append(stream, c)
  /\ published' = Append(published, c)

Publish(c) ==
  /\ issuer[c] = "publish"
  /\ Send(c)
  /\ issuer' = [issuer EXCEPT ![c] = "dispatched"]
  /\ UNCHANGED <<relaying, unconfirmed, repeated, downVars, agentVars, rowVars, acks, faults>>

\* The call returns an error.  Unisolate publishes first and updates the agents
\* table then, so that its error may come after the command is on its way.
PublishFails(c) ==
  /\ issuer[c] = "publish" /\ Fault
  /\ \/ UNCHANGED <<stream, published>>
     \/ Kind[c] = "unisolate" /\ Send(c)
  /\ issuer' = [issuer EXCEPT ![c] = "failure"]
  /\ UNCHANGED <<relaying, unconfirmed, repeated, downVars, agentVars, rowVars, acks>>

\* Defect: a command that was sent is recorded as one that succeeded.
CompleteAsSuccess(c) ==
  /\ issuer[c] \in {"dispatched", "failure"}
  /\ row' = IF row[c] = "none" THEN row
              ELSE [row EXCEPT ![c] = IF issuer[c] = "dispatched" THEN "success" ELSE "failure"]
  /\ issuer' = [issuer EXCEPT ![c] = "done"]
  /\ UNCHANGED <<published, bridgeVars, downVars, agentVars, old, answered, acks, faults>>

\* complete: UPDATE of the row, whatever it says by now.  Nothing if there is no row.
Complete(c) ==
  /\ issuer[c] \in {"dispatched", "failure"}
  /\ row' = IF row[c] = "none" THEN row ELSE [row EXCEPT ![c] = issuer[c]]
  /\ issuer' = [issuer EXCEPT ![c] = "done"]
  /\ UNCHANGED <<published, bridgeVars, downVars, agentVars, old, answered, acks, faults>>

\* The UPDATE fails, or the API server stops in the middle of the call.
IssuerStops(c) ==
  /\ issuer[c] \notin {"record", "done"} /\ Fault
  /\ issuer' = [issuer EXCEPT ![c] = "done"]
  /\ UNCHANGED <<published, bridgeVars, downVars, agentVars, rowVars, acks>>

-----------------------------------------------------------------------------
(* The bridge and EventStream, in the ingestion server. *)

\* The stream delivers its oldest message that it does not take for delivered.
Deliverable(i) == stream[i] \notin unconfirmed /\ \A j \in 1..(i - 1) : stream[j] \in unconfirmed

\* The message callback relays a message into the queue.
Relay ==
  /\ relaying = Nobody
  /\ \E i \in DOMAIN stream :
       /\ Deliverable(i)
       /\ relaying' = stream[i] /\ queue' = Append(queue, stream[i])
  /\ UNCHANGED <<apiVars, stream, unconfirmed, repeated, cmds, inbox, agentVars, rowVars,
                 acks, faults>>

\* The callback acknowledges the message.
AckMessage ==
  /\ relaying # Nobody
  /\ \E i \in DOMAIN stream : stream[i] = relaying /\ stream' = RemoveAt(stream, i)
  /\ relaying' = Nobody
  /\ UNCHANGED <<apiVars, unconfirmed, repeated, downVars, agentVars, rowVars, acks, faults>>

\* The acknowledgement is lost; the stream delivers the message again later.
AckMessageLost ==
  /\ relaying # Nobody /\ Fault
  /\ unconfirmed' = unconfirmed \cup {relaying}
  /\ relaying' = Nobody
  /\ UNCHANGED <<apiVars, stream, repeated, downVars, agentVars, rowVars, acks>>

Redeliver ==
  /\ unconfirmed # {}
  /\ unconfirmed' = {} /\ repeated' = TRUE
  /\ UNCHANGED <<apiVars, stream, relaying, downVars, agentVars, rowVars, acks, faults>>

\* Defect: the queue is handed out newest first.
DequeueReversed ==
  /\ cmds = <<>> /\ queue # <<>>
  /\ cmds' = Reverse(queue) /\ queue' = <<>>
  /\ UNCHANGED <<apiVars, bridgeVars, inbox, agentVars, rowVars, acks, faults>>

\* EventStream's ticker: Dequeue takes the whole queue.
Dequeue ==
  /\ cmds = <<>> /\ queue # <<>>
  /\ cmds' = queue /\ queue' = <<>>
  /\ UNCHANGED <<apiVars, bridgeVars, inbox, agentVars, rowVars, acks, faults>>

SendCommand ==
  /\ cmds # <<>>
  /\ inbox' = Append(inbox, Head(cmds)) /\ cmds' = Tail(cmds)
  /\ UNCHANGED <<apiVars, bridgeVars, queue, agentVars, rowVars, acks, faults>>

\* stream.Send fails and EventStream returns, with the rest of what it dequeued.
SendCommandFails ==
  /\ cmds # <<>> /\ Fault
  /\ cmds' = <<>>
  /\ UNCHANGED <<apiVars, bridgeVars, queue, inbox, agentVars, rowVars, acks>>

\* The ingestion server restarts: its memory is gone, and the stream delivers what
\* was not acknowledged.
IngestionRestarts ==
  /\ Fault
  /\ repeated' = (repeated \/ relaying # Nobody \/ unconfirmed # {})
  /\ queue' = <<>> /\ cmds' = <<>> /\ relaying' = Nobody /\ unconfirmed' = {}
  /\ UNCHANGED <<apiVars, stream, inbox, agentVars, rowVars, acks>>

-----------------------------------------------------------------------------
(* The agent. *)

\* The executor carries a command out and hands its result to SendAck.
Execute ==
  /\ inbox # <<>>
  /\ inbox' = Tail(inbox)
  /\ executed' = Append(executed, Head(inbox))
  /\ \E ok \in BOOLEAN :
       /\ acks' = acks \cup {[cmd |-> Head(inbox), ok |-> ok]}
       /\ outcomes' = outcomes \cup {[cmd |-> Head(inbox), ok |-> ok]}
  /\ UNCHANGED <<apiVars, bridgeVars, queue, cmds, rowVars, faults>>

\* The connection breaks, or the agent restarts: commands and results that are
\* under way are lost.
AgentLoses ==
  /\ Fault
  /\ inbox' = <<>> /\ acks' = {}
  /\ UNCHANGED <<apiVars, bridgeVars, queue, cmds, agentVars, rowVars>>

-----------------------------------------------------------------------------
(* The rows. *)

\* The id that travels with a command: that of the row for isolate; for all other
\* kinds the bridge makes one up from the subject.
CarriesRowId(c) == Kind[c] = "isolate" /\ row[c] # "none"

\* Defect: a result closes only a row that says the command was sent.
ClosableDispatched(c) == row[c] = "dispatched"

\* Defect: a result closes the row whatever its state.
ClosableAlways(c) == TRUE

\* The rows that a result may close.
Closable(c) == row[c] \in Open

\* The status that a result gives its row.
Final(a) == IF a.ok THEN "success" ELSE "failure"

\* One round of applyCommandAcks.
ApplyCommandAck(a) ==
  /\ a \in acks /\ acks' = acks \ {a}
  /\ IF CarriesRowId(a.cmd) /\ Closable(a.cmd)
       THEN row' = [row EXCEPT ![a.cmd] = Final(a)]
       ELSE UNCHANGED row
  /\ answered' = IF CarriesRowId(a.cmd) /\ row[a.cmd] \in Open /\ issuer[a.cmd] = "done"
                   THEN answered \cup {a.cmd} ELSE answered
  /\ UNCHANGED <<apiVars, bridgeVars, downVars, agentVars, old, faults>>

\* Its UPDATE fails, which is logged: the result is gone.
ApplyCommandAckFails(a) ==
  /\ Fault
  /\ acks' = acks \ {a}
  /\ UNCHANGED <<apiVars, bridgeVars, downVars, agentVars, rowVars>>

\* A row gets older than the timeout.
GrowOld(c) ==
  /\ row[c] # "none" /\ c \notin old
  /\ old' = old \cup {c}
  /\ UNCHANGED <<apiVars, bridgeVars, downVars, agentVars, row, answered, acks, faults>>

\* Defect: rows that were never dispatched are not expired.
StaleDispatchedOnly(c) == row[c] = "dispatched" /\ c \in old

\* What ExpireStale selects.
Stale(c) == row[c] \in Open /\ c \in old

\* The sweep of the timeout worker.
ExpireStale ==
  /\ \E c \in Commands : Stale(c)
  /\ row' = [c \in Commands |-> IF Stale(c) THEN "timeout" ELSE row[c]]
  /\ UNCHANGED <<apiVars, bridgeVars, downVars, agentVars, old, answered, acks, faults>>

Issue(c) == Record(c) \/ RecordFails(c) \/ Publish(c) \/ PublishFails(c) \/ Complete(c)
              \/ IssuerStops(c)

Deliver ==
  \/ Relay \/ AckMessage \/ AckMessageLost \/ Redeliver
  \/ Dequeue \/ SendCommand \/ SendCommandFails \/ IngestionRestarts

Next ==
  \/ \E c \in Commands : Issue(c) \/ GrowOld(c)
  \/ Deliver \/ Execute \/ AgentLoses
  \/ \E a \in acks : ApplyCommandAck(a) \/ ApplyCommandAckFails(a)
  \/ ExpireStale

\* Calls of the API end, time passes and the worker sweeps.  Nothing is assumed of
\* the stream, the ingestion server, the network and the agent.
Fairness ==
  /\ \A c \in Commands : WF_vars(Issue(c)) /\ WF_vars(GrowOld(c))
  /\ WF_vars(ExpireStale)

Spec == Init /\ [][Next]_vars /\ Fairness

-----------------------------------------------------------------------------
\* Type invariant.
TypeOK ==
  /\ row \in [Commands -> {"none"} \cup Open \cup Terminal]
  /\ old \subseteq Commands /\ answered \subseteq Commands
  /\ issuer \in [Commands -> {"record", "publish", "dispatched", "failure", "done"}]
  /\ stream \in Seq(Commands) /\ queue \in Seq(Commands) /\ cmds \in Seq(Commands)
  /\ inbox \in Seq(Commands) /\ published \in Seq(Commands) /\ executed \in Seq(Commands)
  /\ relaying \in Commands \cup {Nobody} /\ unconfirmed \subseteq Commands
  /\ acks \subseteq Results /\ outcomes \subseteq Results
  /\ repeated \in BOOLEAN /\ faults \in 0..MaxFaults

\* The audit rows do not overstate what was done: "success" only if the agent
\* carried the command out, "failure" only if the agent reported a failure or the
\* command never left the server.  Unisolate is the exception: it may fail after
\* its command has left.
RowsTellTruth ==
  \A c \in Commands :
    /\ row[c] = "success" => [cmd |-> c, ok |-> TRUE] \in outcomes
    /\ row[c] = "failure" => \/ [cmd |-> c, ok |-> FALSE] \in outcomes
                             \/ c \notin Range(published)
                             \/ Kind[c] = "unisolate"

\* A row that has reached its final state changes only by the call that issued the
\* command, whose own update comes after the command is out.  Late and repeated
\* results and later sweeps leave it alone.
OnlyIssuerReopens ==
  [][\A c \in Commands :
       row[c] \in Terminal /\ row'[c] # row[c] => issuer[c] # "done" /\ issuer'[c] = "done"]_vars

\* No row stays open for ever, whatever is lost on the way and wherever the issuing
\* call stopped: an operator never sees a command as still running for good.
EventuallyClosed == \A c \in Commands : <>[](row[c] \notin Open)

\* The agent executes commands in the order in which they were published, and none
\* twice, through queue hand-overs, failed sends and restarts, as long as the
\* stream does not deliver a message again.
DeliveredInOrder ==
  ~repeated =>
    \A i, j \in DOMAIN executed : i < j =>
      \E k, l \in DOMAIN published : k < l /\ published[k] = executed[i] /\ published[l] = executed[j]

\* A row says timeout only if no result came in time: "timeout" was separated from
\* "failure" so as not to mix "no result was returned" with "the agent refused"
\* (store/response_actions.go, ExpireStale).  Two kinds of result are excepted, which
\* the code does lose: those of commands that do not carry the id of their row, and
\* those that come while the issuing call has yet to write "dispatched".
TimeoutMeansSilence == \A c \in Commands : row[c] = "timeout" => c \notin answered

=============================================================================
