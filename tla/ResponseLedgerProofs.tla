------------------------ MODULE ResponseLedgerProofs ------------------------
(***************************************************************************)
(* What the rows of response_actions say is true, and commands reach the   *)
(* agent in order, for any set of commands and any number of losses,       *)
(* failing calls and restarts.                                             *)
(***************************************************************************)
EXTENDS ResponseLedger, TLAPS

(***************************************************************************)
(* Nothing is on its way to the agent that was not published, nothing on   *)
(* its way back that the agent did not report.                             *)
(***************************************************************************)
Sent(s) == Range(s) \subseteq Range(published)

WayInv ==
  /\ Sent(stream) /\ Sent(queue) /\ Sent(cmds) /\ Sent(inbox) /\ Sent(executed)
  /\ relaying # Nobody => relaying \in Range(stream)
  /\ acks \subseteq outcomes
  /\ \A a \in outcomes : a.cmd \in Range(published)

(***************************************************************************)
(* How far the issuing call has come bounds what the row can say and       *)
(* whether the command can be out: until it is published no result can     *)
(* have closed the row.                                                    *)
(***************************************************************************)
IssuerInv ==
  \A c \in Commands :
    /\ issuer[c] = "record" => row[c] = "none"
    /\ issuer[c] = "publish" => row[c] \in {"none", "pending", "timeout"}
    /\ issuer[c] \in {"record", "publish"} => c \notin Range(published)
    /\ issuer[c] = "failure" => c \notin Range(published) \/ Kind[c] = "unisolate"

AnsweredInv == \A c \in answered : issuer[c] = "done" /\ row[c] \in {"success", "failure"}

LedgerInv == TypeOK /\ WayInv /\ IssuerInv /\ AnsweredInv /\ RowsTellTruth

(***************************************************************************)
(* Order: p is the order of publication.  While nothing is delivered twice *)
(* the way to the agent is one line: whatever has left the stream comes    *)
(* before whatever is still ahead, and within each queue and from queue to *)
(* queue the order is that of publication.                                 *)
(***************************************************************************)
InOrder(p, c, d) == \E k, l \in DOMAIN p : k < l /\ p[k] = c /\ p[l] = d
Ordered(p, s) == \A i, j \in DOMAIN s : i < j => InOrder(p, s[i], s[j])
Precede(p, A, B) == \A a \in A, b \in B : InOrder(p, a, b)

\* The messages that the stream has still to deliver to the bridge.
Ahead == {d \in Range(stream) : d \notin unconfirmed /\ d # relaying}

LineInv ==
  /\ Ordered(published, queue) /\ Ordered(published, cmds)
  /\ Ordered(published, inbox) /\ Ordered(published, executed)
  /\ Precede(published, Range(queue), Ahead)
  /\ Precede(published, Range(cmds), Range(queue) \cup Ahead)
  /\ Precede(published, Range(inbox), Range(cmds) \cup Range(queue) \cup Ahead)
  /\ Precede(published, Range(executed),
             Range(inbox) \cup Range(cmds) \cup Range(queue) \cup Ahead)

Distinct(p) == \A k, l \in DOMAIN p : p[k] = p[l] => k = l

OrderInv == Distinct(published) /\ Ordered(published, stream) /\ (~repeated => LineInv)

-----------------------------------------------------------------------------
(* Sequences. *)

LEMMA RangeAppend ==
  ASSUME NEW S, NEW s \in Seq(S), NEW x \in S
  PROVE  Append(s, x) \in Seq(S) /\ Range(Append(s, x)) = Range(s) \cup {x}
  <1>1. /\ Append(s, x) \in Seq(S) /\ DOMAIN Append(s, x) = 1..(Len(s) + 1)
        /\ \A i \in 1..Len(s) : Append(s, x)[i] = s[i]
        /\ Append(s, x)[Len(s) + 1] = x
    OBVIOUS
  <1>2. DOMAIN s = 1..Len(s) /\ Len(s) \in Nat
    OBVIOUS
  <1>3. Range(Append(s, x)) \subseteq Range(s) \cup {x}
    BY <1>1, <1>2 DEF Range
  <1>4. Range(s) \cup {x} \subseteq Range(Append(s, x))
    BY <1>1, <1>2 DEF Range
  <1> QED
    BY <1>1, <1>3, <1>4

LEMMA RangeHeadTail ==
  ASSUME NEW S, NEW s \in Seq(S), s # <<>>
  PROVE  /\ Head(s) \in S /\ Tail(s) \in Seq(S)
         /\ Head(s) \in Range(s) /\ Range(Tail(s)) \subseteq Range(s)
  <1>1. /\ Head(s) = s[1] /\ 1 \in DOMAIN s /\ Tail(s) \in Seq(S)
        /\ DOMAIN Tail(s) = 1..(Len(s) - 1) /\ DOMAIN s = 1..Len(s)
        /\ \A i \in 1..(Len(s) - 1) : Tail(s)[i] = s[i + 1]
    OBVIOUS
  <1>2. Range(Tail(s)) \subseteq Range(s)
    BY <1>1 DEF Range
  <1> QED
    BY <1>1, <1>2 DEF Range

LEMMA RangeEmpty == Range(<<>>) = {}
  BY DEF Range

\* What RemoveAt leaves, and where it was.
LEMMA RemoveAtSeq ==
  ASSUME NEW S, NEW s \in Seq(S), NEW i \in DOMAIN s
  PROVE  /\ RemoveAt(s, i) \in Seq(S)
         /\ DOMAIN RemoveAt(s, i) = 1..(Len(s) - 1)
         /\ \A j \in 1..(Len(s) - 1) :
              RemoveAt(s, i)[j] = s[IF j < i THEN j ELSE j + 1]
  <1> DEFINE a == SubSeq(s, 1, i - 1)
             b == SubSeq(s, i + 1, Len(s))
  <1>1. i \in 1..Len(s) /\ Len(s) \in Nat
    OBVIOUS
  <1>2. a \in Seq(S) /\ Len(a) = i - 1 /\ \A j \in 1..(i - 1) : a[j] = s[j]
    BY <1>1
  <1>3. b \in Seq(S) /\ Len(b) = Len(s) - i /\ \A j \in 1..(Len(s) - i) : b[j] = s[j + i]
    BY <1>1
  <1>4. RemoveAt(s, i) = a \o b
    BY DEF RemoveAt
  <1> HIDE DEF a, b
  <1>5. /\ a \o b \in Seq(S) /\ Len(a \o b) = Len(s) - 1
        /\ \A j \in 1..Len(a) : (a \o b)[j] = a[j]
        /\ \A j \in 1..Len(b) : (a \o b)[j + Len(a)] = b[j]
    <2>1. a \in Seq(S) /\ b \in Seq(S) /\ Len(a) \in Nat /\ Len(b) \in Nat
      BY <1>2, <1>3
    <2>2. a \o b \in Seq(S) /\ Len(a \o b) = Len(a) + Len(b)
      BY <2>1
    <2>3. Len(a) + Len(b) = Len(s) - 1
      BY <1>1, <1>2, <1>3
    <2>4. \A j \in 1..Len(a) : (a \o b)[j] = a[j]
      BY <2>1
    <2>5. \A j \in 1..Len(b) : (a \o b)[j + Len(a)] = b[j]
      BY <2>1
    <2> QED
      BY <2>2, <2>3, <2>4, <2>5
  <1>6. ASSUME NEW j \in 1..(Len(s) - 1)
        PROVE  (a \o b)[j] = s[IF j < i THEN j ELSE j + 1]
    <2>1. CASE j < i
      BY <1>1, <1>2, <1>5, <2>1
    <2>2. CASE ~(j < i)
      <3> DEFINE k == j - (i - 1)
      <3>1. k \in 1..(Len(s) - i) /\ j = k + (i - 1) /\ k + i = j + 1
        BY <1>1, <2>2
      <3> HIDE DEF k
      <3>2. (a \o b)[k + (i - 1)] = b[k]
        BY <1>2, <1>3, <1>5, <3>1
      <3>3. b[k] = s[k + i]
        BY <1>3, <3>1
      <3> QED
        BY <2>2, <3>1, <3>2, <3>3
    <2> QED
      BY <2>1, <2>2
  <1> QED
    BY <1>4, <1>5, <1>6

LEMMA RemoveAtRange ==
  ASSUME NEW S, NEW s \in Seq(S), NEW i \in DOMAIN s
  PROVE  RemoveAt(s, i) \in Seq(S) /\ Range(RemoveAt(s, i)) \subseteq Range(s)
  <1>1. DOMAIN s = 1..Len(s) /\ Len(s) \in Nat /\ i \in 1..Len(s)
    OBVIOUS
  <1>2. \A j \in DOMAIN RemoveAt(s, i) : \E k \in DOMAIN s : RemoveAt(s, i)[j] = s[k]
    <2>1. /\ DOMAIN RemoveAt(s, i) = 1..(Len(s) - 1)
          /\ \A j \in 1..(Len(s) - 1) : RemoveAt(s, i)[j] = s[IF j < i THEN j ELSE j + 1]
      BY RemoveAtSeq
    <2>2. \A j \in 1..(Len(s) - 1) : (IF j < i THEN j ELSE j + 1) \in DOMAIN s
      BY <1>1
    <2> QED
      BY <2>1, <2>2
  <1> QED
    BY <1>2, RemoveAtSeq DEF Range

-----------------------------------------------------------------------------
(* The ledger. *)

LEMMA InitLedger == Init => LedgerInv
  <1> SUFFICES ASSUME Init PROVE LedgerInv
    OBVIOUS
  <1>1. TypeOK
    <2>1. row \in [Commands -> {"none"} \cup Open \cup Terminal]
          /\ issuer \in [Commands -> {"record", "publish", "dispatched", "failure", "done"}]
      BY DEF Init
    <2>2. repeated \in BOOLEAN
      BY Zenon DEF Init
    <2>3. faults \in 0..MaxFaults
      BY LedgerAssumption DEF Init
    <2> QED
      BY <2>1, <2>2, <2>3 DEF Init, TypeOK
  <1>2. WayInv
    BY RangeEmpty DEF Init, WayInv, Sent
  <1>3. IssuerInv
    BY RangeEmpty DEF Init, IssuerInv
  <1>4. AnsweredInv /\ RowsTellTruth
    BY DEF Init, AnsweredInv, RowsTellTruth
  <1> QED
    BY <1>1, <1>2, <1>3, <1>4 DEF LedgerInv

\* The issuing call.
LEMMA IssueLedger ==
  ASSUME LedgerInv, NEW c \in Commands, Issue(c)
  PROVE  LedgerInv'
  <1> USE DEF LedgerInv
  <1>1. CASE Record(c)
    <2> USE <1>1 DEF Record
    <2>1. TypeOK'
      BY DEF TypeOK, bridgeVars, downVars, agentVars, Open
    <2>2. WayInv'
      BY DEF WayInv, Sent, bridgeVars, downVars, agentVars
    <2>3. IssuerInv' /\ AnsweredInv' /\ RowsTellTruth'
      BY DEF TypeOK, IssuerInv, AnsweredInv, RowsTellTruth, agentVars
    <2> QED
      BY <2>1, <2>2, <2>3
  <1>2. CASE RecordFails(c)
    <2> USE <1>2 DEF RecordFails, Fault
    <2>1. TypeOK'
      BY LedgerAssumption DEF TypeOK, bridgeVars, downVars, agentVars, rowVars
    <2>2. WayInv'
      BY DEF WayInv, Sent, bridgeVars, downVars, agentVars
    <2>3. IssuerInv' /\ AnsweredInv' /\ RowsTellTruth'
      BY DEF TypeOK, IssuerInv, AnsweredInv, RowsTellTruth, agentVars, rowVars
    <2> QED
      BY <2>1, <2>2, <2>3
  <1>3. ASSUME Send(c), issuer[c] = "publish",
               \/ issuer' = [issuer EXCEPT ![c] = "dispatched"]
               \/ issuer' = [issuer EXCEPT ![c] = "failure"] /\ Kind[c] = "unisolate",
               faults' \in 0..MaxFaults,
               UNCHANGED <<relaying, unconfirmed, repeated, downVars, agentVars, rowVars, acks>>
        PROVE  LedgerInv'
    <2> USE <1>3 DEF Send
    <2>1. /\ stream' \in Seq(Commands) /\ Range(stream') = Range(stream) \cup {c}
          /\ published' \in Seq(Commands) /\ Range(published') = Range(published) \cup {c}
      BY RangeAppend DEF TypeOK
    <2>2. TypeOK'
      BY <2>1 DEF TypeOK, downVars, agentVars, rowVars
    <2>3. WayInv'
      BY <2>1 DEF WayInv, Sent, downVars, agentVars
    <2>4. IssuerInv' /\ AnsweredInv'
      BY <2>1 DEF TypeOK, IssuerInv, AnsweredInv, rowVars
    <2>5. row[c] # "failure"
      BY DEF IssuerInv
    <2>6. RowsTellTruth'
      BY <2>1, <2>5 DEF RowsTellTruth, agentVars, rowVars
    <2> QED
      BY <2>2, <2>3, <2>4, <2>6
  <1>4. CASE Publish(c)
    <2>1. faults' \in 0..MaxFaults
      BY <1>4 DEF Publish, TypeOK
    <2> QED
      BY <1>3, <1>4, <2>1, Zenon DEF Publish
  <1>5. CASE PublishFails(c)
    <2> USE <1>5 DEF PublishFails, Fault
    <2>1. faults' \in 0..MaxFaults
      BY LedgerAssumption DEF TypeOK
    <2>2. CASE Kind[c] = "unisolate" /\ Send(c)
      BY <1>3, <2>1, <2>2
    <2>3. CASE UNCHANGED <<stream, published>>
      <3>1. TypeOK'
        BY <2>1, <2>3 DEF TypeOK, downVars, agentVars, rowVars
      <3>2. WayInv'
        BY <2>3 DEF WayInv, Sent, downVars, agentVars
      <3>3. IssuerInv' /\ AnsweredInv' /\ RowsTellTruth'
        BY <2>3 DEF TypeOK, IssuerInv, AnsweredInv, RowsTellTruth, agentVars, rowVars
      <3> QED
        BY <3>1, <3>2, <3>3
    <2> QED
      BY <2>2, <2>3
  <1>6. CASE Complete(c)
    <2> USE <1>6 DEF Complete
    <2>1. row' \in [Commands -> {"none"} \cup Open \cup Terminal]
      BY DEF TypeOK, Open, Terminal
    <2>2. TypeOK'
      BY <2>1 DEF TypeOK, bridgeVars, downVars, agentVars
    <2>3. WayInv'
      BY DEF WayInv, Sent, bridgeVars, downVars, agentVars
    <2>4. IssuerInv' /\ AnsweredInv'
      BY DEF TypeOK, IssuerInv, AnsweredInv
    <2>5. RowsTellTruth'
      BY DEF TypeOK, IssuerInv, RowsTellTruth, agentVars
    <2> QED
      BY <2>2, <2>3, <2>4, <2>5
  <1>7. CASE IssuerStops(c)
    <2> USE <1>7 DEF IssuerStops, Fault
    <2>1. TypeOK'
      BY LedgerAssumption DEF TypeOK, bridgeVars, downVars, agentVars, rowVars
    <2>2. WayInv'
      BY DEF WayInv, Sent, bridgeVars, downVars, agentVars
    <2>3. IssuerInv' /\ AnsweredInv' /\ RowsTellTruth'
      BY DEF TypeOK, IssuerInv, AnsweredInv, RowsTellTruth, agentVars, rowVars
    <2> QED
      BY <2>1, <2>2, <2>3
  <1> QED
    BY <1>1, <1>2, <1>4, <1>5, <1>6, <1>7 DEF Issue

\* Steps of the bridge, EventStream and the network leave calls, rows and results alone.
LEMMA DeliverLedger ==
  ASSUME LedgerInv, Deliver \/ AgentLoses
  PROVE  LedgerInv'
  <1> USE DEF LedgerInv
  <1>1. /\ UNCHANGED <<apiVars, rowVars, agentVars>>
        /\ faults' \in 0..MaxFaults /\ acks' \subseteq acks
    <2>1. UNCHANGED <<apiVars, rowVars, agentVars>> /\ acks' \in {acks, {}}
          /\ (UNCHANGED faults \/ Fault)
      BY DEF Deliver, Relay, AckMessage, AckMessageLost, Redeliver, Dequeue, SendCommand,
             SendCommandFails, IngestionRestarts, AgentLoses
    <2>2. faults' \in 0..MaxFaults
      BY <2>1, LedgerAssumption DEF Fault, TypeOK
    <2> QED
      BY <2>1, <2>2
  <1>2. IssuerInv' /\ AnsweredInv' /\ RowsTellTruth'
    BY <1>1 DEF IssuerInv, AnsweredInv, RowsTellTruth, apiVars, rowVars, agentVars
  <1>3. CASE Relay
    <2> USE <1>3 DEF Relay
    <2>1. PICK i \in DOMAIN stream : relaying' = stream[i] /\ queue' = Append(queue, stream[i])
      OBVIOUS
    <2>2. stream[i] \in Commands /\ stream[i] \in Range(stream)
      BY DEF TypeOK, Range
    <2>3. queue' \in Seq(Commands) /\ Range(queue') = Range(queue) \cup {stream[i]}
      BY <2>1, <2>2, RangeAppend DEF TypeOK
    <2>4. TypeOK'
      BY <1>1, <2>1, <2>2, <2>3 DEF TypeOK, apiVars, agentVars, rowVars
    <2>5. WayInv'
      BY <1>1, <2>1, <2>2, <2>3 DEF WayInv, Sent, apiVars, agentVars
    <2> QED
      BY <1>2, <2>4, <2>5
  <1>4. CASE AckMessage
    <2> USE <1>4 DEF AckMessage
    <2>1. PICK i \in DOMAIN stream : stream[i] = relaying /\ stream' = RemoveAt(stream, i)
      OBVIOUS
    <2>2. stream' \in Seq(Commands) /\ Range(stream') \subseteq Range(stream)
      BY <2>1, RemoveAtRange DEF TypeOK
    <2>4. TypeOK'
      BY <1>1, <2>2 DEF TypeOK, apiVars, downVars, agentVars, rowVars
    <2>5. WayInv'
      BY <1>1, <2>2 DEF WayInv, Sent, apiVars, downVars, agentVars
    <2> QED
      BY <1>2, <2>4, <2>5
  <1>5. CASE AckMessageLost \/ Redeliver \/ IngestionRestarts
    <2> USE <1>1, <1>5 DEF AckMessageLost, Redeliver, IngestionRestarts
    <2>1. repeated' \in BOOLEAN
      BY Zenon DEF TypeOK
    <2>2. /\ queue' \in Seq(Commands) /\ cmds' \in Seq(Commands) /\ inbox' = inbox
          /\ stream' = stream /\ relaying' \in Commands \cup {Nobody}
          /\ unconfirmed' \subseteq Commands
      <3>1. <<>> \in Seq(Commands)
        OBVIOUS
      <3>2. CASE AckMessageLost \/ Redeliver
        BY <3>2 DEF TypeOK, downVars
      <3>3. CASE IngestionRestarts
        BY <3>1, <3>3 DEF TypeOK
      <3> QED
        BY <3>2, <3>3
    <2>2a. TypeOK'
      BY <2>1, <2>2 DEF TypeOK, apiVars, agentVars, rowVars
    <2>3. WayInv'
      BY RangeEmpty DEF WayInv, Sent, apiVars, bridgeVars, downVars, agentVars
    <2> QED
      BY <1>2, <2>2a, <2>3
  <1>6. CASE Dequeue \/ SendCommandFails \/ AgentLoses
    <2> USE <1>1, <1>6 DEF Dequeue, SendCommandFails, AgentLoses
    <2>1. /\ queue' \in Seq(Commands) /\ cmds' \in Seq(Commands) /\ inbox' \in Seq(Commands)
          /\ UNCHANGED bridgeVars
      <3>1. <<>> \in Seq(Commands)
        OBVIOUS
      <3> QED
        BY <3>1 DEF TypeOK
    <2>2. TypeOK'
      BY <2>1 DEF TypeOK, apiVars, bridgeVars, agentVars, rowVars
    <2>3. WayInv'
      BY RangeEmpty DEF WayInv, Sent, apiVars, bridgeVars, agentVars
    <2> QED
      BY <1>2, <2>2, <2>3
  <1>7. CASE SendCommand
    <2> USE <1>1, <1>7 DEF SendCommand
    <2>1. /\ Head(cmds) \in Commands /\ Tail(cmds) \in Seq(Commands)
          /\ Head(cmds) \in Range(cmds) /\ Range(Tail(cmds)) \subseteq Range(cmds)
      BY RangeHeadTail DEF TypeOK
    <2>2. inbox' \in Seq(Commands) /\ Range(inbox') = Range(inbox) \cup {Head(cmds)}
      BY <2>1, RangeAppend DEF TypeOK
    <2>3. TypeOK'
      BY <2>1, <2>2 DEF TypeOK, apiVars, bridgeVars, agentVars, rowVars
    <2>4. WayInv'
      BY <2>1, <2>2 DEF WayInv, Sent, apiVars, bridgeVars, agentVars
    <2> QED
      BY <1>2, <2>3, <2>4
  <1> QED
    BY <1>3, <1>4, <1>5, <1>6, <1>7 DEF Deliver

\* The agent reports what it did.
LEMMA ExecuteLedger ==
  ASSUME LedgerInv, Execute
  PROVE  LedgerInv'
  <1> USE DEF LedgerInv, Execute
  <1>1. /\ Head(inbox) \in Commands /\ Tail(inbox) \in Seq(Commands)
        /\ Head(inbox) \in Range(inbox) /\ Range(Tail(inbox)) \subseteq Range(inbox)
    BY RangeHeadTail DEF TypeOK
  <1>2. executed' \in Seq(Commands) /\ Range(executed') = Range(executed) \cup {Head(inbox)}
    BY <1>1, RangeAppend DEF TypeOK
  <1>3. PICK ok \in BOOLEAN :
          /\ acks' = acks \cup {[cmd |-> Head(inbox), ok |-> ok]}
          /\ outcomes' = outcomes \cup {[cmd |-> Head(inbox), ok |-> ok]}
    OBVIOUS
  <1>4. [cmd |-> Head(inbox), ok |-> ok] \in Results
    BY <1>1 DEF Results
  <1>5. TypeOK'
    BY <1>1, <1>2, <1>3, <1>4 DEF TypeOK, apiVars, bridgeVars, rowVars
  <1>6. WayInv'
    <2>1. Head(inbox) \in Range(published)
      BY <1>1 DEF WayInv, Sent
    <2>2. \A a \in outcomes' : a.cmd \in Range(published)
      BY <1>3, <2>1 DEF WayInv
    <2> QED
      BY <1>1, <1>2, <1>3, <2>1, <2>2 DEF WayInv, Sent, apiVars, bridgeVars
  <1>7. IssuerInv' /\ AnsweredInv' /\ RowsTellTruth'
    BY <1>3 DEF IssuerInv, AnsweredInv, RowsTellTruth, apiVars, rowVars
  <1> QED
    BY <1>5, <1>6, <1>7

\* A result closes an open row with what the agent reported, or gets lost.
LEMMA AckLedger ==
  ASSUME LedgerInv, NEW a \in acks, ApplyCommandAck(a) \/ ApplyCommandAckFails(a)
  PROVE  LedgerInv'
  <1> USE DEF LedgerInv
  <1>1. a \in outcomes /\ a.cmd \in Commands /\ a.ok \in BOOLEAN
        /\ a = [cmd |-> a.cmd, ok |-> a.ok] /\ a.cmd \in Range(published)
    BY DEF TypeOK, WayInv, Results
  <1>2. CASE ApplyCommandAck(a)
    <2> USE <1>1, <1>2 DEF ApplyCommandAck
    <2>1. CASE CarriesRowId(a.cmd) /\ Closable(a.cmd)
      <3>1. row' = [row EXCEPT ![a.cmd] = Final(a)] /\ row[a.cmd] \in Open
        BY <2>1 DEF Closable
      <3>2. Final(a) \in {"success", "failure"}
            /\ (Final(a) = "success" => [cmd |-> a.cmd, ok |-> TRUE] \in outcomes)
            /\ (Final(a) = "failure" => [cmd |-> a.cmd, ok |-> FALSE] \in outcomes)
        BY Zenon DEF Final
      <3>3. issuer[a.cmd] \notin {"record", "publish"}
        BY DEF IssuerInv
      <3>4. answered' \subseteq answered \cup {a.cmd}
            /\ (a.cmd \in answered' \ answered => issuer[a.cmd] = "done")
        OBVIOUS
      <3>5. TypeOK'
        BY <3>1, <3>2, <3>4 DEF TypeOK, apiVars, bridgeVars, downVars, agentVars, Terminal
      <3>6. WayInv'
        BY DEF WayInv, Sent, apiVars, bridgeVars, downVars, agentVars
      <3>7. IssuerInv'
        BY <3>1, <3>2, <3>3 DEF TypeOK, IssuerInv, apiVars
      <3>8. AnsweredInv'
        BY <3>1, <3>2, <3>4 DEF TypeOK, AnsweredInv, apiVars
      <3>9. RowsTellTruth'
        BY <3>1, <3>2 DEF TypeOK, RowsTellTruth, apiVars, agentVars
      <3> QED
        BY <3>5, <3>6, <3>7, <3>8, <3>9
    <2>2. CASE ~(CarriesRowId(a.cmd) /\ Closable(a.cmd))
      <3>1. UNCHANGED <<row, answered>>
        BY <2>2 DEF Closable
      <3>2. TypeOK'
        BY <3>1 DEF TypeOK, apiVars, bridgeVars, downVars, agentVars
      <3>3. WayInv'
        BY DEF WayInv, Sent, apiVars, bridgeVars, downVars, agentVars
      <3>4. IssuerInv' /\ AnsweredInv' /\ RowsTellTruth'
        BY <3>1 DEF IssuerInv, AnsweredInv, RowsTellTruth, apiVars, agentVars
      <3> QED
        BY <3>2, <3>3, <3>4
    <2> QED
      BY <2>1, <2>2
  <1>3. CASE ApplyCommandAckFails(a)
    <2> USE <1>3 DEF ApplyCommandAckFails, Fault
    <2>1. TypeOK'
      BY LedgerAssumption DEF TypeOK, apiVars, bridgeVars, downVars, agentVars, rowVars
    <2>2. WayInv'
      BY DEF WayInv, Sent, apiVars, bridgeVars, downVars, agentVars
    <2>3. IssuerInv' /\ AnsweredInv' /\ RowsTellTruth'
      BY DEF IssuerInv, AnsweredInv, RowsTellTruth, apiVars, agentVars, rowVars
    <2> QED
      BY <2>1, <2>2, <2>3
  <1> QED
    BY <1>2, <1>3

\* The timeout worker touches open rows only.
LEMMA TimeoutLedger ==
  ASSUME LedgerInv, ExpireStale \/ \E c \in Commands : GrowOld(c)
  PROVE  LedgerInv'
  <1> USE DEF LedgerInv
  <1>1. CASE ExpireStale
    <2> USE <1>1 DEF ExpireStale, Stale, Open
    <2>1. TypeOK'
      BY DEF TypeOK, apiVars, bridgeVars, downVars, agentVars, Terminal
    <2>2. WayInv'
      BY DEF WayInv, Sent, apiVars, bridgeVars, downVars, agentVars
    <2>3. IssuerInv' /\ AnsweredInv' /\ RowsTellTruth'
      BY DEF TypeOK, IssuerInv, AnsweredInv, RowsTellTruth, apiVars, agentVars
    <2> QED
      BY <2>1, <2>2, <2>3
  <1>2. ASSUME NEW c \in Commands, GrowOld(c) PROVE LedgerInv'
    <2> USE <1>2 DEF GrowOld
    <2>1. TypeOK'
      BY DEF TypeOK, apiVars, bridgeVars, downVars, agentVars
    <2>2. WayInv'
      BY DEF WayInv, Sent, apiVars, bridgeVars, downVars, agentVars
    <2>3. IssuerInv' /\ AnsweredInv' /\ RowsTellTruth'
      BY DEF IssuerInv, AnsweredInv, RowsTellTruth, apiVars, agentVars
    <2> QED
      BY <2>1, <2>2, <2>3
  <1> QED
    BY <1>1, <1>2

LEMMA LedgerStep == LedgerInv /\ [Next]_vars => LedgerInv'
  <1> SUFFICES ASSUME LedgerInv, [Next]_vars PROVE LedgerInv'
    OBVIOUS
  <1>1. CASE UNCHANGED vars
    BY <1>1 DEF LedgerInv, TypeOK, WayInv, Sent, IssuerInv, AnsweredInv, RowsTellTruth, vars,
                apiVars, bridgeVars, downVars, agentVars, rowVars
  <1> QED
    BY <1>1, IssueLedger, DeliverLedger, ExecuteLedger, AckLedger, TimeoutLedger DEF Next

LEMMA LedgerHolds == Spec => []LedgerInv
  BY InitLedger, LedgerStep, PTL DEF Spec

-----------------------------------------------------------------------------
\* Rows, queues and results stay well formed.
THEOREM LedgerTypes == Spec => []TypeOK
  <1>1. LedgerInv => TypeOK
    BY DEF LedgerInv
  <1> QED
    BY LedgerHolds, <1>1, PTL

\* complete, applyCommandAcks and ExpireStale never write "success" without the
\* agent's report, nor "failure" for a command that left and was not refused.
THEOREM LedgerTruthful == Spec => []RowsTellTruth
  <1>1. LedgerInv => RowsTellTruth
    BY DEF LedgerInv
  <1> QED
    BY LedgerHolds, <1>1, PTL

\* ExpireStale leaves alone every row whose result has come in time.
THEOREM LedgerTimeouts == Spec => []TimeoutMeansSilence
  <1>1. LedgerInv => TimeoutMeansSilence
    BY DEF LedgerInv, AnsweredInv, TimeoutMeansSilence
  <1> QED
    BY LedgerHolds, <1>1, PTL

\* The conditions on status_text in applyCommandAcks and ExpireStale protect a
\* closed row: only the unconditional UPDATE of the issuing call changes it.
THEOREM LedgerReopening == Spec => OnlyIssuerReopens
  <1> DEFINE Guarded == \A c \in Commands : row[c] \in Terminal /\ row'[c] # row[c]
                                              => issuer[c] # "done" /\ issuer'[c] = "done"
  <1>1. LedgerInv /\ [Next]_vars => [Guarded]_vars
    <2> SUFFICES ASSUME LedgerInv, Next, NEW c \in Commands, row[c] \in Terminal, row'[c] # row[c]
                 PROVE  issuer[c] # "done" /\ issuer'[c] = "done"
      BY DEF LedgerInv
    <2> USE DEF LedgerInv, TypeOK, Terminal, Open
    <2>1. ASSUME NEW d \in Commands, Issue(d) PROVE issuer[c] # "done" /\ issuer'[c] = "done"
      BY <2>1 DEF Issue, Record, RecordFails, Publish, PublishFails, Complete, IssuerStops,
                  IssuerInv, rowVars
    <2>2. ~(Deliver \/ Execute \/ AgentLoses \/ \E d \in Commands : GrowOld(d))
      BY DEF Deliver, Relay, AckMessage, AckMessageLost, Redeliver, Dequeue, SendCommand,
             SendCommandFails, IngestionRestarts, AgentLoses, Execute, GrowOld, rowVars
    <2>3. ASSUME NEW a \in acks, ApplyCommandAck(a) \/ ApplyCommandAckFails(a) PROVE FALSE
      BY <2>3 DEF ApplyCommandAck, ApplyCommandAckFails, Closable, rowVars, Results
    <2>4. ~ExpireStale
      BY DEF ExpireStale, Stale
    <2> QED
      BY <2>1, <2>2, <2>3, <2>4 DEF Next
  <1> QED
    BY LedgerHolds, <1>1, PTL DEF Spec, OnlyIssuerReopens

-----------------------------------------------------------------------------
(* The order of delivery. *)

LEMMA InOrderAppend ==
  ASSUME NEW S, NEW p \in Seq(S), NEW x \in S
  PROVE  /\ \A a, b : InOrder(p, a, b) => InOrder(Append(p, x), a, b)
         /\ \A a \in Range(p) : InOrder(Append(p, x), a, x)
         /\ Distinct(p) /\ x \notin Range(p) => Distinct(Append(p, x))
  <1>1. /\ Len(p) \in Nat /\ DOMAIN p = 1..Len(p) /\ DOMAIN Append(p, x) = 1..(Len(p) + 1)
        /\ \A i \in 1..Len(p) : Append(p, x)[i] = p[i]
        /\ Append(p, x)[Len(p) + 1] = x
    OBVIOUS
  <1> USE <1>1
  <1>2. \A a, b : InOrder(p, a, b) => InOrder(Append(p, x), a, b)
    BY DEF InOrder
  <1>3. \A a \in Range(p) : InOrder(Append(p, x), a, x)
    BY DEF InOrder, Range
  <1>4. Distinct(p) /\ x \notin Range(p) => Distinct(Append(p, x))
    BY DEF Distinct, Range
  <1> QED
    BY <1>2, <1>3, <1>4

\* In a sequence without repetition nothing comes before itself.
LEMMA Irreflexive ==
  ASSUME NEW S, NEW p \in Seq(S), Distinct(p), NEW c
  PROVE  ~InOrder(p, c, c)
  BY DEF InOrder, Distinct

LEMMA OrderedAppend ==
  ASSUME NEW p, NEW S, NEW s \in Seq(S), NEW x \in S,
         Ordered(p, s), Precede(p, Range(s), {x})
  PROVE  Ordered(p, Append(s, x))
  <1>1. /\ Len(s) \in Nat /\ DOMAIN s = 1..Len(s) /\ DOMAIN Append(s, x) = 1..(Len(s) + 1)
        /\ \A i \in 1..Len(s) : Append(s, x)[i] = s[i] /\ s[i] \in Range(s)
        /\ Append(s, x)[Len(s) + 1] = x
    BY DEF Range
  <1> SUFFICES ASSUME NEW i \in DOMAIN Append(s, x), NEW j \in DOMAIN Append(s, x), i < j
               PROVE  InOrder(p, Append(s, x)[i], Append(s, x)[j])
    BY DEF Ordered
  <1>2. i \in 1..Len(s)
    BY <1>1
  <1>3. CASE j \in 1..Len(s)
    BY <1>1, <1>2, <1>3 DEF Ordered
  <1>4. CASE j = Len(s) + 1
    BY <1>1, <1>2, <1>4 DEF Precede
  <1> QED
    BY <1>1, <1>3, <1>4

LEMMA OrderedTail ==
  ASSUME NEW p, NEW S, NEW s \in Seq(S), s # <<>>, Ordered(p, s)
  PROVE  Ordered(p, Tail(s)) /\ Precede(p, {Head(s)}, Range(Tail(s)))
  <1>1. /\ Len(s) \in Nat /\ Head(s) = s[1] /\ 1 \in DOMAIN s
        /\ DOMAIN Tail(s) = 1..(Len(s) - 1) /\ DOMAIN s = 1..Len(s)
        /\ \A i \in 1..(Len(s) - 1) : Tail(s)[i] = s[i + 1] /\ i + 1 \in DOMAIN s /\ 1 < i + 1
    OBVIOUS
  <1>2. Ordered(p, Tail(s))
    BY <1>1 DEF Ordered
  <1>3. \A i \in DOMAIN Tail(s) : InOrder(p, Head(s), Tail(s)[i])
    BY <1>1 DEF Ordered
  <1> QED
    BY <1>2, <1>3 DEF Precede, Range

LEMMA OrderedRemove ==
  ASSUME NEW p, NEW S, NEW s \in Seq(S), NEW i \in DOMAIN s, Ordered(p, s)
  PROVE  Ordered(p, RemoveAt(s, i))
  <1> DEFINE f(j) == IF j < i THEN j ELSE j + 1
             r == RemoveAt(s, i)
  <1>1. Len(s) \in Nat /\ DOMAIN s = 1..Len(s) /\ i \in 1..Len(s)
    OBVIOUS
  <1>2. DOMAIN r = 1..(Len(s) - 1) /\ \A j \in 1..(Len(s) - 1) : r[j] = s[f(j)]
    BY RemoveAtSeq
  <1>3. \A j, k \in 1..(Len(s) - 1) : f(j) \in DOMAIN s /\ (j < k => f(j) < f(k))
    BY <1>1
  <1> HIDE DEF f, r
  <1>4. Ordered(p, r)
    BY <1>2, <1>3 DEF Ordered
  <1> QED
    BY <1>4 DEF r

\* The removed message is gone if it was there once.
LEMMA RemovedIsGone ==
  ASSUME NEW S, NEW s \in Seq(S), NEW i \in DOMAIN s, NEW p \in Seq(S), Distinct(p),
         Ordered(p, s)
  PROVE  s[i] \notin Range(RemoveAt(s, i))
  <1> DEFINE f(j) == IF j < i THEN j ELSE j + 1
             r == RemoveAt(s, i)
  <1>1. Len(s) \in Nat /\ DOMAIN s = 1..Len(s) /\ i \in 1..Len(s)
    OBVIOUS
  <1>2. DOMAIN r = 1..(Len(s) - 1) /\ \A j \in 1..(Len(s) - 1) : r[j] = s[f(j)]
    BY RemoveAtSeq
  <1>3. \A j \in 1..(Len(s) - 1) : f(j) \in DOMAIN s /\ (f(j) < i \/ i < f(j))
    BY <1>1
  <1>4. \A k, l \in DOMAIN s : k < l => s[k] # s[l]
    BY Irreflexive DEF Ordered
  <1> HIDE DEF f, r
  <1>5. s[i] \notin Range(r)
    BY <1>1, <1>2, <1>3, <1>4 DEF Range
  <1> QED
    BY <1>5 DEF r

LEMMA OrderedEmpty == \A p : Ordered(p, <<>>)
  BY DEF Ordered

LEMMA InitOrder == Init => OrderInv
  BY RangeEmpty, OrderedEmpty DEF Init, OrderInv, LineInv, Distinct, Precede

\* A command that is published comes after all the others.
LEMMA SendOrder ==
  ASSUME LedgerInv, OrderInv, NEW c \in Commands, issuer[c] = "publish", Send(c),
         UNCHANGED <<relaying, unconfirmed, repeated, downVars, agentVars>>
  PROVE  OrderInv'
  <1> USE DEF LedgerInv, TypeOK, Send
  <1>1. /\ Range(stream') = Range(stream) \cup {c}
        /\ Range(published') = Range(published) \cup {c}
    BY RangeAppend
  <1>2. c \notin Range(published)
    BY DEF IssuerInv
  <1>3. /\ Distinct(published')
        /\ \A a, b : InOrder(published, a, b) => InOrder(published', a, b)
        /\ \A a \in Range(published) : InOrder(published', a, c)
    BY <1>2, InOrderAppend DEF OrderInv
  <1>4. \A s : Ordered(published, s) => Ordered(published', s)
    BY <1>3 DEF Ordered
  <1>5. Ordered(published', stream')
    <2>1. Ordered(published', stream) /\ Precede(published', Range(stream), {c})
      BY <1>3, <1>4 DEF OrderInv, Precede, WayInv, Sent
    <2> QED
      BY <2>1, OrderedAppend
  <1>6. Ahead' \subseteq Ahead \cup {c}
    BY <1>1 DEF Ahead
  <1>7. ASSUME ~repeated PROVE LineInv'
    <2>1. LineInv
      BY <1>7 DEF OrderInv
    <2>2. \A A, B : Precede(published, A, B) => Precede(published', A, B)
      BY <1>3 DEF Precede
    <2>3. \A s : Sent(s) => Precede(published', Range(s), {c})
      BY <1>3 DEF Sent, Precede
    <2>4. \A A, B : Precede(published', A, B) /\ Precede(published', A, {c})
                      => Precede(published', A, B \cup {c})
      BY DEF Precede
    <2>5. \A A, B, D : Precede(published', A, D) /\ B \subseteq D => Precede(published', A, B)
      BY DEF Precede
    <2>6. UNCHANGED <<queue, cmds, inbox, executed>>
      BY DEF downVars, agentVars
    <2>7. Ordered(published', queue) /\ Ordered(published', cmds) /\ Ordered(published', inbox)
          /\ Ordered(published', executed)
      BY <1>4, <2>1 DEF LineInv
    <2>8. /\ Precede(published', Range(queue), Ahead \cup {c})
          /\ Precede(published', Range(cmds), Range(queue) \cup Ahead \cup {c})
          /\ Precede(published', Range(inbox), Range(cmds) \cup Range(queue) \cup Ahead \cup {c})
          /\ Precede(published', Range(executed),
                     Range(inbox) \cup Range(cmds) \cup Range(queue) \cup Ahead \cup {c})
      BY <2>1, <2>2, <2>3, <2>4 DEF LineInv, WayInv
    <2> QED
      BY <1>6, <2>5, <2>6, <2>7, <2>8 DEF LineInv
  <1> QED
    BY <1>3, <1>5, <1>7 DEF OrderInv

\* The line moves on: elements are handed over at the ends, or dropped.
LEMMA DeliverOrder ==
  ASSUME LedgerInv, OrderInv, Deliver \/ Execute \/ AgentLoses
  PROVE  OrderInv'
  <1> USE DEF LedgerInv, TypeOK
  <1>1. published' = published
    BY DEF Deliver, Relay, AckMessage, AckMessageLost, Redeliver, Dequeue, SendCommand,
           SendCommandFails, IngestionRestarts, AgentLoses, Execute, apiVars
  <1>2. CASE Relay
    <2>1. PICK i \in DOMAIN stream :
            Deliverable(i) /\ relaying' = stream[i] /\ queue' = Append(queue, stream[i])
      BY <1>2 DEF Relay
    <2>2. /\ relaying = Nobody
          /\ UNCHANGED <<stream, unconfirmed, repeated, cmds, inbox, executed>>
      BY <1>2 DEF Relay, agentVars
    <2> DEFINE x == stream[i]
    <2>3. x \in Commands /\ x \in Ahead /\ relaying' = x
      BY <2>1, <2>2, LedgerAssumption DEF Deliverable, Ahead, Range
    <2>4. Ahead' \subseteq Ahead /\ Precede(published, {x}, Ahead')
      <3>1. ASSUME NEW j \in DOMAIN stream, stream[j] \notin unconfirmed, stream[j] # x
            PROVE  InOrder(published, x, stream[j])
        <4>1. i < j
          BY <2>1, <3>1 DEF Deliverable
        <4> QED
          BY <4>1 DEF OrderInv, Ordered
      <3>2. Ahead' = {d \in Range(stream) : d \notin unconfirmed /\ d # x}
        BY <2>2, <2>3 DEF Ahead
      <3>3. Ahead' \subseteq Ahead
        BY <2>2, <3>2, LedgerAssumption DEF Ahead, Range
      <3> QED
        BY <3>1, <3>2, <3>3 DEF Precede, Range
    <2>5. Range(queue') = Range(queue) \cup {x}
      BY <2>1, <2>3, RangeAppend
    <2> HIDE DEF x
    <2>6. ASSUME ~repeated PROVE LineInv'
      <3>1. LineInv
        BY <2>6 DEF OrderInv
      <3>2. Ordered(published, queue')
        <4>1. Precede(published, Range(queue), {x}) /\ queue' = Append(queue, x)
          BY <2>1, <2>3, <3>1 DEF LineInv, Precede, x
        <4> QED
          BY <2>3, <3>1, <4>1, OrderedAppend DEF LineInv
      <3> QED
        BY <1>1, <2>2, <2>3, <2>4, <2>5, <3>1, <3>2 DEF LineInv, Precede
    <2> QED
      BY <1>1, <2>2, <2>6 DEF OrderInv
  <1>3. CASE AckMessage
    <2>1. PICK i \in DOMAIN stream : stream[i] = relaying /\ stream' = RemoveAt(stream, i)
      BY <1>3 DEF AckMessage
    <2>2. /\ relaying # Nobody
          /\ UNCHANGED <<unconfirmed, repeated, queue, cmds, inbox, executed>>
      BY <1>3 DEF AckMessage, downVars, agentVars
    <2>3. Ordered(published, stream')
      BY <2>1, OrderedRemove DEF OrderInv
    <2>4. relaying \notin Range(stream') /\ Range(stream') \subseteq Range(stream)
      BY <2>1, RemovedIsGone, RemoveAtRange DEF OrderInv
    <2>5. Ahead' \subseteq Ahead
      BY <2>2, <2>4 DEF Ahead
    <2> QED
      BY <1>1, <2>2, <2>3, <2>5 DEF OrderInv, LineInv, Precede
  <1>4. CASE AckMessageLost
    <2>1. /\ Ahead' \subseteq Ahead
          /\ UNCHANGED <<stream, repeated, queue, cmds, inbox, executed>>
      BY <1>4 DEF AckMessageLost, Ahead, downVars, agentVars
    <2> QED
      BY <1>1, <2>1 DEF OrderInv, LineInv, Precede
  <1>5. CASE Redeliver
    BY <1>1, <1>5 DEF Redeliver, OrderInv
  <1>6. CASE IngestionRestarts
    <2>1. /\ stream' = stream /\ queue' = <<>> /\ cmds' = <<>>
          /\ UNCHANGED <<inbox, executed>>
      BY <1>6 DEF IngestionRestarts, agentVars
    <2>2. ASSUME ~repeated' PROVE LineInv'
      <3>1. ~repeated /\ relaying = Nobody /\ unconfirmed = {}
        BY <1>6, <2>2 DEF IngestionRestarts
      <3>2. Ahead' = Ahead
        BY <1>6, <2>1, <3>1 DEF IngestionRestarts, Ahead
      <3> QED
        BY <1>1, <2>1, <3>1, <3>2, RangeEmpty, OrderedEmpty DEF OrderInv, LineInv, Precede
    <2> QED
      BY <1>1, <2>1, <2>2 DEF OrderInv
  <1>7. ASSUME Dequeue \/ SendCommand \/ SendCommandFails \/ Execute \/ AgentLoses
        PROVE  OrderInv'
    <2>1. Ahead' = Ahead /\ UNCHANGED <<stream, repeated>>
      BY <1>7 DEF Dequeue, SendCommand, SendCommandFails, Execute, AgentLoses, bridgeVars, Ahead
    <2> SUFFICES ASSUME ~repeated PROVE LineInv'
      BY <1>1, <2>1 DEF OrderInv
    <2>2. LineInv
      BY DEF OrderInv
    <2> USE <1>1, <2>1, <2>2 DEF LineInv
    <2>3. CASE Dequeue
      BY <2>3, RangeEmpty, OrderedEmpty DEF Dequeue, agentVars, Precede
    <2>4. CASE SendCommandFails
      BY <2>4, RangeEmpty, OrderedEmpty DEF SendCommandFails, agentVars, Precede
    <2>5. CASE AgentLoses
      BY <2>5, RangeEmpty, OrderedEmpty DEF AgentLoses, agentVars, Precede
    <2>6. CASE SendCommand
      <3> DEFINE x == Head(cmds)
      <3>1. /\ cmds # <<>> /\ inbox' = Append(inbox, x) /\ cmds' = Tail(cmds)
            /\ UNCHANGED <<queue, executed>>
        BY <2>6 DEF SendCommand, agentVars
      <3>2. x \in Commands /\ x \in Range(cmds) /\ Range(cmds') \subseteq Range(cmds)
        BY <3>1, RangeHeadTail
      <3>3. Range(inbox') = Range(inbox) \cup {x}
        BY <3>1, <3>2, RangeAppend
      <3>4. Ordered(published, cmds') /\ Precede(published, {x}, Range(cmds'))
        BY <3>1, OrderedTail
      <3> HIDE DEF x
      <3>5. Ordered(published, inbox')
        <4>1. Precede(published, Range(inbox), {x})
          BY <3>2 DEF Precede
        <4> QED
          BY <3>1, <3>2, <4>1, OrderedAppend
      <3> QED
        BY <3>1, <3>2, <3>3, <3>4, <3>5 DEF Precede
    <2>7. CASE Execute
      <3> DEFINE x == Head(inbox)
      <3>1. /\ inbox # <<>> /\ executed' = Append(executed, x) /\ inbox' = Tail(inbox)
            /\ UNCHANGED <<queue, cmds>>
        BY <2>7 DEF Execute
      <3>2. x \in Commands /\ x \in Range(inbox) /\ Range(inbox') \subseteq Range(inbox)
        BY <3>1, RangeHeadTail
      <3>3. Range(executed') = Range(executed) \cup {x}
        BY <3>1, <3>2, RangeAppend
      <3>4. Ordered(published, inbox') /\ Precede(published, {x}, Range(inbox'))
        BY <3>1, OrderedTail
      <3> HIDE DEF x
      <3>5. Ordered(published, executed')
        <4>1. Precede(published, Range(executed), {x})
          BY <3>2 DEF Precede
        <4> QED
          BY <3>1, <3>2, <4>1, OrderedAppend
      <3> QED
        BY <3>1, <3>2, <3>3, <3>4, <3>5 DEF Precede
    <2> QED
      BY <1>7, <2>3, <2>4, <2>5, <2>6, <2>7
  <1> QED
    BY <1>2, <1>3, <1>4, <1>5, <1>6, <1>7 DEF Deliver

LEMMA OrderStep == LedgerInv /\ OrderInv /\ [Next]_vars => OrderInv'
  <1> SUFFICES ASSUME LedgerInv, OrderInv, [Next]_vars PROVE OrderInv'
    OBVIOUS
  <1>1. ASSUME UNCHANGED <<published, bridgeVars, downVars, executed>> PROVE OrderInv'
    BY <1>1 DEF OrderInv, LineInv, Ahead, bridgeVars, downVars
  <1>2. ASSUME NEW c \in Commands, Issue(c) PROVE OrderInv'
    <2>1. CASE Publish(c)
      BY <2>1, SendOrder DEF Publish
    <2>2. CASE PublishFails(c) /\ Send(c)
      BY <2>2, SendOrder DEF PublishFails
    <2>3. CASE PublishFails(c) /\ UNCHANGED <<stream, published>>
      BY <1>1, <2>3 DEF PublishFails, bridgeVars, agentVars
    <2>4. CASE Record(c) \/ RecordFails(c) \/ Complete(c) \/ IssuerStops(c)
      BY <1>1, <2>4 DEF Record, RecordFails, Complete, IssuerStops, agentVars
    <2> QED
      BY <1>2, <2>1, <2>2, <2>3, <2>4 DEF Issue, PublishFails
  <1>3. ASSUME NEW c \in Commands, GrowOld(c) PROVE OrderInv'
    BY <1>1, <1>3 DEF GrowOld, apiVars, agentVars
  <1>4. ASSUME NEW a \in acks, ApplyCommandAck(a) \/ ApplyCommandAckFails(a) PROVE OrderInv'
    BY <1>1, <1>4 DEF ApplyCommandAck, ApplyCommandAckFails, apiVars, agentVars
  <1>5. CASE ExpireStale
    BY <1>1, <1>5 DEF ExpireStale, apiVars, agentVars
  <1>6. CASE UNCHANGED vars
    BY <1>1, <1>6 DEF vars, apiVars, agentVars
  <1> QED
    BY <1>2, <1>3, <1>4, <1>5, <1>6, DeliverOrder DEF Next

\* Publishing, the bridge, Dequeue and EventStream hand commands on in the order in
\* which they were published, each at most once, across failing sends and restarts.
THEOREM LedgerDelivery == Spec => []DeliveredInOrder
  <1>1. OrderInv => DeliveredInOrder
    BY DEF OrderInv, LineInv, Ordered, InOrder, DeliveredInOrder
  <1>2. Spec => []OrderInv
    BY LedgerHolds, InitOrder, OrderStep, PTL DEF Spec
  <1> QED
    BY <1>1, <1>2, PTL

=============================================================================
