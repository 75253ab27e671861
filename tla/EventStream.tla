---------------------------- MODULE EventStream ----------------------------
(***************************************************************************)
(* External: a durable JetStream consumer of the EVENTS stream, as the     *)
(* detection engine and the alert pipeline use it.  A message that is      *)
(* handed out and not acknowledged within AckWait is handed out again, to  *)
(* any process, until it has been delivered MaxDeliver times.              *)
(***************************************************************************)
EXTENDS Integers

CONSTANTS Events, MaxDeliver

ASSUME StreamAssumption == MaxDeliver \in Nat \ {0}

VARIABLES
  msg,        \* where each message is
  deliveries  \* how often it has been handed out

stream == <<msg, deliveries>>

StreamInit ==
  /\ msg = [e \in Events |-> "ready"]
  /\ deliveries = [e \in Events |-> 0]

StreamTypeOK ==
  /\ msg \in [Events -> {"ready", "out", "done", "dead"}]
  /\ deliveries \in [Events -> 0..MaxDeliver]

Again(e) == IF deliveries[e] < MaxDeliver THEN "ready" ELSE "dead"

HandOut(e) ==
  /\ msg[e] = "ready"
  /\ msg' = [msg EXCEPT ![e] = "out"]
  /\ deliveries' = [deliveries EXCEPT ![e] = @ + 1]

\* An acknowledgement counts for the message, whichever delivery it answers.
Ack(e) == msg' = [msg EXCEPT ![e] = "done"] /\ UNCHANGED deliveries

Nak(e) ==
  /\ msg' = IF msg[e] = "out" THEN [msg EXCEPT ![e] = Again(e)] ELSE msg
  /\ UNCHANGED deliveries

AckWaitOver(e) ==
  /\ msg[e] = "out"
  /\ msg' = [msg EXCEPT ![e] = Again(e)]
  /\ UNCHANGED deliveries

=============================================================================
