------------------------------- MODULE Spool --------------------------------
(***************************************************************************)
(* What the offline spool promises its callers (the doc comments of        *)
(* agent/internal/transport/buffer.go): batches leave it oldest first,     *)
(* whether they were delivered or dropped to make room, and a batch that   *)
(* was refused never enters it.  Files, counters, sequence numbers, byte   *)
(* counts, locks, I/O errors and restarts are the business of the modules  *)
(* that implement it: RingBuffer, and the queue inside AgentTransport.     *)
(***************************************************************************)
EXTENDS Integers

VARIABLES
  due,   \* the batches accepted and not yet removed, by number
  next   \* the number of the next batch offered

\* The sets of batches that can leave before all others.
Oldest(S) == {R \in SUBSET S : \A r \in R, s \in S \ R : r < s}

Init == due = {} /\ next = 0

\* Write returns nil: the batch enters behind all others, after the oldest made
\* room for it.
Accept ==
  /\ \E R \in Oldest(due) : due' = (due \ R) \cup {next}
  /\ next' = next + 1

\* Write returns an error, or the process died in it.
Refuse ==
  /\ \E R \in Oldest(due) : due' = due \ R
  /\ next' = next + 1

\* Ack, or one round of the loop that makes room.
Remove ==
  /\ \E R \in Oldest(due) : due' = due \ R
  /\ UNCHANGED next

\* The process comes back and cannot see what it had.
Forget == due' = {} /\ UNCHANGED next

Next == Accept \/ Refuse \/ Remove \/ Forget

Spec == Init /\ [][Next]_<<due, next>>

=============================================================================
