----------------------------- MODULE RingBuffer -----------------------------
(***************************************************************************)
(* The agent's offline spool (agent/internal/transport/buffer.go): one     *)
(* file per serialized event batch, named by a sequence number, in one     *)
(* directory.  Write makes room by dropping the oldest segments and then   *)
(* creates file `tail'; ReadBatch reads from `head' without removing; Ack  *)
(* removes from `head'.  The counters live in memory only: a restart       *)
(* rebuilds them from the directory listing.                               *)
(*                                                                         *)
(* Every operation runs under rb.mu, so only one is in progress at a time  *)
(* (variable `pc').  The system calls inside an operation are steps of     *)
(* their own, because the process can die between any two of them.         *)
(***************************************************************************)
EXTENDS Integers, FiniteSets

CONSTANTS
  Lens,       \* the lengths a serialized batch may have
  HeaderLen,  \* the length prefix writeSegment puts before the payload
  SealLen,    \* what AES-GCM adds to a payload (nonce and tag); 0 if no key
  MaxBytes,   \* maxBytes: the cap on `used'
  MaxFiles,   \* maxFiles: the cap on the number of segments
  ShrinkAt,   \* shrinkAt: peak that makes a drained directory be recreated
  AckSizes,   \* the values of n that callers pass to Ack
  MaxSeq,     \* bound on `tail', for TLC
  MaxId,      \* bound on the number of Write calls, for TLC
  MaxFaults   \* bound on I/O errors and process deaths, for TLC

ASSUME BufferAssumption ==
  /\ Lens \subseteq Nat
  /\ HeaderLen \in Nat /\ SealLen \in Nat
  /\ MaxBytes \in Nat
  /\ MaxFiles \in Nat \ {0}
  /\ ShrinkAt \in Nat \ {0}
  /\ AckSizes \subseteq Nat
  /\ MaxSeq \in Nat /\ MaxId \in Nat /\ MaxFaults \in Nat

VARIABLES
  disk,       \* the directory: sequence number -> segment file
  head,       \* next sequence number to drain
  tail,       \* next sequence number to write
  used,       \* the byte count the cap is compared with
  peakFiles,  \* largest tail - head since the last shrink
  pc,         \* the operation that holds rb.mu, "idle", or "down" (no process)
  arg,        \* the length being written, or how many more segments to Ack
  todo,       \* files recover has not visited yet
  nextId,     \* history: identity of the next batch given to Write
  owed,       \* history: batches Write accepted that were neither acked nor dropped,
              \* nor forgotten by a start-up that could not list the directory
  since,      \* history: value of nextId at the last such start-up
  faults      \* I/O errors and process deaths so far

vars == <<disk, head, tail, used, peakFiles, pc, arg, todo, nextId, owed, since,
          faults>>
history == <<nextId, owed, since>>

PCs == {"idle", "write", "ack", "down", "recover"}

(***************************************************************************)
(* A file on disk.  `whole' is FALSE for a file whose write was cut short: *)
(* readSegment returns an error for it, because AES-GCM does not open a    *)
(* truncated payload.  `id' identifies the batch.                          *)
(***************************************************************************)
Segment == [id : Nat, size : Nat, whole : BOOLEAN]

\* The file writeSegment leaves behind when it succeeds.
WholeSegment(id, len) ==
  [id |-> id, size |-> HeaderLen + len + SealLen, whole |-> TRUE]

\* The file it leaves behind when it is cut short: created and truncated, and
\* not more than the length prefix written.
TornSegment(id) == [id |-> id, size |-> HeaderLen, whole |-> FALSE]

\* os.OpenFile with O_CREATE and O_TRUNC: creates the file or replaces it.
Put(d, seq, seg) ==
  [i \in DOMAIN d \cup {seq} |-> IF i = seq THEN seg ELSE d[i]]

\* The directory with the files of S removed.
Without(d, S) == [i \in DOMAIN d \ S |-> d[i]]

\* The batches in whole files.
Readable(S) == {disk[i].id : i \in {j \in S \cap DOMAIN disk : disk[j].whole}}

-----------------------------------------------------------------------------
Init ==
  /\ disk = [i \in {} |-> TornSegment(0)]
  /\ head = 0 /\ tail = 0 /\ used = 0 /\ peakFiles = 0
  /\ pc = "idle" /\ arg = 0 /\ todo = {}
  /\ nextId = 0 /\ owed = {} /\ since = 0 /\ faults = 0

\* The caller enters Write with a batch of length len and takes rb.mu.
Write(len) ==
  /\ pc = "idle"
  /\ tail < MaxSeq /\ nextId < MaxId
  /\ pc' = "write" /\ arg' = len
  /\ UNCHANGED <<disk, head, tail, used, peakFiles, todo, history, faults>>

\* What Write adds to `used' for the batch in progress.
Needed == arg + 8

\* Defect: the segment count is compared with > instead of >=.
NeedsRoomOffByOne ==
  /\ used + Needed > MaxBytes \/ tail - head > MaxFiles
  /\ head < tail

\* The loop condition of Write.
NeedsRoom ==
  /\ used + Needed > MaxBytes \/ tail - head >= MaxFiles
  /\ head < tail

\* Defect: head is not advanced past the removed file.
RemoveHeadNoAdvance ==
  /\ used' = IF head \in DOMAIN disk THEN used - (disk[head].size + 8) ELSE used
  /\ disk' = Without(disk, {head})
  /\ owed' = IF head \in DOMAIN disk THEN owed \ {disk[head].id} ELSE owed
  /\ UNCHANGED <<head, faults>>

\* Removing the file at head, as dropOldest and Ack do: `used' goes down by
\* the file's size plus 8 when Stat succeeds; an error of Remove is ignored.
RemoveHead ==
  /\ used' = IF head \in DOMAIN disk THEN used - (disk[head].size + 8) ELSE used
  /\ \/ /\ disk' = Without(disk, {head})
        /\ UNCHANGED faults
     \/ /\ faults < MaxFaults /\ head \in DOMAIN disk
        /\ faults' = faults + 1
        /\ UNCHANGED disk
  /\ owed' = IF head \in DOMAIN disk THEN owed \ {disk[head].id} ELSE owed
  /\ head' = head + 1

\* One iteration of Write's loop.
DropOldest ==
  /\ pc = "write" /\ NeedsRoom
  /\ RemoveHead
  /\ UNCHANGED <<tail, peakFiles, pc, arg, todo, nextId, since>>

\* writeSegment succeeds and Write returns nil.
WriteSegment ==
  /\ pc = "write" /\ ~NeedsRoom
  /\ disk' = Put(disk, tail, WholeSegment(nextId, arg))
  /\ used' = used + Needed
  /\ tail' = tail + 1
  /\ peakFiles' = IF tail + 1 - head > peakFiles THEN tail + 1 - head ELSE peakFiles
  /\ nextId' = nextId + 1
  /\ owed' = owed \cup {nextId}
  /\ pc' = "idle" /\ arg' = 0
  /\ UNCHANGED <<head, todo, since, faults>>

\* writeSegment fails (the file cannot be created, or is cut short) and Write
\* returns the error with the counters as they are.
WriteFails ==
  /\ pc = "write" /\ ~NeedsRoom
  /\ faults < MaxFaults /\ faults' = faults + 1
  /\ disk' \in {disk, Put(disk, tail, TornSegment(nextId))}
  /\ nextId' = nextId + 1
  /\ pc' = "idle" /\ arg' = 0
  /\ UNCHANGED <<head, tail, used, peakFiles, todo, owed, since>>

\* The caller enters Ack(n) and takes rb.mu.
Ack(n) ==
  /\ pc = "idle"
  /\ pc' = "ack" /\ arg' = n
  /\ UNCHANGED <<disk, head, tail, used, peakFiles, todo, history, faults>>

\* One iteration of Ack's loop.
AckOne ==
  /\ pc = "ack" /\ arg > 0 /\ head < tail
  /\ RemoveHead
  /\ arg' = arg - 1
  /\ UNCHANGED <<tail, peakFiles, pc, todo, nextId, since>>

\* Defect: the directory is recreated without checking that it is drained.
DrainedUnchecked == peakFiles >= ShrinkAt

\* shrinkIfDrained has something to do.
Drained == head = tail /\ peakFiles >= ShrinkAt

\* The end of Ack: shrinkIfDrained, which recreates the directory and starts
\* the sequence numbers again, or returns at once.
AckEnd ==
  /\ pc = "ack" /\ (arg = 0 \/ head >= tail)
  /\ IF Drained
       THEN /\ disk' = Without(disk, DOMAIN disk)
            /\ head' = 0 /\ tail' = 0 /\ used' = 0 /\ peakFiles' = 0
       ELSE UNCHANGED <<disk, head, tail, used, peakFiles>>
  /\ pc' = "idle" /\ arg' = 0
  /\ UNCHANGED <<todo, history, faults>>

\* Defect: the error of RemoveAll is ignored and the counters start again.
AckEndRemoveAllIgnored ==
  /\ pc = "ack" /\ (arg = 0 \/ head >= tail) /\ Drained
  /\ faults < MaxFaults /\ faults' = faults + 1
  /\ \E S \in SUBSET DOMAIN disk : disk' = Without(disk, S)
  /\ head' = 0 /\ tail' = 0 /\ used' = 0 /\ peakFiles' = 0
  /\ pc' = "idle" /\ arg' = 0
  /\ UNCHANGED <<todo, history>>

\* shrinkIfDrained returns early because RemoveAll failed part of the way.
AckEndRemoveAllFails ==
  /\ pc = "ack" /\ (arg = 0 \/ head >= tail) /\ Drained
  /\ faults < MaxFaults /\ faults' = faults + 1
  /\ \E S \in SUBSET DOMAIN disk : disk' = Without(disk, S)
  /\ pc' = "idle" /\ arg' = 0
  /\ UNCHANGED <<head, tail, used, peakFiles, todo, history>>

\* The agent process dies.  What it was doing on the directory may be done in
\* part: the file being written is absent, torn, or whole but not yet counted,
\* and RemoveAll may have removed some of the files.
Crash ==
  /\ pc # "down"
  /\ faults < MaxFaults /\ faults' = faults + 1
  /\ \/ UNCHANGED disk
     \/ /\ pc = "write" /\ ~NeedsRoom
        /\ disk' \in {Put(disk, tail, TornSegment(nextId)),
                      Put(disk, tail, WholeSegment(nextId, arg))}
     \/ /\ pc = "ack" /\ (arg = 0 \/ head >= tail) /\ Drained
        /\ \E S \in SUBSET DOMAIN disk : disk' = Without(disk, S)
  /\ nextId' = IF pc = "write" THEN nextId + 1 ELSE nextId
  /\ pc' = "down"
  /\ head' = 0 /\ tail' = 0 /\ used' = 0 /\ peakFiles' = 0
  /\ arg' = 0 /\ todo' = {}
  /\ UNCHANGED <<owed, since>>

\* newRingBuffer starts from zero counters and lists the directory.
RecoverBegin ==
  /\ pc = "down"
  /\ pc' = "recover" /\ todo' = DOMAIN disk
  /\ UNCHANGED <<disk, head, tail, used, peakFiles, arg, history, faults>>

\* ReadDir fails and recover returns: the process runs with counters at zero over
\* the files that it has not seen, and writes over the first of them.
RecoverFails ==
  /\ pc = "down"
  /\ faults < MaxFaults /\ faults' = faults + 1
  /\ pc' = "idle"
  /\ owed' = {} /\ since' = nextId
  /\ UNCHANGED <<disk, head, tail, used, peakFiles, arg, todo, nextId>>

\* Defect: head follows tail, so that the newest file found is drained first.
RecoverEntryNewest ==
  /\ pc = "recover"
  /\ \E i \in todo :
       /\ \A j \in todo : i <= j
       /\ head' = i /\ tail' = i + 1
       /\ used' = used + disk[i].size + 8
       /\ todo' = todo \ {i}
  /\ UNCHANGED <<disk, peakFiles, pc, arg, history, faults>>

\* recover visits the files in the order ReadDir sorts them: the first gives
\* head, the last gives tail, and all of them count.
RecoverEntry ==
  /\ pc = "recover"
  /\ \E i \in todo :
       /\ \A j \in todo : i <= j
       /\ head' = IF todo = DOMAIN disk THEN i ELSE head
       /\ tail' = i + 1
       /\ used' = used + disk[i].size + 8
       /\ todo' = todo \ {i}
  /\ UNCHANGED <<disk, peakFiles, pc, arg, history, faults>>

RecoverEnd ==
  /\ pc = "recover" /\ todo = {}
  /\ pc' = "idle"
  /\ UNCHANGED <<disk, head, tail, used, peakFiles, arg, todo, history, faults>>

Next ==
  \/ \E len \in Lens : Write(len)
  \/ DropOldest \/ WriteSegment \/ WriteFails
  \/ \E n \in AckSizes : Ack(n)
  \/ AckOne \/ AckEnd \/ AckEndRemoveAllFails
  \/ Crash \/ RecoverBegin \/ RecoverFails \/ RecoverEntry \/ RecoverEnd

Spec == Init /\ [][Next]_vars

-----------------------------------------------------------------------------
\* ReadBatch(n): the segments it returns.  It stops at the first file that it
\* cannot read and reports no error.
ReadBatch(n) ==
  LET ok(i) == i \in DOMAIN disk /\ disk[i].whole
  IN  {i \in head..(tail - 1) : i < head + n /\ \A j \in head..i : ok(j)}

\* The files a running process knows of.
Window == head..(tail - 1)

Running == pc \in {"idle", "write", "ack"}

(***************************************************************************)
(* Properties.                                                             *)
(***************************************************************************)

\* Type invariant: counters are naturals with head <= tail, except that `used'
\* may fall below zero (it is an int64 the code never clamps), and files carry
\* segment records.
TypeOK ==
  /\ DOMAIN disk \subseteq Nat
  /\ disk \in [DOMAIN disk -> Segment]
  /\ head \in Nat /\ tail \in Nat /\ head <= tail
  /\ used \in Int /\ peakFiles \in Nat
  /\ pc \in PCs /\ arg \in Nat
  /\ todo \subseteq DOMAIN disk
  /\ nextId \in Nat /\ owed \subseteq Nat /\ since \in Nat /\ faults \in Nat

\* A batch for which Write returned nil stays in a readable file, inside the
\* window a running process drains, until it is acked or dropped as the oldest:
\* eviction, shrinking, failed writes, failed removals and restarts (recover)
\* included.  While the process is down, or recovering, it is on disk.  A start-up
\* that cannot list the directory ends the promise for what was there, and for
\* nothing that is written after it, although files of both lie mixed then.
Durable ==
  /\ Running => owed \subseteq Readable(Window)
  /\ owed \subseteq Readable(DOMAIN disk)

\* No file comes before one of an older batch, so ReadBatch replays the batches
\* oldest first and never returns two files of one batch: reuse of sequence numbers
\* by shrinkIfDrained and by recover, and files that a failed removal left behind,
\* do not mix old batches with new ones.  The files that a start-up could not list
\* may come too late; a batch written since then does not come too early.
WriteOrder ==
  \A i, j \in DOMAIN disk : i < j /\ disk[j].id >= since => disk[i].id < disk[j].id

\* Write never leaves more than maxFiles segments in the window, even when the
\* window it found was larger (files left by failed removals and adopted by
\* recover) and whatever the byte cap asks for.
CountCapped ==
  [][tail' = tail + 1 /\ pc = "write" => tail' - head' <= MaxFiles]_vars

\* Without I/O errors and process deaths ReadBatch is never stopped by a file
\* it cannot read: it returns the n oldest segments, or all of them.
FaultFreeReadable ==
  faults = 0 =>
    \A n \in AckSizes : ReadBatch(n) = {i \in Window : i < head + n}

\* The batches owed, numbered by the calls of Write, seen as the abstract spool.
Queue == INSTANCE Spool WITH due <- owed, next <- nextId

\* RingBuffer implements Spool: whatever the counters, the files left behind and
\* the restarts do, no batch that Write accepted is acked or dropped while an
\* older one is still owed; a start-up that cannot list the directory forgets all.
ImplementsSpool == Queue!Spec

=============================================================================
