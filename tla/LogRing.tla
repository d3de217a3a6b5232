------------------------------- MODULE LogRing -------------------------------
(***************************************************************************)
(* The in-memory ring of log lines (main/log_ring.cpp).                    *)
(*                                                                         *)
(* Every task that logs appends a line under the spinlock s_mux.  A reader *)
(* (GET /api/logs in the httpd task, logs.get in httpd or task_remote)     *)
(* takes s_count and the start slot in one critical section, and then      *)
(* copies the entries one by one, each in a critical section of its own:   *)
(* lines may be appended between any two of them.                          *)
(***************************************************************************)
EXTENDS Integers, Sequences

CONSTANTS
  Size,       \* LOG_RING_SIZE
  Readers,    \* the tasks that serialise the ring
  MaxLines    \* bound: lines captured in a behaviour

ASSUME RingAssumption ==
  /\ Size \in Nat \ {0}
  /\ MaxLines \in Nat

VARIABLES
  ready,      \* s_ring was allocated and log_vprintf installed
  ring,       \* slot -> number of the line in it, 0 when never written
  head,       \* s_head
  count,      \* s_count
  lines,      \* lines captured so far; a line's number is its place in time
  pc,         \* per reader: idle, walk, done, failed
  n, start,   \* per reader: its copies of s_count and of the start slot
  out,        \* per reader: the lines it has written, in order
  mark        \* observer: `lines` when the reader took n and start

vars == <<ready, ring, head, count, lines, pc, n, start, out, mark>>
ringVars   == <<ready, ring, head, count, lines>>
readerVars == <<pc, n, start, out, mark>>

RingSlots == 0..(Size - 1)

\* Mutant: the head runs one slot past the end before it wraps.
AdvancePastEnd(h) == IF h = Size THEN 0 ELSE h + 1

\* s_head after an append.
Advance(h) == (h + 1) % Size

\* Mutant: the ring counts as full one line early.
CountShort(c) == IF c < Size - 1 THEN c + 1 ELSE c

Counted(c) == IF c < Size THEN c + 1 ELSE c

\* Mutant: the walk of a full ring starts at the newest line.
StartAtNewest(c, h) == IF c = Size THEN (h + Size - 1) % Size ELSE 0

\* The slot of the oldest line.
StartSlot(c, h) == IF c = Size THEN h ELSE 0

(***************************************************************************)
(* Writers                                                                 *)
(***************************************************************************)

\* log_ring_init: the allocation may fail, and then nothing is ever captured.
InitRing ==
  /\ ~ready
  /\ ready' = TRUE
  /\ UNCHANGED <<ring, head, count, lines, readerVars>>

\* log_vprintf and log_sinks_publish_p4: stamp and store under s_mux.
CaptureLine ==
  /\ ready /\ lines < MaxLines
  /\ lines' = lines + 1
  /\ ring' = [ring EXCEPT ![head] = lines + 1]
  /\ head' = Advance(head)
  /\ count' = Counted(count)
  /\ UNCHANGED <<ready, readerVars>>

(***************************************************************************)
(* log_ring_to_json                                                        *)
(***************************************************************************)

\* s_count and the start slot, under s_mux.
StartWalk(r) ==
  /\ pc[r] = "idle" /\ ready
  /\ pc' = [pc EXCEPT ![r] = "walk"]
  /\ n' = [n EXCEPT ![r] = count]
  /\ start' = [start EXCEPT ![r] = StartSlot(count, head)]
  /\ out' = [out EXCEPT ![r] = <<>>]
  /\ mark' = [mark EXCEPT ![r] = lines]
  /\ UNCHANGED ringVars

\* The slot of the i-th entry of a walk.
WalkSlot(r, i) == (start[r] + i) % Size

\* One entry, copied under s_mux.
CopyEntry(r) ==
  /\ pc[r] = "walk" /\ Len(out[r]) < n[r]
  /\ out' = [out EXCEPT ![r] = Append(@, ring[WalkSlot(r, Len(@))])]
  /\ UNCHANGED <<ringVars, pc, n, start, mark>>

EndWalk(r) ==
  /\ pc[r] = "walk" /\ Len(out[r]) = n[r]
  /\ pc' = [pc EXCEPT ![r] = "done"]
  /\ UNCHANGED <<ringVars, n, start, out, mark>>

\* The output buffer is too small for the lines: nothing is returned.
Overflow(r) ==
  /\ pc[r] = "walk" /\ out[r] # <<>>
  /\ pc' = [pc EXCEPT ![r] = "failed"]
  /\ out' = [out EXCEPT ![r] = <<>>]
  /\ UNCHANGED <<ringVars, n, start, mark>>

\* The reply has been sent.
Sent(r) ==
  /\ pc[r] \in {"done", "failed"}
  /\ pc' = [pc EXCEPT ![r] = "idle"]
  /\ UNCHANGED <<ringVars, n, start, out, mark>>

Init ==
  /\ ready = FALSE
  /\ ring = [s \in RingSlots |-> 0]
  /\ head = 0 /\ count = 0 /\ lines = 0
  /\ pc = [r \in Readers |-> "idle"]
  /\ n = [r \in Readers |-> 0] /\ start = [r \in Readers |-> 0]
  /\ out = [r \in Readers |-> <<>>]
  /\ mark = [r \in Readers |-> 0]

ReaderStep(r) == CopyEntry(r) \/ EndWalk(r) \/ Overflow(r) \/ Sent(r)

Next ==
  \/ InitRing \/ CaptureLine
  \/ \E r \in Readers : StartWalk(r) \/ ReaderStep(r)

Spec == Init /\ [][Next]_vars

(***************************************************************************)
(* Properties                                                              *)
(***************************************************************************)

\* Every variable is of its type: head, count and start slots stay within the
\* ring, so no copy reads beside it.
TypeOK ==
  /\ ready \in BOOLEAN
  /\ ring \in [RingSlots -> Nat]
  /\ head \in RingSlots /\ count \in 0..Size /\ lines \in Nat
  /\ pc \in [Readers -> {"idle", "walk", "done", "failed"}]
  /\ n \in [Readers -> 0..Size] /\ start \in [Readers -> RingSlots]
  /\ out \in [Readers -> Seq(Nat)]
  /\ mark \in [Readers -> Nat]

\* The ring, read from its oldest slot on.
Contents == [k \in 1..count |-> ring[(StartSlot(count, head) + k - 1) % Size]]

\* The ring implements a log of the last Size lines in the order of capture.
Log == INSTANCE BoundedLog WITH log <- Contents

ImplementsBoundedLog == Log!Spec

\* A walk shows every line that was in the ring when it began and has not been
\* overwritten since, at its place, oldest first; a newer line appears only in
\* the place of one that is gone, and none appears twice, however often the ring
\* wraps meanwhile (log_ring.cpp:316-325).
WalkIsFaithful ==
  \A r \in Readers : pc[r] \in {"walk", "done"} =>
    \A k \in DOMAIN out[r] :
      /\ out[r][k] = mark[r] - n[r] + k \/ out[r][k] > mark[r]
      /\ \A m \in DOMAIN out[r] : out[r][k] = out[r][m] => k = m
==============================================================================
