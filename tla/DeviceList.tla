----------------------------- MODULE DeviceList -----------------------------
(***************************************************************************)
(* device.list: the pages that the cloud's reconcile walks                 *)
(* (cmd_device_list_page in main/ws_bridge.cpp, devlist_next in            *)
(* main/devlist_page.h) and the unpaged list for a local browser page      *)
(* (cmd_device_list).                                                      *)
(*                                                                         *)
(* A page is built row by row inside one critical section of the pool      *)
(* lock.  Between pages devices join and leave, a reply may be lost and    *)
(* the same page asked for again, and a device may be renamed, so the      *)
(* length of its row is a fresh choice every time it is formatted.         *)
(* The cursor is the last IEEE address sent, printed with 16 hex digits    *)
(* and read back by strtoull: every 64-bit address survives the trip.      *)
(*                                                                         *)
(* The buffer of an unpaged list is sized from a pool_count() read without *)
(* the pool lock; devices may join before the lock is taken.  Neither kind *)
(* of request writes to the pool, so they are run one after the other.     *)
(***************************************************************************)
EXTENDS Integers, Sequences, FiniteSets

CONSTANTS
  PoolSize,    \* slots of the device pool
  Ieees,       \* addresses of the devices that come and go
  RowLens,     \* lengths devlist_row may return
  RowCap,      \* kDevlistRowCap
  HeadLen,     \* length of the reply up to "items":[
  TailLen,     \* kTail
  Cap,         \* kCap
  BaseLen,     \* unpaged: the 64 bytes set aside for the envelope
  Slack,       \* unpaged: the 4 spare rows
  Guard,       \* unpaged: the 4 bytes kept free behind the last row
  MaxChanges,  \* bound: joins and leaves in a behaviour
  MaxLosses    \* bound: replies lost in a behaviour

\* One row always fits an empty page: 59 + 640 + 48 < 8192 in the code; the
\* envelope of an unpaged list is far below the 64 bytes set aside for it.
ASSUME PageAssumption ==
  /\ PoolSize \in Nat
  /\ Ieees \subseteq Nat \ {0}
  /\ RowLens \subseteq Nat \ {0}
  /\ RowCap \in Nat \ {0} /\ HeadLen \in Nat /\ TailLen \in Nat /\ Cap \in Nat
  /\ HeadLen + RowCap + TailLen <= Cap
  /\ BaseLen \in Nat /\ Slack \in Nat /\ Guard \in Nat \ {0, 1}
  /\ HeadLen + Guard <= BaseLen
  /\ MaxChanges \in Nat /\ MaxLosses \in Nat

VARIABLES
  pool,     \* slot -> device, a removed one kept as a tombstone, 0 if never used
  pc,       \* idle, asked, rows (pool locked), sent, done;
            \* unpaged: sized, all_rows (pool locked), all_sent
  cursor,   \* the cursor of the page asked for
  last,     \* the handler's `last`
  pos,      \* bytes written to the reply buffer
  page,     \* addresses of the rows in the reply
  more,     \* the page carries next_cursor
  got,      \* addresses the cloud received in this walk
  steady,   \* observer: live from the start of the walk until now
  cap,      \* unpaged: the size of the buffer
  counted,  \* observer: pool_count() when that buffer was sized
  slot,     \* unpaged: the next slot of the row loop
  skipped,  \* unpaged: devices whose row overflowed its own buffer
  changes, losses

vars == <<pool, pc, cursor, last, pos, page, more, got, steady,
          cap, counted, slot, skipped, changes, losses>>
pageVars == <<last, pos, page, more>>
walkVars == <<cursor, got>>
fullVars == <<cap, counted, slot, skipped>>

Slots   == 1..PoolSize
Cursors == Ieees \cup {0}
Device  == [ieee : Cursors, live : BOOLEAN]

Live == {pool[s].ieee : s \in {q \in Slots : pool[q].live}}

\* pool_count(): slots that are or were in use, tombstones included.
Used  == {s \in Slots : pool[s].ieee # 0}
Count == Cardinality(Used)

(***************************************************************************)
(* devlist_next: a live slot with the smallest address above `after`       *)
(***************************************************************************)

\* Mutant: the comparison with the cursor is not strict.
AtOrAfter(ieee, after) == ieee >= after

After(ieee, after) == ieee > after

Candidates(after) == {s \in Slots : pool[s].live /\ After(pool[s].ieee, after)}

IsNext(s, after) ==
  /\ s \in Candidates(after)
  /\ \A q \in Candidates(after) : pool[s].ieee <= pool[q].ieee

(***************************************************************************)
(* The pool                                                                *)
(***************************************************************************)

\* The pool lock is held while rows are written.
Unlocked == pc \notin {"rows", "all_rows"}

\* A device joins, into a tombstone or into the next slot.
Join(s, ieee) ==
  /\ Unlocked /\ changes < MaxChanges
  /\ ~pool[s].live /\ s <= Count + 1 /\ ieee \notin Live
  /\ pool' = [pool EXCEPT ![s] = [ieee |-> ieee, live |-> TRUE]]
  /\ changes' = changes + 1
  /\ UNCHANGED <<pc, walkVars, pageVars, steady, fullVars, losses>>

\* A device leaves: its slot stays as a tombstone.
Leave(s) ==
  /\ Unlocked /\ changes < MaxChanges
  /\ pool[s].live
  /\ pool' = [pool EXCEPT ![s].live = FALSE]
  /\ steady' = steady \ {pool[s].ieee}
  /\ changes' = changes + 1
  /\ UNCHANGED <<pc, walkVars, pageVars, fullVars, losses>>

(***************************************************************************)
(* One page                                                                *)
(***************************************************************************)

\* The cloud starts a walk with no cursor, which the handler reads as 0.
StartWalk ==
  /\ pc = "idle"
  /\ pc' = "asked" /\ cursor' = 0 /\ got' = <<>>
  /\ steady' = Live
  /\ UNCHANGED <<pool, pageVars, fullVars, changes, losses>>

\* The header is written and the pool lock taken.
BeginPage ==
  /\ pc = "asked"
  /\ pc' = "rows"
  /\ last' = cursor /\ pos' = HeadLen /\ page' = <<>> /\ more' = FALSE
  /\ UNCHANGED <<pool, walkVars, steady, fullVars, changes, losses>>

\* devlist_row's length, with every field escaped: the row overflows its buffer.
Overlong(n) == n >= RowCap

\* Mutant: the page is filled to the last byte, with no room for next_cursor.
FitsWithoutTail(p, n) == p + n < Cap

\* Mutant: room for a second row of the largest size is asked for as well.
FitsTwoRows(p, n) == p + n + RowCap + TailLen < Cap

\* The row and the longest tail still fit the page buffer.
Fits(p, n) == p + n + TailLen < Cap

AddRow(s, n) ==
  /\ pc = "rows" /\ IsNext(s, last)
  /\ ~Overlong(n) /\ Fits(pos, n)
  /\ page' = Append(page, pool[s].ieee)
  /\ pos' = pos + n
  /\ last' = pool[s].ieee
  /\ UNCHANGED <<pool, pc, walkVars, more, steady, fullVars, changes, losses>>

\* The row overflowed row[kDevlistRowCap]: left out of the walk, stepped past.
SkipRow(s, n) ==
  /\ pc = "rows" /\ IsNext(s, last)
  /\ Overlong(n)
  /\ last' = pool[s].ieee
  /\ steady' = steady \ {pool[s].ieee}
  /\ UNCHANGED <<pool, pc, walkVars, pos, page, more, fullVars, changes, losses>>

\* Mutant: the cursor names the row that did not fit any more.
CursorAtNext(s) == pool[s].ieee

\* Mutant: the cursor is one above the last row sent.
CursorPastRow(s) == last + 1

\* The cursor a full page ends with: the last row that is in it.
CursorWhenFull(s) == last

\* The page is full: unlock, send it with next_cursor.
FullPage(s, n) ==
  /\ pc = "rows" /\ IsNext(s, last)
  /\ ~Overlong(n) /\ ~Fits(pos, n)
  /\ more' = TRUE
  /\ last' = CursorWhenFull(s)
  /\ pc' = "sent"
  /\ UNCHANGED <<pool, walkVars, pos, page, steady, fullVars, changes, losses>>

\* No device is left: unlock, send the page without next_cursor.
LastPage ==
  /\ pc = "rows" /\ Candidates(last) = {}
  /\ pc' = "sent"
  /\ UNCHANGED <<pool, walkVars, pageVars, steady, fullVars, changes, losses>>

BuildRow == \E s \in Slots, n \in RowLens : AddRow(s, n) \/ SkipRow(s, n) \/ FullPage(s, n)

(***************************************************************************)
(* The unpaged list                                                        *)
(***************************************************************************)

\* Mutant: no rows to spare for a device that joins in between.
BufferWithoutSlack(n) == BaseLen + n * RowCap

\* The buffer size the handler asks for.
BufferFor(n) == BaseLen + (n + Slack) * RowCap

\* The unlocked read of pool_count() and the allocation.
Allocate ==
  /\ pc = "idle"
  /\ pc' = "sized"
  /\ cap' = BufferFor(Count) /\ counted' = Count
  /\ UNCHANGED <<pool, walkVars, pageVars, steady, slot, skipped, changes, losses>>

\* The header is written and the pool lock taken.
LockPool ==
  /\ pc = "sized"
  /\ pc' = "all_rows"
  /\ pos' = HeadLen /\ page' = <<>> /\ more' = FALSE /\ slot' = 1 /\ skipped' = {}
  /\ UNCHANGED <<pool, walkVars, last, steady, cap, counted, changes, losses>>

\* Mutant: no bytes are kept free for the closing brackets.
NoRoomAtAll(p, n) == p + n >= cap

\* The row and the guard bytes no longer fit.
NoRoom(p, n) == p + n + Guard >= cap

\* Mutant: tombstones are listed as well.
NeverRemoved(s) == FALSE

\* zap_dev_is_removed.
Removed(s) == ~pool[s].live

\* One turn of the row loop: a tombstone is passed over, a row that overflows
\* its buffer is left out, and the first row without room ends the list (more
\* stands for `truncated`).
NextRow(n) ==
  /\ pc = "all_rows" /\ slot <= Count
  /\ \/ /\ Removed(slot)
        /\ slot' = slot + 1 /\ UNCHANGED <<pos, page, more, skipped, pc>>
     \/ /\ ~Removed(slot) /\ Overlong(n)
        /\ slot' = slot + 1 /\ skipped' = skipped \cup {pool[slot].ieee}
        /\ UNCHANGED <<pos, page, more, pc>>
     \/ /\ ~Removed(slot) /\ ~Overlong(n) /\ NoRoom(pos, n)
        /\ more' = TRUE /\ pc' = "all_sent"
        /\ UNCHANGED <<slot, pos, page, skipped>>
     \/ /\ ~Removed(slot) /\ ~Overlong(n) /\ ~NoRoom(pos, n)
        /\ pos' = pos + n /\ page' = Append(page, pool[slot].ieee) /\ slot' = slot + 1
        /\ UNCHANGED <<skipped, more, pc>>
  /\ UNCHANGED <<pool, walkVars, last, steady, cap, counted, changes, losses>>

EndOfPool ==
  /\ pc = "all_rows" /\ slot > Count
  /\ pc' = "all_sent"
  /\ UNCHANGED <<pool, walkVars, pageVars, steady, fullVars, changes, losses>>

\* The closing brackets go into the buffer, which is sent and freed.
SendAll ==
  /\ pc = "all_sent"
  /\ pc' = "idle"
  /\ pos' = 0 /\ page' = <<>> /\ more' = FALSE
  /\ cap' = 0 /\ counted' = 0 /\ slot' = 1 /\ skipped' = {}
  /\ UNCHANGED <<pool, walkVars, last, steady, changes, losses>>

(***************************************************************************)
(* The cloud's side of the walk                                            *)
(***************************************************************************)

\* The page arrives; the cloud follows next_cursor or is done.
Deliver ==
  /\ pc = "sent"
  /\ got' = got \o page
  /\ IF more
     THEN pc' = "asked" /\ cursor' = last
     ELSE pc' = "done" /\ UNCHANGED cursor
  /\ UNCHANGED <<pool, pageVars, steady, fullVars, changes, losses>>

\* The page is lost on the cloud link; the cloud asks for it again.
Lose ==
  /\ pc = "sent" /\ losses < MaxLosses
  /\ losses' = losses + 1
  /\ pc' = "asked"
  /\ UNCHANGED <<pool, walkVars, pageVars, steady, fullVars, changes>>

\* The walk's result has been used; the next one may start.
Forget ==
  /\ pc = "done"
  /\ pc' = "idle"
  /\ cursor' = 0 /\ got' = <<>> /\ steady' = {}
  /\ last' = 0 /\ pos' = 0 /\ page' = <<>> /\ more' = FALSE
  /\ UNCHANGED <<pool, fullVars, changes, losses>>

Init ==
  /\ pool \in [Slots -> Device]
  /\ \A s \in Slots : pool[s].live = (s \in Used) /\ (s \in Used) = (s <= Count)
  /\ \A s, q \in Slots : pool[s].live /\ pool[s].ieee = pool[q].ieee => s = q
  /\ pc = "idle" /\ cursor = 0 /\ last = 0 /\ pos = 0
  /\ page = <<>> /\ more = FALSE /\ got = <<>> /\ steady = {}
  /\ cap = 0 /\ counted = 0 /\ slot = 1 /\ skipped = {}
  /\ changes = 0 /\ losses = 0

PoolChange == \E s \in Slots : Leave(s) \/ \E ieee \in Ieees : Join(s, ieee)

Next ==
  \/ PoolChange
  \/ StartWalk \/ BeginPage \/ BuildRow \/ LastPage \/ Deliver \/ Lose \/ Forget
  \/ Allocate \/ LockPool \/ (\E n \in RowLens : NextRow(n)) \/ EndOfPool \/ SendAll

Spec == Init /\ [][Next]_vars

\* The dispatcher finishes the page it builds, and the link delivers in the end.
Fairness == WF_vars(BeginPage \/ BuildRow \/ LastPage \/ Deliver)

FairSpec == Spec /\ Fairness

(***************************************************************************)
(* Properties                                                              *)
(***************************************************************************)

Increasing(s) == \A a, b \in DOMAIN s : a < b => s[a] < s[b]
Elements(s) == {s[a] : a \in DOMAIN s}

\* Every variable is of its type; the cursor a client holds is an address or one
\* of the two ends, never a place in the table.
TypeOK ==
  /\ pool \in [Slots -> Device]
  /\ pc \in {"idle", "asked", "rows", "sent", "done", "sized", "all_rows", "all_sent"}
  /\ cursor \in Cursors /\ last \in Cursors /\ pos \in Nat
  /\ page \in Seq(Ieees) /\ got \in Seq(Ieees)
  /\ more \in BOOLEAN
  /\ steady \subseteq Ieees /\ skipped \subseteq Ieees
  /\ cap \in Nat /\ counted \in 0..PoolSize /\ slot \in 1..(PoolSize + 1)
  /\ changes \in Nat /\ losses \in Nat

\* Every device arrives at most once and the pages stay in IEEE order, over the
\* whole walk, whatever joins, leaves or is asked for again in between
\* ("pages stay in IEEE order", test_devlist_page.cpp; devlist_next).
EachDeviceOnce == Increasing(got)

\* A device that was live throughout the walk is in it: the cloud's reconcile,
\* which deletes what is absent, never deletes a live device (devlist_page.h:6-10).
NoLiveDeviceSkipped == pc = "done" => steady \subseteq Elements(got)

\* The finished reply fits its buffer: a page with the longest tail and its NUL
\* (snprintf never has to cut the next_cursor that the cloud goes on with), an
\* unpaged list with the two brackets that are written without a check.
ReplyFits ==
  /\ pc \in {"rows", "sent"} => pos + TailLen < Cap
  /\ pc \in {"all_rows", "all_sent"} => pos + 2 <= cap

\* An unpaged list that was not cut holds, when the pool is unlocked, every live
\* device whose row could be written; it is cut
\* short only when more devices joined between the sizing and the lock than there
\* are spare rows ("4 rows of slack", ws_bridge.cpp:484-485).
FullListIsComplete ==
  /\ pc = "all_rows" /\ slot > Count => Elements(page) = Live \ skipped
  /\ pc = "all_sent" /\ more => Count > counted + Slack

\* Every walk that has started ends, however the pool changes meanwhile.
WalkEnds == pc = "asked" ~> pc = "done"
==============================================================================
